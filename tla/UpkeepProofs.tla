---------------------------- MODULE UpkeepProofs ----------------------------
(***************************************************************************)
(* What TLAPS proves of the components of Upkeep, for all values of the    *)
(* constants: each from its own specification, which Guards implements.    *)
(***************************************************************************)
EXTENDS Guards, FiniteSetTheorems, SequenceTheorems, TLAPS

-----------------------------------------------------------------------------
(* Finite sets *)

\* A set with one element more, and with one less, of a finite set.
LEMMA OneMore ==
  ASSUME NEW S, IsFiniteSet(S), NEW x, NEW T, T \subseteq S \cup {x}
  PROVE  /\ IsFiniteSet(T) /\ Cardinality(T) \in Nat /\ Cardinality(S) \in Nat
         /\ Cardinality(T) <= Cardinality(S) + 1
         /\ x \notin S /\ T = S \cup {x} => Cardinality(T) = Cardinality(S) + 1
  <1>1. IsFiniteSet(S \cup {x}) /\ Cardinality(S \cup {x}) =
          (IF x \in S THEN Cardinality(S) ELSE Cardinality(S) + 1)
    BY FS_AddElement
  <1>2. IsFiniteSet(T) /\ Cardinality(T) <= Cardinality(S \cup {x}) BY <1>1, FS_Subset
  <1>3. Cardinality(T) \in Nat /\ Cardinality(S) \in Nat BY <1>2, FS_CardinalityType
  <1>4. Cardinality(T) <= Cardinality(S) + 1 BY <1>1, <1>2, <1>3
  <1>5. x \notin S /\ T = S \cup {x} => Cardinality(T) = Cardinality(S) + 1 BY <1>1
  <1> QED BY <1>2, <1>3, <1>4, <1>5

LEMMA OneLess ==
  ASSUME NEW S, IsFiniteSet(S), NEW x \in S, NEW T, T \subseteq S \ {x}
  PROVE  /\ IsFiniteSet(T) /\ Cardinality(T) \in Nat /\ Cardinality(S) \in Nat
         /\ Cardinality(T) <= Cardinality(S) - 1
         /\ T = S \ {x} => Cardinality(T) = Cardinality(S) - 1
  <1>1. IsFiniteSet(S \ {x}) /\ Cardinality(S \ {x}) = Cardinality(S) - 1
    BY FS_RemoveElement
  <1>2. IsFiniteSet(T) /\ Cardinality(T) <= Cardinality(S \ {x}) BY <1>1, FS_Subset
  <1> QED BY <1>1, <1>2, FS_CardinalityType

LEMMA NoMore ==
  ASSUME NEW S, IsFiniteSet(S), NEW T, T \subseteq S
  PROVE  /\ IsFiniteSet(T) /\ Cardinality(T) \in Nat /\ Cardinality(S) \in Nat
         /\ Cardinality(T) <= Cardinality(S)
  BY FS_Subset, FS_CardinalityType

\* A set of at most one element has no two.
LEMMA AtMostOne ==
  ASSUME NEW S, IsFiniteSet(S), Cardinality(S) <= 1, NEW a \in S, NEW b \in S
  PROVE  a = b
  <1>1. IsFiniteSet(S \ {a}) /\ Cardinality(S \ {a}) = Cardinality(S) - 1 BY FS_RemoveElement
  <1>2. Cardinality(S \ {a}) = 0 BY <1>1, FS_CardinalityType
  <1> QED BY <1>1, <1>2, FS_EmptySet

\* Two sets that share nothing.
LEMMA Apart ==
  ASSUME NEW S, IsFiniteSet(S), NEW T, IsFiniteSet(T), S \cap T = {}
  PROVE  /\ IsFiniteSet(S \cup T)
         /\ Cardinality(S \cup T) = Cardinality(S) + Cardinality(T)
  <1>1. Cardinality(S \cup T) = Cardinality(S) + Cardinality(T) - Cardinality(S \cap T)
        /\ IsFiniteSet(S \cup T) BY FS_Union
  <1>2. Cardinality(S \cap T) = 0 BY FS_EmptySet
  <1> QED BY <1>1, <1>2, FS_CardinalityType

-----------------------------------------------------------------------------
(* The project file *)

FilesPlaces == {"down", "idle", "rotating", "copying", "replacing", "telling",
           "remembering", "marking", "moving", "reporting", "unmarking"}
FilesRotating == {"rotating", "copying"}
FilesWriting == FilesRotating \cup {"replacing"}

\* Where a process is, it holds the lock, and marker, content and backups agree with it.
FilesAt(p) ==
    /\ doing[p] \notin {"down", "idle"} <=> lock = p
    /\ doing[p] \in FilesRotating \cup {"telling", "remembering", "marking"} => ~marker
       /\ request[p] # NoRequest
    /\ doing[p] = "replacing" => (request[p] = NoRequest <=> marker)
    /\ doing[p] \in {"moving", "unmarking"} => marker
    /\ doing[p] \in FilesWriting \cup {"unmarking"} => data[p] # {}
    /\ doing[p] = "unmarking" => truth = data[p]
    /\ doing[p] \in FilesWriting /\ request[p] # NoRequest => truth \subseteq data[p]
       /\ request[p] \in data[p]
    /\ doing[p] \in {"telling", "remembering"} => request[p] \in truth
    /\ doing[p] = "rotating" => slot[p] >= 1 /\ (slot[p] < Backups => bak[slot[p]] = Files!None)
    /\ doing[p] = "copying" => bak[1] = Files!Damaged
    /\ doing[p] \in FilesRotating => primary # Files!None
FilesControlOK == \A p \in Files!Procs : FilesAt(p)

\* No file that can be read is empty.
FilesFullOK == primary # {} /\ \A i \in 1..Backups : bak[i] # {}

\* Unless something was rolled back, whatever is known as done is in the content.
FilesKeptOK == rolledBack
    \/ (answered \subseteq truth /\ Files!Content(state) \subseteq truth
       /\ \A p \in Files!Procs : keys[p] \subseteq truth)

\* The first k backups are as many as can be read of them and were lost; while a
\* rotation is under way there is one less from the gap on.
FilesKept(b, k) == {i \in 1..k : Files!Readable(b[i])}
FilesCovered(k, n) == \/ Cardinality(FilesKept(bak, k)) + losses >= rotations
                      \/ Cardinality(FilesKept(bak, k)) + losses >= n
FilesGap(p, k) == \/ doing[p] = "copying" /\ k >= 1
                  \/ doing[p] = "rotating" /\ slot[p] < Backups /\ k >= slot[p]
FilesBackupsOK ==
    \A k \in 0..Backups :
        FilesCovered(k, k) \/ (FilesCovered(k, k - 1) /\ \E p \in Files!Procs : FilesGap(p, k))

\* A loss has its fault, the one that a copy of a damaged file will be included.
FilesLossOK ==
    /\ losses <= faults + damages
    /\ primary = Files!Damaged /\ (\E p \in Files!Procs : doing[p] \in FilesRotating)
       => losses + 1 <= faults + damages

FilesIInv == Files!TypeOK /\ FilesControlOK /\ FilesFullOK /\ FilesKeptOK /\ FilesBackupsOK
    /\ FilesLossOK /\ Files!FailsClosed

\* The types as the steps need them.
LEMMA FilesTypes == ASSUME Files!ConstantsOK, Files!TypeOK
  PROVE  /\ primary \in Files!Files /\ bak \in [1..Backups -> Files!Files] /\ state \in Files!Files
         /\ doing \in [Files!Procs -> FilesPlaces]
            /\ request \in [Files!Procs -> Writes \cup {NoRequest}]
         /\ slot \in [Files!Procs -> 0..Backups] /\ data \in [Files!Procs -> SUBSET Writes]
            /\ keys \in [Files!Procs -> SUBSET Writes]
         /\ rotations \in Nat /\ rotations <= Backups /\ losses \in Nat /\ faults \in Nat
            /\ faults <= MaxFaults
         /\ damages \in Nat /\ damages <= MaxDamages /\ Backups \in Nat /\ Backups >= 1
            /\ MaxFaults \in Nat /\ MaxDamages \in Nat
  <1>5. Backups \in Nat \ {0} BY DEF Files!ConstantsOK
  <1>0. Backups \in Nat /\ Backups # 0 BY <1>5
  <1>1. Backups \in Nat /\ Backups >= 1 /\ MaxFaults \in Nat /\ MaxDamages \in Nat
    <2>1. Backups >= 1 BY <1>0
    <2> QED BY <2>1, <1>0 DEF Files!ConstantsOK
  <1>2. rotations \in 0..Backups /\ losses \in 0..(MaxFaults + MaxDamages)
        /\ faults \in 0..MaxFaults /\ damages \in 0..MaxDamages
    BY DEF Files!TypeOK
  <1>3. /\ primary \in Files!Files /\ bak \in [1..Backups -> Files!Files] /\ state \in Files!Files
        /\ doing \in [Files!Procs -> FilesPlaces]
           /\ request \in [Files!Procs -> Writes \cup {NoRequest}]
        /\ slot \in [Files!Procs -> 0..Backups] /\ data \in [Files!Procs -> SUBSET Writes]
           /\ keys \in [Files!Procs -> SUBSET Writes]
    BY DEF Files!TypeOK, FilesPlaces
  <1>4. rotations \in Nat /\ rotations <= Backups /\ losses \in Nat /\ faults \in Nat
        /\ faults <= MaxFaults /\ damages \in Nat /\ damages <= MaxDamages
    BY <1>1, <1>2
  <1> QED BY <1>1, <1>3, <1>4

LEMMA FilesBound ==
  ASSUME NEW a \in Nat, NEW b \in Nat, NEW c \in Nat, NEW x \in Nat, NEW y \in Nat, a <= x,
        b <= y, c <= a + b
  PROVE c \in 0..x + y
  OBVIOUS

\* A content is neither of the two signs.
LEMMA FilesSigns == ASSUME Files!ConstantsOK, NEW f \in SUBSET Writes
  PROVE  f # Files!None /\ f # Files!Damaged /\ Files!Readable(f) /\ f \in Files!Files
  <1>1. "no file" \notin Writes /\ "damaged" \notin Writes BY DEF Files!ConstantsOK
  <1>2. f # {"no file"} /\ f # {"damaged"} BY <1>1
  <1> QED BY <1>2 DEF Files!None, Files!Damaged, Files!Readable, Files!Files

LEMMA FilesSignsDiffer ==
  Files!None # Files!Damaged /\ ~Files!Readable(Files!None) /\ ~Files!Readable(Files!Damaged)
      /\ Files!None # {} /\ Files!Damaged # {}
  <1>1. "no file" # "damaged" OBVIOUS
  <1>2. {"no file"} # {"damaged"} BY <1>1
  <1> QED BY <1>2 DEF Files!None, Files!Damaged, Files!Readable

(* Prefixes of the backups that can be read *)

LEMMA FilesKeptFinite == ASSUME NEW b, NEW k \in Int
  PROVE IsFiniteSet(FilesKept(b, k)) /\ Cardinality(FilesKept(b, k)) \in Nat
  <1>1. IsFiniteSet(1..k) BY FS_Interval
  <1>2. FilesKept(b, k) \subseteq 1..k BY DEF FilesKept
  <1> QED BY <1>1, <1>2, FS_Subset, FS_CardinalityType

LEMMA FilesKeptSame ==
  ASSUME NEW b, NEW c, NEW k \in Int, \A i \in 1..k : Files!Readable(b[i]) <=> Files!Readable(c[i])
  PROVE FilesKept(b, k) = FilesKept(c, k)
  BY DEF FilesKept

LEMMA FilesKeptStep == ASSUME NEW b, NEW k \in Nat \ {0}
  PROVE  Cardinality(FilesKept(b, k)) = IF Files!Readable(b[k]) THEN Cardinality(FilesKept(b,
        k - 1)) + 1 ELSE Cardinality(FilesKept(b, k - 1))
  <1>0. k - 1 \in Int OBVIOUS
  <1>1. CASE Files!Readable(b[k])
    <2>1. FilesKept(b, k) = FilesKept(b, k - 1) \cup {k} /\ k \notin FilesKept(b, k - 1)
      BY <1>1 DEF FilesKept
    <2>2. Cardinality(FilesKept(b, k)) = Cardinality(FilesKept(b, k - 1)) + 1
      BY <2>1, <1>0, FilesKeptFinite, OneMore
    <2> QED BY <1>1, <2>2
  <1>2. CASE ~Files!Readable(b[k])
    <2>1. FilesKept(b, k) = FilesKept(b, k - 1) BY <1>2 DEF FilesKept
    <2> QED BY <1>2, <2>1
  <1> QED BY <1>1, <1>2

\* A backup that moves by one place into a gap.
LEMMA FilesKeptMoved ==
  ASSUME NEW b, NEW c, NEW s \in Nat, s > 1, NEW k \in Nat, k >= s,
         ~Files!Readable(b[s]), ~Files!Readable(c[s - 1]), Files!Readable(c[s])
             <=> Files!Readable(b[s - 1]),
         \A i \in 1..k : i # s /\ i # s - 1 => c[i] = b[i]
  PROVE  Cardinality(FilesKept(c, k)) = Cardinality(FilesKept(b, k))
  <1>0. s \in 1..k /\ s - 1 \in 1..k /\ s # s - 1 OBVIOUS
  <1>1. CASE Files!Readable(b[s - 1])
    <2>1. FilesKept(c, k) = (FilesKept(b, k) \ {s - 1}) \cup {s} BY <1>0, <1>1 DEF FilesKept
    <2>2. s - 1 \in FilesKept(b, k) /\ s \notin FilesKept(b, k) BY <1>0, <1>1 DEF FilesKept
    <2>3. IsFiniteSet(FilesKept(b, k) \ {s - 1})
          /\ Cardinality(FilesKept(b, k) \ {s - 1}) = Cardinality(FilesKept(b, k)) - 1
      BY <2>2, FilesKeptFinite, FS_RemoveElement
    <2>4. Cardinality(FilesKept(c, k)) = Cardinality(FilesKept(b, k) \ {s - 1}) + 1
      BY <2>1, <2>2, <2>3, OneMore
    <2> QED BY <2>3, <2>4, FilesKeptFinite
  <1>2. CASE ~Files!Readable(b[s - 1])
    <2>1. FilesKept(c, k) = FilesKept(b, k) BY <1>0, <1>2 DEF FilesKept
    <2> QED BY <2>1
  <1> QED BY <1>1, <1>2

\* One backup less that can be read.
LEMMA FilesKeptLess ==
  ASSUME NEW b, NEW c, NEW j, NEW k \in Int, \A i \in 1..k : i # j => c[i] = b[i]
  PROVE  Cardinality(FilesKept(c, k)) + 1 >= Cardinality(FilesKept(b, k))
  <1>1. FilesKept(b, k) \subseteq FilesKept(c, k) \cup {j} BY DEF FilesKept
  <1> QED BY <1>1, FilesKeptFinite, OneMore

(* Types *)

\* The types of a process that goes on, and of one that leaves.
FilesTyped == /\ lock \in Files!Procs \cup {NoProc}
              /\ doing \in [Files!Procs -> FilesPlaces]
                 /\ request \in [Files!Procs -> Writes \cup {NoRequest}]
              /\ slot \in [Files!Procs -> 0..Backups] /\ data \in [Files!Procs -> SUBSET Writes]

LEMMA FilesLeaveTypes ==
  ASSUME Files!ConstantsOK, FilesTyped, NEW p \in Files!Procs, Files!Leave(p) PROVE FilesTyped'
  <1>1. doing' \in [Files!Procs -> FilesPlaces]
    BY DEF Files!Leave, Files!Goto, FilesTyped, FilesPlaces
  <1>0. 0 \in 0..Backups
    <2>1. Backups \in Nat BY DEF Files!ConstantsOK
    <2> QED BY <2>1
  <1>2. slot' \in [Files!Procs -> 0..Backups] BY <1>0 DEF Files!Leave, FilesTyped
  <1>3. request' \in [Files!Procs -> Writes \cup {NoRequest}]
        /\ data' \in [Files!Procs -> SUBSET Writes]
    BY DEF Files!Leave, FilesTyped
  <1> QED BY <1>1, <1>2, <1>3 DEF FilesTyped, Files!Leave

LEMMA FilesGotoTypes ==
  ASSUME FilesTyped, NEW p \in Files!Procs, NEW l \in FilesPlaces, Files!Goto(p, l),
        UNCHANGED <<lock, request, slot, data>> PROVE FilesTyped'
  BY DEF FilesTyped, Files!Goto

LEMMA FilesHoldTypes ==
  ASSUME FilesTyped, NEW p \in Files!Procs, NEW r \in Writes \cup {NoRequest},
        NEW l \in FilesPlaces, Files!Hold(p, r, l),
         slot' \in [Files!Procs -> 0..Backups], data' \in [Files!Procs -> SUBSET Writes]
  PROVE FilesTyped'
  BY DEF FilesTyped, Files!Hold, Files!Goto

LEMMA FilesContentType == ASSUME NEW f \in Files!Files PROVE Files!Content(f) \in SUBSET Writes
  BY DEF Files!Files, Files!Content

LEMMA FilesNextTypes ==
  ASSUME Files!ConstantsOK, FilesIInv, Files!Next, FilesLossOK' PROVE Files!TypeOK'
  <1>0. FilesTyped BY FilesTypes DEF FilesIInv, Files!TypeOK, FilesTyped
  <1>t. /\ primary \in Files!Files /\ bak \in [1..Backups -> Files!Files] /\ state \in Files!Files
           /\ keys \in [Files!Procs -> SUBSET Writes]
        /\ marker \in BOOLEAN /\ answered \in SUBSET Writes /\ truth \in SUBSET Writes
        /\ rolledBack \in BOOLEAN /\ saved \in BOOLEAN
    BY DEF FilesIInv, Files!TypeOK
  <1>n. /\ rotations \in Nat /\ rotations <= Backups /\ losses \in Nat /\ faults \in Nat
           /\ faults <= MaxFaults
        /\ damages \in Nat /\ damages <= MaxDamages /\ Backups \in Nat /\ Backups >= 1
           /\ MaxFaults \in Nat /\ MaxDamages \in Nat
    BY FilesTypes DEF FilesIInv
  <1>i. slot \in [Files!Procs -> 0..Backups] /\ data \in [Files!Procs -> SUBSET Writes]
        /\ request \in [Files!Procs -> Writes \cup {NoRequest}]
    BY <1>0 DEF FilesTyped
  <1>b. bak \in [1..Backups -> Files!Files] BY <1>t
  <1>f. Files!None \in Files!Files /\ Files!Damaged \in Files!Files BY DEF Files!Files
  \* The numbers follow from what a loss is.
  <1>m. ASSUME rotations' \in Nat, rotations' <= Backups, losses' \in Nat, faults' \in Nat,
                 faults' <= MaxFaults,
               damages' \in Nat, damages' <= MaxDamages
        PROVE  rotations' \in 0..Backups /\ losses' \in 0..MaxFaults + MaxDamages
            /\ faults' \in 0..MaxFaults /\ damages' \in 0..MaxDamages
    <2>1. losses' <= faults' + damages' BY DEF FilesLossOK
    <2>2. losses' \in 0..MaxFaults + MaxDamages BY <1>m, <1>n, <2>1, FilesBound
    <2>3. rotations' \in 0..Backups /\ faults' \in 0..MaxFaults /\ damages' \in 0..MaxDamages
      BY <1>m, <1>n
    <2> QED BY <2>2, <2>3
  <1>s. ASSUME FilesTyped', primary' \in Files!Files, bak' \in [1..Backups -> Files!Files],
                 state' \in Files!Files, keys' \in [Files!Procs -> SUBSET Writes],
               marker' \in BOOLEAN, answered' \in SUBSET Writes, truth' \in SUBSET Writes,
               rolledBack' \in BOOLEAN, saved' \in BOOLEAN,
               rotations' \in Nat, rotations' <= Backups, losses' \in Nat, faults' \in Nat,
                     faults' <= MaxFaults,
               damages' \in Nat, damages' <= MaxDamages
        PROVE  Files!TypeOK'
    BY <1>s, <1>m DEF Files!TypeOK, FilesTyped, FilesPlaces
  <1>v. ASSUME NEW p \in Files!Procs, Files!SaveState(p)
        PROVE state' \in Files!Files /\ saved' \in BOOLEAN
    BY <1>v, <1>t DEF Files!SaveState, Files!Files
  <1>c. ASSUME NEW p \in Files!Procs, NEW r, losses' = losses + Files!Cut(p),
                 faults' = faults + 1, faults < MaxFaults
        PROVE  losses' \in Nat /\ faults' \in Nat /\ faults' <= MaxFaults
    <2>1. Files!Cut(p) \in {0, 1} BY DEF Files!Cut
    <2> QED BY <1>c, <1>n, <2>1
  <1>1. ASSUME NEW p \in Files!Procs, Files!Start(p) PROVE Files!TypeOK'
    <2>1. CASE p \in Gateways /\ state = Files!Damaged
      <3>1. FilesTyped' BY <1>0, <1>1, <2>1 DEF Files!Start, FilesTyped
      <3> QED BY <1>1, <1>t, <1>n, <1>s, <1>f, <2>1, <3>1 DEF Files!Start, Files!projects,
          Files!bounds
    <2>2. CASE ~(p \in Gateways /\ state = Files!Damaged)
      <3>1. FilesTyped' BY <1>0, <1>1, <2>2, FilesGotoTypes DEF Files!Start, FilesPlaces
      <3>2. keys' \in [Files!Procs -> SUBSET Writes]
        BY <1>1, <1>t, <2>2, FilesContentType DEF Files!Start
      <3> QED BY <1>1, <1>t, <1>n, <1>s, <2>2, <3>1, <3>2 DEF Files!Start, Files!projects,
          Files!bounds
    <2> QED BY <2>1, <2>2
  <1>2. ASSUME NEW p \in Files!Procs, Files!Shift(p) PROVE Files!TypeOK'
    <2>1. slot[p] - 1 \in 0..Backups /\ slot[p] \in 1..Backups /\ slot[p] - 1 \in 1..Backups
      BY <1>2, <1>i, <1>n DEF Files!Shift
    <2>2. FilesTyped' BY <1>0, <1>2, <2>1 DEF Files!Shift, FilesTyped
    <2>3. PICK i \in 1..Backups : i = slot[p] /\ i - 1 \in 1..Backups BY <2>1
    <2>7. PICK j \in 1..Backups : j = i - 1 BY <2>3
    <2>4. bak[j] \in Files!Files BY <1>t
    <2>5. bak' \in {bak, [bak EXCEPT ![i] = Files!None],
            [bak EXCEPT ![i] = bak[j], ![j] = Files!None]}
      BY <1>2, <2>3, <2>7 DEF Files!Shift, Files!Shifted
    <2>6. bak' \in [1..Backups -> Files!Files] BY <1>b, <1>f, <2>4, <2>5
    <2> QED BY <1>2, <1>t, <1>n, <1>s, <2>2, <2>6 DEF Files!Shift, Files!bounds
  <1>3. ASSUME NEW p \in Files!Procs, Files!Copy(p) PROVE Files!TypeOK'
    <2>1. FilesTyped' BY <1>0, <1>3, FilesGotoTypes DEF Files!Copy, FilesPlaces
    <2>2. bak' \in [1..Backups -> Files!Files]
      <3>1. 1 \in 1..Backups BY <1>n
      <3> QED BY <1>3, <1>b, <1>f, <3>1 DEF Files!Copy
    <2> QED BY <1>3, <1>t, <1>n, <1>s, <2>1, <2>2 DEF Files!Copy, Files!bounds
  <1>4. ASSUME NEW p \in Files!Procs, Files!Copied(p) PROVE Files!TypeOK'
    <2>1. FilesTyped' BY <1>0, <1>4, FilesGotoTypes DEF Files!Copied, FilesPlaces
    <2>2. bak' \in [1..Backups -> Files!Files] BY <1>4, <1>t DEF Files!Copied
    <2>3. rotations' \in Nat /\ rotations' <= Backups BY <1>4, <1>n DEF Files!Copied
    <2>4. losses' \in Nat BY <1>4, <1>n DEF Files!Copied
    <2> QED BY <1>4, <1>t, <1>n, <1>s, <2>1, <2>2, <2>3, <2>4 DEF Files!Copied
  <1>5. ASSUME NEW p \in Files!Procs, Files!Replace(p) PROVE Files!TypeOK'
    <2>1. FilesTyped' BY <1>0, <1>5, FilesGotoTypes DEF Files!Replace, FilesPlaces
    <2>2. primary' \in Files!Files /\ truth' \in SUBSET Writes
      BY <1>5, <1>i DEF Files!Replace, Files!Files
    <2>3. rolledBack' \in BOOLEAN BY <1>5 DEF Files!Replace
    <2> QED BY <1>5, <1>t, <1>n, <1>s, <2>1, <2>2, <2>3 DEF Files!Replace, Files!bounds
  <1>6. ASSUME NEW p \in Files!Procs, Files!Tell(p) PROVE Files!TypeOK'
    <2>1. FilesTyped' BY <1>0, <1>6, FilesGotoTypes DEF Files!Tell, FilesPlaces
    <2>2. request[p] \in Writes BY <1>6, <1>i DEF Files!Tell, FilesIInv, FilesControlOK, FilesAt
    <2>3. keys' \in [Files!Procs -> SUBSET Writes] BY <1>6, <1>t, <2>2 DEF Files!Tell
    <2>4. state' \in Files!Files /\ saved' \in BOOLEAN BY <1>6, <1>v DEF Files!Tell
    <2> QED BY <1>6, <1>t, <1>n, <1>s, <2>1, <2>3, <2>4 DEF Files!Tell, Files!projects, Files!bounds
  <1>7. ASSUME NEW p \in Files!Procs, Files!Remember(p) PROVE Files!TypeOK'
    <2>1. FilesTyped' BY <1>0, <1>7, FilesLeaveTypes DEF Files!Remember
    <2>2. request[p] \in Writes BY <1>7, <1>i DEF Files!Remember, FilesIInv, FilesControlOK, FilesAt
    <2>3. answered' \in SUBSET Writes BY <1>7, <1>t, <2>2 DEF Files!Remember
    <2>4. state' \in Files!Files /\ saved' \in BOOLEAN BY <1>7, <1>v DEF Files!Remember
    <2> QED BY <1>7, <1>t, <1>n, <1>s, <2>1, <2>3, <2>4 DEF Files!Remember, Files!projects,
        Files!bounds
  <1>8. ASSUME NEW p \in Files!Procs, Files!Mark(p) PROVE Files!TypeOK'
    <2>1. FilesTyped' BY <1>0, <1>8, FilesGotoTypes DEF Files!Mark, FilesPlaces
    <2> QED BY <1>8, <1>t, <1>n, <1>s, <2>1 DEF Files!Mark, Files!bounds
  <1>9. ASSUME NEW p \in Files!Procs, Files!Move(p) PROVE Files!TypeOK'
    <2>1. FilesTyped' BY <1>0, <1>9, FilesGotoTypes DEF Files!Move, FilesPlaces
    <2>2. faults' \in Nat /\ faults' <= MaxFaults BY <1>9, <1>n DEF Files!Move
    <2>3. primary' \in Files!Files BY <1>9, <1>t, <1>f DEF Files!Move
    <2> QED BY <1>9, <1>t, <1>n, <1>s, <2>1, <2>2, <2>3 DEF Files!Move
  <1>10. ASSUME NEW p \in Files!Procs, Files!Report(p) PROVE Files!TypeOK'
    <2>1. FilesTyped' BY <1>0, <1>10, FilesLeaveTypes DEF Files!Report
    <2>2. state' \in Files!Files /\ saved' \in BOOLEAN BY <1>10, <1>v DEF Files!Report
    <2> QED BY <1>10, <1>t, <1>n, <1>s, <2>1, <2>2 DEF Files!Report, Files!projects, Files!bounds
  <1>11. ASSUME NEW p \in Files!Procs, Files!Unmark(p) PROVE Files!TypeOK'
    <2>1. FilesTyped'
      <3>1. CASE Files!Verified(p)
        BY <1>0, <1>11, <3>1, FilesGotoTypes DEF Files!Unmark, FilesPlaces
      <3>2. CASE ~Files!Verified(p) BY <1>0, <1>11, <3>2, FilesLeaveTypes DEF Files!Unmark
      <3> QED BY <3>1, <3>2
    <2>2. marker' \in BOOLEAN BY <1>11, <1>t DEF Files!Unmark
    <2> QED BY <1>11, <1>t, <1>n, <1>s, <2>1, <2>2 DEF Files!Unmark, Files!bounds
  <1>12. ASSUME NEW p \in Files!Procs, Files!Fail(p) PROVE Files!TypeOK'
    <2>1. FilesTyped' BY <1>0, <1>12, FilesLeaveTypes DEF Files!Fail
    <2>2. losses' \in Nat /\ faults' \in Nat /\ faults' <= MaxFaults BY <1>12, <1>c DEF Files!Fail
    <2> QED BY <1>12, <1>t, <1>n, <1>s, <2>1, <2>2 DEF Files!Fail, Files!projects
  <1>13. ASSUME NEW p \in Files!Procs, Files!Die(p) PROVE Files!TypeOK'
    <2>1. doing' \in [Files!Procs -> FilesPlaces]
      BY <1>0, <1>13 DEF Files!Die, Files!Goto, FilesTyped, FilesPlaces
    <2>2. slot' \in [Files!Procs -> 0..Backups] BY <1>i, <1>13, <1>n DEF Files!Die
    <2>3. request' \in [Files!Procs -> Writes \cup {NoRequest}]
          /\ data' \in [Files!Procs -> SUBSET Writes] /\ lock' \in Files!Procs \cup {NoProc}
      BY <1>0, <1>13 DEF Files!Die, FilesTyped
    <2>4. keys' \in [Files!Procs -> SUBSET Writes] BY <1>13, <1>t DEF Files!Die
    <2>5. losses' \in Nat /\ faults' \in Nat /\ faults' <= MaxFaults BY <1>13, <1>c DEF Files!Die
    <2> QED BY <1>13, <1>t, <1>n, <1>s, <2>1, <2>2, <2>3, <2>4, <2>5
      DEF Files!Die, FilesTyped, Files!projects
  <1>14. ASSUME NEW p \in Files!Procs, NEW i \in 1..Backups, Files!Recover(p, i) PROVE Files!TypeOK'
    <2>1. bak[i] \in SUBSET Writes
      BY <1>14, <1>t DEF Files!Recover, Files!Valid, Files!Readable, Files!Files
    <2>2. data' \in [Files!Procs -> SUBSET Writes] BY <1>14, <1>i, <2>1 DEF Files!Recover
    <2>3. FilesTyped' BY <1>0, <1>14, <1>i, <2>2, FilesHoldTypes DEF Files!Recover, FilesPlaces
    <2> QED BY <1>14, <1>t, <1>n, <1>s, <1>f, <2>3 DEF Files!Recover, Files!bounds
  <1>15. ASSUME NEW p \in Files!Procs, NEW r \in Writes, Files!Replay(p, r) PROVE Files!TypeOK'
    <2>1. FilesTyped' BY <1>0, <1>15 DEF Files!Replay, Files!process, FilesTyped
    <2> QED BY <1>15, <1>t, <1>n, <1>s, <2>1 DEF Files!Replay, Files!projects, Files!process,
        Files!bounds
  <1>16. ASSUME NEW p \in Files!Procs, NEW r \in Writes, Files!Write(p, r) PROVE Files!TypeOK'
    <2>1. data' \in [Files!Procs -> SUBSET Writes]
      BY <1>16, <1>i, <1>t, FilesContentType DEF Files!Write
    <2>2. slot' \in [Files!Procs -> 0..Backups] BY <1>16, <1>i, <1>n DEF Files!Write
    <2>3. FilesTyped' BY <1>0, <1>16, <2>1, <2>2, FilesHoldTypes DEF Files!Write, FilesPlaces
    <2> QED BY <1>16, <1>t, <1>n, <1>s, <2>3 DEF Files!Write, Files!projects, Files!bounds
  <1>17. ASSUME NEW p \in Files!Procs, NEW r \in Writes, Files!Detect(p, r) PROVE Files!TypeOK'
    <2>1. FilesTyped' BY <1>0, <1>17, <1>i, FilesHoldTypes DEF Files!Detect, FilesPlaces
    <2> QED BY <1>17, <1>t, <1>n, <1>s, <2>1 DEF Files!Detect, Files!projects, Files!bounds
  <1>18. CASE Files!NothingToDo
    <2>1. FilesTyped' BY <1>0, <1>18, FilesGotoTypes DEF Files!NothingToDo, FilesPlaces, Files!Procs
    <2> QED BY <1>18, <1>t, <1>n, <1>s, <2>1 DEF Files!NothingToDo, Files!projects, Files!bounds
  <1>19. CASE Files!Damage
    <2>1. FilesTyped' BY <1>0, <1>19 DEF Files!Damage, Files!process, FilesTyped
    <2>2. primary' \in Files!Files /\ state' \in Files!Files /\ bak' \in [1..Backups -> Files!Files]
      BY <1>19, <1>t, <1>f DEF Files!Damage, Files!Valid
    <2>3. losses' \in Nat /\ damages' \in Nat /\ damages' <= MaxDamages
      BY <1>19, <1>n DEF Files!Damage
    <2> QED BY <1>19, <1>t, <1>n, <1>s, <2>1, <2>2, <2>3 DEF Files!Damage, Files!process
  <1> QED BY <1>1, <1>2, <1>3, <1>4, <1>5, <1>6, <1>7, <1>8, <1>9, <1>10, <1>11, <1>12, <1>13,
      <1>14, <1>15,
             <1>16, <1>17, <1>18, <1>19 DEF Files!Next

(* Who holds the lock, and what a process is about *)

FilesRest(q) == doing'[q] = doing[q] /\ request'[q] = request[q] /\ slot'[q] = slot[q]
    /\ data'[q] = data[q]

\* A process that does not hold the lock is at rest.
LEMMA FilesAtRest ==
  ASSUME Files!ConstantsOK, FilesIInv, NEW q \in Files!Procs, lock # q
  PROVE doing[q] \in {"down", "idle"}
  BY DEF FilesIInv, FilesControlOK, FilesAt

LEMMA FilesRestAt ==
  ASSUME Files!ConstantsOK, NEW q \in Files!Procs, doing'[q] \in {"down", "idle"}, lock' # q
  PROVE FilesAt(q)'
  BY DEF FilesAt, FilesRotating, FilesWriting

\* The holder acts; the others are at rest and stay so.
LEMMA FilesOthersRest ==
  ASSUME Files!ConstantsOK, FilesIInv, NEW p \in Files!Procs, lock \in {p, NoProc},
        lock' \in {p, NoProc},
         \A q \in Files!Procs \ {p} : FilesRest(q), FilesAt(p)'
  PROVE  FilesControlOK'
  <1>1. ASSUME NEW q \in Files!Procs \ {p} PROVE FilesAt(q)'
    <2>0. NoProc \notin Files!Procs BY DEF Files!ConstantsOK
    <2>1. lock # q /\ lock' # q BY <1>1, <2>0
    <2>2. doing'[q] \in {"down", "idle"} BY <2>1, FilesAtRest DEF FilesRest
    <2> QED BY <2>1, <2>2, FilesRestAt
  <1> QED BY <1>1 DEF FilesControlOK

\* A process at rest acts, and holds no lock after; or a file is damaged.
LEMMA FilesOthersGoOn ==
  ASSUME Files!ConstantsOK, FilesIInv, NEW p \in Files!Procs, doing[p] \in {"down", "idle"},
        doing'[p] \in {"down", "idle"},
         lock' = lock, UNCHANGED <<primary, marker, truth, bak>>,
               \A q \in Files!Procs \ {p} : FilesRest(q)
  PROVE  FilesControlOK'
  <1>1. ASSUME NEW q \in Files!Procs \ {p} PROVE FilesAt(q)'
    BY <1>1 DEF FilesIInv, FilesControlOK, FilesAt, FilesRest
  <1>2. lock # p BY DEF FilesIInv, FilesControlOK, FilesAt
  <1>3. FilesAt(p)' BY <1>2, FilesRestAt
  <1> QED BY <1>1, <1>3 DEF FilesControlOK

LEMMA FilesLeaving == ASSUME Files!ConstantsOK, FilesTyped, NEW p \in Files!Procs, Files!Leave(p)
  PROVE  lock' = NoProc /\ FilesAt(p)' /\ \A q \in Files!Procs \ {p} : FilesRest(q)
  <1>1. lock' = NoProc /\ NoProc # p BY DEF Files!Leave, Files!ConstantsOK
  <1>2. doing'[p] \in {"down", "idle"} BY DEF Files!Leave, Files!Goto, FilesTyped
  <1>3. FilesAt(p)' BY <1>1, <1>2, FilesRestAt
  <1>4. \A q \in Files!Procs \ {p} : FilesRest(q)
    BY DEF Files!Leave, Files!Goto, FilesTyped, FilesRest
  <1> QED BY <1>1, <1>3, <1>4

LEMMA FilesNextControl == ASSUME Files!ConstantsOK, FilesIInv, Files!Next PROVE FilesControlOK'
  <1>0. FilesTyped BY FilesTypes DEF FilesIInv, Files!TypeOK, FilesTyped
  <1>t. /\ doing \in [Files!Procs -> FilesPlaces]
           /\ request \in [Files!Procs -> Writes \cup {NoRequest}]
        /\ slot \in [Files!Procs -> 0..Backups] /\ data \in [Files!Procs -> SUBSET Writes]
    BY <1>0 DEF FilesTyped
  <1>b. bak \in [1..Backups -> Files!Files] /\ Backups \in Nat /\ Backups >= 1
    BY FilesTypes DEF FilesIInv
  <1>l. ASSUME NEW p \in Files!Procs, doing[p] \notin {"down", "idle"} PROVE lock = p /\ FilesAt(p)
    BY <1>l DEF FilesIInv, FilesControlOK, FilesAt
  \* The holder goes to another place.
  <1>g. ASSUME NEW p \in Files!Procs, doing[p] \notin {"down", "idle"}, NEW l \in FilesPlaces,
                 Files!Goto(p, l), UNCHANGED <<lock, request, slot, data>>
        PROVE  /\ doing'[p] = l /\ request'[p] = request[p] /\ slot'[p] = slot[p]
                  /\ data'[p] = data[p]
               /\ lock = p /\ lock' = p /\ FilesAt(p) /\ (FilesAt(p)' => FilesControlOK')
    <2>1. doing'[p] = l /\ \A q \in Files!Procs \ {p} : FilesRest(q)
      BY <1>g, <1>t DEF Files!Goto, FilesRest
    <2>2. lock = p /\ FilesAt(p) BY <1>g, <1>l
    <2> QED BY <1>g, <2>1, <2>2, FilesOthersRest
  <1>e. ASSUME NEW p \in Files!Procs, doing[p] \notin {"down", "idle"}, Files!Leave(p)
        PROVE FilesControlOK'
    BY <1>e, <1>0, <1>l, FilesLeaving, FilesOthersRest
  \* A process takes the lock.
  <1>h. ASSUME NEW p \in Files!Procs, lock = NoProc, NEW r \in Writes \cup {NoRequest}, NEW l,
                 Files!Hold(p, r, l),
               \A q \in Files!Procs \ {p} : slot'[q] = slot[q] /\ data'[q] = data[q]
        PROVE  lock' = p /\ doing'[p] = l /\ request'[p] = r /\ (FilesAt(p)' => FilesControlOK')
    <2>1. lock' = p /\ doing'[p] = l /\ request'[p] = r /\ \A q \in Files!Procs \ {p} : FilesRest(q)
      BY <1>h, <1>t DEF Files!Hold, Files!Goto, FilesRest
    <2> QED BY <1>h, <2>1, FilesOthersRest
  <1>1. ASSUME NEW p \in Files!Procs, Files!Start(p) PROVE FilesControlOK'
    <2>1. doing'[p] \in {"down", "idle"} /\ \A q \in Files!Procs \ {p} : FilesRest(q)
      BY <1>1, <1>t DEF Files!Start, Files!Goto, FilesRest
    <2> QED BY <1>1, <2>1, FilesOthersGoOn DEF Files!Start, Files!projects
  <1>2. ASSUME NEW p \in Files!Procs, Files!Shift(p) PROVE FilesControlOK'
    <2>0. lock = p /\ FilesAt(p) /\ lock' = p BY <1>2, <1>l DEF Files!Shift
    <2>1. slot[p] \in Nat /\ slot[p] > 1 /\ slot[p] <= Backups BY <1>2, <1>t, <1>b DEF Files!Shift
    <2>2. slot'[p] = slot[p] - 1 /\ doing'[p] = doing[p] /\ request'[p] = request[p]
          /\ data'[p] = data[p]
      BY <1>2, <1>t DEF Files!Shift
    <2>3. PICK s \in 1..Backups : s = slot[p] /\ s - 1 \in 1..Backups BY <1>b, <2>1
    <2>4. bak'[s - 1] = Files!None BY <1>2, <1>b, <2>0, <2>3 DEF Files!Shift, Files!Shifted
    <2>5. bak'[slot'[p]] = Files!None BY <2>2, <2>3, <2>4
    <2>6. slot'[p] >= 1 BY <2>1, <2>2
    <2>7. FilesAt(p)'
      BY <1>2, <2>0, <2>2, <2>5, <2>6 DEF Files!Shift, FilesAt, FilesRotating, FilesWriting
    <2>8. \A q \in Files!Procs \ {p} : FilesRest(q) BY <1>2, <1>t DEF Files!Shift, FilesRest
    <2> QED BY <2>0, <2>7, <2>8, FilesOthersRest
  <1>3. ASSUME NEW p \in Files!Procs, Files!Copy(p) PROVE FilesControlOK'
    <2>0. doing'[p] = "copying" /\ request'[p] = request[p] /\ data'[p] = data[p] /\ lock' = p
          /\ FilesAt(p) /\ (FilesAt(p)' => FilesControlOK')
      BY <1>3, <1>g DEF Files!Copy, FilesPlaces
    <2>1. bak'[1] = Files!Damaged BY <1>3, <1>b DEF Files!Copy
    <2> QED BY <1>3, <2>0, <2>1 DEF Files!Copy, FilesAt, FilesRotating, FilesWriting
  <1>4. ASSUME NEW p \in Files!Procs, Files!Copied(p) PROVE FilesControlOK'
    <2>0. doing'[p] = "replacing" /\ request'[p] = request[p] /\ data'[p] = data[p] /\ lock' = p
          /\ FilesAt(p) /\ (FilesAt(p)' => FilesControlOK')
      BY <1>4, <1>g DEF Files!Copied, FilesPlaces
    <2> QED BY <1>4, <2>0 DEF Files!Copied, FilesAt, FilesRotating, FilesWriting
  <1>5. ASSUME NEW p \in Files!Procs, Files!Replace(p) PROVE FilesControlOK'
    <2>1. CASE request[p] = NoRequest
      <3>0. doing'[p] = "unmarking" /\ request'[p] = request[p] /\ data'[p] = data[p] /\ lock' = p
            /\ FilesAt(p) /\ (FilesAt(p)' => FilesControlOK')
        BY <1>5, <1>g, <2>1 DEF Files!Replace, FilesPlaces
      <3> QED BY <1>5, <2>1, <3>0 DEF Files!Replace, FilesAt, FilesRotating, FilesWriting
    <2>2. CASE request[p] # NoRequest
      <3>0. doing'[p] = "telling" /\ request'[p] = request[p] /\ data'[p] = data[p] /\ lock' = p
            /\ FilesAt(p) /\ (FilesAt(p)' => FilesControlOK')
        BY <1>5, <1>g, <2>2 DEF Files!Replace, FilesPlaces
      <3>1. ~marker BY <1>5, <2>2, <3>0 DEF Files!Replace, FilesAt, FilesIInv, Files!TypeOK
      <3> QED BY <1>5, <2>2, <3>0, <3>1 DEF Files!Replace, FilesAt, FilesRotating, FilesWriting
    <2> QED BY <2>1, <2>2
  <1>6. ASSUME NEW p \in Files!Procs, Files!Tell(p) PROVE FilesControlOK'
    <2>0. doing'[p] = "remembering" /\ request'[p] = request[p] /\ data'[p] = data[p] /\ lock' = p
          /\ FilesAt(p) /\ (FilesAt(p)' => FilesControlOK')
      BY <1>6, <1>g DEF Files!Tell, FilesPlaces
    <2> QED BY <1>6, <2>0 DEF Files!Tell, FilesAt, FilesRotating, FilesWriting, Files!projects
  <1>7. ASSUME NEW p \in Files!Procs, Files!Remember(p) PROVE FilesControlOK'
    BY <1>7, <1>e DEF Files!Remember
  <1>8. ASSUME NEW p \in Files!Procs, Files!Mark(p) PROVE FilesControlOK'
    <2>0. doing'[p] = "moving" /\ request'[p] = request[p] /\ data'[p] = data[p] /\ lock' = p
          /\ FilesAt(p) /\ (FilesAt(p)' => FilesControlOK')
      BY <1>8, <1>g DEF Files!Mark, FilesPlaces
    <2> QED BY <1>8, <2>0 DEF Files!Mark, FilesAt, FilesRotating, FilesWriting
  <1>9. ASSUME NEW p \in Files!Procs, Files!Move(p) PROVE FilesControlOK'
    <2>0. doing'[p] = "reporting" /\ request'[p] = request[p] /\ data'[p] = data[p] /\ lock' = p
          /\ FilesAt(p) /\ (FilesAt(p)' => FilesControlOK')
      BY <1>9, <1>g DEF Files!Move, FilesPlaces
    <2> QED BY <1>9, <2>0 DEF Files!Move, FilesAt, FilesRotating, FilesWriting
  <1>10. ASSUME NEW p \in Files!Procs, Files!Report(p) PROVE FilesControlOK'
    BY <1>10, <1>e DEF Files!Report
  <1>11. ASSUME NEW p \in Files!Procs, Files!Unmark(p) PROVE FilesControlOK'
    <2>1. CASE Files!Verified(p)
      <3>0. doing'[p] = "reporting" /\ request'[p] = request[p] /\ data'[p] = data[p] /\ lock' = p
            /\ FilesAt(p) /\ (FilesAt(p)' => FilesControlOK')
        BY <1>11, <1>g, <2>1 DEF Files!Unmark, FilesPlaces
      <3> QED BY <1>11, <3>0 DEF Files!Unmark, FilesAt, FilesRotating, FilesWriting
    <2>2. CASE ~Files!Verified(p) BY <1>11, <1>e, <2>2 DEF Files!Unmark
    <2> QED BY <2>1, <2>2
  <1>12. ASSUME NEW p \in Files!Procs, Files!Fail(p) PROVE FilesControlOK'
    BY <1>12, <1>e DEF Files!Fail
  <1>13. ASSUME NEW p \in Files!Procs, Files!Die(p) PROVE FilesControlOK'
    <2>0. doing'[p] = "down" /\ \A q \in Files!Procs \ {p} : FilesRest(q)
      BY <1>13, <1>t DEF Files!Die, Files!Goto, FilesRest
    <2>1. CASE doing[p] = "idle"
      <3>1. lock # p BY <2>1 DEF FilesIInv, FilesControlOK, FilesAt
      <3>2. lock' = lock /\ UNCHANGED <<primary, marker, truth, bak>>
        BY <1>13, <3>1 DEF Files!Die, Files!projects
      <3> QED BY <2>0, <2>1, <3>2, FilesOthersGoOn
    <2>2. CASE doing[p] # "idle"
      <3>1. lock = p BY <1>13, <1>l, <2>2 DEF Files!Die
      <3>2. lock' = NoProc /\ NoProc # p BY <1>13, <3>1 DEF Files!Die, Files!ConstantsOK
      <3>3. FilesAt(p)' BY <2>0, <3>2, FilesRestAt
      <3> QED BY <2>0, <3>1, <3>2, <3>3, FilesOthersRest
    <2> QED BY <2>1, <2>2
  <1>14. ASSUME NEW p \in Files!Procs, NEW i \in 1..Backups, Files!Recover(p, i)
         PROVE FilesControlOK'
    <2>0. lock' = p /\ doing'[p] = "replacing" /\ request'[p] = NoRequest
          /\ (FilesAt(p)' => FilesControlOK')
      BY <1>14, <1>h, <1>t DEF Files!Recover, Files!Locked
    <2>1. data'[p] = bak[i] /\ bak[i] # {} BY <1>14, <1>t DEF Files!Recover, FilesIInv, FilesFullOK
    <2> QED BY <1>14, <2>0, <2>1 DEF Files!Recover, FilesAt, FilesRotating, FilesWriting
  <1>15. ASSUME NEW p \in Files!Procs, NEW r \in Writes, Files!Replay(p, r) PROVE FilesControlOK'
    <2>1. \A q \in Files!Procs : FilesRest(q) BY <1>15 DEF Files!Replay, Files!process, FilesRest
    <2> QED BY <1>15, <2>1, FilesOthersGoOn DEF Files!Replay, Files!Served, Files!projects,
        Files!process, FilesRest
  <1>16. ASSUME NEW p \in Files!Procs, NEW r \in Writes, Files!Write(p, r) PROVE FilesControlOK'
    <2>p. primary # Files!Damaged /\ ~marker /\ lock = NoProc
      BY <1>16 DEF Files!Write, Files!Served, Files!Locked
    <2>c. Files!Content(primary) = truth
      <3>1. primary \in {Files!Damaged, IF truth = {} THEN Files!None ELSE truth}
        BY <2>p DEF FilesIInv, Files!FailsClosed
      <3>2. CASE truth = {} BY <2>p, <3>1, <3>2 DEF Files!Content
      <3>3. CASE truth # {}
        <4>1. primary = truth /\ truth \in SUBSET Writes
          BY <2>p, <3>1, <3>3 DEF FilesIInv, Files!TypeOK
        <4> QED BY <4>1, FilesSigns DEF Files!Content
      <3> QED BY <3>2, <3>3
    <2>d. data'[p] = truth \cup {r} /\ slot'[p] = Backups BY <1>16, <1>t, <2>c DEF Files!Write
    <2>r. r # NoRequest BY DEF Files!ConstantsOK
    <2>m. marker' = marker /\ truth' = truth /\ bak' = bak /\ primary' = primary
      BY <1>16 DEF Files!Write, Files!projects
    <2>f. \A q \in Files!Procs \ {p} : slot'[q] = slot[q] /\ data'[q] = data[q]
      BY <1>16, <1>t DEF Files!Write
    <2>1. CASE primary = Files!None
      <3>0. lock' = p /\ doing'[p] = "replacing" /\ request'[p] = r
            /\ (FilesAt(p)' => FilesControlOK')
        BY <1>16, <1>h, <2>1, <2>p, <2>f DEF Files!Write
      <3> QED BY <2>p, <2>d, <2>r, <2>m, <3>0 DEF FilesAt, FilesRotating, FilesWriting
    <2>2. CASE primary # Files!None
      <3>0. lock' = p /\ doing'[p] = "rotating" /\ request'[p] = r
            /\ (FilesAt(p)' => FilesControlOK')
        BY <1>16, <1>h, <2>2, <2>p, <2>f DEF Files!Write
      <3>1. slot'[p] >= 1 /\ ~(slot'[p] < Backups) BY <1>b, <2>d
      <3> QED BY <2>p, <2>2, <2>d, <2>r, <2>m, <3>0, <3>1 DEF FilesAt, FilesRotating, FilesWriting
    <2> QED BY <2>1, <2>2
  <1>17. ASSUME NEW p \in Files!Procs, NEW r \in Writes, Files!Detect(p, r) PROVE FilesControlOK'
    <2>0. lock' = p /\ doing'[p] = "marking" /\ request'[p] = r /\ (FilesAt(p)' => FilesControlOK')
      BY <1>17, <1>h DEF Files!Detect, Files!Served, Files!Locked
    <2>1. r # NoRequest BY DEF Files!ConstantsOK
    <2> QED BY <1>17, <2>0, <2>1 DEF Files!Detect, Files!Served, FilesAt, FilesRotating,
        FilesWriting, Files!projects
  <1>18. CASE Files!NothingToDo
    <2>1. Script \in Files!Procs BY DEF Files!Procs
    <2>2. doing'[Script] = "down" /\ \A q \in Files!Procs \ {Script} : FilesRest(q)
      BY <1>18, <1>t, <2>1 DEF Files!NothingToDo, Files!Goto, FilesRest
    <2> QED BY <1>18, <2>1, <2>2, FilesOthersGoOn DEF Files!NothingToDo, Files!projects
  <1>19. CASE Files!Damage
    <2>0. UNCHANGED <<marker, truth, lock, doing, request, slot, data>>
          /\ primary' \in {primary, Files!Damaged} /\ Files!None # Files!Damaged
      BY <1>19, FilesSignsDiffer DEF Files!Damage, Files!process
    <2>1. ASSUME NEW i \in 1..Backups, bak[i] \in {Files!None, Files!Damaged} PROVE bak'[i] = bak[i]
      BY <1>19, <1>b, <2>1 DEF Files!Damage, Files!Valid, Files!Readable
    <2>2. ASSUME NEW q \in Files!Procs PROVE FilesAt(q)'
      <3>1. FilesAt(q) BY DEF FilesIInv, FilesControlOK
      <3>2. CASE doing[q] = "rotating" /\ slot[q] < Backups
        <4>1. slot[q] \in Nat BY <1>t, <1>b
        <4>2. slot[q] >= 1 /\ bak[slot[q]] = Files!None BY <3>1, <3>2 DEF FilesAt
        <4>3. slot[q] \in 1..Backups BY <3>2, <4>1, <4>2, <1>b
        <4>4. bak'[slot[q]] = Files!None BY <2>1, <4>2, <4>3
        <4> QED BY <2>0, <3>1, <3>2, <4>4 DEF FilesAt, FilesRotating, FilesWriting
      <3>3. CASE doing[q] = "rotating" /\ ~(slot[q] < Backups)
        BY <2>0, <3>1, <3>3 DEF FilesAt, FilesRotating, FilesWriting
      <3>4. CASE doing[q] = "copying"
        <4>1. 1 \in 1..Backups BY <1>b
        <4>2. bak'[1] = Files!Damaged BY <2>1, <3>1, <3>4, <4>1 DEF FilesAt
        <4> QED BY <2>0, <3>1, <3>4, <4>2 DEF FilesAt, FilesRotating, FilesWriting
      <3>5. CASE doing[q] \notin {"rotating", "copying"}
        BY <2>0, <3>1, <3>5 DEF FilesAt, FilesRotating, FilesWriting
      <3> QED BY <3>2, <3>3, <3>4, <3>5
    <2> QED BY <2>2 DEF FilesControlOK
  <1> QED BY <1>1, <1>2, <1>3, <1>4, <1>5, <1>6, <1>7, <1>8, <1>9, <1>10, <1>11, <1>12, <1>13,
      <1>14, <1>15,
             <1>16, <1>17, <1>18, <1>19 DEF Files!Next

(* Contents *)

LEMMA FilesNextFull == ASSUME Files!ConstantsOK, FilesIInv, Files!Next PROVE FilesFullOK'
  <1>b. /\ bak \in [1..Backups -> Files!Files] /\ Backups \in Nat /\ Backups >= 1
        /\ slot \in [Files!Procs -> 0..Backups] BY FilesTypes DEF FilesIInv
  <1>f. primary # {} /\ (\A i \in 1..Backups : bak[i] # {}) /\ Files!None # {} /\ Files!Damaged # {}
    BY FilesSignsDiffer DEF FilesIInv, FilesFullOK
  <1>u. ASSUME UNCHANGED <<primary, bak>> PROVE FilesFullOK' BY <1>u, <1>f DEF FilesFullOK
  <1>1. ASSUME NEW p \in Files!Procs, Files!Shift(p) PROVE FilesFullOK'
    <2>1. slot[p] \in 1..Backups /\ slot[p] - 1 \in 1..Backups
      <3>1. slot[p] \in 0..Backups /\ slot[p] > 1 BY <1>1, <1>b DEF Files!Shift
      <3> QED BY <3>1, <1>b
    <2>2. PICK i \in 1..Backups, j \in 1..Backups : i = slot[p] /\ j = slot[p] - 1 BY <2>1
    <2>3. bak[j] # {} BY <1>f
    <2>4. bak' \in {bak, [bak EXCEPT ![i] = Files!None],
            [bak EXCEPT ![i] = bak[j], ![j] = Files!None]}
      BY <1>1, <2>2 DEF Files!Shift, Files!Shifted
    <2>5. \A k \in 1..Backups : bak'[k] # {} BY <1>f, <1>b, <2>3, <2>4
    <2> QED BY <1>1, <1>f, <2>5 DEF Files!Shift, FilesFullOK
  <1>2. ASSUME NEW p \in Files!Procs, Files!Copy(p) PROVE FilesFullOK'
    BY <1>2, <1>b, <1>f DEF Files!Copy, FilesFullOK
  <1>3. ASSUME NEW p \in Files!Procs, Files!Copied(p) PROVE FilesFullOK'
    BY <1>3, <1>b, <1>f DEF Files!Copied, FilesFullOK
  <1>4. ASSUME NEW p \in Files!Procs, Files!Replace(p) PROVE FilesFullOK'
    <2>1. data[p] # {} BY <1>4 DEF Files!Replace, FilesIInv, FilesControlOK, FilesAt, FilesWriting
    <2> QED BY <1>4, <1>f, <2>1 DEF Files!Replace, FilesFullOK
  <1>5. ASSUME NEW p \in Files!Procs, Files!Move(p) PROVE FilesFullOK'
    BY <1>5, <1>f DEF Files!Move, FilesFullOK
  <1>6. ASSUME NEW p \in Files!Procs, NEW i \in 1..Backups, Files!Recover(p, i) PROVE FilesFullOK'
    BY <1>6, <1>f DEF Files!Recover, FilesFullOK
  <1>7. CASE Files!Damage BY <1>7, <1>b, <1>f DEF Files!Damage, Files!Valid, FilesFullOK
  <1>8. ASSUME NEW p \in Files!Procs,
               \/ Files!Start(p) \/ Files!Tell(p) \/ Files!Remember(p) \/ Files!Mark(p)
                  \/ Files!Report(p) \/ Files!Unmark(p) \/ Files!Fail(p) \/ Files!Die(p)
               \/ Files!NothingToDo \/ \E r \in Writes : Files!Replay(p, r) \/ Files!Write(p, r)
                  \/ Files!Detect(p, r)
        PROVE  UNCHANGED <<primary, bak>>
    BY <1>8 DEF Files!Start, Files!Tell, Files!Remember, Files!Mark, Files!Report, Files!Unmark,
        Files!Fail, Files!Die, Files!NothingToDo, Files!Replay, Files!Write, Files!Detect,
        Files!projects
  <1>9. Script \in Files!Procs BY DEF Files!Procs
  <1> QED BY <1>u, <1>1, <1>2, <1>3, <1>4, <1>5, <1>6, <1>7, <1>8, <1>9 DEF Files!Next

LEMMA FilesNextKept == ASSUME Files!ConstantsOK, FilesIInv, Files!Next PROVE FilesKeptOK'
  <1>t. /\ state \in Files!Files /\ keys \in [Files!Procs -> SUBSET Writes]
           /\ data \in [Files!Procs -> SUBSET Writes]
        /\ answered \in SUBSET Writes /\ truth \in SUBSET Writes
    BY FilesTypes DEF FilesIInv, Files!TypeOK
  <1>c. \A f \in SUBSET Writes : Files!Content(f) = f
    BY FilesSigns DEF Files!Content, Files!Readable
  <1>d. Files!Content(Files!None) = {} /\ Files!Content(Files!Damaged) = {} BY DEF Files!Content
  <1>a. ASSUME NEW p \in Files!Procs PROVE FilesAt(p) BY DEF FilesIInv, FilesControlOK
  <1>k. FilesKeptOK BY DEF FilesIInv
  <1>1. ASSUME NEW p \in Files!Procs, Files!Start(p) PROVE FilesKeptOK'
    <2>1. Files!Content(state') \subseteq Files!Content(state) BY <1>1, <1>d DEF Files!Start
    <2>2. \A q \in Files!Procs : keys'[q] \subseteq keys[q] \/ keys'[q] = Files!Content(state)
      BY <1>1, <1>t DEF Files!Start
    <2> QED BY <1>1, <1>k, <2>1, <2>2 DEF Files!Start, Files!projects, FilesKeptOK
  <1>2. ASSUME NEW p \in Files!Procs, Files!Replace(p) PROVE FilesKeptOK'
    <2>1. CASE request[p] = NoRequest BY <1>2, <2>1 DEF Files!Replace, FilesKeptOK
    <2>2. CASE request[p] # NoRequest
      <3>1. truth \subseteq data[p] BY <1>2, <1>a, <2>2 DEF Files!Replace, FilesAt, FilesWriting
      <3>2. truth' = data[p] /\ (rolledBack => rolledBack') BY <1>2 DEF Files!Replace
      <3> QED BY <1>2, <1>k, <3>1, <3>2 DEF Files!Replace, FilesKeptOK
    <2> QED BY <2>1, <2>2
  <1>3. ASSUME NEW p \in Files!Procs, Files!Tell(p) PROVE FilesKeptOK'
    <2>1. request[p] \in truth BY <1>3, <1>a DEF Files!Tell, FilesAt
    <2>2. Files!Content(state') = keys[p] BY <1>3, <1>t, <1>c DEF Files!Tell, Files!SaveState
    <2>3. \A q \in Files!Procs : keys'[q] \subseteq keys[q] \cup {request[p]}
      BY <1>3, <1>t DEF Files!Tell
    <2> QED BY <1>3, <1>k, <2>1, <2>2, <2>3 DEF Files!Tell, Files!projects, FilesKeptOK
  <1>4. ASSUME NEW p \in Files!Procs, Files!Remember(p) PROVE FilesKeptOK'
    <2>1. request[p] \in truth BY <1>4, <1>a DEF Files!Remember, FilesAt
    <2>2. Files!Content(state') = keys[p] BY <1>4, <1>t, <1>c DEF Files!Remember, Files!SaveState
    <2> QED BY <1>4, <1>k, <2>1, <2>2 DEF Files!Remember, Files!projects, FilesKeptOK
  <1>5. ASSUME NEW p \in Files!Procs, Files!Report(p) PROVE FilesKeptOK'
    <2>1. Files!Content(state') = keys[p] BY <1>5, <1>t, <1>c DEF Files!Report, Files!SaveState
    <2> QED BY <1>5, <1>k, <2>1 DEF Files!Report, Files!projects, FilesKeptOK
  <1>6. ASSUME NEW p \in Files!Procs, Files!Die(p) PROVE FilesKeptOK'
    <2>1. \A q \in Files!Procs : keys'[q] \subseteq keys[q] BY <1>6, <1>t DEF Files!Die
    <2> QED BY <1>6, <1>k, <2>1 DEF Files!Die, Files!projects, FilesKeptOK
  <1>7. ASSUME NEW p \in Files!Procs, NEW r \in Writes, Files!Replay(p, r) PROVE FilesKeptOK'
    <2>1. r \in keys[p] BY <1>7 DEF Files!Replay
    <2> QED BY <1>7, <1>k, <2>1 DEF Files!Replay, Files!projects, Files!process, FilesKeptOK
  <1>8. CASE Files!Damage
    <2>1. Files!Content(state') \subseteq Files!Content(state) BY <1>8, <1>d DEF Files!Damage
    <2> QED BY <1>8, <1>k, <2>1 DEF Files!Damage, Files!process, FilesKeptOK
  <1>9. ASSUME NEW p \in Files!Procs,
               \/ Files!Shift(p) \/ Files!Copy(p) \/ Files!Copied(p) \/ Files!Mark(p)
                  \/ Files!Move(p) \/ Files!Unmark(p) \/ Files!Fail(p) \/ Files!NothingToDo
               \/ \E r \in Writes : Files!Write(p, r) \/ Files!Detect(p, r)
               \/ \E i \in 1..Backups : Files!Recover(p, i)
        PROVE  FilesKeptOK'
    <2>1. UNCHANGED <<truth, rolledBack, answered, state, keys>>
      BY <1>9 DEF Files!Shift, Files!Copy, Files!Copied, Files!Mark, Files!Move, Files!Unmark,
          Files!Fail, Files!NothingToDo, Files!Write, Files!Detect, Files!Recover, Files!projects
    <2> QED BY <1>k, <2>1 DEF FilesKeptOK
  <1>10. Script \in Files!Procs BY DEF Files!Procs
  <1> QED BY <1>1, <1>2, <1>3, <1>4, <1>5, <1>6, <1>7, <1>8, <1>9, <1>10 DEF Files!Next

\* Without a marker the file is what was last put there, or it is damaged.
LEMMA FilesNextFails == ASSUME Files!ConstantsOK, FilesIInv, Files!Next PROVE Files!FailsClosed'
  <1>a. ASSUME NEW p \in Files!Procs PROVE FilesAt(p) BY DEF FilesIInv, FilesControlOK
  <1>k. Files!FailsClosed BY DEF FilesIInv
  <1>u. ASSUME UNCHANGED <<primary, marker, truth>> PROVE Files!FailsClosed'
    BY <1>u, <1>k DEF Files!FailsClosed
  <1>1. ASSUME NEW p \in Files!Procs, Files!Replace(p) PROVE Files!FailsClosed'
    <2>1. data[p] # {} BY <1>1, <1>a DEF Files!Replace, FilesAt, FilesWriting
    <2> QED BY <1>1, <2>1 DEF Files!Replace, Files!FailsClosed
  <1>2. ASSUME NEW p \in Files!Procs, Files!Mark(p) PROVE Files!FailsClosed'
    BY <1>2 DEF Files!Mark, Files!FailsClosed
  <1>3. ASSUME NEW p \in Files!Procs, Files!Move(p) PROVE Files!FailsClosed'
    BY <1>3, <1>a DEF Files!Move, FilesAt, Files!FailsClosed
  <1>4. ASSUME NEW p \in Files!Procs, NEW i \in 1..Backups, Files!Recover(p, i)
        PROVE Files!FailsClosed'
    BY <1>4 DEF Files!Recover, Files!FailsClosed
  <1>5. ASSUME NEW p \in Files!Procs, Files!Unmark(p) PROVE Files!FailsClosed'
    <2>1. truth = data[p] /\ data[p] # {} BY <1>5, <1>a DEF Files!Unmark, FilesAt
    <2>2. CASE Files!Verified(p)
      BY <1>5, <2>1, <2>2 DEF Files!Unmark, Files!Verified, Files!FailsClosed
    <2>3. CASE ~Files!Verified(p) BY <1>5, <1>u, <2>3 DEF Files!Unmark
    <2> QED BY <2>2, <2>3
  <1>6. CASE Files!Damage
    <2>1. primary' \in {primary, Files!Damaged} /\ UNCHANGED <<marker, truth>>
      BY <1>6 DEF Files!Damage
    <2> QED BY <1>k, <2>1 DEF Files!FailsClosed
  <1>7. ASSUME NEW p \in Files!Procs,
               \/ Files!Start(p) \/ Files!Shift(p) \/ Files!Copy(p) \/ Files!Copied(p)
                  \/ Files!Tell(p) \/ Files!Remember(p) \/ Files!Report(p) \/ Files!Fail(p)
                     \/ Files!Die(p)
               \/ Files!NothingToDo \/ \E r \in Writes : Files!Replay(p, r) \/ Files!Write(p, r)
                  \/ Files!Detect(p, r)
        PROVE  UNCHANGED <<primary, marker, truth>>
    BY <1>7 DEF Files!Start, Files!Shift, Files!Copy, Files!Copied, Files!Tell, Files!Remember,
        Files!Report, Files!Fail, Files!Die, Files!NothingToDo, Files!Replay, Files!Write,
        Files!Detect, Files!projects
  <1>8. Script \in Files!Procs BY DEF Files!Procs
  <1> QED BY <1>u, <1>1, <1>2, <1>3, <1>4, <1>5, <1>6, <1>7, <1>8 DEF Files!Next

(* Losses and backups *)

LEMMA FilesNextLoss == ASSUME Files!ConstantsOK, FilesIInv, Files!Next PROVE FilesLossOK'
  <1>n. losses \in Nat /\ faults \in Nat /\ damages \in Nat BY FilesTypes DEF FilesIInv
  <1>t. doing \in [Files!Procs -> FilesPlaces] BY FilesTypes DEF FilesIInv
  <1>1. /\ losses <= faults + damages
        /\ primary = Files!Damaged /\ (\E p \in Files!Procs : doing[p] \in FilesRotating)
           => losses + 1 <= faults + damages
    BY DEF FilesIInv, FilesLossOK
  \* Only the holder of the lock is rotating.
  <1>r. ASSUME NEW q \in Files!Procs, doing[q] \in FilesRotating PROVE lock = q
    BY <1>r DEF FilesIInv, FilesControlOK, FilesAt, FilesRotating
  <1>p. NoProc \notin Files!Procs BY DEF Files!ConstantsOK
  \* A step that loses nothing and starts no rotation of a damaged file.
  <1>u. ASSUME UNCHANGED <<losses, faults, damages>>,
               primary' = Files!Damaged
                   => primary = Files!Damaged, \A q \in Files!Procs : doing'[q] \in FilesRotating
                       => doing[q] \in FilesRotating
        PROVE  FilesLossOK'
    BY <1>u, <1>1 DEF FilesLossOK
  <1>g. ASSUME NEW p \in Files!Procs, NEW l, Files!Goto(p, l), l \notin FilesRotating
        PROVE \A q \in Files!Procs : doing'[q] \in FilesRotating => doing[q] \in FilesRotating
    BY <1>g, <1>t DEF Files!Goto
  <1>e. ASSUME NEW p \in Files!Procs, Files!Leave(p)
        PROVE \A q \in Files!Procs : doing'[q] \in FilesRotating => doing[q] \in FilesRotating
    BY <1>e, <1>t DEF Files!Leave, Files!Goto, FilesRotating
  \* A fault that may cut a rotation short: nobody is rotating any more, or nothing was lost.
  <1>f. ASSUME NEW p \in Files!Procs, faults' = faults + 1, losses' = losses + Files!Cut(p),
                 damages' = damages, primary' = primary,
               \A q \in Files!Procs : doing'[q] \in FilesRotating
                   => doing[q] \in FilesRotating, doing'[p] \notin FilesRotating
        PROVE  FilesLossOK'
    <2>1. CASE doing[p] \in FilesRotating
      <3>1. \A q \in Files!Procs : doing'[q] \notin FilesRotating BY <1>f, <1>r, <2>1
      <3>2. Files!Cut(p) \in {0, 1} BY DEF Files!Cut
      <3>3. losses + Files!Cut(p) <= faults + 1 + damages BY <1>n, <1>1, <3>2
      <3> QED BY <1>f, <3>1, <3>3 DEF FilesLossOK
    <2>2. CASE doing[p] \notin FilesRotating
      <3>1. Files!Cut(p) = 0 BY <2>2 DEF Files!Cut, FilesRotating
      <3>2. losses' = losses BY <1>f, <1>n, <3>1
      <3>3. losses <= faults + 1 + damages BY <1>n, <1>1
      <3>4. primary = Files!Damaged /\ (\E q \in Files!Procs : doing[q] \in FilesRotating)
            => losses + 1 <= faults + 1 + damages
        BY <1>n, <1>1
      <3> QED BY <1>f, <3>2, <3>3, <3>4 DEF FilesLossOK
    <2> QED BY <2>1, <2>2
  <1>2. ASSUME NEW p \in Files!Procs, Files!Start(p) PROVE FilesLossOK'
    <2>1. \A q \in Files!Procs : doing'[q] \in FilesRotating => doing[q] \in FilesRotating
      BY <1>2, <1>g DEF Files!Start, FilesRotating
    <2> QED BY <1>2, <1>u, <2>1 DEF Files!Start, Files!projects, Files!bounds
  <1>3. ASSUME NEW p \in Files!Procs, Files!Shift(p) PROVE FilesLossOK'
    BY <1>3, <1>u DEF Files!Shift, Files!bounds
  <1>4. ASSUME NEW p \in Files!Procs, Files!Copy(p) PROVE FilesLossOK'
    <2>1. \A q \in Files!Procs : doing'[q] \in FilesRotating => doing[q] \in FilesRotating
      BY <1>4, <1>t DEF Files!Copy, Files!Goto, FilesRotating
    <2> QED BY <1>4, <1>u, <2>1 DEF Files!Copy, Files!bounds
  <1>5. ASSUME NEW p \in Files!Procs, Files!Copied(p) PROVE FilesLossOK'
    <2>1. \A q \in Files!Procs : doing'[q] \in FilesRotating => doing[q] \in FilesRotating
      BY <1>5, <1>g DEF Files!Copied, FilesRotating
    <2>2. doing[p] \in FilesRotating BY <1>5 DEF Files!Copied, FilesRotating
    <2>3. \A q \in Files!Procs : doing'[q] \notin FilesRotating
      <3>1. doing'[p] \notin FilesRotating BY <1>5, <1>t DEF Files!Copied, Files!Goto, FilesRotating
      <3> QED BY <2>1, <2>2, <3>1, <1>r
    <2>4. faults' = faults /\ damages' = damages /\ primary' = primary BY <1>5 DEF Files!Copied
    <2>5. losses' <= faults + damages
      <3>1. CASE primary = Files!Damaged BY <1>5, <1>1, <2>2, <3>1 DEF Files!Copied
      <3>2. CASE primary # Files!Damaged BY <1>5, <1>1, <3>2 DEF Files!Copied
      <3> QED BY <3>1, <3>2
    <2> QED BY <2>3, <2>4, <2>5 DEF FilesLossOK
  <1>6. ASSUME NEW p \in Files!Procs, Files!Replace(p) PROVE FilesLossOK'
    <2>1. \A q \in Files!Procs : doing'[q] \in FilesRotating => doing[q] \in FilesRotating
      BY <1>6, <1>g DEF Files!Replace, FilesRotating
    <2>2. primary' # Files!Damaged
      <3>1. data[p] \in SUBSET Writes BY FilesTypes DEF FilesIInv
      <3> QED BY <1>6, <3>1, FilesSigns DEF Files!Replace
    <2> QED BY <1>6, <1>u, <2>1, <2>2 DEF Files!Replace, Files!bounds
  <1>7. ASSUME NEW p \in Files!Procs, Files!Tell(p) \/ Files!Mark(p) PROVE FilesLossOK'
    <2>1. \A q \in Files!Procs : doing'[q] \in FilesRotating => doing[q] \in FilesRotating
      BY <1>7, <1>g DEF Files!Tell, Files!Mark, FilesRotating
    <2> QED BY <1>7, <1>u, <2>1 DEF Files!Tell, Files!Mark, Files!projects, Files!bounds
  <1>8. ASSUME NEW p \in Files!Procs, Files!Remember(p) \/ Files!Report(p) PROVE FilesLossOK'
    <2>1. \A q \in Files!Procs : doing'[q] \in FilesRotating => doing[q] \in FilesRotating
      BY <1>8, <1>e DEF Files!Remember, Files!Report
    <2> QED BY <1>8, <1>u, <2>1 DEF Files!Remember, Files!Report, Files!projects, Files!bounds
  <1>9. ASSUME NEW p \in Files!Procs, Files!Move(p) PROVE FilesLossOK'
    <2>1. \A q \in Files!Procs : doing'[q] \in FilesRotating => doing[q] \in FilesRotating
      BY <1>9, <1>g DEF Files!Move, FilesRotating
    <2>2. \A q \in Files!Procs : doing[q] \notin FilesRotating
      <3>1. lock = p BY <1>9 DEF Files!Move, FilesIInv, FilesControlOK, FilesAt
      <3> QED BY <1>9, <3>1, <1>r DEF Files!Move, FilesRotating
    <2>3. faults' \in {faults, faults + 1} /\ losses' = losses /\ damages' = damages
      BY <1>9 DEF Files!Move
    <2>5. losses <= faults + damages /\ losses <= (faults + 1) + damages BY <1>n, <1>1
    <2>4. losses <= faults' + damages BY <2>3, <2>5
    <2> QED BY <2>1, <2>2, <2>3, <2>4 DEF FilesLossOK
  <1>10. ASSUME NEW p \in Files!Procs, Files!Unmark(p) PROVE FilesLossOK'
    <2>1. \A q \in Files!Procs : doing'[q] \in FilesRotating => doing[q] \in FilesRotating
      BY <1>10, <1>e, <1>g DEF Files!Unmark, FilesRotating
    <2> QED BY <1>10, <1>u, <2>1 DEF Files!Unmark, Files!bounds
  <1>11. ASSUME NEW p \in Files!Procs, Files!Fail(p) PROVE FilesLossOK'
    <2>1. \A q \in Files!Procs : doing'[q] \in FilesRotating => doing[q] \in FilesRotating
      BY <1>11, <1>e DEF Files!Fail
    <2>2. doing'[p] \notin FilesRotating
      BY <1>11, <1>t DEF Files!Fail, Files!Leave, Files!Goto, FilesRotating
    <2> QED BY <1>11, <1>f, <2>1, <2>2 DEF Files!Fail, Files!projects
  <1>12. ASSUME NEW p \in Files!Procs, Files!Die(p) PROVE FilesLossOK'
    <2>1. \A q \in Files!Procs : doing'[q] \in FilesRotating => doing[q] \in FilesRotating
      BY <1>12, <1>g DEF Files!Die, FilesRotating
    <2>2. doing'[p] \notin FilesRotating BY <1>12, <1>t DEF Files!Die, Files!Goto, FilesRotating
    <2> QED BY <1>12, <1>f, <2>1, <2>2 DEF Files!Die, Files!projects
  <1>13. ASSUME NEW p \in Files!Procs, NEW i \in 1..Backups, Files!Recover(p, i) PROVE FilesLossOK'
    <2>1. \A q \in Files!Procs : doing'[q] \in FilesRotating => doing[q] \in FilesRotating
      BY <1>13, <1>g DEF Files!Recover, Files!Hold, FilesRotating
    <2> QED BY <1>13, <1>u, <2>1, FilesSignsDiffer DEF Files!Recover, Files!bounds
  <1>14. ASSUME NEW p \in Files!Procs, NEW r \in Writes, Files!Replay(p, r) PROVE FilesLossOK'
    BY <1>14, <1>u DEF Files!Replay, Files!projects, Files!process, Files!bounds
  <1>15. ASSUME NEW p \in Files!Procs, NEW r \in Writes, Files!Write(p, r) PROVE FilesLossOK'
    <2>1. primary' # Files!Damaged /\ UNCHANGED <<losses, faults, damages>>
      BY <1>15 DEF Files!Write, Files!projects, Files!bounds
    <2> QED BY <1>1, <2>1 DEF FilesLossOK
  <1>16. ASSUME NEW p \in Files!Procs, NEW r \in Writes, Files!Detect(p, r) PROVE FilesLossOK'
    <2>1. \A q \in Files!Procs : doing'[q] \in FilesRotating => doing[q] \in FilesRotating
      BY <1>16, <1>g DEF Files!Detect, Files!Hold, FilesRotating
    <2> QED BY <1>16, <1>u, <2>1 DEF Files!Detect, Files!projects, Files!bounds
  <1>17. CASE Files!NothingToDo
    <2>1. Script \in Files!Procs BY DEF Files!Procs
    <2>2. \A q \in Files!Procs : doing'[q] \in FilesRotating => doing[q] \in FilesRotating
      BY <1>17, <1>g, <2>1 DEF Files!NothingToDo, FilesRotating
    <2> QED BY <1>17, <1>u, <2>2 DEF Files!NothingToDo, Files!projects, Files!bounds
  <1>18. CASE Files!Damage
    <2>1. doing' = doing /\ faults' = faults /\ damages' = damages + 1
      BY <1>18 DEF Files!Damage, Files!process
    <2>2. CASE primary' = Files!Damaged /\ losses' = losses
      <3>1. losses + 1 <= faults + (damages + 1) BY <1>n, <1>1
      <3>2. losses <= faults + (damages + 1) BY <1>n, <1>1
      <3> QED BY <2>1, <2>2, <3>1, <3>2 DEF FilesLossOK
    <2>3. CASE primary' = primary /\ losses' \in {losses, losses + 1}
      <3>1. losses' <= faults + (damages + 1) BY <1>n, <1>1, <2>3
      <3>2. primary = Files!Damaged /\ (\E p \in Files!Procs : doing[p] \in FilesRotating)
            => losses' + 1 <= faults + (damages + 1)
        <4> SUFFICES ASSUME primary = Files!Damaged,
                              \E p \in Files!Procs : doing[p] \in FilesRotating
                                PROVE losses' + 1 <= faults + (damages + 1)
          OBVIOUS
        <4>1. losses + 1 <= faults + damages BY <1>1
        <4>2. losses + 1 <= faults + (damages + 1) /\ (losses + 1) + 1 <= faults + (damages + 1)
          BY <1>n, <4>1
        <4> QED BY <2>3, <4>2
      <3> QED BY <2>1, <2>3, <3>1, <3>2 DEF FilesLossOK
    <2> QED BY <1>18, <2>2, <2>3 DEF Files!Damage
  <1> QED BY <1>2, <1>3, <1>4, <1>5, <1>6, <1>7, <1>8, <1>9, <1>10, <1>11, <1>12, <1>13, <1>14,
      <1>15,
             <1>16, <1>17, <1>18 DEF Files!Next

\* What of the backups a step leaves as it is.
LEMMA FilesBackupsSame ==
  ASSUME Files!ConstantsOK, FilesIInv, UNCHANGED <<bak, losses, rotations>>,
         \A q \in Files!Procs : doing[q] \in FilesRotating => doing'[q] = doing[q]
             /\ slot'[q] = slot[q]
  PROVE  FilesBackupsOK'
  <1>1. \A q \in Files!Procs, k \in 0..Backups : FilesGap(q, k) => FilesGap(q, k)'
    BY DEF FilesGap, FilesRotating
  <1>2. \A k \in 0..Backups, n \in Int : FilesCovered(k, n) => FilesCovered(k, n)'
    BY DEF FilesCovered, FilesKept
  <1>3. \A k \in 0..Backups : k - 1 \in Int /\ k \in Int OBVIOUS
  <1>4. Backups \in Nat BY FilesTypes DEF FilesIInv
  <1> QED BY <1>1, <1>2, <1>3, <1>4 DEF FilesIInv, FilesBackupsOK

\* Nobody rotates: all prefixes are covered.
LEMMA FilesNoGap ==
  ASSUME Files!ConstantsOK, FilesIInv, \A q \in Files!Procs : doing[q] \notin FilesRotating,
        NEW k \in 0..Backups
  PROVE  FilesCovered(k, k)
  BY DEF FilesIInv, FilesBackupsOK, FilesGap, FilesRotating

\* The numbers of a prefix.
LEMMA FilesNumbers == ASSUME Files!ConstantsOK, FilesIInv, NEW k \in 0..Backups
  PROVE  /\ k \in Nat /\ k - 1 \in Int /\ Cardinality(FilesKept(bak, k)) \in Nat /\ losses \in Nat
            /\ rotations \in Nat
         /\ Cardinality(FilesKept(bak, k)) + losses \in Nat
  <1>1. Backups \in Nat /\ losses \in Nat /\ rotations \in Nat BY FilesTypes DEF FilesIInv
  <1>2. k \in Nat /\ k - 1 \in Int BY <1>1
  <1>3. Cardinality(FilesKept(bak, k)) \in Nat BY <1>2, FilesKeptFinite
  <1> QED BY <1>1, <1>2, <1>3

\* With one loss more no gap is needed.
LEMMA FilesGapPaid ==
  ASSUME Files!ConstantsOK, FilesIInv, NEW k \in 0..Backups, NEW m \in Nat, NEW j \in Nat,
        NEW r \in Nat,
    j + m >= r \/ j + m >= k - 1
  PROVE  j + (m + 1) >= r \/ j + (m + 1) >= k
  <1>1. k \in Nat BY FilesNumbers
  <1> QED BY <1>1

\* A rotation that is cut short, or none.
LEMMA FilesCutOK ==
  ASSUME Files!ConstantsOK, FilesIInv, NEW p \in Files!Procs, UNCHANGED <<bak, rotations>>,
        losses' = losses + Files!Cut(p),
         doing[p] \notin {"down", "idle"} \/ \A q \in Files!Procs : doing[q] \in FilesRotating
             => doing'[q] = doing[q] /\ slot'[q] = slot[q]
  PROVE  FilesBackupsOK'
  <1>0. Files!Cut(p) \in {0, 1} BY DEF Files!Cut
  <1>n. losses \in Nat /\ Backups \in Nat BY FilesTypes DEF FilesIInv
  <1>r. ASSUME NEW q \in Files!Procs, doing[q] \in FilesRotating PROVE lock = q
    BY <1>r DEF FilesIInv, FilesControlOK, FilesAt, FilesRotating
  <1>1. CASE Files!Cut(p) = 1
    <2>1. losses' = losses + 1 BY <1>1
    <2>2. ASSUME NEW k \in 0..Backups PROVE FilesCovered(k, k)'
      <3>1. FilesCovered(k, k) \/ FilesCovered(k, k - 1) BY DEF FilesIInv, FilesBackupsOK
      <3>2. Cardinality(FilesKept(bak, k)) \in Nat /\ losses \in Nat /\ rotations \in Nat
            /\ k \in Nat
        BY FilesNumbers
      <3>3. Cardinality(FilesKept(bak, k)) + losses >= rotations
            \/ Cardinality(FilesKept(bak, k)) + losses >= k - 1
        BY <3>1, <3>2 DEF FilesCovered
      <3>4. Cardinality(FilesKept(bak, k)) + (losses + 1) >= rotations
            \/ Cardinality(FilesKept(bak, k)) + (losses + 1) >= k
        BY <3>2, <3>3, FilesGapPaid
      <3>5. FilesKept(bak', k) = FilesKept(bak, k) /\ rotations' = rotations OBVIOUS
      <3> QED BY <2>1, <3>4, <3>5 DEF FilesCovered
    <2> QED BY <2>2 DEF FilesBackupsOK
  <1>2. CASE Files!Cut(p) = 0
    <2>1. losses' = losses BY <1>n, <1>2
    <2>2. CASE \A q \in Files!Procs : doing[q] \in FilesRotating => doing'[q] = doing[q]
               /\ slot'[q] = slot[q]
      BY <2>1, <2>2, FilesBackupsSame
    <2>3. CASE doing[p] \notin {"down", "idle"}
      <3>1. lock = p BY <2>3 DEF FilesIInv, FilesControlOK, FilesAt
      <3>2. \A q \in Files!Procs, k \in 0..Backups : ~FilesGap(q, k)
        <4>1. \A q \in Files!Procs : doing[q] \in FilesRotating => q = p BY <3>1, <1>r
        <4>2. ~(doing[p] = "copying") /\ ~(doing[p] = "rotating" /\ slot[p] < Backups)
          BY <1>2 DEF Files!Cut
        <4> QED BY <4>1, <4>2 DEF FilesGap, FilesRotating
      <3>3. \A k \in 0..Backups : FilesCovered(k, k) BY <3>2 DEF FilesIInv, FilesBackupsOK
      <3>4. \A k \in 0..Backups : FilesCovered(k, k)' BY <2>1, <3>3 DEF FilesCovered, FilesKept
      <3> QED BY <3>4 DEF FilesBackupsOK
    <2> QED BY <2>2, <2>3
  <1> QED BY <1>0, <1>1, <1>2

\* A backup moves into the gap.
LEMMA FilesShiftOK ==
  ASSUME Files!ConstantsOK, FilesIInv, NEW p \in Files!Procs, Files!Shift(p) PROVE FilesBackupsOK'
  <1>b. /\ bak \in [1..Backups -> Files!Files] /\ Backups \in Nat /\ Backups >= 1
        /\ slot \in [Files!Procs -> 0..Backups] BY FilesTypes DEF FilesIInv
  <1>l. lock = p /\ FilesAt(p) BY DEF Files!Shift, FilesIInv, FilesControlOK, FilesAt
  <1>1. PICK s \in 1..Backups : s = slot[p] /\ s > 1 /\ s - 1 \in 1..Backups
    <2>1. slot[p] \in 0..Backups /\ slot[p] > 1 BY <1>b DEF Files!Shift
    <2> QED BY <2>1, <1>b
  <1>2. PICK j \in 1..Backups : j = s - 1 BY <1>1
  <1>3. /\ \A i \in 1..Backups : i # s /\ i # j => bak'[i] = bak[i]
        /\ ~Files!Readable(bak'[j]) /\ (Files!Readable(bak'[s]) <=> Files!Readable(bak[j]))
    <2>0. s # j BY <1>1, <1>2, <1>b
    <2>1. bak' = (IF bak[j] # Files!None THEN [bak EXCEPT ![s] = bak[j], ![j] = Files!None]
                  ELSE IF s = Backups THEN [bak EXCEPT ![s] = Files!None] ELSE bak)
      BY <1>1, <1>2 DEF Files!Shift, Files!Shifted
    <2>2. CASE bak[j] # Files!None BY <1>b, <2>0, <2>1, <2>2, FilesSignsDiffer
    <2>3. CASE bak[j] = Files!None /\ s = Backups BY <1>b, <2>0, <2>1, <2>3, FilesSignsDiffer
    <2>4. CASE bak[j] = Files!None /\ s # Backups
      <3>1. s < Backups BY <1>b, <2>4
      <3>2. bak[s] = Files!None BY <1>1, <1>l, <3>1 DEF FilesAt, Files!Shift
      <3> QED BY <2>1, <2>4, <3>2, FilesSignsDiffer
    <2> QED BY <2>2, <2>3, <2>4
  <1>4. s < Backups => ~Files!Readable(bak[s])
    BY <1>1, <1>l, FilesSignsDiffer DEF FilesAt, Files!Shift
  <1>5. doing'[p] = "rotating" /\ slot'[p] = j /\ j < Backups /\ losses' = losses
        /\ rotations' = rotations
    BY <1>1, <1>2, <1>b DEF Files!Shift, Files!bounds
  <1>r. ASSUME NEW q \in Files!Procs, NEW k \in 0..Backups, FilesGap(q, k)
        PROVE k >= s /\ s < Backups
    <2>1. lock = q BY <1>r DEF FilesIInv, FilesControlOK, FilesAt, FilesGap
    <2>2. q = p BY <2>1, <1>l
    <2> QED BY <1>1, <1>r, <2>2 DEF FilesGap, Files!Shift
  <1>6. ASSUME NEW k \in 0..Backups
        PROVE  FilesCovered(k, k)' \/ (FilesCovered(k, k - 1)' /\ FilesGap(p, k)')
    <2>n. /\ k \in Nat /\ k - 1 \in Int /\ Cardinality(FilesKept(bak, k)) \in Nat
             /\ losses \in Nat /\ rotations \in Nat
          /\ s \in Nat /\ j \in Nat
      BY FilesNumbers, <1>b
    <2>1. CASE k < j
      <3>1. \A i \in 1..k : i \in 1..Backups /\ i # s /\ i # j BY <1>1, <1>2, <1>b, <2>1, <2>n
      <3>2. FilesKept(bak', k) = FilesKept(bak, k) BY <1>3, <3>1, <2>n, FilesKeptSame
      <3>3. ~(k >= s) BY <1>1, <1>2, <2>1, <2>n
      <3>4. FilesCovered(k, k) BY <1>r, <3>3 DEF FilesIInv, FilesBackupsOK
      <3> QED BY <1>5, <3>2, <3>4 DEF FilesCovered
    <2>2. CASE k >= j
      <3>g. FilesGap(p, k)' BY <1>5, <2>2 DEF FilesGap
      <3>1. CASE k = j
        \* The gap reaches one backup further down.
        <4>0. j \in Nat \ {0} /\ j - 1 \in 0..Backups /\ j - 1 \in Nat /\ j - 1 \in Int
          BY <1>b, <2>n
        <4>1. Cardinality(FilesKept(bak', j)) = Cardinality(FilesKept(bak', j - 1))
          BY <1>3, <4>0, FilesKeptStep
        <4>2. \A i \in 1..(j - 1) : i \in 1..Backups /\ i # s /\ i # j BY <1>1, <1>2, <1>b, <2>n
        <4>3. FilesKept(bak', j - 1) = FilesKept(bak, j - 1) BY <1>3, <4>2, <4>0, FilesKeptSame
        <4>4. ~(j - 1 >= s) BY <1>2, <2>n
        <4>5. FilesCovered(j - 1, j - 1) BY <1>r, <4>0, <4>4 DEF FilesIInv, FilesBackupsOK
        <4> QED BY <1>5, <3>1, <3>g, <4>1, <4>3, <4>5 DEF FilesCovered
      <3>2. CASE k # j /\ s < Backups
        <4>1. k >= s BY <1>1, <1>2, <2>2, <2>n, <3>2
        <4>2. \A i \in 1..k : i # s /\ i # s - 1 => bak'[i] = bak[i] BY <1>2, <1>3, <1>b, <2>n
        <4>3. Cardinality(FilesKept(bak', k)) = Cardinality(FilesKept(bak, k))
          <5>1. s - 1 = j /\ s > 1 /\ s \in Nat BY <1>1, <1>2, <2>n
          <5>2. ~Files!Readable(bak[s]) /\ ~Files!Readable(bak'[s - 1])
                /\ (Files!Readable(bak'[s]) <=> Files!Readable(bak[s - 1]))
            BY <1>3, <1>4, <3>2, <5>1
          <5> QED BY <2>n, <4>1, <4>2, <5>1, <5>2, FilesKeptMoved
        <4>4. FilesCovered(k, k - 1)
          <5>1. FilesCovered(k, k) => FilesCovered(k, k - 1) BY <2>n DEF FilesCovered
          <5> QED BY <5>1 DEF FilesIInv, FilesBackupsOK
        <4> QED BY <1>5, <3>g, <4>3, <4>4 DEF FilesCovered
      <3>3. CASE k # j /\ s = Backups
        \* The oldest backup is dropped.
        <4>1. k = s BY <1>1, <1>2, <1>b, <2>2, <2>n, <3>3
        <4>2. s \in Nat \ {0} /\ j \in Nat \ {0} /\ s - 1 = j /\ j - 1 \in Int BY <1>1, <1>2, <2>n
        <4>3. Cardinality(FilesKept(bak',
                s)) = IF Files!Readable(bak'[s]) THEN Cardinality(FilesKept(bak',
                      j)) + 1 ELSE Cardinality(FilesKept(bak', j))
          BY <4>2, FilesKeptStep
        <4>4. Cardinality(FilesKept(bak', j)) = Cardinality(FilesKept(bak', j - 1))
          BY <1>3, <4>2, FilesKeptStep
        <4>5. \A i \in 1..(j - 1) : i \in 1..Backups /\ i # s /\ i # j BY <1>1, <1>2, <1>b, <2>n
        <4>6. FilesKept(bak', j - 1) = FilesKept(bak, j - 1) BY <1>3, <4>5, <4>2, FilesKeptSame
        <4>7. Cardinality(FilesKept(bak,
                j)) = IF Files!Readable(bak[j]) THEN Cardinality(FilesKept(bak,
                      j - 1)) + 1 ELSE Cardinality(FilesKept(bak, j - 1))
          BY <4>2, FilesKeptStep
        <4>8. Cardinality(FilesKept(bak', k)) = Cardinality(FilesKept(bak, j))
          BY <1>3, <4>1, <4>3, <4>4, <4>6, <4>7
        <4>9. FilesCovered(j, j)
          <5>1. ~(j >= s) /\ j \in 0..Backups BY <1>2, <1>b, <2>n
          <5> QED BY <1>r, <5>1 DEF FilesIInv, FilesBackupsOK
        <4> QED BY <1>5, <3>g, <4>1, <4>2, <4>8, <4>9 DEF FilesCovered
      <3>4. s < Backups \/ s = Backups BY <1>b, <2>n
      <3> QED BY <3>1, <3>2, <3>3, <3>4
    <2> QED BY <2>1, <2>2, <2>n
  <1> QED BY <1>6 DEF FilesBackupsOK

LEMMA FilesNextBackups == ASSUME Files!ConstantsOK, FilesIInv, Files!Next PROVE FilesBackupsOK'
  <1>b. /\ bak \in [1..Backups -> Files!Files] /\ Backups \in Nat /\ Backups >= 1
        /\ slot \in [Files!Procs -> 0..Backups] /\ doing \in [Files!Procs -> FilesPlaces]
           /\ losses \in Nat /\ rotations \in Nat
        /\ rotations <= Backups
    BY FilesTypes DEF FilesIInv
  <1>r. ASSUME NEW q \in Files!Procs, doing[q] \in FilesRotating PROVE lock = q
    BY <1>r DEF FilesIInv, FilesControlOK, FilesAt, FilesRotating
  <1>p. NoProc \notin Files!Procs BY DEF Files!ConstantsOK
  \* A process that does not rotate goes elsewhere.
  <1>u. ASSUME NEW p \in Files!Procs, NEW l, doing[p] \notin FilesRotating, Files!Goto(p, l),
                 UNCHANGED <<bak, losses, rotations>>,
               \A q \in Files!Procs \ {p} : slot'[q] = slot[q]
        PROVE  FilesBackupsOK'
    <2>1. \A q \in Files!Procs : doing[q] \in FilesRotating => doing'[q] = doing[q]
          /\ slot'[q] = slot[q]
      BY <1>u, <1>b DEF Files!Goto
    <2> QED BY <1>u, <2>1, FilesBackupsSame
  <1>e. ASSUME NEW p \in Files!Procs, doing[p] \notin FilesRotating, Files!Leave(p),
                 UNCHANGED <<bak, losses, rotations>> PROVE FilesBackupsOK'
    <2>1. \A q \in Files!Procs \ {p} : slot'[q] = slot[q] BY <1>e, <1>b DEF Files!Leave
    <2> QED BY <1>e, <1>u, <2>1 DEF Files!Leave
  <1>1. ASSUME NEW p \in Files!Procs, Files!Start(p) PROVE FilesBackupsOK'
    <2>1. CASE UNCHANGED doing
      BY <1>1, <2>1, FilesBackupsSame DEF Files!Start, Files!projects, Files!bounds
    <2>2. CASE Files!Goto(p, "idle")
      BY <1>1, <1>u, <2>2 DEF Files!Start, Files!projects, Files!bounds, FilesRotating
    <2> QED BY <1>1, <2>1, <2>2 DEF Files!Start
  <1>2. ASSUME NEW p \in Files!Procs, Files!Shift(p) PROVE FilesBackupsOK' BY <1>2, FilesShiftOK
  <1>3. ASSUME NEW p \in Files!Procs, Files!Copy(p) PROVE FilesBackupsOK'
    <2>l. lock = p /\ FilesAt(p) BY <1>3 DEF Files!Copy, FilesIInv, FilesControlOK, FilesAt
    <2>1. doing'[p] = "copying" BY <1>3, <1>b DEF Files!Copy, Files!Goto
    <2>2. bak' = [bak EXCEPT ![1] = Files!Damaged] /\ losses' = losses /\ rotations' = rotations
      BY <1>3 DEF Files!Copy, Files!bounds
    <2>3. ASSUME NEW k \in 0..Backups
          PROVE FilesCovered(k, k)' \/ (FilesCovered(k, k - 1)' /\ FilesGap(p, k)')
      <3>n. /\ k \in Nat /\ k - 1 \in Int /\ Cardinality(FilesKept(bak, k)) \in Nat
               /\ losses \in Nat /\ rotations \in Nat
        BY FilesNumbers
      <3>1. CASE k = 0
        <4>1. FilesKept(bak', k) = FilesKept(bak, k) BY <3>1 DEF FilesKept
        <4>2. ~(\E q \in Files!Procs : FilesGap(q, k))
          <5>1. ASSUME NEW q \in Files!Procs PROVE ~(doing[q] = "rotating" /\ k >= slot[q])
            <6>1. slot[q] \in Nat BY <1>b
            <6>2. doing[q] = "rotating" => slot[q] >= 1 BY DEF FilesIInv, FilesControlOK, FilesAt
            <6> QED BY <3>1, <6>1, <6>2
          <5> QED BY <3>1, <5>1 DEF FilesGap
        <4>3. FilesCovered(k, k) BY <4>2 DEF FilesIInv, FilesBackupsOK
        <4> QED BY <2>2, <4>1, <4>3 DEF FilesCovered
      <3>2. CASE k # 0
        <4>g. FilesGap(p, k)' BY <2>1, <3>2, <3>n DEF FilesGap
        <4>1. CASE Backups > 1
          \* What is overwritten had been moved away.
          <5>1. bak[1] = Files!None BY <1>3, <2>l, <4>1 DEF Files!Copy, FilesAt
          <5>2. 1 \in 1..Backups BY <1>b
          <5>3. \A i \in 1..k : Files!Readable(bak'[i]) <=> Files!Readable(bak[i])
            <6>1. \A i \in 1..k : i \in 1..Backups BY <3>n, <1>b
            <6>2. bak'[1] = Files!Damaged /\ \A i \in 1..Backups : i # 1 => bak'[i] = bak[i]
              BY <2>2, <5>2, <1>b
            <6> QED BY <5>1, <6>1, <6>2, FilesSignsDiffer
          <5>4. FilesKept(bak', k) = FilesKept(bak, k) BY <3>n, <5>3, FilesKeptSame
          <5>5. FilesCovered(k, k - 1)
            <6>1. FilesCovered(k, k) => FilesCovered(k, k - 1) BY <3>n DEF FilesCovered
            <6> QED BY <6>1 DEF FilesIInv, FilesBackupsOK
          <5> QED BY <2>2, <4>g, <5>4, <5>5 DEF FilesCovered
        <4>2. CASE ~(Backups > 1)
          <5>1. k = 1 BY <1>b, <3>2, <3>n, <4>2
          <5>2. Cardinality(FilesKept(bak', k)) \in Nat BY <3>n, FilesKeptFinite
          <5>3. Cardinality(FilesKept(bak', k)) + losses >= k - 1 BY <3>n, <5>1, <5>2
          <5> QED BY <2>2, <4>g, <5>3 DEF FilesCovered
        <4> QED BY <4>1, <4>2
      <3> QED BY <3>1, <3>2
    <2> QED BY <2>3 DEF FilesBackupsOK
  <1>4. ASSUME NEW p \in Files!Procs, Files!Copied(p) PROVE FilesBackupsOK'
    <2>l. lock = p /\ FilesAt(p) BY <1>4 DEF Files!Copied, FilesIInv, FilesControlOK, FilesAt
    <2>1. bak[1] = Files!Damaged /\ bak' = [bak EXCEPT ![1] = primary]
      BY <1>4, <2>l DEF Files!Copied, FilesAt
    <2>2. rotations' <= rotations + 1 /\ rotations' <= Backups /\ rotations' \in Nat
      BY <1>4, <1>b DEF Files!Copied
    <2>p. primary # Files!None BY <1>4, <2>l DEF Files!Copied, FilesAt, FilesRotating
    <2>s. ~Files!Readable(bak[1]) /\ (Files!Readable(bak'[1]) <=> primary # Files!Damaged)
      <3>1. 1 \in 1..Backups BY <1>b
      <3>2. bak'[1] = primary BY <2>1, <3>1, <1>b
      <3> QED BY <2>1, <2>p, <3>2, FilesSignsDiffer DEF Files!Readable
    <2>3. losses' = IF primary = Files!Damaged THEN losses + 1 ELSE losses BY <1>4 DEF Files!Copied
    <2>4. ASSUME NEW k \in 0..Backups PROVE FilesCovered(k, k)'
      <3>n. /\ k \in Nat /\ k - 1 \in Int /\ Cardinality(FilesKept(bak, k)) \in Nat
               /\ losses \in Nat /\ rotations \in Nat
        BY FilesNumbers
      <3>1. CASE k = 0
        <4>1. Cardinality(FilesKept(bak', k)) \in Nat /\ losses' \in Nat
          BY <3>n, <2>3, FilesKeptFinite
        <4>2. Cardinality(FilesKept(bak', k)) + losses' >= k BY <3>1, <4>1
        <4> QED BY <4>2 DEF FilesCovered
      <3>2. CASE k # 0
        \* The copy pays for the gap, or the loss does.
        <4>1. Cardinality(FilesKept(bak, k)) + losses >= rotations
              \/ Cardinality(FilesKept(bak, k)) + losses >= k - 1
          <5>1. FilesCovered(k, k) \/ FilesCovered(k, k - 1) BY DEF FilesIInv, FilesBackupsOK
          <5> QED BY <3>n, <5>1 DEF FilesCovered
        <4>2. Cardinality(FilesKept(bak', k)) + losses' = Cardinality(FilesKept(bak,
                k)) + losses + 1
          <5>0. 1 \in 1..k /\ 1 \in 1..Backups BY <3>n, <3>2, <1>b
          <5>a. \A i \in 1..k : i # 1 => bak'[i] = bak[i] BY <2>1, <3>n, <1>b
          <5>1. CASE primary = Files!Damaged
            <6>1. \A i \in 1..k : Files!Readable(bak'[i]) <=> Files!Readable(bak[i])
              BY <2>s, <5>1, <5>a
            <6>2. FilesKept(bak', k) = FilesKept(bak, k) BY <3>n, <6>1, FilesKeptSame
            <6> QED BY <2>3, <3>n, <5>1, <6>2
          <5>2. CASE primary # Files!Damaged
            <6>3. \A i \in 1..k : Files!Readable(bak'[i]) <=> i = 1 \/ Files!Readable(bak[i])
              BY <2>s, <5>2, <5>a
            <6>4. FilesKept(bak', k) = FilesKept(bak, k) \cup {1} BY <5>0, <6>3 DEF FilesKept
            <6>5. 1 \notin FilesKept(bak, k)
              <7>1. ASSUME 1 \in FilesKept(bak, k) PROVE Files!Readable(bak[1])
                BY <7>1 DEF FilesKept
              <7> QED BY <2>s, <7>1
            <6>6. PICK x : x = 1 OBVIOUS
            <6>7. FilesKept(bak', k) = FilesKept(bak, k) \cup {x} /\ x \notin FilesKept(bak, k)
              BY <6>4, <6>5, <6>6
            <6>8. IsFiniteSet(FilesKept(bak, k)) BY <3>n, FilesKeptFinite
            <6>2. Cardinality(FilesKept(bak', k)) = Cardinality(FilesKept(bak, k)) + 1
              BY <6>7, <6>8, OneMore
            <6> QED BY <2>3, <3>n, <5>2, <6>2
          <5> QED BY <5>1, <5>2
        <4>3. \/ Cardinality(FilesKept(bak', k)) + losses' >= rotations + 1
              \/ Cardinality(FilesKept(bak', k)) + losses' >= k
          BY <3>n, <4>1, <4>2
        <4>4. rotations' <= rotations + 1 /\ rotations' \in Nat BY <2>2
        <4>5. Cardinality(FilesKept(bak', k)) + losses' \in Nat BY <3>n, <4>2
        <4>6. Cardinality(FilesKept(bak', k)) + losses' >= rotations + 1
              => Cardinality(FilesKept(bak', k)) + losses' >= rotations'
          BY <3>n, <4>4, <4>5
        <4> QED BY <4>3, <4>6 DEF FilesCovered
      <3> QED BY <3>1, <3>2
    <2> QED BY <2>4 DEF FilesBackupsOK
  <1>5. ASSUME NEW p \in Files!Procs, Files!Replace(p) \/ Files!Tell(p) \/ Files!Mark(p)
               \/ Files!Move(p) PROVE FilesBackupsOK'
    BY <1>5, <1>u DEF Files!Replace, Files!Tell, Files!Mark, Files!Move, Files!projects,
        Files!bounds, FilesRotating
  <1>6. ASSUME NEW p \in Files!Procs, Files!Remember(p) \/ Files!Report(p) PROVE FilesBackupsOK'
    BY <1>6, <1>e DEF Files!Remember, Files!Report, Files!projects, Files!bounds, FilesRotating
  <1>7. ASSUME NEW p \in Files!Procs, Files!Unmark(p) PROVE FilesBackupsOK'
    <2>1. CASE Files!Verified(p) BY <1>7, <1>u, <2>1 DEF Files!Unmark, Files!bounds, FilesRotating
    <2>2. CASE ~Files!Verified(p) BY <1>7, <1>e, <2>2 DEF Files!Unmark, Files!bounds, FilesRotating
    <2> QED BY <2>1, <2>2
  <1>8. ASSUME NEW p \in Files!Procs, Files!Fail(p) PROVE FilesBackupsOK'
    BY <1>8, FilesCutOK DEF Files!Fail, Files!projects
  <1>9. ASSUME NEW p \in Files!Procs, Files!Die(p) PROVE FilesBackupsOK'
    <2>1. doing[p] = "idle" => \A q \in Files!Procs : doing[q] \in FilesRotating
          => doing'[q] = doing[q] /\ slot'[q] = slot[q]
      BY <1>9, <1>b DEF Files!Die, Files!Goto, FilesRotating
    <2> QED BY <1>9, <2>1, FilesCutOK DEF Files!Die, Files!projects
  <1>10. ASSUME NEW p \in Files!Procs, NEW i \in 1..Backups, Files!Recover(p, i)
         PROVE FilesBackupsOK'
    BY <1>10, <1>u DEF Files!Recover, Files!Hold, Files!bounds, FilesRotating
  <1>11. ASSUME NEW p \in Files!Procs, NEW r \in Writes, Files!Replay(p, r) PROVE FilesBackupsOK'
    BY <1>11, FilesBackupsSame DEF Files!Replay, Files!projects, Files!process, Files!bounds
  <1>12. ASSUME NEW p \in Files!Procs, NEW r \in Writes, Files!Write(p, r) PROVE FilesBackupsOK'
    <2>1. \A q \in Files!Procs \ {p} : slot'[q] = slot[q] BY <1>12, <1>b DEF Files!Write
    <2> QED BY <1>12, <1>u, <2>1 DEF Files!Write, Files!Served, Files!Hold, Files!projects,
        Files!bounds, FilesRotating
  <1>13. ASSUME NEW p \in Files!Procs, NEW r \in Writes, Files!Detect(p, r) PROVE FilesBackupsOK'
    BY <1>13, <1>u DEF Files!Detect, Files!Served, Files!Hold, Files!projects, Files!bounds,
        FilesRotating
  <1>14. CASE Files!NothingToDo
    <2>1. Script \in Files!Procs BY DEF Files!Procs
    <2> QED BY <1>14, <1>u, <2>1 DEF Files!NothingToDo, Files!projects, Files!bounds, FilesRotating
  <1>15. CASE Files!Damage
    <2>0. UNCHANGED <<doing, slot, rotations>> BY <1>15 DEF Files!Damage, Files!process
    <2>1. CASE bak' = bak /\ losses' = losses BY <2>0, <2>1, FilesBackupsSame
    <2>2. ASSUME NEW i \in Files!Valid, bak' = [bak EXCEPT ![i] = Files!Damaged],
                   losses' = losses + 1 PROVE FilesBackupsOK'
      <3>1. ASSUME NEW k \in 0..Backups, NEW n \in Int, FilesCovered(k, n) PROVE FilesCovered(k, n)'
        <4>n. /\ k \in Nat /\ Cardinality(FilesKept(bak, k)) \in Nat /\ losses \in Nat
                 /\ rotations \in Nat
          BY FilesNumbers
        <4>1. \A j \in 1..k : j # i => bak'[j] = bak[j] BY <2>2, <4>n, <1>b
        <4>2. Cardinality(FilesKept(bak', k)) + 1 >= Cardinality(FilesKept(bak, k))
              /\ Cardinality(FilesKept(bak', k)) \in Nat
          <5>1. k \in Int BY <4>n
          <5>2. Cardinality(FilesKept(bak', k)) \in Nat BY <5>1, FilesKeptFinite
          <5>3. Cardinality(FilesKept(bak', k)) + 1 >= Cardinality(FilesKept(bak, k))
            BY <4>1, <5>1, FilesKeptLess
          <5> QED BY <5>2, <5>3
        <4>3. Cardinality(FilesKept(bak', k)) + (losses + 1) >= Cardinality(FilesKept(bak,
                k)) + losses
          BY <4>n, <4>2
        <4>4. \/ Cardinality(FilesKept(bak', k)) + (losses + 1) >= rotations
              \/ Cardinality(FilesKept(bak', k)) + (losses + 1) >= n
          BY <3>1, <4>n, <4>2, <4>3 DEF FilesCovered
        <4> QED BY <2>0, <2>2, <4>4 DEF FilesCovered
      <3>2. \A q \in Files!Procs, k \in 0..Backups : FilesGap(q, k) => FilesGap(q, k)'
        BY <2>0 DEF FilesGap
      <3>3. \A k \in 0..Backups : k \in Int /\ k - 1 \in Int BY <1>b
      <3> QED BY <3>1, <3>2, <3>3 DEF FilesIInv, FilesBackupsOK
    <2> QED BY <1>15, <2>1, <2>2 DEF Files!Damage
  <1> QED BY <1>1, <1>2, <1>3, <1>4, <1>5, <1>6, <1>7, <1>8, <1>9, <1>10, <1>11, <1>12, <1>13,
      <1>14, <1>15 DEF Files!Next

LEMMA FilesIInvHolds == ASSUME Files!ConstantsOK PROVE Files!Spec => []FilesIInv
  <1>1. Files!Init => FilesIInv
    <2> SUFFICES ASSUME Files!Init PROVE FilesIInv OBVIOUS
    <2> USE DEF Files!Init
    <2>1. Backups \in Nat /\ MaxFaults \in Nat /\ MaxDamages \in Nat BY DEF Files!ConstantsOK
    <2>2. Files!TypeOK
      <3>1. rotations \in 0..Backups /\ losses \in 0..MaxFaults + MaxDamages
            /\ faults \in 0..MaxFaults /\ damages \in 0..MaxDamages
        BY <2>1
      <3>2. slot \in [Files!Procs -> 0..Backups] BY <2>1
      <3>3. Files!None \in Files!Files BY DEF Files!Files
      <3> QED BY <3>1, <3>2, <3>3 DEF Files!TypeOK
    <2>3. FilesControlOK
      <3>1. NoProc \notin Files!Procs BY DEF Files!ConstantsOK
      <3> QED BY <3>1 DEF FilesControlOK, FilesAt, FilesRotating, FilesWriting
    <2>4. FilesFullOK BY FilesSignsDiffer DEF FilesFullOK
    <2>5. FilesKeptOK BY DEF FilesKeptOK, Files!Content
    <2>6. ASSUME NEW k \in 0..Backups PROVE FilesCovered(k, k)
      <3>1. Cardinality(FilesKept(bak, k)) \in Nat BY <2>1, FilesKeptFinite
      <3>2. Cardinality(FilesKept(bak, k)) + 0 >= 0 BY <3>1
      <3> QED BY <3>2 DEF FilesCovered
    <2>7. FilesLossOK BY FilesSignsDiffer DEF FilesLossOK
    <2>8. Files!FailsClosed BY DEF Files!FailsClosed
    <2> QED BY <2>2, <2>3, <2>4, <2>5, <2>6, <2>7, <2>8 DEF FilesIInv, FilesBackupsOK
  <1>2. FilesIInv /\ [Files!Next]_(Files!vars) => FilesIInv'
    <2>1. CASE UNCHANGED Files!vars
      <3>0. /\ UNCHANGED <<primary, bak, marker, truth, rolledBack, rotations, state, saved>>
            /\ UNCHANGED <<lock, doing, request, slot, data, keys, answered, losses, faults,
                 damages>>
        BY <2>1 DEF Files!vars, Files!projects, Files!process, Files!bounds
      <3>1. Files!TypeOK => Files!TypeOK' BY <3>0 DEF Files!TypeOK
      <3>2. FilesControlOK => FilesControlOK' BY <3>0 DEF FilesControlOK, FilesAt
      <3>3. FilesFullOK /\ FilesKeptOK /\ Files!FailsClosed => FilesFullOK' /\ FilesKeptOK'
            /\ Files!FailsClosed'
        BY <3>0 DEF FilesFullOK, FilesKeptOK, Files!FailsClosed, Files!Content
      <3>4. FilesBackupsOK => FilesBackupsOK'
        BY <3>0 DEF FilesBackupsOK, FilesCovered, FilesGap, FilesKept
      <3>5. FilesLossOK => FilesLossOK' BY <3>0 DEF FilesLossOK
      <3> QED BY <3>1, <3>2, <3>3, <3>4, <3>5 DEF FilesIInv
    <2>2. ASSUME FilesIInv, Files!Next PROVE FilesIInv'
      BY <2>2, FilesNextTypes, FilesNextControl, FilesNextFull, FilesNextKept, FilesNextBackups,
          FilesNextLoss, FilesNextFails DEF FilesIInv
    <2> QED BY <2>1, <2>2
  <1> QED BY <1>1, <1>2, PTL DEF Files!Spec

\* What the runs check follows.
LEMMA FilesFilesStand ==
  ASSUME Files!ConstantsOK, FilesIInv
  PROVE Files!FailsClosed /\ Files!BackupsSuffice /\ Files!AnsweredIsKept
  <1>1. Files!AnsweredIsKept BY DEF FilesIInv, FilesKeptOK, Files!AnsweredIsKept
  <1>2. ASSUME marker, Files!Valid = {} PROVE rotations <= losses
    <2>n. Backups \in Nat /\ rotations \in Nat /\ rotations <= Backups /\ losses \in Nat
      BY FilesTypes DEF FilesIInv
    <2>1. ASSUME NEW q \in Files!Procs PROVE doing[q] \notin FilesRotating
      BY <1>2, <2>1 DEF FilesIInv, FilesControlOK, FilesAt
    <2>2. Backups \in 0..Backups BY <2>n
    <2>3. FilesCovered(Backups, Backups) BY <2>1, <2>2, FilesNoGap
    <2>4. FilesKept(bak, Backups) = {} BY <1>2 DEF FilesKept, Files!Valid
    <2>5. Cardinality(FilesKept(bak, Backups)) = 0 BY <2>4, FS_EmptySet
    <2> QED BY <2>n, <2>3, <2>5 DEF FilesCovered
  <1>3. Files!BackupsSuffice BY <1>2 DEF Files!BackupsSuffice
  <1> QED BY <1>1, <1>3 DEF FilesIInv

-----------------------------------------------------------------------------
(* The audit log *)

AuditMidCall == {"read", "store", "stored", "append", "hash", "size"}

\* No hash that anybody holds, has cached or named is of an entry that is not there,
\* and an entry that a call is about to cache is its own.
AuditBoundsOK ==
    /\ \A c \in Loggers : held[c] <= size /\ mine[c] <= size /\ seenSize[c] <= size
    /\ \A p \in Audit!Processes : cachedHash[p] <= size
    /\ Audit!NamesEarlier

\* A call that met nobody: all others are idle, the log is as long as it saw it, and
\* from the time it has read the last hash it holds that.
AuditAloneOK ==
    \A c \in Loggers : Audit!Busy(c) /\ c \notin met =>
        /\ \A b \in Loggers : Audit!Busy(b) => b = c
        /\ call[c] \in {"read", "store", "stored"} => seenSize[c] = size
        /\ call[c] \in {"store", "stored"} => held[c] = size
        /\ call[c] = "append" /\ Process[c] \notin doubtful => held[c] = size
        /\ call[c] \in {"hash", "size"} => mine[c] = size
        /\ call[c] \in {"stored", "size"} => cachedHash[Process[c]] = size

\* A call that is between its two stores, or about to store a hash of its own.
AuditCaching(c) == call[c] \in {"stored", "size"}
\* The cached hash belongs to the cached size, in a process whose last call was alone,
\* while no call of it meets another or is in the middle of storing.
AuditCacheOK ==
    \A p \in Audit!Processes :
        \/ p \in doubtful
        \/ \E c \in Loggers : Process[c] = p /\ Audit!Busy(c) /\ (c \in met \/ AuditCaching(c))
        \/ cachedHash[p] = Audit!NoHash \/ cachedHash[p] = cachedSize[p]

AuditMetBusy == \A c \in met : Audit!Busy(c)

AuditIInv == Audit!TypeOK /\ AuditBoundsOK /\ AuditAloneOK /\ AuditCacheOK /\ AuditMetBusy
    /\ Audit!ForkNeedsOverlap

LEMMA AuditNextTypes ==
  ASSUME Audit!ConstantsOK, AuditIInv, [Audit!Next]_(Audit!vars)
  PROVE Audit!TypeOK' /\ AuditBoundsOK'
  <1> USE DEF AuditIInv, Audit!TypeOK, AuditBoundsOK, Audit!NamesEarlier, Audit!Goto,
      Audit!Processes, Audit!ConstantsOK, Audit!Entries, Audit!NoHash
  <1>p. \A c \in Loggers : Process[c] \in Audit!Processes OBVIOUS
  <1>0. CASE UNCHANGED Audit!vars BY <1>0 DEF Audit!vars
  <1>1. ASSUME NEW c \in Loggers, Audit!Start(c) PROVE Audit!TypeOK' /\ AuditBoundsOK'
    <2>1. met' \subseteq Loggers BY <1>1 DEF Audit!Start
    <2>2. held' \in [Loggers -> Audit!Entries] /\ \A b \in Loggers : held'[b] <= size
      <3>1. CASE Audit!CacheHolds(Process[c]) /\ held' = [held EXCEPT ![c] = cachedHash[Process[c]]]
        <4>1. cachedHash[Process[c]] \in Audit!Entries /\ cachedHash[Process[c]] <= size
          BY <3>1, <1>p DEF Audit!CacheHolds
        <4> QED BY <3>1, <4>1
      <3>2. CASE UNCHANGED held BY <3>2
      <3> QED BY <1>1, <3>1, <3>2 DEF Audit!Start
    <2>3. call' \in [Loggers -> {"idle", "read", "store", "stored", "append", "hash", "size"}]
      BY <1>1 DEF Audit!Start
    <2>4. seenSize' \in [Loggers -> Audit!Entries] /\ \A b \in Loggers : seenSize'[b] <= size
      BY <1>1 DEF Audit!Start
    <2>5. UNCHANGED <<size, names, cachedHash, cachedSize, mine, doubtful, excused>>
      BY <1>1 DEF Audit!Start
    <2>6. Audit!TypeOK' BY <2>1, <2>2, <2>3, <2>4, <2>5
    <2>7. AuditBoundsOK' BY <2>2, <2>4, <2>5
    <2> QED BY <2>6, <2>7
  <1>2. ASSUME NEW c \in Loggers, Audit!ReadTail(c) PROVE Audit!TypeOK' /\ AuditBoundsOK'
    <2>1. held' \in [Loggers -> Audit!Entries] /\ \A b \in Loggers : held'[b] <= size
      BY <1>2 DEF Audit!ReadTail
    <2>2. call' \in [Loggers -> {"idle", "read", "store", "stored", "append", "hash", "size"}]
      BY <1>2 DEF Audit!ReadTail
    <2>3. UNCHANGED <<size, names, cachedHash, cachedSize, seenSize, mine, met, doubtful, excused>>
      BY <1>2 DEF Audit!ReadTail
    <2>4. Audit!TypeOK' BY <2>1, <2>2, <2>3
    <2>5. AuditBoundsOK' BY <2>1, <2>3
    <2> QED BY <2>4, <2>5
  <1>3. ASSUME NEW c \in Loggers, Audit!Store(c) PROVE Audit!TypeOK' /\ AuditBoundsOK'
    BY <1>3, <1>p DEF Audit!Store
  <1>4. ASSUME NEW c \in Loggers, Audit!StoreSize(c) PROVE Audit!TypeOK' /\ AuditBoundsOK'
    BY <1>4, <1>p DEF Audit!StoreSize
  <1>5. ASSUME NEW c \in Loggers, Audit!Append(c) PROVE Audit!TypeOK' /\ AuditBoundsOK'
    <2>1. size' = size + 1 /\ size' \in Audit!Entries /\ size + 1 \in 1..MaxEntries
      BY <1>5 DEF Audit!Append
    <2>2. names' = [names EXCEPT ![size + 1] = held[c]] /\ held[c] \in Audit!Entries
          /\ held[c] < size + 1
      BY <1>5 DEF Audit!Append
    <2>3. names' \in [1..MaxEntries -> Audit!Entries] BY <2>1, <2>2
    <2>4. \A i \in 1..size' : names'[i] < i
      <3>1. \A i \in 1..size : names[i] < i OBVIOUS
      <3> QED BY <2>1, <2>2, <3>1
    <2>5. held' \in [Loggers -> Audit!Entries] /\ seenSize' \in [Loggers -> Audit!Entries]
          /\ mine' \in [Loggers -> Audit!Entries]
      BY <1>5, <2>1 DEF Audit!Append
    <2>6. \A b \in Loggers : held'[b] <= size' /\ mine'[b] <= size' /\ seenSize'[b] <= size'
      <3>1. size \in Nat BY <2>1
      <3>2. ASSUME NEW b \in Loggers
            PROVE held'[b] <= size' /\ mine'[b] <= size' /\ seenSize'[b] <= size'
        <4>1. held[b] \in Nat /\ held[b] <= size /\ mine[b] \in Nat /\ mine[b] <= size
              /\ seenSize[b] \in Nat /\ seenSize[b] <= size OBVIOUS
        <4>2. held'[b] \in {0, held[b]} /\ mine'[b] \in {size + 1, mine[b]}
              /\ seenSize'[b] \in {0, seenSize[b]}
          BY <1>5 DEF Audit!Append
        <4> HIDE DEF AuditIInv, Audit!TypeOK, AuditBoundsOK
        <4> QED BY <2>1, <3>1, <4>1, <4>2
      <3> QED BY <3>2
    <2>7. \A p \in Audit!Processes : cachedHash'[p] <= size'
      <3>1. \A p \in Audit!Processes : cachedHash[p] \in Audit!Entries \cup {Audit!NoHash}
            /\ cachedHash[p] <= size OBVIOUS
      <3>2. cachedHash' = cachedHash BY <1>5 DEF Audit!Append
      <3>3. size \in Int /\ size' = size + 1 BY <2>1
      <3> HIDE DEF AuditIInv, Audit!Processes
      <3>4. \A p \in Audit!Processes : cachedHash[p] \in Int BY <3>1
      <3> QED BY <3>1, <3>2, <3>3, <3>4
    <2>8. excused' \subseteq 1..MaxEntries BY <1>5, <2>1 DEF Audit!Append
    <2> QED BY <1>5, <2>1, <2>3, <2>4, <2>5, <2>6, <2>7, <2>8 DEF Audit!Append
  <1>6. ASSUME NEW c \in Loggers, Audit!CacheHash(c) PROVE Audit!TypeOK' /\ AuditBoundsOK'
    <2>1. mine[c] \in Audit!Entries /\ mine[c] <= size
          /\ cachedHash' = [cachedHash EXCEPT ![Process[c]] = mine[c]]
      BY <1>6 DEF Audit!CacheHash
    <2>2. cachedHash' \in [Audit!Processes -> Audit!Entries \cup {Audit!NoHash}]
          /\ \A p \in Audit!Processes : cachedHash'[p] <= size
      BY <2>1, <1>p
    <2>3. call' \in [Loggers -> {"idle", "read", "store", "stored", "append", "hash", "size"}]
      BY <1>6 DEF Audit!CacheHash
    <2>4. UNCHANGED <<size, names, cachedSize, held, seenSize, mine, met, doubtful, excused>>
      BY <1>6 DEF Audit!CacheHash
    <2> QED BY <2>2, <2>3, <2>4
  <1>7. ASSUME NEW c \in Loggers, Audit!CacheSize(c) PROVE Audit!TypeOK' /\ AuditBoundsOK'
    <2>1. cachedSize' \in [Audit!Processes -> Audit!Entries] BY <1>7, <1>p DEF Audit!CacheSize
    <2>2. mine' \in [Loggers -> Audit!Entries] /\ \A b \in Loggers : mine'[b] <= size
      BY <1>7 DEF Audit!CacheSize
    <2>3. call' \in [Loggers -> {"idle", "read", "store", "stored", "append", "hash", "size"}]
      BY <1>7 DEF Audit!CacheSize
    <2>4. met' \subseteq Loggers /\ doubtful' \subseteq Audit!Processes
      BY <1>7, <1>p DEF Audit!CacheSize
    <2>5. UNCHANGED <<size, names, cachedHash, held, seenSize, excused>> BY <1>7 DEF Audit!CacheSize
    <2> QED BY <2>1, <2>2, <2>3, <2>4, <2>5
  <1>8. ASSUME NEW p \in Audit!Processes, Audit!Restart(p) PROVE Audit!TypeOK' /\ AuditBoundsOK'
    <2>1. 0 \in Audit!Entries /\ 0 <= size /\ -1 <= size OBVIOUS
    <2>2. cachedHash' \in [Audit!Processes -> Audit!Entries \cup {Audit!NoHash}]
          /\ cachedSize' \in [Audit!Processes -> Audit!Entries]
          /\ \A q \in Audit!Processes : cachedHash'[q] <= size
      BY <1>8, <2>1 DEF Audit!Restart
    <2>3. held' \in [Loggers -> Audit!Entries] /\ seenSize' \in [Loggers -> Audit!Entries]
          /\ mine' \in [Loggers -> Audit!Entries]
          /\ \A b \in Loggers : held'[b] <= size /\ mine'[b] <= size /\ seenSize'[b] <= size
      BY <1>8, <2>1 DEF Audit!Restart
    <2>4. call' \in [Loggers -> {"idle", "read", "store", "stored", "append", "hash", "size"}]
      BY <1>8 DEF Audit!Restart
    <2>5. met' \subseteq Loggers /\ doubtful' \subseteq Audit!Processes
          /\ UNCHANGED <<size, names, excused>>
      BY <1>8 DEF Audit!Restart
    <2> QED BY <2>2, <2>3, <2>4, <2>5
  <1> QED BY <1>0, <1>1, <1>2, <1>3, <1>4, <1>5, <1>6, <1>7, <1>8 DEF Audit!Next

\* What the steps of one call leave alone.
LEMMA AuditNextAlone ==
  ASSUME Audit!ConstantsOK, AuditIInv, [Audit!Next]_(Audit!vars)
  PROVE AuditAloneOK' /\ AuditMetBusy'
  <1> USE DEF AuditIInv, AuditAloneOK, AuditMetBusy, Audit!TypeOK, AuditBoundsOK, Audit!Busy,
      Audit!Goto
  <1>p. \A c \in Loggers : Process[c] \in Audit!Processes BY DEF Audit!Processes, Audit!ConstantsOK
  <1>0. CASE UNCHANGED Audit!vars BY <1>0 DEF Audit!vars
  <1>1. ASSUME NEW c \in Loggers, Audit!Start(c) PROVE AuditAloneOK' /\ AuditMetBusy'
    <2> DEFINE others == {b \in Loggers : b # c /\ Audit!Busy(b)}
    <2>1. /\ call[c] = "idle" /\ call'[c] \in {"store", "append", "read"}
          /\ \A b \in Loggers : b # c => call'[b] = call[b] /\ held'[b] = held[b]
             /\ seenSize'[b] = seenSize[b]
          /\ seenSize'[c] = size
          /\ UNCHANGED <<size, names, cachedHash, cachedSize, mine, doubtful, excused>>
      BY <1>1 DEF Audit!Start
    <2>2. met' = IF others = {} THEN met ELSE met \cup others \cup {c} BY <1>1 DEF Audit!Start
    <2>3. CASE others = {}
      <3>1. \A b \in Loggers : Audit!Busy(b)' => b = c BY <2>1, <2>3
      <3>2. met' = met BY <2>2, <2>3
      <3>3. call'[c] = "store" => held'[c] = size
        <4> SUFFICES ASSUME call'[c] = "store" PROVE held'[c] = size OBVIOUS
        <4>1. size = 0 /\ held' = held BY <1>1 DEF Audit!Start
        <4> QED BY <4>1 DEF Audit!Entries
      <3>4. call'[c] = "append" /\ Process[c] \notin doubtful => held'[c] = size
        <4> SUFFICES ASSUME call'[c] = "append", Process[c] \notin doubtful
                     PROVE held'[c] = size OBVIOUS
        <4>1. Audit!CacheHolds(Process[c]) /\ held' = [held EXCEPT ![c] = cachedHash[Process[c]]]
          BY <1>1 DEF Audit!Start
        <4>2. \A b \in Loggers : ~Audit!Busy(b) BY <2>1, <2>3
        <4>3. cachedHash[Process[c]] = cachedSize[Process[c]]
          BY <1>p, <4>1, <4>2 DEF AuditCacheOK, Audit!CacheHolds
        <4> QED BY <4>1, <4>3 DEF Audit!CacheHolds
      <3>5. AuditMetBusy' BY <2>1, <3>2
      <3> QED BY <2>1, <3>1, <3>2, <3>3, <3>4, <3>5
    <2>4. CASE others # {}
      <3>1. met' = met \cup others \cup {c} BY <2>2, <2>4
      <3>2. \A b \in Loggers : Audit!Busy(b)' => b \in met' BY <2>1, <3>1
      <3>3. AuditMetBusy' BY <2>1, <3>1
      <3> QED BY <3>2, <3>3
    <2> QED BY <2>3, <2>4
  \* A step of a call in the middle: if it is not met, it is the only one.
  <1>s. ASSUME NEW c \in Loggers, call[c] # "idle", \A b \in Loggers : b # c
               => call'[b] = call[b], met' = met,
               call'[c] # "idle",
               c \notin met =>
                    /\ call'[c] \in {"read", "store", "stored"} => seenSize'[c] = size'
                    /\ call'[c] \in {"store", "stored"} => held'[c] = size'
                    /\ call'[c] = "append" /\ Process[c] \notin doubtful' => held'[c] = size'
                    /\ call'[c] \in {"hash", "size"} => mine'[c] = size'
                    /\ call'[c] \in {"stored", "size"} => cachedHash'[Process[c]] = size'
        PROVE  AuditAloneOK' /\ AuditMetBusy'
    <2>1. \A b \in Loggers : Audit!Busy(b)' <=> Audit!Busy(b) BY <1>s
    <2>2. ASSUME NEW b \in Loggers, Audit!Busy(b)', b \notin met PROVE b = c BY <1>s, <2>1, <2>2
    <2>3. AuditMetBusy' BY <1>s, <2>1
    <2> QED BY <1>s, <2>1, <2>2, <2>3
  <1>2. ASSUME NEW c \in Loggers, Audit!ReadTail(c) PROVE AuditAloneOK' /\ AuditMetBusy'
    <2>1. /\ call[c] = "read" /\ call'[c] = "store" /\ held'[c] = size /\ met' = met
          /\ \A b \in Loggers : b # c => call'[b] = call[b]
          /\ UNCHANGED <<size, cachedHash, seenSize>>
      BY <1>2 DEF Audit!ReadTail
    <2> QED BY <1>s, <2>1
  <1>3. ASSUME NEW c \in Loggers, Audit!Store(c) PROVE AuditAloneOK' /\ AuditMetBusy'
    <2>1. /\ call[c] = "store" /\ call'[c] = "stored" /\ cachedHash'[Process[c]] = held[c]
             /\ met' = met
          /\ \A b \in Loggers : b # c => call'[b] = call[b]
          /\ UNCHANGED <<size, held, seenSize>>
      BY <1>3, <1>p DEF Audit!Store
    <2> QED BY <1>s, <2>1
  <1>4. ASSUME NEW c \in Loggers, Audit!StoreSize(c) PROVE AuditAloneOK' /\ AuditMetBusy'
    <2>1. /\ call[c] = "stored" /\ call'[c] = "append" /\ met' = met
          /\ \A b \in Loggers : b # c => call'[b] = call[b]
          /\ UNCHANGED <<size, held, seenSize>>
      BY <1>4 DEF Audit!StoreSize
    <2> QED BY <1>s, <2>1
  <1>5. ASSUME NEW c \in Loggers, Audit!Append(c) PROVE AuditAloneOK' /\ AuditMetBusy'
    <2>1. /\ call[c] = "append" /\ call'[c] = "hash" /\ mine'[c] = size' /\ met' = met
          /\ \A b \in Loggers : b # c => call'[b] = call[b]
      BY <1>5 DEF Audit!Append
    <2> QED BY <1>s, <2>1
  <1>6. ASSUME NEW c \in Loggers, Audit!CacheHash(c) PROVE AuditAloneOK' /\ AuditMetBusy'
    <2>1. /\ call[c] = "hash" /\ call'[c] = "size" /\ cachedHash'[Process[c]] = mine[c]
             /\ met' = met
          /\ \A b \in Loggers : b # c => call'[b] = call[b]
          /\ UNCHANGED <<size, mine>>
      BY <1>6, <1>p DEF Audit!CacheHash
    <2> QED BY <1>s, <2>1
  <1>7. ASSUME NEW c \in Loggers, Audit!CacheSize(c) PROVE AuditAloneOK' /\ AuditMetBusy'
    <2>1. /\ call[c] = "size" /\ call'[c] = "idle" /\ met' = met \ {c}
          /\ \A b \in Loggers : b # c => call'[b] = call[b]
      BY <1>7 DEF Audit!CacheSize
    <2>2. ASSUME NEW b \in Loggers, Audit!Busy(b)' PROVE Audit!Busy(b) /\ b # c BY <2>1, <2>2
    <2>3. ASSUME NEW b \in Loggers, Audit!Busy(b)' PROVE b \in met'
      <3>1. Audit!Busy(b) /\ b # c /\ Audit!Busy(c) BY <2>1, <2>2, <2>3
      <3> QED BY <2>1, <3>1
    <2>4. AuditMetBusy' BY <2>1
    <2> QED BY <2>3, <2>4
  <1>8. ASSUME NEW p \in Audit!Processes, Audit!Restart(p) PROVE AuditAloneOK' /\ AuditMetBusy'
    <2>1. /\ \A c \in Loggers : Process[c] = p => call'[c] = "idle"
          /\ \A c \in Loggers : Process[c] # p =>
                call'[c] = call[c] /\ held'[c] = held[c] /\ seenSize'[c] = seenSize[c]
                    /\ mine'[c] = mine[c]
          /\ \A q \in Audit!Processes : q # p => cachedHash'[q] = cachedHash[q]
             /\ (q \in doubtful' <=> q \in doubtful)
          /\ met' = {c \in met : Process[c] # p} /\ size' = size
      BY <1>8 DEF Audit!Restart
    <2>2. AuditMetBusy' BY <2>1
    <2>3. ASSUME NEW c \in Loggers, Audit!Busy(c)', c \notin met'
          PROVE Process[c] # p /\ Audit!Busy(c) /\ c \notin met
      BY <2>1, <2>3
    <2> QED BY <1>p, <2>1, <2>2, <2>3
  <1> QED BY <1>0, <1>1, <1>2, <1>3, <1>4, <1>5, <1>6, <1>7, <1>8 DEF Audit!Next

LEMMA AuditNextCache ==
  ASSUME Audit!ConstantsOK, AuditIInv, [Audit!Next]_(Audit!vars) PROVE AuditCacheOK'
  <1> USE DEF AuditIInv, Audit!TypeOK, Audit!Busy, Audit!Goto, AuditCaching
  <1>p. \A c \in Loggers : Process[c] \in Audit!Processes BY DEF Audit!Processes, Audit!ConstantsOK
  <1>k. AuditCacheOK OBVIOUS
  <1>0. CASE UNCHANGED Audit!vars BY <1>0 DEF Audit!vars, AuditCacheOK
  \* Nothing of the cache changes, and whoever was in the way still is.
  <1>s. ASSUME NEW c \in Loggers, \A b \in Loggers : b # c => call'[b] = call[b],
               call[c] # "idle" => call'[c] # "idle", met \subseteq met', ~AuditCaching(c)
                   \/ c \in met,
               UNCHANGED <<cachedHash, cachedSize, doubtful>>
        PROVE  AuditCacheOK'
    BY <1>s, <1>k DEF AuditCacheOK
  <1>1. ASSUME NEW c \in Loggers, Audit!Start(c) PROVE AuditCacheOK'
    <2>1. call[c] = "idle" /\ met \subseteq met' /\ UNCHANGED <<cachedHash, cachedSize, doubtful>>
      BY <1>1 DEF Audit!Start
    <2>2. \A b \in Loggers : b # c => call'[b] = call[b] BY <1>1 DEF Audit!Start
    <2> QED BY <1>s, <2>1, <2>2
  <1>2. ASSUME NEW c \in Loggers, Audit!ReadTail(c) PROVE AuditCacheOK'
    BY <1>2, <1>s DEF Audit!ReadTail
  \* The cache of the call's own process; those of the others stay.
  <1>o. ASSUME NEW c \in Loggers, \A b \in Loggers : b # c => call'[b] = call[b]
               /\ (b \in met' <=> b \in met),
               \A q \in Audit!Processes : q # Process[c] =>
                   cachedHash'[q] = cachedHash[q] /\ cachedSize'[q] = cachedSize[q]
                   /\ (q \in doubtful' <=> q \in doubtful),
               \/ Process[c] \in doubtful'
               \/ call'[c] # "idle" /\ AuditCaching(c)'
               \/ cachedHash'[Process[c]] = cachedSize'[Process[c]]
               \/ call'[c] # "idle" /\ c \in met'
        PROVE  AuditCacheOK'
    <2> SUFFICES ASSUME NEW p \in Audit!Processes
                 PROVE  \/ p \in doubtful'
                        \/ \E b \in Loggers : Process[b] = p /\ Audit!Busy(b)'
                           /\ (b \in met' \/ AuditCaching(b)')
                        \/ cachedHash'[p] = Audit!NoHash \/ cachedHash'[p] = cachedSize'[p]
      BY DEF AuditCacheOK
    <2>1. CASE p = Process[c] BY <1>o, <2>1
    <2>2. CASE p # Process[c] BY <1>o, <1>k, <2>2 DEF AuditCacheOK
    <2> QED BY <2>1, <2>2
  <1>3. ASSUME NEW c \in Loggers, Audit!Store(c) PROVE AuditCacheOK'
    <2>1. /\ call'[c] = "stored" /\ UNCHANGED <<cachedSize, met, doubtful>>
          /\ \A b \in Loggers : b # c => call'[b] = call[b]
          /\ \A q \in Audit!Processes : q # Process[c] => cachedHash'[q] = cachedHash[q]
      BY <1>3, <1>p DEF Audit!Store
    <2> QED BY <1>o, <2>1
  <1>4. ASSUME NEW c \in Loggers, Audit!StoreSize(c) PROVE AuditCacheOK'
    <2>1. /\ call[c] = "stored" /\ call'[c] = "append" /\ UNCHANGED <<cachedHash, met, doubtful>>
          /\ \A b \in Loggers : b # c => call'[b] = call[b]
          /\ \A q \in Audit!Processes : q # Process[c] => cachedSize'[q] = cachedSize[q]
          /\ cachedSize'[Process[c]] = seenSize[c]
      BY <1>4, <1>p DEF Audit!StoreSize
    <2>2. c \notin met => cachedHash[Process[c]] = size /\ seenSize[c] = size
      BY <2>1 DEF AuditAloneOK
    <2> QED BY <1>o, <2>1, <2>2
  <1>5. ASSUME NEW c \in Loggers, Audit!Append(c) PROVE AuditCacheOK' BY <1>5, <1>s DEF Audit!Append
  <1>6. ASSUME NEW c \in Loggers, Audit!CacheHash(c) PROVE AuditCacheOK'
    <2>1. /\ call'[c] = "size" /\ UNCHANGED <<cachedSize, met, doubtful>>
          /\ \A b \in Loggers : b # c => call'[b] = call[b]
          /\ \A q \in Audit!Processes : q # Process[c] => cachedHash'[q] = cachedHash[q]
      BY <1>6, <1>p DEF Audit!CacheHash
    <2> QED BY <1>o, <2>1
  <1>7. ASSUME NEW c \in Loggers, Audit!CacheSize(c) PROVE AuditCacheOK'
    <2>1. /\ call[c] = "size" /\ UNCHANGED <<cachedHash, size>>
          /\ \A b \in Loggers : b # c => call'[b] = call[b] /\ (b \in met' <=> b \in met)
          /\ \A q \in Audit!Processes : q # Process[c] => cachedSize'[q] = cachedSize[q]
             /\ (q \in doubtful' <=> q \in doubtful)
          /\ cachedSize'[Process[c]] = size
          /\ c \in met => Process[c] \in doubtful'
      BY <1>7, <1>p DEF Audit!CacheSize
    <2>2. c \notin met => cachedHash[Process[c]] = size BY <2>1 DEF AuditAloneOK
    <2> QED BY <1>o, <2>1, <2>2
  <1>8. ASSUME NEW p \in Audit!Processes, Audit!Restart(p) PROVE AuditCacheOK'
    <2>1. /\ \A b \in Loggers : Process[b] # p => call'[b] = call[b] /\ (b \in met' <=> b \in met)
          /\ \A q \in Audit!Processes : q # p => cachedHash'[q] = cachedHash[q]
             /\ cachedSize'[q] = cachedSize[q]
                                           /\ (q \in doubtful' <=> q \in doubtful)
          /\ cachedHash'[p] = Audit!NoHash
      BY <1>8 DEF Audit!Restart
    <2> QED BY <2>1, <1>k DEF AuditCacheOK
  <1> QED BY <1>0, <1>1, <1>2, <1>3, <1>4, <1>5, <1>6, <1>7, <1>8 DEF Audit!Next

LEMMA AuditNextFork ==
  ASSUME Audit!ConstantsOK, AuditIInv, [Audit!Next]_(Audit!vars) PROVE Audit!ForkNeedsOverlap'
  <1> USE DEF AuditIInv, Audit!ForkNeedsOverlap, Audit!TypeOK, Audit!Entries
  <1>1. ASSUME NEW c \in Loggers, Audit!Append(c) PROVE Audit!ForkNeedsOverlap'
    <2>1. size' = size + 1 /\ names' = [names EXCEPT ![size + 1] = held[c]] /\ call[c] = "append"
      BY <1>1 DEF Audit!Append
    <2>2. CASE c \in met \/ Process[c] \in doubtful
      <3>1. excused' = excused \cup {size + 1} BY <1>1, <2>2 DEF Audit!Append
      <3> QED BY <2>1, <3>1
    <2>3. CASE ~(c \in met \/ Process[c] \in doubtful)
      <3>1. excused' = excused BY <1>1, <2>3 DEF Audit!Append
      <3>2. held[c] = size BY <2>1, <2>3 DEF AuditAloneOK, Audit!Busy
      <3>3. size + 1 \in 1..MaxEntries BY <1>1 DEF Audit!Append, Audit!ConstantsOK
      <3>4. names'[size + 1] = size BY <2>1, <3>2, <3>3
      <3>5. \A i \in 1..size : names'[i] = names[i] BY <2>1, <3>3
      <3> QED BY <2>1, <3>1, <3>4, <3>5
    <2> QED BY <2>2, <2>3
  <1>2. ASSUME NEW c \in Loggers,
               Audit!Start(c) \/ Audit!ReadTail(c) \/ Audit!Store(c) \/ Audit!StoreSize(c)
                   \/ Audit!CacheHash(c) \/ Audit!CacheSize(c)
        PROVE  Audit!ForkNeedsOverlap'
    <2>1. UNCHANGED <<size, names, excused>>
      BY <1>2 DEF Audit!Start, Audit!ReadTail, Audit!Store, Audit!StoreSize, Audit!CacheHash,
          Audit!CacheSize
    <2> QED BY <2>1
  <1>3. ASSUME NEW p \in Audit!Processes, Audit!Restart(p) PROVE Audit!ForkNeedsOverlap'
    BY <1>3 DEF Audit!Restart
  <1>4. CASE UNCHANGED Audit!vars BY <1>4 DEF Audit!vars
  <1> QED BY <1>1, <1>2, <1>3, <1>4 DEF Audit!Next

LEMMA AuditIInvHolds == ASSUME Audit!ConstantsOK PROVE Audit!Spec => []AuditIInv
  <1>1. Audit!Init => AuditIInv
    <2> SUFFICES ASSUME Audit!Init PROVE AuditIInv OBVIOUS
    <2>1. 0 \in Audit!Entries BY DEF Audit!Entries, Audit!ConstantsOK
    <2>2. Audit!TypeOK BY <2>1 DEF Audit!Init, Audit!TypeOK
    <2>3. AuditBoundsOK BY DEF Audit!Init, AuditBoundsOK, Audit!NamesEarlier, Audit!NoHash
    <2>4. AuditAloneOK /\ AuditMetBusy /\ AuditCacheOK /\ Audit!ForkNeedsOverlap
      BY DEF Audit!Init, AuditAloneOK, Audit!Busy, AuditMetBusy, AuditCacheOK,
          Audit!ForkNeedsOverlap
    <2> QED BY <2>2, <2>3, <2>4 DEF AuditIInv
  <1>2. AuditIInv /\ [Audit!Next]_(Audit!vars) => AuditIInv'
    BY AuditNextTypes, AuditNextAlone, AuditNextCache, AuditNextFork DEF AuditIInv
  <1> QED BY <1>1, <1>2, PTL DEF Audit!Spec

LEMMA AuditChainStands == AuditIInv => Audit!ForkNeedsOverlap /\ Audit!NamesEarlier
  BY DEF AuditIInv, AuditBoundsOK

-----------------------------------------------------------------------------
(* Release slots *)

\* A release that may be in charge.
ReleasesGood(r) == r \in {Releases!NoRelease, 0} \cup checked \cup accidents
ReleasesNotBehind(r) == running # Releases!NoRelease /\ r # Releases!NoRelease => r >= running

\* A run installs a version that is newer than the one that started it, ...
ReleasesRunOK ==
    /\ runStage # "idle" => target \in Releases!Published /\ running # Releases!NoRelease
       /\ target > running
    /\ runStage \notin {"idle", "cleared"} => dir[target] = "complete"

\* ... and until its health check has spoken it can go back to a good release.
ReleasesChargeOK ==
    /\ runStage \notin {"switched", "unhealthy"} => ReleasesGood(current)
    /\ runStage \in {"switched", "unhealthy"} => current = target /\ ReleasesGood(before)
       /\ ReleasesNotBehind(before)
    /\ runStage = "saved" => before = current

ReleasesIInv == Releases!TypeOK /\ ReleasesRunOK /\ ReleasesChargeOK /\ Releases!NeverOlder
LEMMA ReleasesInitIInv == ASSUME Releases!ConstantsOK, Releases!Init PROVE ReleasesIInv
  <1>1. Releases!TypeOK
    BY DEF Releases!ConstantsOK, Releases!Init, Releases!TypeOK, Releases!Versions,
        Releases!Published, Releases!NoRelease
  <1>2. ReleasesRunOK BY DEF Releases!Init, ReleasesRunOK
  <1>3. ReleasesChargeOK BY DEF Releases!Init, ReleasesChargeOK, ReleasesGood
  <1>4. Releases!NeverOlder BY DEF Releases!Init, Releases!NeverOlder, Releases!NoRelease
  <1> QED BY <1>1, <1>2, <1>3, <1>4 DEF ReleasesIInv

\* Every step keeps the types.
LEMMA ReleasesNextTypes ==
  ASSUME Releases!ConstantsOK, ReleasesIInv, [Releases!Next]_(Releases!vars) PROVE Releases!TypeOK'
  <1> USE DEF ReleasesIInv, Releases!TypeOK, Releases!ConstantsOK, Releases!Versions,
      Releases!Published, Releases!NoRelease
  <1>1. ASSUME NEW v \in Releases!Published, Releases!Clear(v) PROVE Releases!TypeOK'
    BY <1>1 DEF Releases!Clear
  <1>2. CASE Releases!Unpack BY <1>2 DEF Releases!Unpack
  <1>3. CASE Releases!UnpackFails BY <1>3 DEF Releases!UnpackFails
  <1>4. CASE Releases!LinkCandidate BY <1>4 DEF Releases!LinkCandidate, ReleasesRunOK
  <1>5. CASE Releases!SavePrevious BY <1>5 DEF Releases!SavePrevious
  <1>6. CASE Releases!Switch BY <1>6 DEF Releases!Switch, ReleasesRunOK
  <1>7. CASE Releases!Healthy BY <1>7 DEF Releases!Healthy, ReleasesRunOK
  <1>8. CASE Releases!Unhealthy BY <1>8 DEF Releases!Unhealthy
  <1>9. CASE Releases!SwitchBack BY <1>9 DEF Releases!SwitchBack, ReleasesRunOK
  <1>10. CASE Releases!Restart BY <1>10 DEF Releases!Restart, ReleasesRunOK
  <1>11. CASE UNCHANGED Releases!vars BY <1>11 DEF Releases!vars
  <1> QED BY <1>1, <1>2, <1>3, <1>4, <1>5, <1>6, <1>7, <1>8, <1>9, <1>10, <1>11 DEF Releases!Next

\* What current and the files of a release go through: one case per action.
LEMMA ReleasesNextCharge ==
  ASSUME Releases!ConstantsOK, ReleasesIInv, [Releases!Next]_(Releases!vars)
  PROVE ReleasesRunOK' /\ ReleasesChargeOK' /\ Releases!NeverOlder'
  <1> USE DEF ReleasesIInv, Releases!TypeOK, Releases!ConstantsOK, Releases!Versions,
      Releases!Published, Releases!NoRelease, ReleasesRunOK, ReleasesChargeOK, Releases!NeverOlder,
      ReleasesGood, ReleasesNotBehind
  <1>1. ASSUME NEW v \in Releases!Published, Releases!Clear(v)
        PROVE ReleasesRunOK' /\ ReleasesChargeOK' /\ Releases!NeverOlder'
    <2>1. runStage = "idle" /\ runStage' = "cleared" /\ target' = v /\ v > running
          /\ running # Releases!NoRelease
      BY <1>1 DEF Releases!Clear, Releases!Newer
    <2>2. UNCHANGED <<current, running, before>> BY <1>1 DEF Releases!Clear
    <2>3. ReleasesRunOK' BY <2>1, <2>2
    <2>4. ReleasesChargeOK' BY <1>1, <2>1, <2>2 DEF Releases!Clear
    <2>5. Releases!NeverOlder' BY <1>1, <2>2 DEF Releases!Clear
    <2> QED BY <2>3, <2>4, <2>5
  <1>2. CASE Releases!Unpack BY <1>2 DEF Releases!Unpack
  <1>3. CASE Releases!UnpackFails BY <1>3 DEF Releases!UnpackFails
  <1>4. CASE Releases!LinkCandidate BY <1>4 DEF Releases!LinkCandidate
  <1>5. CASE Releases!SavePrevious BY <1>5 DEF Releases!SavePrevious
  <1>6. CASE Releases!Switch BY <1>6 DEF Releases!Switch
  <1>7. CASE Releases!Healthy BY <1>7 DEF Releases!Healthy
  <1>8. CASE Releases!Unhealthy BY <1>8 DEF Releases!Unhealthy
  <1>9. CASE Releases!SwitchBack BY <1>9 DEF Releases!SwitchBack
  <1>10. CASE Releases!Restart BY <1>10 DEF Releases!Restart
  <1>11. CASE UNCHANGED Releases!vars BY <1>11 DEF Releases!vars
  <1> QED BY <1>1, <1>2, <1>3, <1>4, <1>5, <1>6, <1>7, <1>8, <1>9, <1>10, <1>11 DEF Releases!Next

LEMMA ReleasesIInvHolds == ASSUME Releases!ConstantsOK PROVE Releases!Spec => []ReleasesIInv
  <1>1. Releases!Init => ReleasesIInv BY ReleasesInitIInv
  <1>2. ReleasesIInv /\ [Releases!Next]_(Releases!vars) => ReleasesIInv'
    BY ReleasesNextTypes, ReleasesNextCharge DEF ReleasesIInv
  <1> QED BY <1>1, <1>2, PTL DEF Releases!Spec

LEMMA ReleasesCurrentIsGood ==
  ASSUME Releases!ConstantsOK, ReleasesIInv PROVE Releases!CurrentIsChecked /\ Releases!NeverOlder
  BY DEF ReleasesIInv, ReleasesChargeOK, ReleasesGood, Releases!CurrentIsChecked

-----------------------------------------------------------------------------
(* Upgrade proposals *)

\* The instance has the finite sets of this module.
LEMMA UpgradeSameSets == ASSUME NEW S
  PROVE (Upgrade!IsFiniteSet(S) <=> IsFiniteSet(S)) /\ Upgrade!Cardinality(S) = Cardinality(S)
  BY Zenon DEF Upgrade!IsFiniteSet, IsFiniteSet, Upgrade!Cardinality, Cardinality

\* What is acknowledged was decided, and whoever removes a file has written another.
UpgradeKeptOK ==
    /\ answers \subseteq decided
    /\ \A c \in Reviews : operation[c] \in {"removing", "reviewing"} => c \in decided
    /\ Upgrade!DecisionKept

\* A canary anywhere, in a file, in a copy or in the channel, is after passed tests.
UpgradeTested(written) == written.state = "CANARY" => written.checks = "ok" /\ canary
UpgradeCanaryOK ==
    /\ canary => \E c \in Evaluations : tests[c] = "ok"
    /\ \A s \in Upgrade!Statuses : UpgradeTested(content[s])
    /\ \A c \in Upgrade!Calls : UpgradeTested(copy[c])
    /\ \A c \in Upgrade!Calls : operation[c] \in {"new", "testing"} => tests[c] = "none"

\* One file, which says what was decided.
UpgradeSettled(s) == files = {s} /\ (s # "pending" => content[s].human = s)
\* What a call that is alone has found and done.
UpgradeStage(c) ==
    /\ operation[c] \in {"testing", "tested", "saving", "moving"} =>
        /\ UpgradeSettled(copy[c].from)
        /\ copy[c].from # "pending" => copy[c].human = copy[c].from
    /\ operation[c] = "removing" => files = {copy[c].from, Decision[c]}
    /\ operation[c] = "reviewing" => files = {Decision[c]}
UpgradePlaces ==
    /\ \A c \in Upgrade!Calls : operation[c] \in {"moving", "removing", "reviewing"}
       => c \in Reviews
    /\ \A c \in Upgrade!Calls : operation[c] = "saving" => c \notin Reviews
UpgradeAloneOK ==
    ~overlapped =>
        /\ \A b, c \in Upgrade!Calls : Upgrade!Busy(b) /\ Upgrade!Busy(c) => b = c
        /\ (\A c \in Upgrade!Calls : ~Upgrade!Busy(c))
           => \E s \in Upgrade!Statuses : UpgradeSettled(s)
        /\ \A c \in Upgrade!Calls : UpgradeStage(c)

UpgradeIInv == Upgrade!TypeOK /\ UpgradeKeptOK /\ UpgradeCanaryOK /\ UpgradePlaces /\ UpgradeAloneOK

\* What an evaluation writes down is the content of a proposal.
LEMMA UpgradeConcluded ==
  ASSUME NEW written \in Upgrade!Contents, NEW goal \in Upgrade!States,
        NEW verdict \in {"none", "ok", "failed"}
  PROVE  [written EXCEPT !.state = goal, !.checks = verdict] \in Upgrade!Contents
  BY DEF Upgrade!Contents

\* The types, and which calls may be where.
LEMMA UpgradeNextTypes ==
  ASSUME Upgrade!ConstantsOK, UpgradeIInv, [Upgrade!Next]_(Upgrade!vars)
  PROVE Upgrade!TypeOK' /\ UpgradePlaces'
  <1> USE DEF UpgradeIInv, Upgrade!TypeOK, UpgradePlaces, Upgrade!Statuses, Upgrade!Contents,
      Upgrade!Goto, Upgrade!Calls
  <1>f. Upgrade!Fresh \in Upgrade!Contents BY DEF Upgrade!Fresh, Upgrade!States
  <1>0. CASE UNCHANGED Upgrade!vars BY <1>0 DEF Upgrade!vars
  <1>g. ASSUME NEW c \in Upgrade!Calls, NEW s \in Upgrade!Statuses, Upgrade!Get(c, s)
        PROVE copy' \in [Upgrade!Calls -> Upgrade!Contents] /\ overlapped' \in BOOLEAN
    <2>1. [content[s] EXCEPT !.from = s] \in Upgrade!Contents OBVIOUS
    <2> HIDE DEF Upgrade!Contents
    <2> QED BY <1>g, <2>1 DEF Upgrade!Get
  <1>1. ASSUME NEW c \in Generations, NEW s \in Upgrade!Statuses, Upgrade!Generate(c, s)
        PROVE Upgrade!TypeOK' /\ UpgradePlaces'
    <2>1. Upgrade!Get(c, s) BY <1>1 DEF Upgrade!Generate
    <2>2. copy' \in [Upgrade!Calls -> Upgrade!Contents] /\ overlapped' \in BOOLEAN BY <1>g, <2>1
    <2> HIDE DEF Upgrade!Contents
    <2> QED BY <1>1, <2>2 DEF Upgrade!Generate, Upgrade!ConstantsOK
  <1>2. ASSUME NEW c \in Evaluations, NEW s \in Upgrade!Statuses, Upgrade!Evaluate(c, s)
        PROVE Upgrade!TypeOK' /\ UpgradePlaces'
    <2>1. Upgrade!Get(c, s) BY <1>2 DEF Upgrade!Evaluate
    <2>2. copy' \in [Upgrade!Calls -> Upgrade!Contents] /\ overlapped' \in BOOLEAN BY <1>g, <2>1
    <2> HIDE DEF Upgrade!Contents
    <2> QED BY <1>2, <2>2 DEF Upgrade!Evaluate, Upgrade!ConstantsOK
  <1>3. ASSUME NEW c \in Reviews, NEW s \in Upgrade!Statuses, Upgrade!Review(c, s)
        PROVE Upgrade!TypeOK' /\ UpgradePlaces'
    <2>1. Upgrade!Get(c, s) BY <1>3 DEF Upgrade!Review
    <2>2. copy' \in [Upgrade!Calls -> Upgrade!Contents] /\ overlapped' \in BOOLEAN BY <1>g, <2>1
    <2> HIDE DEF Upgrade!Contents
    <2> QED BY <1>3, <2>2 DEF Upgrade!Review, Upgrade!ConstantsOK
  <1>w. ASSUME NEW s \in Upgrade!Statuses, NEW written \in Upgrade!Contents,
                 Upgrade!Write(s, written)
        PROVE  files' \subseteq Upgrade!Statuses
            /\ content' \in [Upgrade!Statuses -> Upgrade!Contents]
    <2>1. [written EXCEPT !.from = s] \in Upgrade!Contents OBVIOUS
    <2> HIDE DEF Upgrade!Contents
    <2> QED BY <1>w, <2>1 DEF Upgrade!Write
  <1>c. \A c \in Upgrade!Calls : copy[c].from \in Upgrade!Statuses
        /\ copy[c] \in Upgrade!Contents OBVIOUS
  <1>d. ASSUME NEW c \in Reviews
        PROVE Decision[c] \in Upgrade!Statuses /\ Decision[c] \in {"approved", "rejected"}
    BY DEF Upgrade!ConstantsOK
  <1>4. ASSUME NEW c \in Generations, Upgrade!SaveArtifact(c)
        PROVE Upgrade!TypeOK' /\ UpgradePlaces'
    <2>1. [copy[c] EXCEPT !.state = "ARTIFACT_GENERATED"] \in Upgrade!Contents BY DEF Upgrade!States
    <2>2. files' \subseteq Upgrade!Statuses /\ content' \in [Upgrade!Statuses -> Upgrade!Contents]
      BY <1>4, <1>w, <2>1, <1>c DEF Upgrade!SaveArtifact
    <2> HIDE DEF Upgrade!Contents
    <2> QED BY <1>4, <1>f, <2>2 DEF Upgrade!SaveArtifact, Upgrade!End
  <1>5. ASSUME NEW c \in Evaluations, NEW v \in {"ok", "failed"}, Upgrade!Test(c, v)
        PROVE Upgrade!TypeOK' /\ UpgradePlaces'
    <2> HIDE DEF Upgrade!Contents
    <2> QED BY <1>5 DEF Upgrade!Test
  <1>6. ASSUME NEW c \in Evaluations, NEW w \in BOOLEAN, Upgrade!Decide(c, w)
        PROVE Upgrade!TypeOK' /\ UpgradePlaces'
    <2> DEFINE goal == IF w THEN "CANARY" ELSE IF tests[c] = "ok" THEN "HUMAN_REVIEW" ELSE "BLOCKED"
    <2>1. CASE operation' = [operation EXCEPT ![c] = "saving"]
               /\ copy' = [copy EXCEPT ![c] = [copy[c] EXCEPT !.state = goal, !.checks = tests[c]]]
      <3>1. goal \in Upgrade!States /\ tests[c] \in {"none", "ok", "failed"} BY DEF Upgrade!States
      <3> HIDE DEF Upgrade!Contents, goal
      <3>2. [copy[c] EXCEPT !.state = goal, !.checks = tests[c]] \in Upgrade!Contents
        BY <1>c, <3>1, UpgradeConcluded
      <3>3. copy' \in [Upgrade!Calls -> Upgrade!Contents] BY <2>1, <3>2
      <3> QED BY <1>6, <2>1, <3>3 DEF Upgrade!Decide, Upgrade!ConstantsOK
    <2>2. CASE Upgrade!End(c, "raised")
      <3> HIDE DEF Upgrade!Contents, goal
      <3> QED BY <1>6, <2>2, <1>f DEF Upgrade!Decide, Upgrade!End
    <2> QED BY <1>6, <2>1, <2>2 DEF Upgrade!Decide
  <1>7. ASSUME NEW c \in Evaluations, Upgrade!SaveEvaluation(c)
        PROVE Upgrade!TypeOK' /\ UpgradePlaces'
    <2>2. files' \subseteq Upgrade!Statuses /\ content' \in [Upgrade!Statuses -> Upgrade!Contents]
      BY <1>7, <1>w, <1>c DEF Upgrade!SaveEvaluation
    <2> HIDE DEF Upgrade!Contents
    <2> QED BY <1>7, <1>f, <2>2 DEF Upgrade!SaveEvaluation, Upgrade!End
  <1>8. ASSUME NEW c \in Reviews, Upgrade!Move(c) PROVE Upgrade!TypeOK' /\ UpgradePlaces'
    <2>2. files' \subseteq Upgrade!Statuses /\ content' \in [Upgrade!Statuses -> Upgrade!Contents]
      BY <1>8, <1>w, <1>c, <1>d DEF Upgrade!Move
    <2> HIDE DEF Upgrade!Contents
    <2> QED BY <1>8, <2>2 DEF Upgrade!Move
  <1>9. ASSUME NEW c \in Reviews, Upgrade!Remove(c) PROVE Upgrade!TypeOK' /\ UpgradePlaces'
    <2> HIDE DEF Upgrade!Contents
    <2> QED BY <1>9 DEF Upgrade!Remove
  <1>10. ASSUME NEW c \in Reviews, Upgrade!SaveReview(c) PROVE Upgrade!TypeOK' /\ UpgradePlaces'
    <2>1. [copy[c] EXCEPT !.human = Decision[c]] \in Upgrade!Contents BY <1>d
    <2>2. files' \subseteq Upgrade!Statuses /\ content' \in [Upgrade!Statuses -> Upgrade!Contents]
      BY <1>10, <1>w, <2>1, <1>d DEF Upgrade!SaveReview
    <2> HIDE DEF Upgrade!Contents
    <2> QED BY <1>10, <1>f, <2>2 DEF Upgrade!SaveReview, Upgrade!End
  <1>11. ASSUME NEW c \in Upgrade!Calls, Upgrade!Die(c) PROVE Upgrade!TypeOK' /\ UpgradePlaces'
    <2> HIDE DEF Upgrade!Contents
    <2> QED BY <1>11, <1>f DEF Upgrade!Die, Upgrade!End
  <1> QED BY <1>0, <1>1, <1>2, <1>3, <1>4, <1>5, <1>6, <1>7, <1>8, <1>9, <1>10,
      <1>11 DEF Upgrade!Next

LEMMA UpgradeNextKept ==
  ASSUME Upgrade!ConstantsOK, UpgradeIInv, [Upgrade!Next]_(Upgrade!vars) PROVE UpgradeKeptOK'
  <1> USE DEF UpgradeIInv, Upgrade!TypeOK, UpgradeKeptOK, Upgrade!DecisionKept, Upgrade!Goto,
      Upgrade!Calls
  <1>0. CASE UNCHANGED Upgrade!vars BY <1>0 DEF Upgrade!vars
  <1>1. ASSUME NEW c \in Generations, NEW s \in Upgrade!Statuses, Upgrade!Generate(c, s)
        PROVE UpgradeKeptOK'
    BY <1>1 DEF Upgrade!Generate, Upgrade!Get
  <1>2. ASSUME NEW c \in Evaluations, NEW s \in Upgrade!Statuses, Upgrade!Evaluate(c, s)
        PROVE UpgradeKeptOK'
    BY <1>2 DEF Upgrade!Evaluate, Upgrade!Get
  <1>3. ASSUME NEW c \in Reviews, NEW s \in Upgrade!Statuses, Upgrade!Review(c, s)
        PROVE UpgradeKeptOK'
    BY <1>3 DEF Upgrade!Review, Upgrade!Get
  <1>4. ASSUME NEW c \in Generations, Upgrade!SaveArtifact(c) PROVE UpgradeKeptOK'
    BY <1>4 DEF Upgrade!SaveArtifact, Upgrade!Write, Upgrade!End
  <1>5. ASSUME NEW c \in Evaluations, NEW v \in {"ok", "failed"}, Upgrade!Test(c, v)
        PROVE UpgradeKeptOK'
    BY <1>5 DEF Upgrade!Test
  <1>6. ASSUME NEW c \in Evaluations, NEW w \in BOOLEAN, Upgrade!Decide(c, w) PROVE UpgradeKeptOK'
    <2>1. /\ \A b \in Reviews : operation'[b] \in {"removing", "reviewing"}
             => operation[b] \in {"removing", "reviewing"}
          /\ UNCHANGED <<files, decided, answers>>
      BY <1>6 DEF Upgrade!Decide, Upgrade!End
    <2> QED BY <2>1
  <1>7. ASSUME NEW c \in Evaluations, Upgrade!SaveEvaluation(c) PROVE UpgradeKeptOK'
    BY <1>7 DEF Upgrade!SaveEvaluation, Upgrade!Write, Upgrade!End
  <1>8. ASSUME NEW c \in Reviews, Upgrade!Move(c) PROVE UpgradeKeptOK'
    <2>1. files \subseteq files' /\ decided \subseteq decided' /\ c \in decided'
          /\ answers' = answers
      BY <1>8 DEF Upgrade!Move, Upgrade!Write
    <2> QED BY <1>8, <2>1 DEF Upgrade!Move
  <1>9. ASSUME NEW c \in Reviews, Upgrade!Remove(c) PROVE UpgradeKeptOK'
    <2>1. c \in decided /\ decided' = decided /\ answers' = answers BY <1>9 DEF Upgrade!Remove
    <2>2. ASSUME NEW r \in answers PROVE Decision[r] \in files' \/ \E q \in decided' : q # r
      BY <1>9, <2>1, <2>2 DEF Upgrade!Remove
    <2> QED BY <1>9, <2>1, <2>2 DEF Upgrade!Remove
  <1>10. ASSUME NEW c \in Reviews, Upgrade!SaveReview(c) PROVE UpgradeKeptOK'
    <2>1. files' = files \cup {Decision[c]} /\ decided' = decided /\ c \in decided
          /\ answers' = answers \cup {c}
      BY <1>10 DEF Upgrade!SaveReview, Upgrade!Write
    <2> QED BY <1>10, <2>1 DEF Upgrade!SaveReview, Upgrade!End
  <1>11. ASSUME NEW c \in Upgrade!Calls, Upgrade!Die(c) PROVE UpgradeKeptOK'
    BY <1>11 DEF Upgrade!Die, Upgrade!End
  <1> QED BY <1>0, <1>1, <1>2, <1>3, <1>4, <1>5, <1>6, <1>7, <1>8, <1>9, <1>10,
      <1>11 DEF Upgrade!Next

\* A call that ends has nothing in its copy.
LEMMA UpgradeEndsFresh == ASSUME UpgradeIInv, NEW c \in Upgrade!Calls, NEW l, Upgrade!End(c, l)
  PROVE  /\ copy'[c] = Upgrade!Fresh /\ \A b \in Upgrade!Calls : b # c => copy'[b] = copy[b]
            /\ operation'[b] = operation[b]
         /\ operation'[c] = l
  BY DEF UpgradeIInv, Upgrade!TypeOK, Upgrade!End, Upgrade!Goto

LEMMA UpgradeNextCanary ==
  ASSUME Upgrade!ConstantsOK, UpgradeIInv, [Upgrade!Next]_(Upgrade!vars) PROVE UpgradeCanaryOK'
  <1> USE DEF UpgradeIInv, Upgrade!TypeOK, UpgradeCanaryOK, UpgradeTested, Upgrade!Calls
  <1>f. Upgrade!Fresh.state # "CANARY" BY DEF Upgrade!Fresh
  <1>0. CASE UNCHANGED Upgrade!vars BY <1>0 DEF Upgrade!vars
  <1>g. ASSUME NEW c \in Upgrade!Calls, NEW s \in Upgrade!Statuses, Upgrade!Get(c, s),
                 UNCHANGED <<content, canary, tests>>,
               NEW l \in {"saving", "raised", "testing", "moving"}, Upgrade!Goto(c, l)
        PROVE  UpgradeCanaryOK'
    <2>1. copy'[c].state = content[s].state /\ copy'[c].checks = content[s].checks
          /\ \A b \in Upgrade!Calls : b # c => copy'[b] = copy[b]
      BY <1>g DEF Upgrade!Get, Upgrade!Contents
    <2>2. \A b \in Upgrade!Calls : operation'[b] \in {"new", "testing"} => tests[b] = "none"
      BY <1>g DEF Upgrade!Get, Upgrade!Goto
    <2> QED BY <1>g, <2>1, <2>2
  <1>1. ASSUME NEW c \in Generations, NEW s \in Upgrade!Statuses, Upgrade!Generate(c, s)
        PROVE UpgradeCanaryOK'
    BY <1>1, <1>g DEF Upgrade!Generate
  <1>2. ASSUME NEW c \in Evaluations, NEW s \in Upgrade!Statuses, Upgrade!Evaluate(c, s)
        PROVE UpgradeCanaryOK'
    BY <1>2, <1>g DEF Upgrade!Evaluate
  <1>3. ASSUME NEW c \in Reviews, NEW s \in Upgrade!Statuses, Upgrade!Review(c, s)
        PROVE UpgradeCanaryOK'
    BY <1>3, <1>g DEF Upgrade!Review
  <1>w. ASSUME NEW c \in Upgrade!Calls, NEW s \in Upgrade!Statuses,
                 NEW written \in Upgrade!Contents, UpgradeTested(written),
                       Upgrade!Write(s, written),
               UNCHANGED <<canary, tests>>, Upgrade!End(c, "done")
        PROVE  UpgradeCanaryOK'
    <2>1. content'[s].state = written.state /\ content'[s].checks = written.checks
          /\ \A q \in Upgrade!Statuses : q # s => content'[q] = content[q]
      BY <1>w DEF Upgrade!Write, Upgrade!Contents
    <2>2. \A b \in Upgrade!Calls : UpgradeTested(copy[b])' BY <1>w, <1>f, UpgradeEndsFresh
    <2>3. \A b \in Upgrade!Calls : operation'[b] \in {"new", "testing"} => tests[b] = "none"
      BY <1>w, UpgradeEndsFresh
    <2> QED BY <1>w, <2>1, <2>2, <2>3
  <1>4. ASSUME NEW c \in Generations, Upgrade!SaveArtifact(c) PROVE UpgradeCanaryOK'
    <2>1. [copy[c] EXCEPT !.state = "ARTIFACT_GENERATED"] \in Upgrade!Contents
          /\ [copy[c] EXCEPT !.state = "ARTIFACT_GENERATED"].state = "ARTIFACT_GENERATED"
      BY DEF Upgrade!Contents, Upgrade!States
    <2>2. copy[c].from \in Upgrade!Statuses BY DEF Upgrade!Contents
    <2> QED BY <1>4, <1>w, <2>1, <2>2 DEF Upgrade!SaveArtifact
  <1>5. ASSUME NEW c \in Evaluations, NEW v \in {"ok", "failed"}, Upgrade!Test(c, v)
        PROVE UpgradeCanaryOK'
    BY <1>5 DEF Upgrade!Test, Upgrade!Goto
  <1>6. ASSUME NEW c \in Evaluations, NEW w \in BOOLEAN, Upgrade!Decide(c, w) PROVE UpgradeCanaryOK'
    <2> DEFINE goal == IF w THEN "CANARY" ELSE IF tests[c] = "ok" THEN "HUMAN_REVIEW" ELSE "BLOCKED"
    <2>1. /\ operation[c] = "tested" /\ (canary' => canary \/ w) /\ (canary \/ w => canary')
          /\ w => tests[c] = "ok"
      BY <1>6 DEF Upgrade!Decide, Upgrade!MayCanary
    <2>0. UNCHANGED <<content, tests>> BY <1>6 DEF Upgrade!Decide
    <2>2. canary' => \E e \in Evaluations : tests'[e] = "ok" BY <2>0, <2>1
    <2>c. \A s \in Upgrade!Statuses : UpgradeTested(content[s])' BY <2>0, <2>1
    <2>3. CASE operation' = [operation EXCEPT ![c] = "saving"]
               /\ copy' = [copy EXCEPT ![c] = [copy[c] EXCEPT !.state = goal, !.checks = tests[c]]]
      <3> HIDE DEF goal
      <3>1. copy'[c].state = goal /\ copy'[c].checks = tests[c]
            /\ \A b \in Upgrade!Calls : b # c => copy'[b] = copy[b]
        BY <2>3 DEF Upgrade!Contents
      <3>2. goal = "CANARY" => tests[c] = "ok" /\ canary' BY <2>1 DEF goal
      <3>3. \A b \in Upgrade!Calls : UpgradeTested(copy[b])' BY <2>1, <3>1, <3>2
      <3>4. \A b \in Upgrade!Calls : operation'[b] \in {"new", "testing"} => tests'[b] = "none"
        BY <2>0, <2>3
      <3> QED BY <2>2, <2>c, <3>3, <3>4
    <2>4. CASE Upgrade!End(c, "raised")
      <3> HIDE DEF goal
      <3>1. \A b \in Upgrade!Calls : UpgradeTested(copy[b])' BY <2>1, <2>4, <1>f, UpgradeEndsFresh
      <3>2. \A b \in Upgrade!Calls : operation'[b] \in {"new", "testing"} => tests'[b] = "none"
        BY <2>0, <2>4, UpgradeEndsFresh
      <3> QED BY <2>2, <2>c, <3>1, <3>2
    <2> QED BY <1>6, <2>3, <2>4 DEF Upgrade!Decide, Upgrade!Goto
  <1>7. ASSUME NEW c \in Evaluations, Upgrade!SaveEvaluation(c) PROVE UpgradeCanaryOK'
    <2>1. copy[c] \in Upgrade!Contents /\ copy[c].from \in Upgrade!Statuses BY DEF Upgrade!Contents
    <2> QED BY <1>7, <1>w, <2>1 DEF Upgrade!SaveEvaluation
  <1>8. ASSUME NEW c \in Reviews, Upgrade!Move(c) PROVE UpgradeCanaryOK'
    <2>1. content'[Decision[c]].state = copy[c].state
          /\ content'[Decision[c]].checks = copy[c].checks
          /\ \A q \in Upgrade!Statuses : q # Decision[c] => content'[q] = content[q]
      <3>1. Decision[c] \in Upgrade!Statuses BY DEF Upgrade!ConstantsOK, Upgrade!Statuses
      <3> QED BY <1>8, <3>1 DEF Upgrade!Move, Upgrade!Write, Upgrade!Contents
    <2> QED BY <1>8, <2>1 DEF Upgrade!Move, Upgrade!Goto
  <1>9. ASSUME NEW c \in Reviews, Upgrade!Remove(c) PROVE UpgradeCanaryOK'
    BY <1>9 DEF Upgrade!Remove, Upgrade!Goto
  <1>10. ASSUME NEW c \in Reviews, Upgrade!SaveReview(c) PROVE UpgradeCanaryOK'
    <2>1. Decision[c] \in Upgrade!Statuses /\ Decision[c] \in {"approved", "rejected"}
      BY DEF Upgrade!ConstantsOK, Upgrade!Statuses
    <2> DEFINE written == [copy[c] EXCEPT !.human = Decision[c]]
    <2>2. written \in Upgrade!Contents /\ written.state = copy[c].state
          /\ written.checks = copy[c].checks
      BY <2>1 DEF Upgrade!Contents
    <2>3. Upgrade!Write(Decision[c], written) /\ Upgrade!End(c, "done")
          /\ UNCHANGED <<canary, tests>>
      BY <1>10 DEF Upgrade!SaveReview
    <2> HIDE DEF written
    <2> QED BY <1>w, <2>1, <2>2, <2>3
  <1>11. ASSUME NEW c \in Upgrade!Calls, Upgrade!Die(c) PROVE UpgradeCanaryOK'
    <2>1. Upgrade!End(c, "dead") /\ UNCHANGED <<content, canary, tests>> BY <1>11 DEF Upgrade!Die
    <2> QED BY <2>1, <1>f, UpgradeEndsFresh
  <1> QED BY <1>0, <1>1, <1>2, <1>3, <1>4, <1>5, <1>6, <1>7, <1>8, <1>9, <1>10,
      <1>11 DEF Upgrade!Next

LEMMA UpgradeNextAlone ==
  ASSUME Upgrade!ConstantsOK, UpgradeIInv, [Upgrade!Next]_(Upgrade!vars) PROVE UpgradeAloneOK'
  <1> USE DEF Upgrade!Busy, Upgrade!Calls, Upgrade!ConstantsOK
  <1>t. Upgrade!TypeOK /\ UpgradePlaces /\ UpgradeAloneOK BY DEF UpgradeIInv
  <1> SUFFICES ASSUME ~overlapped'
               PROVE  /\ \A b, c \in Upgrade!Calls : Upgrade!Busy(b)' /\ Upgrade!Busy(c)' => b = c
                      /\ (\A c \in Upgrade!Calls : ~Upgrade!Busy(c)')
                         => \E s \in Upgrade!Statuses : UpgradeSettled(s)'
                      /\ \A c \in Upgrade!Calls : UpgradeStage(c)'
    BY DEF UpgradeAloneOK
  <1> DEFINE Goal == /\ \A b, c \in Upgrade!Calls : Upgrade!Busy(b)' /\ Upgrade!Busy(c)' => b = c
                     /\ (\A c \in Upgrade!Calls : ~Upgrade!Busy(c)')
                        => \E s \in Upgrade!Statuses : UpgradeSettled(s)'
                     /\ \A c \in Upgrade!Calls : UpgradeStage(c)'
  <1>o. ASSUME ~overlapped
        PROVE  /\ \A b, c \in Upgrade!Calls : Upgrade!Busy(b) /\ Upgrade!Busy(c) => b = c
               /\ (\A c \in Upgrade!Calls : ~Upgrade!Busy(c))
                  => \E s \in Upgrade!Statuses : UpgradeSettled(s)
               /\ \A c \in Upgrade!Calls : UpgradeStage(c)
    BY <1>t, <1>o DEF UpgradeAloneOK
  <1>0. CASE UNCHANGED Upgrade!vars
    <2>1. ~overlapped BY <1>0 DEF Upgrade!vars
    <2> QED BY <1>0, <2>1, <1>o DEF Upgrade!vars, UpgradeSettled, UpgradeStage
  \* A call begins: nobody else is busy, and there is one file.
  <1>g. ASSUME NEW c \in Upgrade!Calls, NEW s \in Upgrade!Statuses, Upgrade!Get(c, s),
                 UNCHANGED <<files, content>>,
               NEW l \in {"saving", "raised", "testing", "moving"}, Upgrade!Goto(c, l)
        PROVE  Goal
    <2>1. ~overlapped /\ \A b \in Upgrade!Calls : ~Upgrade!Busy(b) BY <1>g DEF Upgrade!Get
    <2>2. PICK q \in Upgrade!Statuses : UpgradeSettled(q) BY <1>o, <2>1
    <2>3. q = s BY <1>g, <2>2 DEF Upgrade!Get, UpgradeSettled
    <2>4. copy'[c].from = s /\ copy'[c].human = content[s].human /\ operation'[c] = l
          /\ \A b \in Upgrade!Calls : b # c => operation'[b] = operation[b]
      BY <1>g, <1>t DEF Upgrade!Get, Upgrade!Goto, Upgrade!TypeOK, Upgrade!Contents
    <2>5. UpgradeSettled(s)' BY <1>g, <2>2, <2>3 DEF UpgradeSettled
    <2>6. UpgradeStage(c)'
      <3>1. s # "pending" => content[s].human = s BY <2>2, <2>3 DEF UpgradeSettled
      <3> QED BY <1>g, <2>4, <2>5, <3>1 DEF UpgradeStage, UpgradeSettled
    <2>7. \A b \in Upgrade!Calls : b # c => ~Upgrade!Busy(b)' BY <2>1, <2>4
    <2>8. \A b \in Upgrade!Calls : b # c => UpgradeStage(b)' BY <2>7 DEF UpgradeStage
    <2> QED BY <2>5, <2>6, <2>7, <2>8
  <1>1. ASSUME NEW c \in Generations, NEW s \in Upgrade!Statuses, Upgrade!Generate(c, s) PROVE Goal
    BY <1>1, <1>g DEF Upgrade!Generate
  <1>2. ASSUME NEW c \in Evaluations, NEW s \in Upgrade!Statuses, Upgrade!Evaluate(c, s) PROVE Goal
    BY <1>2, <1>g DEF Upgrade!Evaluate
  <1>3. ASSUME NEW c \in Reviews, NEW s \in Upgrade!Statuses, Upgrade!Review(c, s) PROVE Goal
    BY <1>3, <1>g DEF Upgrade!Review
  \* A call goes on: it is the one that is busy.
  <1>a. ASSUME NEW c \in Upgrade!Calls, Upgrade!Busy(c), ~overlapped,
                 \A b \in Upgrade!Calls : b # c => operation'[b] = operation[b],
               UpgradeStage(c)', ~Upgrade!Busy(c)' => \E s \in Upgrade!Statuses : UpgradeSettled(s)'
        PROVE  Goal
    <2>1. \A b \in Upgrade!Calls : b # c => ~Upgrade!Busy(b) BY <1>a, <1>o
    <2>2. \A b \in Upgrade!Calls : b # c => ~Upgrade!Busy(b)' BY <1>a, <2>1
    <2>3. \A b \in Upgrade!Calls : b # c => UpgradeStage(b)' BY <2>2 DEF UpgradeStage
    <2> QED BY <1>a, <2>2, <2>3
  <1>w. ASSUME NEW c \in Upgrade!Calls, Upgrade!Busy(c), ~overlapped, NEW s \in Upgrade!Statuses,
                 UpgradeSettled(s),
               NEW written \in Upgrade!Contents, s # "pending" => written.human = s,
               Upgrade!Write(s, written), Upgrade!End(c, "done")
        PROVE  Goal
    <2>1. content'[s].human = written.human /\ files' = {s}
      BY <1>t, <1>w DEF Upgrade!Write, Upgrade!TypeOK, Upgrade!Contents, UpgradeSettled
    <2>2. UpgradeSettled(s)' BY <1>w, <2>1 DEF UpgradeSettled
    <2>3. ~Upgrade!Busy(c)' /\ \A b \in Upgrade!Calls : b # c => operation'[b] = operation[b]
      BY <1>t, <1>w DEF Upgrade!TypeOK, Upgrade!End, Upgrade!Goto
    <2>4. UpgradeStage(c)' BY <2>3 DEF UpgradeStage
    <2> QED BY <1>a, <1>w, <2>2, <2>3, <2>4
  <1>4. ASSUME NEW c \in Generations, Upgrade!SaveArtifact(c) PROVE Goal
    <2>1. operation[c] = "saving" /\ ~overlapped /\ UpgradeStage(c)
      BY <1>4, <1>o DEF Upgrade!SaveArtifact
    <2>2. UpgradeSettled(copy[c].from) /\ (copy[c].from # "pending" => copy[c].human = copy[c].from)
          /\ copy[c].from \in Upgrade!Statuses
      BY <1>t, <2>1 DEF UpgradeStage, Upgrade!TypeOK, Upgrade!Contents
    <2> DEFINE written == [copy[c] EXCEPT !.state = "ARTIFACT_GENERATED"]
    <2>3. written \in Upgrade!Contents /\ written.human = copy[c].human
      BY <1>t DEF Upgrade!TypeOK, Upgrade!Contents, Upgrade!States
    <2>4. Upgrade!Write(copy[c].from, written) /\ Upgrade!End(c, "done")
      BY <1>4 DEF Upgrade!SaveArtifact
    <2> HIDE DEF written
    <2> QED BY <1>w, <2>1, <2>2, <2>3, <2>4
  <1>5. ASSUME NEW c \in Evaluations, NEW v \in {"ok", "failed"}, Upgrade!Test(c, v) PROVE Goal
    <2>1. operation[c] = "testing" /\ ~overlapped /\ operation'[c] = "tested"
          /\ UNCHANGED <<files, content, copy>>
          /\ (\A b \in Upgrade!Calls : b # c => operation'[b] = operation[b]) /\ UpgradeStage(c)
      BY <1>5, <1>o, <1>t DEF Upgrade!Test, Upgrade!Goto, Upgrade!TypeOK
    <2>2. UpgradeStage(c)' BY <2>1 DEF UpgradeStage, UpgradeSettled
    <2> QED BY <1>a, <2>1, <2>2
  <1>6. ASSUME NEW c \in Evaluations, NEW w \in BOOLEAN, Upgrade!Decide(c, w) PROVE Goal
    <2> DEFINE goal == IF w THEN "CANARY" ELSE IF tests[c] = "ok" THEN "HUMAN_REVIEW" ELSE "BLOCKED"
    <2>1. operation[c] = "tested" /\ ~overlapped /\ UNCHANGED <<files, content>>
      BY <1>6 DEF Upgrade!Decide
    <2>2. UpgradeSettled(copy[c].from) /\ (copy[c].from # "pending" => copy[c].human = copy[c].from)
      BY <1>o, <2>1 DEF UpgradeStage
    <2>t. copy[c] \in Upgrade!Contents /\ copy[c].from \in Upgrade!Statuses
      BY <1>t DEF Upgrade!TypeOK, Upgrade!Contents
    <2>3. CASE operation' = [operation EXCEPT ![c] = "saving"]
               /\ copy' = [copy EXCEPT ![c] = [copy[c] EXCEPT !.state = goal, !.checks = tests[c]]]
      <3> HIDE DEF goal
      <3>1. copy'[c].from = copy[c].from /\ copy'[c].human = copy[c].human
            /\ operation'[c] = "saving"
            /\ \A b \in Upgrade!Calls : b # c => operation'[b] = operation[b]
        BY <2>3, <1>t DEF Upgrade!TypeOK, Upgrade!Contents
      <3>2. UpgradeStage(c)' BY <2>1, <2>2, <3>1 DEF UpgradeStage, UpgradeSettled
      <3> QED BY <1>a, <2>1, <3>1, <3>2
    <2>4. CASE Upgrade!End(c, "raised")
      <3> HIDE DEF goal
      <3>1. operation'[c] = "raised" /\ \A b \in Upgrade!Calls : b # c
            => operation'[b] = operation[b]
        BY <1>t, <2>4 DEF Upgrade!TypeOK, Upgrade!End, Upgrade!Goto
      <3>2. UpgradeSettled(copy[c].from)' \/ \E s \in Upgrade!Statuses : UpgradeSettled(s)'
        BY <2>1, <2>2, <2>t DEF UpgradeSettled
      <3>3. \E s \in Upgrade!Statuses : UpgradeSettled(s)' BY <2>1, <2>2, <2>t DEF UpgradeSettled
      <3>4. UpgradeStage(c)' BY <3>1 DEF UpgradeStage
      <3> QED BY <1>a, <2>1, <3>1, <3>3, <3>4
    <2> QED BY <1>6, <2>3, <2>4 DEF Upgrade!Decide, Upgrade!Goto
  <1>7. ASSUME NEW c \in Evaluations, Upgrade!SaveEvaluation(c) PROVE Goal
    <2>1. operation[c] = "saving" /\ ~overlapped /\ UpgradeStage(c)
      BY <1>7, <1>o DEF Upgrade!SaveEvaluation
    <2>2. UpgradeSettled(copy[c].from) /\ (copy[c].from # "pending" => copy[c].human = copy[c].from)
          /\ copy[c].from \in Upgrade!Statuses /\ copy[c] \in Upgrade!Contents
      BY <1>t, <2>1 DEF UpgradeStage, Upgrade!TypeOK, Upgrade!Contents
    <2>4. Upgrade!Write(copy[c].from, copy[c]) /\ Upgrade!End(c, "done")
      BY <1>7 DEF Upgrade!SaveEvaluation
    <2> QED BY <1>w, <2>1, <2>2, <2>4
  <1>d. ASSUME NEW c \in Reviews PROVE Decision[c] \in Upgrade!Statuses /\ Decision[c] # "pending"
    BY DEF Upgrade!Statuses
  <1>8. ASSUME NEW c \in Reviews, Upgrade!Move(c) PROVE Goal
    <2>1. operation[c] = "moving" /\ ~overlapped /\ operation'[c] = "removing" /\ copy' = copy
          /\ (\A b \in Upgrade!Calls : b # c => operation'[b] = operation[b]) /\ UpgradeStage(c)
      BY <1>8, <1>o, <1>t DEF Upgrade!Move, Upgrade!Goto, Upgrade!TypeOK
    <2>2. files = {copy[c].from} /\ files' = files \cup {Decision[c]}
      BY <1>8, <2>1 DEF UpgradeStage, UpgradeSettled, Upgrade!Move, Upgrade!Write
    <2>3. UpgradeStage(c)' BY <2>1, <2>2 DEF UpgradeStage
    <2> QED BY <1>a, <2>1, <2>3
  <1>9. ASSUME NEW c \in Reviews, Upgrade!Remove(c) PROVE Goal
    <2>1. operation[c] = "removing" /\ ~overlapped /\ operation'[c] = "reviewing" /\ copy' = copy
          /\ (\A b \in Upgrade!Calls : b # c => operation'[b] = operation[b]) /\ UpgradeStage(c)
      BY <1>9, <1>o, <1>t DEF Upgrade!Remove, Upgrade!Goto, Upgrade!TypeOK
    <2>2. files = {copy[c].from, Decision[c]} BY <2>1 DEF UpgradeStage
    <2>3. files' = {Decision[c]} BY <1>9, <2>2 DEF Upgrade!Remove
    <2>4. UpgradeStage(c)' BY <2>1, <2>3 DEF UpgradeStage
    <2> QED BY <1>a, <2>1, <2>4
  <1>10. ASSUME NEW c \in Reviews, Upgrade!SaveReview(c) PROVE Goal
    <2>1. operation[c] = "reviewing" /\ ~overlapped /\ files = {Decision[c]}
      BY <1>10, <1>o DEF Upgrade!SaveReview, UpgradeStage
    <2> DEFINE written == [copy[c] EXCEPT !.human = Decision[c]]
    <2>2. written \in Upgrade!Contents /\ written.human = Decision[c]
      BY <1>t DEF Upgrade!TypeOK, Upgrade!Contents
    <2>3. Upgrade!Write(Decision[c], written) /\ Upgrade!End(c, "done")
      BY <1>10 DEF Upgrade!SaveReview
    <2> HIDE DEF written
    <2>4. content'[Decision[c]].human = Decision[c] /\ files' = {Decision[c]}
      BY <1>t, <1>d, <2>1, <2>2, <2>3 DEF Upgrade!Write, Upgrade!TypeOK, Upgrade!Contents
    <2>5. UpgradeSettled(Decision[c])' BY <2>4 DEF UpgradeSettled
    <2>6. operation'[c] = "done" /\ \A b \in Upgrade!Calls : b # c => operation'[b] = operation[b]
      BY <1>t, <2>3 DEF Upgrade!TypeOK, Upgrade!End, Upgrade!Goto
    <2>7. UpgradeStage(c)' BY <2>6 DEF UpgradeStage
    <2> QED BY <1>a, <1>d, <2>1, <2>4, <2>6, <2>7 DEF UpgradeSettled
  <1>11. ASSUME NEW c \in Upgrade!Calls, Upgrade!Die(c) PROVE Goal BY <1>11 DEF Upgrade!Die
  <1> QED BY <1>0, <1>1, <1>2, <1>3, <1>4, <1>5, <1>6, <1>7, <1>8, <1>9, <1>10,
      <1>11 DEF Upgrade!Next

LEMMA UpgradeIInvHolds == ASSUME Upgrade!ConstantsOK PROVE Upgrade!Spec => []UpgradeIInv
  <1>1. Upgrade!Init => UpgradeIInv
    <2> SUFFICES ASSUME Upgrade!Init PROVE UpgradeIInv OBVIOUS
    <2>1. Upgrade!Fresh \in Upgrade!Contents /\ Upgrade!Fresh.state = "PROPOSED"
      BY DEF Upgrade!Fresh, Upgrade!Contents, Upgrade!States, Upgrade!Statuses
    <2>2. Upgrade!TypeOK BY <2>1 DEF Upgrade!Init, Upgrade!TypeOK, Upgrade!Statuses
    <2>3. UpgradeKeptOK BY DEF Upgrade!Init, UpgradeKeptOK, Upgrade!DecisionKept, Upgrade!Calls
    <2>4. UpgradeCanaryOK BY <2>1 DEF Upgrade!Init, UpgradeCanaryOK, UpgradeTested
    <2>5. UpgradePlaces BY DEF Upgrade!Init, UpgradePlaces
    <2>6. UpgradeSettled("pending") BY DEF Upgrade!Init, UpgradeSettled
    <2>7. UpgradeAloneOK
      BY <2>6 DEF Upgrade!Init, UpgradeAloneOK, Upgrade!Busy, UpgradeStage, Upgrade!Statuses
    <2> QED BY <2>2, <2>3, <2>4, <2>5, <2>7 DEF UpgradeIInv
  <1>2. UpgradeIInv /\ [Upgrade!Next]_(Upgrade!vars) => UpgradeIInv'
    BY UpgradeNextTypes, UpgradeNextKept, UpgradeNextCanary, UpgradeNextAlone DEF UpgradeIInv
  <1> QED BY <1>1, <1>2, PTL DEF Upgrade!Spec

LEMMA UpgradeDecisionStands ==
  UpgradeIInv => Upgrade!DecisionKept /\ Upgrade!OneFile /\ Upgrade!CanaryWasTested
  <1> SUFFICES ASSUME UpgradeIInv PROVE Upgrade!DecisionKept /\ Upgrade!OneFile
                      /\ Upgrade!CanaryWasTested OBVIOUS
  <1>1. Upgrade!DecisionKept BY DEF UpgradeIInv, UpgradeKeptOK
  <1>2. Upgrade!OneFile
    <2> SUFFICES ASSUME ~overlapped, \A c \in Upgrade!Calls : ~Upgrade!Busy(c)
                 PROVE  Cardinality(files) = 1 /\ \A s \in files : s # "pending"
                     => content[s].human = s
      BY UpgradeSameSets DEF Upgrade!OneFile
    <2>1. PICK s \in Upgrade!Statuses : UpgradeSettled(s) BY DEF UpgradeIInv, UpgradeAloneOK
    <2> QED BY <2>1, FS_Singleton DEF UpgradeSettled
  <1>3. Upgrade!CanaryWasTested
    BY DEF UpgradeIInv, UpgradeCanaryOK, UpgradeTested, Upgrade!CanaryWasTested, Upgrade!TypeOK
  <1> QED BY <1>1, <1>2, <1>3

-----------------------------------------------------------------------------
(* Structured memories *)

\* Memories that were created are listed, reviewed and purged.
MemoryCreatedOK ==
    /\ Memory!Stored \subseteq 1..ever /\ doomed \subseteq 1..ever /\ purged \subseteq 1..ever
    /\ \A c \in Curators : Memory!Range(plan[c]) \subseteq group[c] /\ group[c] \subseteq 1..ever

\* A row that a review holds counts the promotions there were, unless its memory is
\* raced, as one is that was deleted meanwhile.
MemoryHeld(c) == Head(plan[c])
MemoryRowsOK == \A c \in Curators : fetched[c] # Memory!NoRow =>
    /\ postgres /\ Memory!Busy(c)
    /\ MemoryHeld(c) \notin raced => MemoryHeld(c) \in Memory!Stored
       /\ fetched[c] = validations[MemoryHeld(c)] + 1

\* The last verdict stands, and the policy allows it.
MemoryWordsOK == \A m \in Memories :
    /\ standing[m] = word[m]
    /\ m \notin raced => validations[m] = votes[m]
    /\ beside[m] # {} => m \in beside[m] /\ word[m] \in Memory!Verdicts(m, beside[m])

MemoryIInv == Memory!TypeOK /\ MemoryCreatedOK /\ MemoryRowsOK /\ MemoryWordsOK
    /\ Memory!PurgedStays

LEMMA MemorySameSets == ASSUME NEW S
  PROVE (Memory!IsFiniteSet(S) <=> IsFiniteSet(S)) /\ Memory!Cardinality(S) = Cardinality(S)
  BY Zenon DEF Memory!IsFiniteSet, IsFiniteSet, Memory!Cardinality, Cardinality

LEMMA MemoryCounts == ASSUME Memory!ConstantsOK, NEW S \in SUBSET Memories
  PROVE  Memory!Cardinality(S) \in Nat /\ Memory!Cardinality(Memories) \in Nat
  BY MemorySameSets, FS_Subset, FS_CardinalityType DEF Memory!ConstantsOK

\* A listing has the memories it is of, each once.
LEMMA MemoryListingIs ==
  ASSUME Memory!ConstantsOK, NEW S \in SUBSET Memories, Memory!TypeOK, NEW s \in Memory!Listing(S)
  PROVE  s \in Seq(Memories) /\ Memory!IsInjective(s) /\ Memory!Range(s) = S
  <1> DEFINE n == Memory!Cardinality(S)
  <1>1. n \in Nat BY MemoryCounts
  <1>2. s \in [1..n -> S] /\ Memory!Range(s) = S /\ \A i, j \in DOMAIN s : i < j
        => Memory!Newer(s[i], s[j])
    BY DEF Memory!Listing
  <1> HIDE DEF n
  <1>3. DOMAIN s = 1..n /\ s \in Seq(Memories) BY <1>1, <1>2
  <1>4. ASSUME NEW i \in 1..n, NEW j \in 1..n, s[i] = s[j], i < j PROVE FALSE
    <2>1. Memory!Newer(s[i], s[i]) BY <1>2, <1>3, <1>4
    <2>2. PICK k, l \in DOMAIN order : k < l /\ order[k] = order[l] BY <2>1 DEF Memory!Newer
    <2>3. DOMAIN order \subseteq Nat BY DEF Memory!TypeOK
    <2> QED BY <2>2, <2>3 DEF Memory!TypeOK, Memory!IsInjective
  <1>5. \A i, j \in 1..n : s[i] = s[j] => i = j BY <1>1, <1>4
  <1> QED BY <1>2, <1>3, <1>5 DEF Memory!IsInjective

\* A new memory, or one that is put back, is listed first.
LEMMA MemoryPrepended ==
  ASSUME NEW m \in Memories, NEW s \in Seq(Memories), Memory!IsInjective(s),
        m \notin Memory!Range(s)
  PROVE  /\ <<m>> \o s \in Seq(Memories) /\ Memory!IsInjective(<<m>> \o s)
         /\ Memory!Range(<<m>> \o s) = Memory!Range(s) \cup {m}
  <1> DEFINE q == <<m>> \o s  n == Len(s)
  <1>1. n \in Nat /\ DOMAIN s = 1..n /\ s \in [1..n -> Memories] BY LenProperties
  <1>2. <<m>> \in Seq(Memories) /\ Len(<<m>>) = 1 /\ <<m>>[1] = m OBVIOUS
  <1>3. q \in Seq(Memories) /\ Len(q) = 1 + n
        /\ \A i \in 1..(1 + n) : q[i] = IF i <= 1 THEN <<m>>[i] ELSE s[i - 1]
    BY <1>2, ConcatProperties
  <1>4. DOMAIN q = 1..(1 + n) BY <1>3, LenProperties
  <1> HIDE DEF q, n
  <1>5. 1 \in DOMAIN q /\ q[1] = m BY <1>1, <1>2, <1>3, <1>4
  <1>6. \A i \in DOMAIN s : i + 1 \in DOMAIN q /\ q[i + 1] = s[i] BY <1>1, <1>3, <1>4
  <1>7. \A i \in DOMAIN q : i = 1 \/ \E j \in DOMAIN s : i = j + 1
    <2> SUFFICES ASSUME NEW i \in DOMAIN q, i # 1 PROVE \E j \in DOMAIN s : i = j + 1 OBVIOUS
    <2>1. i - 1 \in DOMAIN s /\ i = (i - 1) + 1 BY <1>1, <1>4
    <2> QED BY <2>1
  <1>8. Memory!Range(q) = Memory!Range(s) \cup {m}
    BY <1>5, <1>6, <1>7 DEF Memory!Range
  <1>9. Memory!IsInjective(q) BY <1>5, <1>6, <1>7 DEF Memory!IsInjective, Memory!Range
  <1> QED BY <1>3, <1>8, <1>9 DEF q

\* A curator that goes on.
LEMMA MemoryGoesOn ==
  ASSUME Memory!TypeOK, MemoryCreatedOK, NEW c \in Curators, Memory!Busy(c), Memory!GoOn(c)
  PROVE  /\ plan' \in [Curators -> Seq(Memories)] /\ group' \in [Curators -> SUBSET Memories]
         /\ \A d \in Curators : Memory!Range(plan'[d]) \subseteq group'[d]
            /\ group'[d] \subseteq 1..ever
         /\ \A d \in Curators \ {c} : plan'[d] = plan[d]
         /\ Head(plan[c]) \in group[c] /\ Head(plan[c]) \in Memories
  <1> DEFINE s == plan[c]  n == Len(s)
  <1>1. s \in Seq(Memories) /\ s # << >> BY DEF Memory!TypeOK, Memory!Busy
  <1>2. n \in Nat /\ n # 0 /\ DOMAIN s = 1..n BY <1>1
  <1>3. /\ Tail(s) \in Seq(Memories) /\ Len(Tail(s)) = n - 1 /\ Head(s) = s[1]
        /\ \A i \in 1..(n - 1) : Tail(s)[i] = s[i + 1]
    BY <1>1
  <1>4. DOMAIN Tail(s) = 1..(n - 1) BY <1>3, LenProperties
  <1>5. Memory!Range(Tail(s)) \subseteq Memory!Range(s)
    <2> HIDE DEF n, s
    <2> SUFFICES ASSUME NEW i \in DOMAIN Tail(s) PROVE Tail(s)[i] \in Memory!Range(s)
      BY DEF Memory!Range
    <2>1. i + 1 \in DOMAIN s BY <1>2, <1>4
    <2> QED BY <1>3, <1>4, <2>1 DEF Memory!Range
  <1>6. n = 1 => Memory!Range(Tail(s)) = {} BY <1>4 DEF Memory!Range
  <1>7. Head(s) \in Memory!Range(s) /\ Head(s) \in Memories
    <2>1. 1 \in DOMAIN s BY <1>2
    <2> QED BY <1>1, <1>3, <2>1 DEF Memory!Range
  <1>8. /\ plan' = [plan EXCEPT ![c] = Tail(s)]
        /\ group' = IF n = 1 THEN [group EXCEPT ![c] = {}] ELSE group
    BY DEF Memory!GoOn
  <1>9. Memory!Range(s) \subseteq group[c] BY DEF MemoryCreatedOK
  <1>10. plan \in [Curators -> Seq(Memories)] /\ group \in [Curators -> SUBSET Memories]
    BY DEF Memory!TypeOK
  <1>11. \A d \in Curators : Memory!Range(plan[d]) \subseteq group[d] /\ group[d] \subseteq 1..ever
    BY DEF MemoryCreatedOK
  <1> HIDE DEF n, s
  <1>12. plan' \in [Curators -> Seq(Memories)] /\ group' \in [Curators -> SUBSET Memories]
    BY <1>3, <1>8, <1>10
  <1>13. plan'[c] = Tail(s) /\ \A d \in Curators \ {c} : plan'[d] = plan[d] BY <1>8, <1>10
  <1>14. \A d \in Curators \ {c} : group'[d] = group[d] BY <1>8, <1>10
  <1>15. group'[c] = IF n = 1 THEN {} ELSE group[c] BY <1>8, <1>10
  <1>16. Memory!Range(plan'[c]) \subseteq group'[c] /\ group'[c] \subseteq 1..ever
    BY <1>5, <1>6, <1>9, <1>11, <1>13, <1>15
  <1> QED BY <1>7, <1>9, <1>11, <1>12, <1>13, <1>14, <1>16 DEF s

\* What is recorded.
LEMMA MemoryRecorded ==
  ASSUME Memory!ConstantsOK, Memory!TypeOK, MemoryWordsOK, NEW m \in Memories,
        NEW v \in Memory!Verdict, NEW n \in Nat,
         NEW listed \in SUBSET Memories, m \in listed, Memory!Record(m, v, n, listed),
         m \notin raced => n = validations[m], raced \subseteq raced'
  PROVE  /\ standing' \in [Memories -> Memory!Verdict] /\ validations' \in [Memories -> Nat]
         /\ word' \in [Memories -> Memory!Verdict] /\ votes' \in [Memories -> Nat]
         /\ beside' \in [Memories -> SUBSET Memories]
         /\ MemoryWordsOK'
         /\ \A x \in Memories \ {m} : validations'[x] = validations[x]
  <1> USE DEF Memory!TypeOK
  <1>1. /\ standing' = [standing EXCEPT ![m] = v] /\ word' = [word EXCEPT ![m] = v]
        /\ validations' = [validations EXCEPT ![m] = IF v \in Memory!Promoted THEN n + 1 ELSE n]
        /\ votes' = [votes EXCEPT ![m] = IF v \in Memory!Promoted THEN @ + 1 ELSE @]
        /\ beside' = [beside EXCEPT ![m] = listed]
        /\ v \in Memory!Verdicts(m, listed)
    BY DEF Memory!Record
  <1>2. /\ standing' \in [Memories -> Memory!Verdict] /\ validations' \in [Memories -> Nat]
        /\ word' \in [Memories -> Memory!Verdict] /\ votes' \in [Memories -> Nat]
        /\ beside' \in [Memories -> SUBSET Memories]
    BY <1>1
  <1>3. \A x \in Memories \ {m} :
          /\ standing'[x] = standing[x] /\ word'[x] = word[x] /\ validations'[x] = validations[x]
          /\ votes'[x] = votes[x] /\ beside'[x] = beside[x]
    BY <1>1
  <1>4. /\ standing'[m] = v /\ word'[m] = v /\ beside'[m] = listed
        /\ m \notin raced => validations'[m] = votes'[m]
    BY <1>1 DEF MemoryWordsOK
  <1>5. \A x, L : Memory!Verdicts(x, L)' = Memory!Verdicts(x, L)
    BY DEF Memory!Verdicts, Memory!Contradicted
  <1>6. \A x \in Memories :
          /\ standing'[x] = word'[x]
          /\ x \notin raced' => validations'[x] = votes'[x]
          /\ beside'[x] # {} => x \in beside'[x] /\ word'[x] \in Memory!Verdicts(x, beside'[x])
    <2> SUFFICES ASSUME NEW x \in Memories
                 PROVE  /\ standing'[x] = word'[x]
                        /\ x \notin raced' => validations'[x] = votes'[x]
                        /\ beside'[x] # {} => x \in beside'[x]
                           /\ word'[x] \in Memory!Verdicts(x, beside'[x])
      OBVIOUS
    <2>1. CASE x = m BY <1>1, <1>4, <2>1
    <2>2. CASE x # m BY <1>3, <2>2 DEF MemoryWordsOK
    <2> QED BY <2>1, <2>2
  <1> QED BY <1>2, <1>3, <1>6 DEF MemoryWordsOK, Memory!Verdicts, Memory!Contradicted

\* What most steps leave alone.
LEMMA MemoryAlone ==
  ASSUME MemoryWordsOK, UNCHANGED <<standing, validations, word, votes, beside>>,
        raced \subseteq raced'
  PROVE  MemoryWordsOK'
  <1>1. \A x, L : Memory!Verdicts(x, L)' = Memory!Verdicts(x, L)
    BY DEF Memory!Verdicts, Memory!Contradicted
  <1> QED BY <1>1 DEF MemoryWordsOK

LEMMA MemoryInitIInv == ASSUME Memory!ConstantsOK, Memory!Init PROVE MemoryIInv
  <1> USE DEF Memory!Init
  <1>1. Memory!Stored = {} BY DEF Memory!Stored, Memory!Range
  <1>2. Memory!Cardinality(Memories) \in Nat BY MemoryCounts
  <1>3. \A c \in Curators : plan[c] = << >> /\ Memory!Range(plan[c]) = {} BY DEF Memory!Range
  <1>4. Memory!IsInjective(order) BY DEF Memory!IsInjective
  <1>5. Memory!TypeOK
    BY <1>2, <1>4 DEF Memory!TypeOK, Memory!ConstantsOK, Memory!Verdict, Memory!NoRow
  <1>6. MemoryCreatedOK BY <1>1, <1>3 DEF MemoryCreatedOK
  <1>7. MemoryRowsOK BY DEF MemoryRowsOK
  <1>8. MemoryWordsOK BY DEF MemoryWordsOK
  <1>9. Memory!PurgedStays BY DEF Memory!PurgedStays
  <1> QED BY <1>5, <1>6, <1>7, <1>8, <1>9 DEF MemoryIInv

\* The steps of runs, of time and of planners.
LEMMA MemoryAddIInv ==
  ASSUME Memory!ConstantsOK, MemoryIInv, Memory!Add, UNCHANGED postgres PROVE MemoryIInv'
  <1> USE DEF MemoryIInv
  <1>1. Memory!Cardinality(Memories) \in Nat BY MemoryCounts
  <1>2. ever \in Nat /\ aged \in Nat /\ aged <= ever /\ ever < Memory!Cardinality(Memories)
        /\ ever' = ever + 1 /\ order' = <<ever + 1>> \o order
    BY <1>1 DEF Memory!Add, Memory!TypeOK
  <1>3. Memories = 1..Memory!Cardinality(Memories) BY DEF Memory!ConstantsOK
  <1>4. /\ ever + 1 \in Memories /\ 1..ever \subseteq 1..ever' /\ ever + 1 \notin 1..ever
        /\ ever + 1 \in 1..ever'
        /\ ever' \in 0..Memory!Cardinality(Memories) /\ aged \in 0..ever'
    BY <1>1, <1>2, <1>3
  <1>5. ever + 1 \notin Memory!Range(order) BY <1>4 DEF MemoryCreatedOK, Memory!Stored
  <1>6. order' \in Seq(Memories) /\ Memory!IsInjective(order')
        /\ Memory!Stored' = Memory!Stored \cup {ever + 1}
    BY <1>2, <1>4, <1>5, MemoryPrepended DEF Memory!TypeOK, Memory!Stored
  <1>7. UNCHANGED <<aged, expired, standing, validations, plan, group, fetched, doomed, glimpse,
                    reviews, word, votes, beside, purged, raced>>
    BY DEF Memory!Add, Memory!historyVars, Memory!verdictVars
  <1>8. Memory!TypeOK' BY <1>4, <1>6, <1>7 DEF Memory!TypeOK
  <1>9. MemoryCreatedOK' BY <1>4, <1>6, <1>7 DEF MemoryCreatedOK
  <1>10. MemoryRowsOK' BY <1>6, <1>7 DEF MemoryRowsOK, Memory!Busy, MemoryHeld
  <1>11. MemoryWordsOK' BY <1>7, MemoryAlone
  <1>12. Memory!PurgedStays' BY <1>4, <1>6, <1>7 DEF Memory!PurgedStays, MemoryCreatedOK
  <1> QED BY <1>8, <1>9, <1>10, <1>11, <1>12

\* Steps that write nothing but the clock, the listing of a purge and what planners saw.
LEMMA MemoryQuietIInv ==
  ASSUME Memory!ConstantsOK, MemoryIInv,
         UNCHANGED <<postgres, order, ever, standing, validations, plan, group, fetched, reviews,
                     word, votes, beside, purged, raced>>,
         aged' \in 0..ever, expired' \subseteq Expiring, expired \subseteq expired',
         doomed' \subseteq expired' \cap 1..ever,
         DOMAIN glimpse' = Planners, \A p \in Planners : DOMAIN glimpse'[p] \subseteq Memories
  PROVE  MemoryIInv'
  <1> USE DEF MemoryIInv
  <1>1. Memory!TypeOK' BY DEF Memory!TypeOK
  <1>2. Memory!Stored' = Memory!Stored BY DEF Memory!Stored
  <1>3. MemoryCreatedOK' BY <1>2 DEF MemoryCreatedOK
  <1>4. MemoryRowsOK' BY <1>2 DEF MemoryRowsOK, Memory!Busy, MemoryHeld
  <1>5. MemoryWordsOK' BY MemoryAlone
  <1>6. Memory!PurgedStays' BY <1>2 DEF Memory!PurgedStays
  <1> QED BY <1>1, <1>3, <1>4, <1>5, <1>6

LEMMA MemoryKept ==
  ASSUME MemoryIInv
  PROVE  /\ aged \in 0..ever /\ expired \subseteq Expiring /\ doomed \subseteq expired \cap 1..ever
         /\ DOMAIN glimpse = Planners /\ \A p \in Planners : DOMAIN glimpse[p] \subseteq Memories
         /\ Memory!Stored \subseteq 1..ever /\ Memory!Stored \subseteq Memories /\ ever \in Nat
  <1>1. Memory!Stored \subseteq Memories
    <2>1. order \in [DOMAIN order -> Memories] BY DEF MemoryIInv, Memory!TypeOK
    <2> QED BY <2>1 DEF Memory!Stored, Memory!Range
  <1> QED BY <1>1 DEF MemoryIInv, Memory!TypeOK, MemoryCreatedOK

LEMMA MemoryExpireIInv ==
  ASSUME Memory!ConstantsOK, MemoryIInv, NEW m \in Memories, Memory!Expire(m), UNCHANGED postgres
  PROVE MemoryIInv'
  <1>1. m \in Expiring /\ expired' = expired \cup {m} BY DEF Memory!Expire
  <1>2. UNCHANGED <<order, ever, aged, standing, validations, plan, group, fetched, doomed, glimpse,
                    reviews, word, votes, beside, purged, raced>>
    BY DEF Memory!Expire, Memory!historyVars, Memory!verdictVars
  <1> QED BY <1>1, <1>2, MemoryKept, MemoryQuietIInv

LEMMA MemoryAgeIInv ==
  ASSUME Memory!ConstantsOK, MemoryIInv, Memory!Age, UNCHANGED postgres PROVE MemoryIInv'
  <1>1. aged < ever /\ aged' = aged + 1 BY DEF Memory!Age
  <1>2. UNCHANGED <<order, ever, expired, standing, validations, plan, group, fetched, doomed,
          glimpse,
                    reviews, word, votes, beside, purged, raced>>
    BY DEF Memory!Age, Memory!historyVars, Memory!verdictVars
  <1>3. aged \in Nat /\ ever \in Nat BY DEF MemoryIInv, Memory!TypeOK
  <1>4. aged' \in 0..ever BY <1>1, <1>3
  <1> QED BY <1>2, <1>4, MemoryKept, MemoryQuietIInv

LEMMA MemoryListExpiredIInv ==
  ASSUME Memory!ConstantsOK, MemoryIInv, Memory!ListExpired, UNCHANGED postgres PROVE MemoryIInv'
  <1>1. doomed' \subseteq expired \cap Memory!Stored
    BY DEF Memory!ListExpired, Memory!Stored, Memory!Range
  <1>2. UNCHANGED <<order, ever, aged, expired, standing, validations, plan, group, fetched,
          glimpse,
                    reviews, word, votes, beside, purged, raced>>
    BY DEF Memory!ListExpired, Memory!memoryVars, Memory!historyVars, Memory!verdictVars
  <1> QED BY <1>1, <1>2, MemoryKept, MemoryQuietIInv

LEMMA MemoryRetrieveIInv ==
  ASSUME Memory!ConstantsOK, MemoryIInv, NEW p \in Planners, Memory!Retrieve(p),
        UNCHANGED postgres PROVE MemoryIInv'
  <1>1. glimpse' = [glimpse EXCEPT ![p] = [m \in {x \in Memory!Stored : Memory!Visible(x)} |-> standing[m]]]
    BY DEF Memory!Retrieve
  <1>2. UNCHANGED <<order, ever, aged, expired, standing, validations, plan, group, fetched, doomed,
                    reviews, word, votes, beside, purged, raced>>
    BY DEF Memory!Retrieve, Memory!memoryVars, Memory!historyVars, Memory!verdictVars
  <1>3. DOMAIN glimpse' = Planners /\ \A q \in Planners : DOMAIN glimpse'[q] \subseteq Memories
    BY <1>1, MemoryKept
  <1> QED BY <1>2, <1>3, MemoryKept, MemoryQuietIInv

LEMMA MemoryTouchIInv ==
  ASSUME Memory!ConstantsOK, MemoryIInv, NEW p \in Planners, NEW m \in Memories,
        Memory!Touch(p, m), UNCHANGED postgres
  PROVE  MemoryIInv'
  <1>1. glimpse' = [glimpse EXCEPT ![p] = [x \in DOMAIN @ \ {m} |-> @[x]]] BY DEF Memory!Touch
  <1>2. UNCHANGED <<order, ever, aged, expired, validations, plan, group, fetched, doomed,
                    reviews, word, votes, beside, purged, raced>>
    BY DEF Memory!Touch, Memory!historyVars, Memory!verdictVars
  <1>3. standing' = standing BY DEF Memory!Touch, Memory!Touched, MemoryIInv, Memory!TypeOK
  <1>4. DOMAIN glimpse' = Planners /\ \A q \in Planners : DOMAIN glimpse'[q] \subseteq Memories
    BY <1>1, MemoryKept
  <1> QED BY <1>2, <1>3, <1>4, MemoryKept, MemoryQuietIInv

\* The steps of curators.
LEMMA MemoryListIInv ==
  ASSUME Memory!ConstantsOK, MemoryIInv, NEW c \in Curators, Memory!List(c), UNCHANGED postgres
  PROVE MemoryIInv'
  <1> USE DEF MemoryIInv
  <1>1. Memory!Recent \in SUBSET Memories /\ Memory!Recent \subseteq 1..ever
    BY MemoryKept DEF Memory!Recent
  <1>2. PICK s \in Memory!Listing(Memory!Recent) : plan' = [plan EXCEPT ![c] = s] BY DEF Memory!List
  <1>3. s \in Seq(Memories) /\ Memory!Range(s) = Memory!Recent BY <1>1, <1>2, MemoryListingIs
  <1>4. /\ ~Memory!Busy(c) /\ reviews < MaxReviews /\ reviews' = reviews + 1
        /\ group' = [group EXCEPT ![c] = Memory!Recent]
        /\ UNCHANGED <<order, standing, validations, ever, aged, expired, fetched, doomed, glimpse,
                       word, votes, beside, purged, raced>>
    BY DEF Memory!List, Memory!memoryVars, Memory!historyVars, Memory!verdictVars
  <1>5. reviews' \in 0..MaxReviews BY <1>4 DEF Memory!TypeOK, Memory!ConstantsOK
  <1>6. plan \in [Curators -> Seq(Memories)] /\ group \in [Curators -> SUBSET Memories]
    BY DEF Memory!TypeOK
  <1>7. plan' \in [Curators -> Seq(Memories)] /\ group' \in [Curators -> SUBSET Memories]
    BY <1>1, <1>2, <1>3, <1>4, <1>6
  <1>8. Memory!TypeOK' BY <1>4, <1>5, <1>7 DEF Memory!TypeOK
  <1>9. /\ plan'[c] = s /\ group'[c] = Memory!Recent
        /\ \A d \in Curators \ {c} : plan'[d] = plan[d] /\ group'[d] = group[d]
    BY <1>2, <1>4, <1>6
  <1>10. Memory!Stored' = Memory!Stored BY <1>4 DEF Memory!Stored
  <1>11. MemoryCreatedOK' BY <1>1, <1>3, <1>4, <1>9, <1>10 DEF MemoryCreatedOK
  <1>12. fetched[c] = Memory!NoRow BY <1>4 DEF MemoryRowsOK
  <1>13. MemoryRowsOK'
    BY <1>4, <1>9, <1>10, <1>12 DEF MemoryRowsOK, Memory!Busy, MemoryHeld, Memory!NoRow
  <1>14. MemoryWordsOK' BY <1>4, MemoryAlone
  <1>15. Memory!PurgedStays' BY <1>4, <1>10 DEF Memory!PurgedStays
  <1> QED BY <1>8, <1>11, <1>13, <1>14, <1>15

LEMMA MemoryStopIInv ==
  ASSUME Memory!ConstantsOK, MemoryIInv, NEW c \in Curators, Memory!Stop(c), UNCHANGED postgres
  PROVE MemoryIInv'
  <1> USE DEF MemoryIInv
  <1>1. /\ plan' = [plan EXCEPT ![c] = << >>] /\ group' = [group EXCEPT ![c] = {}]
        /\ fetched' = [fetched EXCEPT ![c] = Memory!NoRow]
        /\ UNCHANGED <<order, standing, validations, ever, aged, expired, doomed, glimpse, reviews,
                       word, votes, beside, purged, raced>>
    BY DEF Memory!Stop, Memory!memoryVars, Memory!historyVars, Memory!verdictVars
  <1>2. plan \in [Curators -> Seq(Memories)] /\ group \in [Curators -> SUBSET Memories]
        /\ fetched \in [Curators -> Nat]
    BY DEF Memory!TypeOK
  <1>3. plan' \in [Curators -> Seq(Memories)] /\ group' \in [Curators -> SUBSET Memories]
        /\ fetched' \in [Curators -> Nat]
    BY <1>1, <1>2 DEF Memory!NoRow
  <1>4. Memory!TypeOK' BY <1>1, <1>3 DEF Memory!TypeOK
  <1>5. /\ plan'[c] = << >> /\ group'[c] = {} /\ fetched'[c] = Memory!NoRow
        /\ \A d \in Curators \ {c} : plan'[d] = plan[d] /\ group'[d] = group[d]
           /\ fetched'[d] = fetched[d]
    BY <1>1, <1>2
  <1>6. Memory!Range(<< >>) = {} BY DEF Memory!Range
  <1>7. Memory!Stored' = Memory!Stored BY <1>1 DEF Memory!Stored
  <1>8. MemoryCreatedOK' BY <1>1, <1>5, <1>6, <1>7 DEF MemoryCreatedOK
  <1>9. MemoryRowsOK' BY <1>1, <1>5, <1>7 DEF MemoryRowsOK, Memory!Busy, MemoryHeld, Memory!NoRow
  <1>10. MemoryWordsOK' BY <1>1, MemoryAlone
  <1>11. Memory!PurgedStays' BY <1>1, <1>7 DEF Memory!PurgedStays
  <1> QED BY <1>4, <1>8, <1>9, <1>10, <1>11

LEMMA MemoryGetRowIInv ==
  ASSUME Memory!ConstantsOK, MemoryIInv, NEW c \in Curators, Memory!GetRow(c), UNCHANGED postgres
  PROVE MemoryIInv'
  <1> USE DEF MemoryIInv
  <1> DEFINE m == Head(plan[c])
  <1>1. /\ postgres /\ Memory!Busy(c) /\ fetched[c] = Memory!NoRow
        /\ UNCHANGED <<order, standing, validations, ever, aged, expired, doomed, glimpse, reviews,
                       word, votes, beside, purged, raced>>
    BY DEF Memory!GetRow, Memory!memoryVars, Memory!historyVars, Memory!verdictVars
  <1>2. Memory!Stored' = Memory!Stored BY <1>1 DEF Memory!Stored
  <1>3. Memory!PurgedStays' BY <1>1, <1>2 DEF Memory!PurgedStays
  <1>4. MemoryWordsOK' BY <1>1, MemoryAlone
  <1>5. CASE Memory!RowThere(m)
    <2>1. m \in Memory!Stored /\ fetched' = [fetched EXCEPT ![c] = validations[m] + 1]
          /\ UNCHANGED <<plan, group>>
      BY <1>5 DEF Memory!GetRow, Memory!RowThere
    <2>2. validations[m] + 1 \in Nat BY <2>1, MemoryKept DEF Memory!TypeOK
    <2>3. fetched \in [Curators -> Nat] BY DEF Memory!TypeOK
    <2>4. fetched' \in [Curators -> Nat] BY <2>1, <2>2, <2>3
    <2>5. Memory!TypeOK' BY <1>1, <2>1, <2>4 DEF Memory!TypeOK
    <2>6. MemoryCreatedOK' BY <1>1, <1>2, <2>1 DEF MemoryCreatedOK
    <2>7. fetched'[c] = validations[m] + 1 /\ \A d \in Curators \ {c} : fetched'[d] = fetched[d]
      BY <2>1, <2>3
    <2>8. MemoryRowsOK'
      BY <1>1, <1>2, <2>1, <2>7 DEF MemoryRowsOK, Memory!Busy, MemoryHeld, Memory!NoRow
    <2> QED BY <1>3, <1>4, <2>5, <2>6, <2>8
  <1>6. CASE ~Memory!RowThere(m)
    <2>1. Memory!GoOn(c) /\ UNCHANGED fetched BY <1>6 DEF Memory!GetRow
    <2>2. /\ plan' \in [Curators -> Seq(Memories)] /\ group' \in [Curators -> SUBSET Memories]
          /\ \A d \in Curators : Memory!Range(plan'[d]) \subseteq group'[d]
             /\ group'[d] \subseteq 1..ever
          /\ \A d \in Curators \ {c} : plan'[d] = plan[d]
      BY <1>1, <2>1, MemoryGoesOn
    <2>3. Memory!TypeOK' BY <1>1, <2>1, <2>2 DEF Memory!TypeOK
    <2>4. MemoryCreatedOK' BY <1>1, <1>2, <2>2 DEF MemoryCreatedOK
    <2>5. MemoryRowsOK'
      BY <1>1, <1>2, <2>1, <2>2 DEF MemoryRowsOK, Memory!Busy, MemoryHeld, Memory!NoRow
    <2> QED BY <1>3, <1>4, <2>3, <2>4, <2>5
  <1> QED BY <1>5, <1>6

LEMMA MemoryPutRowIInv ==
  ASSUME Memory!ConstantsOK, MemoryIInv, NEW c \in Curators, NEW v \in Memory!Verdict,
        Memory!PutRow(c, v), UNCHANGED postgres
  PROVE  MemoryIInv'
  <1> USE DEF MemoryIInv
  <1> DEFINE m == Head(plan[c])
  <1>1. /\ postgres /\ Memory!Busy(c) /\ fetched[c] # Memory!NoRow /\ Memory!GoOn(c)
        /\ Memory!Record(m, v, fetched[c] - 1, group[c])
        /\ order' = IF m \in Memory!Stored THEN order ELSE <<m>> \o order
        /\ raced' = IF Memory!Holders(c, m) = {} THEN raced ELSE raced \cup {m}
        /\ fetched' = [fetched EXCEPT ![c] = Memory!NoRow]
        /\ UNCHANGED <<ever, aged, expired, doomed, glimpse, reviews, purged>>
    BY DEF Memory!PutRow
  <1>2. /\ plan' \in [Curators -> Seq(Memories)] /\ group' \in [Curators -> SUBSET Memories]
        /\ \A d \in Curators : Memory!Range(plan'[d]) \subseteq group'[d]
           /\ group'[d] \subseteq 1..ever
        /\ \A d \in Curators \ {c} : plan'[d] = plan[d]
        /\ m \in group[c] /\ m \in Memories
    BY <1>1, MemoryGoesOn
  <1>3. fetched \in [Curators -> Nat] /\ fetched[c] \in Nat /\ fetched[c] # 0
    BY <1>1 DEF Memory!TypeOK, Memory!NoRow
  <1>4. fetched[c] - 1 \in Nat /\ group[c] \in SUBSET Memories BY <1>3 DEF Memory!TypeOK
  <1>5. m \notin raced => m \in Memory!Stored /\ fetched[c] - 1 = validations[m]
    <2>1. m \notin raced => m \in Memory!Stored /\ fetched[c] = validations[m] + 1
      BY <1>1 DEF MemoryRowsOK, MemoryHeld
    <2>2. validations[m] \in Nat BY <1>2 DEF Memory!TypeOK
    <2> QED BY <1>3, <2>1, <2>2
  <1>6. raced \subseteq raced' /\ raced' \subseteq Memories BY <1>1, <1>2 DEF Memory!TypeOK
  <1>7. /\ standing' \in [Memories -> Memory!Verdict] /\ validations' \in [Memories -> Nat]
        /\ word' \in [Memories -> Memory!Verdict] /\ votes' \in [Memories -> Nat]
        /\ beside' \in [Memories -> SUBSET Memories]
        /\ MemoryWordsOK'
        /\ \A x \in Memories \ {m} : validations'[x] = validations[x]
    BY <1>1, <1>2, <1>4, <1>5, <1>6, MemoryRecorded
  <1>8. order' \in Seq(Memories) /\ Memory!IsInjective(order')
        /\ Memory!Stored' = Memory!Stored \cup {m}
    <2>1. CASE m \in Memory!Stored BY <1>1, <2>1 DEF Memory!TypeOK, Memory!Stored
    <2>2. CASE m \notin Memory!Stored
      BY <1>1, <1>2, <2>2, MemoryPrepended DEF Memory!TypeOK, Memory!Stored
    <2> QED BY <2>1, <2>2
  <1>9. fetched' \in [Curators -> Nat] /\ fetched'[c] = Memory!NoRow
        /\ \A d \in Curators \ {c} : fetched'[d] = fetched[d]
    BY <1>1, <1>3 DEF Memory!NoRow
  <1>10. Memory!TypeOK' BY <1>1, <1>2, <1>6, <1>7, <1>8, <1>9 DEF Memory!TypeOK
  <1>11. m \in 1..ever BY <1>2 DEF MemoryCreatedOK
  <1>12. MemoryCreatedOK' BY <1>1, <1>2, <1>8, <1>11 DEF MemoryCreatedOK
  <1>13. ASSUME NEW d \in Curators, fetched'[d] # Memory!NoRow
         PROVE  /\ postgres' /\ Memory!Busy(d)'
                /\ MemoryHeld(d)' \notin raced' => MemoryHeld(d)' \in Memory!Stored'
                   /\ fetched'[d] = validations'[MemoryHeld(d)'] + 1
    <2>1. d # c /\ fetched'[d] = fetched[d] /\ plan'[d] = plan[d] BY <1>2, <1>9, <1>13
    <2>2. postgres' /\ Memory!Busy(d)' /\ Memory!Busy(d)
      BY <1>1, <1>13, <2>1 DEF MemoryRowsOK, Memory!Busy
    <2>3. MemoryHeld(d)' = MemoryHeld(d) BY <2>1 DEF MemoryHeld
    <2>4. CASE MemoryHeld(d) = m
      <3>1. d \in Memory!Holders(c, m) BY <1>13, <2>1, <2>4 DEF Memory!Holders, MemoryHeld
      <3>2. m \in raced' BY <1>1, <3>1
      <3> QED BY <2>2, <2>3, <2>4, <3>2
    <2>5. CASE MemoryHeld(d) # m
      <3>1. MemoryHeld(d) \in Memories
        <4>1. plan[d] \in Seq(Memories) /\ plan[d] # << >> BY <2>2 DEF Memory!TypeOK, Memory!Busy
        <4> QED BY <4>1 DEF MemoryHeld
      <3>2. validations'[MemoryHeld(d)] = validations[MemoryHeld(d)] BY <1>7, <2>5, <3>1
      <3> QED BY <1>6, <1>8, <1>13, <2>1, <2>2, <2>3, <3>2 DEF MemoryRowsOK
    <2> QED BY <2>4, <2>5
  <1>14. MemoryRowsOK' BY <1>13 DEF MemoryRowsOK, Memory!NoRow
  <1>15. Memory!PurgedStays' BY <1>1, <1>5, <1>6, <1>8 DEF Memory!PurgedStays
  <1> QED BY <1>7, <1>10, <1>12, <1>14, <1>15

LEMMA MemoryReviewIInv ==
  ASSUME Memory!ConstantsOK, MemoryIInv, NEW c \in Curators, NEW v \in Memory!Verdict,
        Memory!Review(c, v), UNCHANGED postgres
  PROVE  MemoryIInv'
  <1> USE DEF MemoryIInv
  <1> DEFINE m == Head(plan[c])
  <1>1. /\ ~postgres /\ Memory!Busy(c) /\ Memory!GoOn(c)
        /\ UNCHANGED <<ever, aged, expired, fetched, doomed, glimpse, reviews, purged, raced>>
    BY DEF Memory!Review
  <1>2. /\ plan' \in [Curators -> Seq(Memories)] /\ group' \in [Curators -> SUBSET Memories]
        /\ \A d \in Curators : Memory!Range(plan'[d]) \subseteq group'[d]
           /\ group'[d] \subseteq 1..ever
        /\ \A d \in Curators \ {c} : plan'[d] = plan[d]
        /\ m \in group[c] /\ m \in Memories
    BY <1>1, MemoryGoesOn
  <1>3. MemoryRowsOK'
    <2>1. \A d \in Curators : fetched[d] = Memory!NoRow BY <1>1 DEF MemoryRowsOK
    <2> QED BY <1>1, <2>1 DEF MemoryRowsOK, Memory!NoRow
  <1>4. /\ standing' \in [Memories -> Memory!Verdict] /\ validations' \in [Memories -> Nat]
        /\ word' \in [Memories -> Memory!Verdict] /\ votes' \in [Memories -> Nat]
        /\ beside' \in [Memories -> SUBSET Memories]
        /\ MemoryWordsOK'
        /\ order' \in Seq(Memories) /\ Memory!IsInjective(order') /\ Memory!Stored' = Memory!Stored
    <2>1. CASE m \in Memory!Stored
      <3>1. Memory!Record(m, v, validations[m], group[c]) BY <2>1 DEF Memory!Review
      <3>2. validations[m] \in Nat /\ group[c] \in SUBSET Memories /\ raced \subseteq raced'
        BY <1>1, <1>2 DEF Memory!TypeOK
      <3>3. /\ standing' \in [Memories -> Memory!Verdict] /\ validations' \in [Memories -> Nat]
            /\ word' \in [Memories -> Memory!Verdict] /\ votes' \in [Memories -> Nat]
            /\ beside' \in [Memories -> SUBSET Memories]
            /\ MemoryWordsOK'
        BY <1>2, <3>1, <3>2, MemoryRecorded
      <3>4. PICK others \in Memory!Listing(Memory!Stored \ {m}) : order' = <<m>> \o others
        BY <2>1 DEF Memory!Review
      <3>5. Memory!Stored \ {m} \in SUBSET Memories BY MemoryKept
      <3>6. others \in Seq(Memories) /\ Memory!IsInjective(others)
            /\ Memory!Range(others) = Memory!Stored \ {m}
        BY <3>4, <3>5, MemoryListingIs
      <3>7. m \in Memories /\ m \notin Memory!Range(others) BY <1>2, <3>6
      <3>8. <<m>> \o others \in Seq(Memories) /\ Memory!IsInjective(<<m>> \o others)
            /\ Memory!Range(<<m>> \o others) = Memory!Range(others) \cup {m}
        <4> HIDE DEF m
        <4> QED BY <3>6, <3>7, MemoryPrepended
      <3>9. Memory!Range(order') = Memory!Stored BY <2>1, <3>4, <3>6, <3>8
      <3> QED BY <3>3, <3>4, <3>8, <3>9 DEF Memory!Stored
    <2>2. CASE m \notin Memory!Stored
      <3>1. UNCHANGED <<order, standing, validations, word, votes, beside>>
        BY <2>2 DEF Memory!Review, Memory!memoryVars, Memory!verdictVars
      <3> QED BY <1>1, <3>1, MemoryAlone DEF Memory!TypeOK, Memory!Stored
    <2> QED BY <2>1, <2>2
  <1>5. Memory!TypeOK' BY <1>1, <1>2, <1>4 DEF Memory!TypeOK
  <1>6. MemoryCreatedOK' BY <1>1, <1>2, <1>4 DEF MemoryCreatedOK
  <1>7. Memory!PurgedStays' BY <1>1, <1>4 DEF Memory!PurgedStays
  <1> QED BY <1>3, <1>4, <1>5, <1>6, <1>7

LEMMA MemoryDeleteIInv ==
  ASSUME Memory!ConstantsOK, MemoryIInv, Memory!Delete, UNCHANGED postgres PROVE MemoryIInv'
  <1> USE DEF MemoryIInv
  <1> DEFINE nows == IF postgres THEN {{m} : m \in doomed} ELSE {doomed}
  <1>0. nows \subseteq SUBSET doomed OBVIOUS
  <1>1. PICK now \in SUBSET doomed :
          /\ order' \in Memory!Listing(Memory!Stored \ now)
          /\ doomed' = doomed \ now /\ purged' = purged \cup now
          /\ raced' = raced \cup {m \in now : \E c \in Curators : fetched[c] # Memory!NoRow
             /\ Head(plan[c]) = m}
    BY <1>0, Zenon DEF Memory!Delete
  <1>2. UNCHANGED <<ever, aged, expired, standing, validations, plan, group, fetched, glimpse,
          reviews,
                    word, votes, beside>>
    BY DEF Memory!Delete, Memory!verdictVars
  <1>3. now \subseteq Memories /\ now \subseteq 1..ever /\ now \subseteq expired
    BY <1>1, MemoryKept DEF Memory!ConstantsOK
  <1>4. Memory!Stored \ now \in SUBSET Memories BY MemoryKept
  <1>5. order' \in Seq(Memories) /\ Memory!IsInjective(order')
        /\ Memory!Stored' = Memory!Stored \ now
    BY <1>1, <1>4, MemoryListingIs DEF Memory!Stored
  <1>6. raced \subseteq raced' /\ raced' \subseteq raced \cup now BY <1>1
  <1>7. Memory!TypeOK' BY <1>1, <1>2, <1>3, <1>5, <1>6 DEF Memory!TypeOK
  <1>8. MemoryCreatedOK' BY <1>1, <1>2, <1>3, <1>5 DEF MemoryCreatedOK
  <1>9. ASSUME NEW c \in Curators, fetched[c] # Memory!NoRow
        PROVE  MemoryHeld(c) \notin raced' => MemoryHeld(c) \notin now
    BY <1>1, <1>9 DEF MemoryHeld
  <1>10. MemoryRowsOK' BY <1>2, <1>5, <1>6, <1>9 DEF MemoryRowsOK, Memory!Busy, MemoryHeld
  <1>11. MemoryWordsOK' BY <1>2, <1>6, MemoryAlone
  <1>12. Memory!PurgedStays' BY <1>1, <1>5, <1>6 DEF Memory!PurgedStays
  <1> QED BY <1>7, <1>8, <1>10, <1>11, <1>12

\* Every step.
LEMMA MemoryNextIInv == ASSUME Memory!ConstantsOK, MemoryIInv, Memory!Next PROVE MemoryIInv'
  <1>1. UNCHANGED postgres BY DEF Memory!Next
  <1>2. CASE Memory!Add \/ Memory!Age \/ Memory!ListExpired \/ Memory!Delete
    BY <1>1, <1>2, MemoryAddIInv, MemoryAgeIInv, MemoryListExpiredIInv, MemoryDeleteIInv
  <1>3. CASE \E m \in Memories : Memory!Expire(m) BY <1>1, <1>3, MemoryExpireIInv
  <1>4. CASE \E c \in Curators : Memory!List(c) \/ Memory!GetRow(c) \/ Memory!Stop(c)
    BY <1>1, <1>4, MemoryListIInv, MemoryGetRowIInv, MemoryStopIInv
  <1>5. CASE \E c \in Curators : \E v \in Memory!Verdict : Memory!Review(c, v)
             \/ Memory!PutRow(c, v)
    BY <1>1, <1>5, MemoryReviewIInv, MemoryPutRowIInv
  <1>6. CASE \E p \in Planners : Memory!Retrieve(p) BY <1>1, <1>6, MemoryRetrieveIInv
  <1>7. CASE \E p \in Planners : \E m \in Memories : Memory!Touch(p, m)
    BY <1>1, <1>7, MemoryTouchIInv
  <1> QED BY <1>2, <1>3, <1>4, <1>5, <1>6, <1>7 DEF Memory!Next

LEMMA MemoryStayIInv ==
  ASSUME Memory!ConstantsOK, MemoryIInv, UNCHANGED Memory!vars PROVE MemoryIInv'
  <1>1. UNCHANGED <<postgres, order, ever, aged, expired, standing, validations, plan, group,
          fetched,
                    doomed, glimpse, reviews, word, votes, beside, purged, raced>>
    BY DEF Memory!vars, Memory!historyVars, Memory!verdictVars
  <1> QED BY <1>1, MemoryKept, MemoryQuietIInv

\* What the run checks: the last verdict was reached over a listing that held the other.
LEMMA MemoryReviewsStand ==
  ASSUME MemoryIInv PROVE Memory!PurgedStays /\ Memory!ReviewStands /\ Memory!RivalsApart
  <1> USE DEF MemoryIInv
  <1>1. Memory!ReviewStands BY MemoryKept DEF Memory!ReviewStands, MemoryWordsOK
  <1>2. ASSUME NEW a \in Memory!Stored, NEW b \in Memory!Stored, Memory!Contradicted(a, {a, b}),
                 Memory!Visible(a), b \in beside[a]
        PROVE  FALSE
    <2>1. a \in Memories BY MemoryKept
    <2>2. {a, b} \subseteq beside[a] /\ word[a] \in Memory!Verdicts(a, beside[a])
          /\ standing[a] = word[a]
      BY <1>2, <2>1 DEF MemoryWordsOK
    <2>3. Memory!Contradicted(a, beside[a]) BY <1>2, <2>2 DEF Memory!Contradicted
    <2>4. word[a] \in {"blocked", "needs_review"} BY <2>2, <2>3 DEF Memory!Verdicts
    <2> QED BY <1>2, <2>2, <2>4 DEF Memory!Visible
  <1>3. Memory!RivalsApart BY <1>2 DEF Memory!RivalsApart
  <1> QED BY <1>1, <1>3

LEMMA MemoryIInvHolds == ASSUME Memory!ConstantsOK PROVE Memory!Spec => []MemoryIInv
  <1>1. Memory!Init => MemoryIInv BY MemoryInitIInv
  <1>2. MemoryIInv /\ [Memory!Next]_(Memory!vars) => MemoryIInv' BY MemoryNextIInv, MemoryStayIInv
  <1> QED BY <1>1, <1>2, PTL DEF Memory!Spec

-----------------------------------------------------------------------------
(* Webhook deliveries *)

\* The instance has the finite sets of this module.
LEMMA HookSameSets == ASSUME NEW S
  PROVE (Hook!IsFiniteSet(S) <=> IsFiniteSet(S)) /\ Hook!Cardinality(S) = Cardinality(S)
  BY Zenon DEF Hook!IsFiniteSet, IsFiniteSet, Hook!Cardinality, Cardinality

HookPlaces == Hook!Checking \cup Hook!Taken \cup Hook!Ended \cup {"new"}

\* All of an event's messages are queued, or a delivery has them in hand or lost them.
HookInHand(e) ==
    \/ Hook!Queued(e) \/ e \in spoiled
    \/ \E t \in Webhooks : Event[t] = e /\ delivery[t] \in Hook!Taken

HookQueueOK ==
    \A d \in Webhooks :
        /\ delivery[d] = "queueing" => \A i \in 1..Messages[Event[d]] : i > unqueued[d]
           => <<Event[d], i>> \in enqueued
        /\ delivery[d] = "ok" => Hook!Queued(Event[d])
HookSeenOK ==
    /\ \A e \in seen : HookInHand(e)
    /\ \A d \in Webhooks : delivery[d] = "duplicate" => HookInHand(Event[d])

\* Who may have passed in a bucket, and who was counted in any.
HookHopeful(b) == Hook!Passed(b) \cup {d \in Webhooks : countedIn[d] = b /\ delivery[d] = "first"}
HookTried == {d \in Webhooks : delivery[d] \notin {"new", "claimed"}}
HookCountOK ==
    \A b \in 1..MaxBuckets :
        /\ counts[b] <= Cardinality(HookTried)
        /\ Cardinality(HookHopeful(b)) <= counts[b]
        /\ Cardinality(Hook!Passed(b)) <= SourceLimit
        /\ ~postgres => counts[b] <= SourceLimit

HookIInv == Hook!TypeOK /\ HookQueueOK /\ HookSeenOK /\ HookCountOK

LEMMA HookFinite == ASSUME Hook!ConstantsOK
  PROVE  /\ IsFiniteSet(HookTried) /\ Cardinality(HookTried) \in Nat
         /\ \A b \in 1..MaxBuckets :
              /\ IsFiniteSet(HookHopeful(b)) /\ Cardinality(HookHopeful(b)) \in Nat
              /\ IsFiniteSet(Hook!Passed(b)) /\ Cardinality(Hook!Passed(b)) \in Nat
  <1>1. /\ HookTried \subseteq Webhooks
        /\ \A b \in 1..MaxBuckets : Hook!Passed(b) \subseteq Webhooks
           /\ HookHopeful(b) \subseteq Webhooks
    BY DEF HookTried, Hook!Passed, HookHopeful
  <1> QED BY <1>1, FS_Subset, FS_CardinalityType, HookSameSets DEF Hook!ConstantsOK

\* The types, for every action.
LEMMA HookNextTypes == ASSUME Hook!ConstantsOK, HookIInv, Hook!Next, HookCountOK' PROVE Hook!TypeOK'
  <1> USE DEF Hook!Checking, Hook!Taken, Hook!Refused, Hook!Ended
  <1>t. /\ clock \in 1..MaxBuckets /\ counts \in [1..MaxBuckets -> Nat] /\ MaxBuckets \in Nat
        /\ delivery \in [Webhooks -> HookPlaces] /\ countedIn \in [Webhooks -> 1..MaxBuckets]
        /\ unqueued \in [Webhooks -> Nat] /\ \A d \in Webhooks : unqueued[d] <= Messages[Event[d]]
        /\ enqueued \subseteq UNION {Hook!Jobs(e) : e \in Hook!Events}
           /\ seen \subseteq Hook!Events /\ spoiled \subseteq Hook!Events
        /\ nonces \subseteq {Nonce[d] : d \in Webhooks} \ {NoNonce} /\ postgres' = postgres
           /\ postgres \in BOOLEAN
        /\ \A d \in Webhooks : Event[d] \in Hook!Events /\ Messages[Event[d]] \in Nat
    <2>1. \A b \in 1..MaxBuckets : counts[b] \in Nat
      BY NoMore, HookSameSets DEF HookIInv, Hook!TypeOK, Hook!ConstantsOK
    <2>2. counts \in [1..MaxBuckets -> Nat] BY <2>1 DEF HookIInv, Hook!TypeOK
    <2> QED BY <2>2 DEF HookIInv, Hook!TypeOK, Hook!ConstantsOK, Hook!Next, HookPlaces, Hook!Events
  <1>c. ASSUME counts' \in [1..MaxBuckets -> Nat]
        PROVE counts' \in [1..MaxBuckets -> 0..Cardinality(Webhooks)]
    <2>1. HookTried' \subseteq Webhooks BY DEF HookTried
    <2>2. Cardinality(HookTried') <= Cardinality(Webhooks) /\ Cardinality(HookTried') \in Nat
          /\ Cardinality(Webhooks) \in Nat
      BY <2>1, NoMore, HookSameSets DEF Hook!ConstantsOK
    <2>3. \A b \in 1..MaxBuckets : counts'[b] \in Nat /\ counts'[b] <= Cardinality(HookTried')
      BY <1>c DEF HookCountOK
    <2>4. \A b \in 1..MaxBuckets : counts'[b] \in 0..Cardinality(Webhooks) BY <2>2, <2>3
    <2> QED BY <1>c, <2>4
  \* What suffices for the types of the next state.
  <1>s. ASSUME delivery' \in [Webhooks -> HookPlaces],
               nonces' \subseteq {Nonce[d] : d \in Webhooks} \ {NoNonce}, clock' \in 1..MaxBuckets,
               counts' \in [1..MaxBuckets -> Nat], seen' \subseteq Hook!Events,
                     spoiled' \subseteq Hook!Events,
               enqueued' \subseteq UNION {Hook!Jobs(e) : e \in Hook!Events},
                     countedIn' \in [Webhooks -> 1..MaxBuckets],
               unqueued' \in [Webhooks -> Nat],
                     \A d \in Webhooks : unqueued'[d] <= Messages[Event[d]]
        PROVE  Hook!TypeOK'
    BY <1>s, <1>c, <1>t, HookSameSets DEF Hook!TypeOK, HookPlaces
  <1>g. ASSUME NEW d \in Webhooks, NEW s \in HookPlaces, Hook!Goto(d, s)
        PROVE delivery' \in [Webhooks -> HookPlaces]
    BY <1>g, <1>t DEF Hook!Goto
  <1>1. ASSUME NEW d \in Webhooks, Hook!ClaimNonce(d) PROVE Hook!TypeOK'
    <2>1. delivery' \in [Webhooks -> HookPlaces] BY <1>1, <1>g DEF Hook!ClaimNonce, HookPlaces
    <2>2. nonces' \subseteq {Nonce[e] : e \in Webhooks} \ {NoNonce}
      BY <1>1, <1>t DEF Hook!ClaimNonce
    <2> QED BY <1>1, <2>1, <2>2, <1>s, <1>t DEF Hook!ClaimNonce
  <1>2. ASSUME NEW d \in Webhooks, Hook!TooOld(d) PROVE Hook!TypeOK'
    <2>1. delivery' \in [Webhooks -> HookPlaces] BY <1>2, <1>g DEF Hook!TooOld, HookPlaces
    <2> QED BY <1>2, <2>1, <1>s, <1>t DEF Hook!TooOld
  <1>3. ASSUME NEW d \in Webhooks, Hook!Count(d) PROVE Hook!TypeOK'
    <2>0. Hook!CountSQLite(d) \/ Hook!CountPostgres(d) BY <1>3 DEF Hook!Count
    <2>1. delivery' \in [Webhooks -> HookPlaces]
      <3>1. CASE Hook!CountSQLite(d) BY <3>1, <1>g DEF Hook!CountSQLite, HookPlaces
      <3>2. CASE Hook!CountPostgres(d) BY <3>2, <1>g DEF Hook!CountPostgres, HookPlaces
      <3> QED BY <2>0, <3>1, <3>2
    <2>2. counts' \in [1..MaxBuckets -> Nat]
      <3>1. counts[clock] + 1 \in Nat BY <1>t
      <3>2. counts' = counts \/ counts' = [counts EXCEPT ![clock] = counts[clock] + 1]
        BY <2>0 DEF Hook!CountSQLite, Hook!CountPostgres
      <3> QED BY <1>t, <3>1, <3>2
    <2>3. countedIn' \in [Webhooks -> 1..MaxBuckets] BY <1>3, <1>t DEF Hook!Count
    <2> QED BY <1>3, <2>1, <2>2, <2>3, <1>s, <1>t DEF Hook!Count
  <1>4. ASSUME NEW d \in Webhooks, Hook!ReadCount(d) PROVE Hook!TypeOK'
    <2>1. delivery' \in [Webhooks -> HookPlaces] BY <1>4, <1>g DEF Hook!ReadCount, HookPlaces
    <2> QED BY <1>4, <2>1, <1>s, <1>t DEF Hook!ReadCount
  <1>5. ASSUME NEW d \in Webhooks, Hook!Mark(d) PROVE Hook!TypeOK'
    <2>1. delivery' \in [Webhooks -> HookPlaces] BY <1>5, <1>g DEF Hook!Mark, HookPlaces
    <2>2. seen' \subseteq Hook!Events BY <1>5, <1>t DEF Hook!Mark
    <2> QED BY <1>5, <2>1, <2>2, <1>s, <1>t DEF Hook!Mark
  <1>6. ASSUME NEW d \in Webhooks, Hook!Parse(d) PROVE Hook!TypeOK'
    <2>1. delivery' \in [Webhooks -> HookPlaces] BY <1>6, <1>g DEF Hook!Parse, HookPlaces
    <2>2. unqueued' \in [Webhooks -> Nat] /\ \A e \in Webhooks : unqueued'[e] <= Messages[Event[e]]
      BY <1>6, <1>t DEF Hook!Parse
    <2> QED BY <1>6, <2>1, <2>2, <1>s, <1>t DEF Hook!Parse
  <1>7. ASSUME NEW d \in Webhooks, Hook!Enqueue(d) PROVE Hook!TypeOK'
    <2>1. unqueued[d] - 1 \in Nat /\ unqueued' = [unqueued EXCEPT ![d] = unqueued[d] - 1]
      BY <1>7, <1>t DEF Hook!Enqueue
    <2>2. unqueued' \in [Webhooks -> Nat] /\ \A e \in Webhooks : unqueued'[e] <= Messages[Event[e]]
      BY <2>1, <1>t
    <2>3. unqueued[d] \in 1..Messages[Event[d]] BY <1>7, <1>t DEF Hook!Enqueue
    <2>4. <<Event[d], unqueued[d]>> \in Hook!Jobs(Event[d]) BY <2>3 DEF Hook!Jobs
    <2>5. enqueued' \subseteq UNION {Hook!Jobs(e) : e \in Hook!Events}
      BY <1>7, <1>t, <2>4 DEF Hook!Enqueue
    <2> QED BY <1>7, <2>2, <2>5, <1>s, <1>t DEF Hook!Enqueue
  <1>8. ASSUME NEW d \in Webhooks, Hook!Answer(d) PROVE Hook!TypeOK'
    <2>1. delivery' \in [Webhooks -> HookPlaces] BY <1>8, <1>g DEF Hook!Answer, HookPlaces
    <2> QED BY <1>8, <2>1, <1>s, <1>t DEF Hook!Answer
  <1>9. ASSUME NEW d \in Webhooks, NEW s \in {"raised", "gone"}, Hook!Lose(d, s) PROVE Hook!TypeOK'
    <2>1. delivery' \in [Webhooks -> HookPlaces] BY <1>9, <1>g DEF Hook!Lose, HookPlaces
    <2>2. spoiled' \subseteq Hook!Events BY <1>9, <1>t DEF Hook!Lose
    <2> QED BY <1>9, <2>1, <2>2, <1>s, <1>t DEF Hook!Lose
  <1>10. CASE Hook!NextBucket
    <2>1. clock' \in 1..MaxBuckets BY <1>10, <1>t DEF Hook!NextBucket
    <2> QED BY <1>10, <2>1, <1>s, <1>t DEF Hook!NextBucket
  <1>11. ASSUME NEW e \in Hook!Events, Hook!Forget(e) PROVE Hook!TypeOK'
    BY <1>11, <1>s, <1>t DEF Hook!Forget
  <1> QED BY <1>1, <1>2, <1>3, <1>4, <1>5, <1>6, <1>7, <1>8, <1>9, <1>10, <1>11 DEF Hook!Next

\* What is queued stays queued, and counting enqueues nothing.
LEMMA HookQueuedKept ==
  ASSUME HookIInv, Hook!Next, NEW e \in Hook!Events, Hook!Queued(e) PROVE Hook!Queued(e)'
  <1>1. enqueued \subseteq enqueued'
    BY DEF Hook!Next, Hook!ClaimNonce, Hook!TooOld, Hook!Count, Hook!ReadCount, Hook!Mark,
        Hook!Parse, Hook!Enqueue, Hook!Answer, Hook!Lose, Hook!NextBucket, Hook!Forget
  <1> QED BY <1>1 DEF Hook!Queued, Hook!Jobs

\* The messages of an event, once they are queued or in hand, stay so or are lost for a cause.
LEMMA HookInHandKept ==
  ASSUME Hook!ConstantsOK, HookIInv, Hook!Next, NEW e \in Hook!Events, HookInHand(e)
  PROVE HookInHand(e)'
  <1> USE DEF Hook!Taken, Hook!Checking
  <1>1. CASE Hook!Queued(e) BY <1>1, HookQueuedKept DEF HookInHand
  <1>2. CASE e \in spoiled
    <2>1. e \in spoiled'
      BY <1>2 DEF Hook!Next, Hook!ClaimNonce, Hook!TooOld, Hook!Count, Hook!ReadCount, Hook!Mark,
          Hook!Parse, Hook!Enqueue, Hook!Answer, Hook!Lose, Hook!NextBucket, Hook!Forget
    <2> QED BY <2>1 DEF HookInHand
  <1>3. ASSUME NEW t \in Webhooks, Event[t] = e, delivery[t] \in Hook!Taken PROVE HookInHand(e)'
    <2>0. delivery \in [Webhooks -> HookPlaces] BY DEF HookIInv, Hook!TypeOK, HookPlaces
    <2>s. ASSUME NEW d \in Webhooks, NEW s, Hook!Goto(d, s), s \in Hook!Taken
                 \/ delivery[d] \notin Hook!Taken PROVE HookInHand(e)'
      <3>1. delivery'[t] \in Hook!Taken BY <1>3, <2>0, <2>s DEF Hook!Goto
      <3> QED BY <1>3, <3>1 DEF HookInHand
    <2>u. ASSUME UNCHANGED delivery PROVE HookInHand(e)' BY <1>3, <2>u DEF HookInHand
    <2>1. ASSUME NEW d \in Webhooks, Hook!ClaimNonce(d) PROVE HookInHand(e)'
      BY <2>1, <2>s DEF Hook!ClaimNonce
    <2>2. ASSUME NEW d \in Webhooks, Hook!TooOld(d) PROVE HookInHand(e)'
      BY <2>2, <2>s DEF Hook!TooOld
    <2>3. ASSUME NEW d \in Webhooks, Hook!Count(d) PROVE HookInHand(e)'
      BY <2>3, <2>s DEF Hook!Count, Hook!CountSQLite, Hook!CountPostgres
    <2>4. ASSUME NEW d \in Webhooks, Hook!ReadCount(d) PROVE HookInHand(e)'
      BY <2>4, <2>s DEF Hook!ReadCount
    <2>5. ASSUME NEW d \in Webhooks, Hook!Mark(d) PROVE HookInHand(e)' BY <2>5, <2>s DEF Hook!Mark
    <2>6. ASSUME NEW d \in Webhooks, Hook!Parse(d) PROVE HookInHand(e)' BY <2>6, <2>s DEF Hook!Parse
    <2>7. ASSUME NEW d \in Webhooks, Hook!Enqueue(d) PROVE HookInHand(e)'
      BY <2>7, <2>u DEF Hook!Enqueue
    <2>8. ASSUME NEW d \in Webhooks, Hook!Answer(d) PROVE HookInHand(e)'
      <3>1. CASE d = t
        <4>1. \A i \in 1..Messages[e] : i > 0 => <<e, i>> \in enqueued
          BY <1>3, <2>8, <3>1 DEF Hook!Answer, HookIInv, HookQueueOK
        <4>2. Messages[e] \in Nat BY DEF Hook!ConstantsOK
        <4>3. Hook!Queued(e) BY <4>1, <4>2 DEF Hook!Queued, Hook!Jobs
        <4> QED BY <4>3, HookQueuedKept DEF HookInHand
      <3>2. CASE d # t
        <4>1. delivery'[t] = delivery[t] BY <2>0, <2>8, <3>2 DEF Hook!Answer, Hook!Goto
        <4> QED BY <1>3, <4>1 DEF HookInHand
      <3> QED BY <3>1, <3>2
    <2>9. ASSUME NEW d \in Webhooks, NEW s \in {"raised", "gone"}, Hook!Lose(d, s)
          PROVE HookInHand(e)'
      <3>1. CASE d = t BY <1>3, <2>9, <3>1 DEF Hook!Lose, HookInHand
      <3>2. CASE d # t
        <4>1. delivery'[t] = delivery[t] BY <2>0, <2>9, <3>2 DEF Hook!Lose, Hook!Goto
        <4> QED BY <1>3, <4>1 DEF HookInHand
      <3> QED BY <3>1, <3>2
    <2>10. CASE Hook!NextBucket BY <2>10, <2>u DEF Hook!NextBucket
    <2>11. ASSUME NEW f \in Hook!Events, Hook!Forget(f) PROVE HookInHand(e)'
      BY <2>11, <2>u DEF Hook!Forget
    <2> QED BY <2>1, <2>2, <2>3, <2>4, <2>5, <2>6, <2>7, <2>8, <2>9, <2>10, <2>11 DEF Hook!Next
  <1> QED BY <1>1, <1>2, <1>3 DEF HookInHand

\* What an answered delivery and one that is queueing have done.
LEMMA HookNextQueue == ASSUME Hook!ConstantsOK, HookIInv, Hook!Next PROVE HookQueueOK'
  <1> USE DEF Hook!Taken, Hook!Checking
  <1>0. /\ delivery \in [Webhooks -> HookPlaces] /\ unqueued \in [Webhooks -> Nat]
        /\ \A d \in Webhooks : Event[d] \in Hook!Events /\ unqueued[d] <= Messages[Event[d]]
           /\ Messages[Event[d]] \in Nat
    BY DEF HookIInv, Hook!TypeOK, HookPlaces, Hook!Events, Hook!ConstantsOK
  <1> SUFFICES ASSUME NEW d \in Webhooks
               PROVE  /\ delivery'[d] = "queueing"
                         => \A i \in 1..Messages[Event[d]] : i > unqueued'[d]
                             => <<Event[d], i>> \in enqueued'
                      /\ delivery'[d] = "ok" => Hook!Queued(Event[d])'
    BY DEF HookQueueOK
  <1> DEFINE Goal == /\ delivery'[d] = "queueing"
                        => \A i \in 1..Messages[Event[d]] : i > unqueued'[d]
                            => <<Event[d], i>> \in enqueued'
                     /\ delivery'[d] = "ok" => Hook!Queued(Event[d])'
  <1>j. enqueued \subseteq enqueued'
    BY DEF Hook!Next, Hook!ClaimNonce, Hook!TooOld, Hook!Count, Hook!ReadCount, Hook!Mark,
        Hook!Parse, Hook!Enqueue, Hook!Answer, Hook!Lose, Hook!NextBucket, Hook!Forget
  <1>q. Hook!Queued(Event[d]) => Hook!Queued(Event[d])' BY <1>0, HookQueuedKept
  \* A step that leaves d where it is, or takes it elsewhere than to these places.
  <1>k. ASSUME delivery'[d] = delivery[d], unqueued'[d] = unqueued[d] PROVE Goal
    BY <1>k, <1>j, <1>q DEF HookIInv, HookQueueOK
  <1>s. ASSUME NEW c \in Webhooks, NEW s, Hook!Goto(c, s), s \notin {"queueing", "ok"},
                 UNCHANGED unqueued PROVE Goal
    <2>1. CASE c = d
      <3>1. delivery'[d] = s BY <1>0, <1>s, <2>1 DEF Hook!Goto
      <3> QED BY <1>s, <3>1
    <2>2. CASE c # d
      <3>1. delivery'[d] = delivery[d] BY <1>0, <1>s, <2>2 DEF Hook!Goto
      <3> QED BY <1>s, <3>1, <1>k
    <2> QED BY <2>1, <2>2
  <1>1. ASSUME NEW c \in Webhooks, Hook!ClaimNonce(c) PROVE Goal BY <1>1, <1>s DEF Hook!ClaimNonce
  <1>2. ASSUME NEW c \in Webhooks, Hook!TooOld(c) PROVE Goal BY <1>2, <1>s DEF Hook!TooOld
  <1>3. ASSUME NEW c \in Webhooks, Hook!Count(c) PROVE Goal
    BY <1>3, <1>s DEF Hook!Count, Hook!CountSQLite, Hook!CountPostgres
  <1>4. ASSUME NEW c \in Webhooks, Hook!ReadCount(c) PROVE Goal BY <1>4, <1>s DEF Hook!ReadCount
  <1>5. ASSUME NEW c \in Webhooks, Hook!Mark(c) PROVE Goal BY <1>5, <1>s DEF Hook!Mark
  <1>6. ASSUME NEW c \in Webhooks, Hook!Parse(c) PROVE Goal
    <2>1. CASE c = d
      <3>1. unqueued'[d] = Messages[Event[d]] /\ delivery'[d] = "queueing"
        BY <1>0, <1>6, <2>1 DEF Hook!Parse, Hook!Goto
      <3> QED BY <3>1, <1>0
    <2>2. CASE c # d
      <3>1. delivery'[d] = delivery[d] /\ unqueued'[d] = unqueued[d]
        BY <1>0, <1>6, <2>2 DEF Hook!Parse, Hook!Goto
      <3> QED BY <3>1, <1>k
    <2> QED BY <2>1, <2>2
  <1>7. ASSUME NEW c \in Webhooks, Hook!Enqueue(c) PROVE Goal
    <2>1. CASE c = d
      <3>1. unqueued'[d] = unqueued[d] - 1 /\ unqueued[d] \in Nat /\ delivery'[d] = "queueing"
            /\ delivery[d] = "queueing"
        BY <1>0, <1>7, <2>1 DEF Hook!Enqueue
      <3>2. <<Event[d], unqueued[d]>> \in enqueued' BY <1>7, <2>1 DEF Hook!Enqueue
      <3>3. ASSUME NEW i \in 1..Messages[Event[d]], i > unqueued'[d]
            PROVE <<Event[d], i>> \in enqueued'
        <4>1. CASE i = unqueued[d] BY <3>2, <4>1
        <4>2. CASE i # unqueued[d]
          <5>1. i > unqueued[d] BY <3>1, <3>3, <4>2, <1>0
          <5> QED BY <3>1, <5>1, <1>j DEF HookIInv, HookQueueOK
        <4> QED BY <4>1, <4>2
      <3> QED BY <3>1, <3>3
    <2>2. CASE c # d
      <3>1. delivery'[d] = delivery[d] /\ unqueued'[d] = unqueued[d]
        BY <1>0, <1>7, <2>2 DEF Hook!Enqueue
      <3> QED BY <3>1, <1>k
    <2> QED BY <2>1, <2>2
  <1>8. ASSUME NEW c \in Webhooks, Hook!Answer(c) PROVE Goal
    <2>1. CASE c = d
      <3>1. delivery'[d] = "ok" /\ delivery[d] = "queueing" /\ unqueued[d] = 0
        BY <1>0, <1>8, <2>1 DEF Hook!Answer, Hook!Goto
      <3>2. \A i \in 1..Messages[Event[d]] : i > 0 => <<Event[d], i>> \in enqueued
        BY <3>1 DEF HookIInv, HookQueueOK
      <3>3. Hook!Queued(Event[d]) BY <3>2, <1>0 DEF Hook!Queued, Hook!Jobs
      <3> QED BY <3>1, <3>3, <1>q
    <2>2. CASE c # d
      <3>1. delivery'[d] = delivery[d] /\ unqueued'[d] = unqueued[d]
        BY <1>0, <1>8, <2>2 DEF Hook!Answer, Hook!Goto
      <3> QED BY <3>1, <1>k
    <2> QED BY <2>1, <2>2
  <1>9. ASSUME NEW c \in Webhooks, NEW s \in {"raised", "gone"}, Hook!Lose(c, s) PROVE Goal
    BY <1>9, <1>s DEF Hook!Lose
  <1>10. CASE Hook!NextBucket BY <1>10, <1>k DEF Hook!NextBucket
  <1>11. ASSUME NEW f \in Hook!Events, Hook!Forget(f) PROVE Goal BY <1>11, <1>k DEF Hook!Forget
  <1> QED BY <1>1, <1>2, <1>3, <1>4, <1>5, <1>6, <1>7, <1>8, <1>9, <1>10, <1>11 DEF Hook!Next

\* What was seen is in hand, and stays so.
LEMMA HookNextSeen == ASSUME Hook!ConstantsOK, HookIInv, Hook!Next PROVE HookSeenOK'
  <1>0. /\ delivery \in [Webhooks -> HookPlaces] /\ seen \subseteq Hook!Events
        /\ \A d \in Webhooks : Event[d] \in Hook!Events
    BY DEF HookIInv, Hook!TypeOK, HookPlaces, Hook!Events, Hook!ConstantsOK
  <1>1. /\ \A e \in seen : HookInHand(e)'
        /\ \A d \in Webhooks : delivery[d] = "duplicate" => HookInHand(Event[d])'
    BY <1>0, HookInHandKept DEF HookIInv, HookSeenOK
  \* Only Mark adds a digest or refuses a duplicate.
  <1>s. ASSUME seen' \subseteq seen, \A d \in Webhooks : delivery'[d] = "duplicate"
               => delivery[d] = "duplicate" PROVE HookSeenOK'
    BY <1>s, <1>1 DEF HookSeenOK
  <1>g. ASSUME NEW c \in Webhooks, NEW s, Hook!Goto(c, s), s # "duplicate", seen' = seen
        PROVE HookSeenOK'
    <2>1. \A d \in Webhooks : delivery'[d] = "duplicate" => delivery[d] = "duplicate"
      BY <1>0, <1>g DEF Hook!Goto
    <2> QED BY <1>g, <2>1, <1>s
  <1>2. ASSUME NEW c \in Webhooks, Hook!Mark(c) PROVE HookSeenOK'
    <2>1. CASE Event[c] \in seen
      <3>1. \A d \in Webhooks : delivery'[d] = "duplicate" => d = c \/ delivery[d] = "duplicate"
        BY <1>0, <1>2 DEF Hook!Mark, Hook!Goto
      <3>2. seen' = seen BY <1>2, <2>1 DEF Hook!Mark
      <3> QED BY <1>1, <2>1, <3>1, <3>2 DEF HookSeenOK
    <2>2. CASE Event[c] \notin seen
      <3>1. \A d \in Webhooks : delivery'[d] = "duplicate" => delivery[d] = "duplicate"
        BY <1>0, <1>2, <2>2 DEF Hook!Mark, Hook!Goto
      <3>2. delivery'[c] \in Hook!Taken BY <1>0, <1>2, <2>2 DEF Hook!Mark, Hook!Goto, Hook!Taken
      <3>3. HookInHand(Event[c])' BY <3>2 DEF HookInHand
      <3>4. seen' = seen \cup {Event[c]} BY <1>2 DEF Hook!Mark
      <3> QED BY <1>1, <3>1, <3>3, <3>4 DEF HookSeenOK
    <2> QED BY <2>1, <2>2
  <1>3. ASSUME NEW c \in Webhooks, Hook!ClaimNonce(c) \/ Hook!TooOld(c) \/ Hook!ReadCount(c)
               \/ Hook!Parse(c) \/ Hook!Answer(c) PROVE HookSeenOK'
    BY <1>3, <1>g DEF Hook!ClaimNonce, Hook!TooOld, Hook!ReadCount, Hook!Parse, Hook!Answer
  <1>4. ASSUME NEW c \in Webhooks, Hook!Count(c) PROVE HookSeenOK'
    BY <1>4, <1>g DEF Hook!Count, Hook!CountSQLite, Hook!CountPostgres
  <1>5. ASSUME NEW c \in Webhooks, Hook!Enqueue(c) PROVE HookSeenOK' BY <1>5, <1>s DEF Hook!Enqueue
  <1>6. ASSUME NEW c \in Webhooks, NEW s \in {"raised", "gone"}, Hook!Lose(c, s) PROVE HookSeenOK'
    BY <1>6, <1>g DEF Hook!Lose
  <1>7. CASE Hook!NextBucket BY <1>7, <1>s DEF Hook!NextBucket
  <1>8. ASSUME NEW e \in Hook!Events, Hook!Forget(e) PROVE HookSeenOK' BY <1>8, <1>s DEF Hook!Forget
  <1> QED BY <1>2, <1>3, <1>4, <1>5, <1>6, <1>7, <1>8 DEF Hook!Next

\* Who passes was counted, within the limit.
LEMMA HookNextCount == ASSUME Hook!ConstantsOK, HookIInv, Hook!Next PROVE HookCountOK'
  <1> USE DEF Hook!Taken, Hook!Checking
  <1>0. /\ delivery \in [Webhooks -> HookPlaces] /\ countedIn \in [Webhooks -> 1..MaxBuckets]
           /\ clock \in 1..MaxBuckets
        /\ MaxBuckets \in Nat /\ SourceLimit \in Nat /\ postgres' = postgres
        /\ \A b \in 1..MaxBuckets : counts[b] \in Nat
    <2>1. \A b \in 1..MaxBuckets : counts[b] \in Nat
      BY NoMore, HookSameSets DEF HookIInv, Hook!TypeOK, Hook!ConstantsOK
    <2> QED BY <2>1 DEF HookIInv, Hook!TypeOK, HookPlaces, Hook!ConstantsOK, Hook!Next
  <1>d. DOMAIN counts = 1..MaxBuckets BY DEF HookIInv, Hook!TypeOK
  <1>l. SourceLimit \in Nat BY <1>0
  <1>p. postgres' = postgres BY <1>0
  \* A step that counts nothing and lets nobody pass who was not counted.
  <1>s. ASSUME counts' = counts, HookTried \subseteq HookTried',
               \A b \in 1..MaxBuckets : Hook!Passed(b)' \subseteq HookHopeful(b)
                   /\ HookHopeful(b)' \subseteq HookHopeful(b),
               \A b \in 1..MaxBuckets : Hook!Passed(b)' \subseteq Hook!Passed(b)
                   \/ counts[b] <= SourceLimit
        PROVE  HookCountOK'
    <2>1. IsFiniteSet(HookTried') BY FS_Subset, HookSameSets DEF HookTried, Hook!ConstantsOK
    <2>2. Cardinality(HookTried) <= Cardinality(HookTried') /\ Cardinality(HookTried') \in Nat
          /\ Cardinality(HookTried) \in Nat
      BY <1>s, <2>1, NoMore
    <2>3. ASSUME NEW b \in 1..MaxBuckets
          PROVE  /\ counts'[b] <= Cardinality(HookTried')
                    /\ Cardinality(HookHopeful(b)') <= counts'[b]
                 /\ Cardinality(Hook!Passed(b)') <= SourceLimit
                 /\ ~postgres' => counts'[b] <= SourceLimit
      <3>1. /\ counts[b] <= Cardinality(HookTried) /\ Cardinality(HookHopeful(b)) <= counts[b]
            /\ Cardinality(Hook!Passed(b)) <= SourceLimit
            /\ ~postgres => counts[b] <= SourceLimit BY DEF HookIInv, HookCountOK
      <3>2. /\ IsFiniteSet(HookHopeful(b)) /\ Cardinality(HookHopeful(b)) \in Nat
            /\ IsFiniteSet(Hook!Passed(b)) /\ Cardinality(Hook!Passed(b)) \in Nat BY HookFinite
      <3>3. Cardinality(HookHopeful(b)') <= Cardinality(HookHopeful(b))
            /\ Cardinality(HookHopeful(b)') \in Nat
        BY <1>s, <3>2, NoMore
      <3>4. Cardinality(Hook!Passed(b)') <= Cardinality(HookHopeful(b))
            /\ Cardinality(Hook!Passed(b)') \in Nat
        BY <1>s, <3>2, NoMore
      <3>6. counts'[b] = counts[b] BY <1>s
      <3>5. Cardinality(Hook!Passed(b)') <= SourceLimit
        <4>1. CASE Hook!Passed(b)' \subseteq Hook!Passed(b)
          <5>1. Cardinality(Hook!Passed(b)') <= Cardinality(Hook!Passed(b)) BY <3>2, <4>1, NoMore
          <5> QED BY <1>l, <3>1, <3>2, <3>4, <5>1
        <4>2. CASE counts[b] <= SourceLimit
          <5>1. counts[b] \in Nat BY <1>0
          <5> QED BY <5>1, <4>2, <1>l, <3>1, <3>2, <3>4, <4>2
        <4> QED BY <1>s, <4>1, <4>2
      <3>7. counts[b] \in Nat BY <1>0
      <3>8. counts[b] <= Cardinality(HookTried') /\ Cardinality(HookHopeful(b)') <= counts[b]
        BY <2>2, <3>1, <3>2, <3>3, <3>7
      <3> QED BY <1>p, <3>1, <3>5, <3>6, <3>8
    <2> QED BY <2>3 DEF HookCountOK
  \* A step that moves a delivery between places of one kind, or to the refused.
  <1>g. ASSUME NEW d \in Webhooks, NEW s \in HookPlaces, Hook!Goto(d, s),
                 s \notin {"new", "claimed"}, UNCHANGED <<counts, countedIn>>,
               \/ delivery[d] \in {"new", "claimed", "first"}
                  /\ s \notin Hook!Taken \cup {"counted", "duplicate", "ok", "raised", "first"}
               \/ delivery[d] \in Hook!Taken \cup {"counted"}
        PROVE  HookCountOK'
    <2>1. HookTried \subseteq HookTried' BY <1>0, <1>g DEF HookTried, Hook!Goto
    <2>2. ASSUME NEW b \in 1..MaxBuckets
          PROVE Hook!Passed(b)' \subseteq Hook!Passed(b) /\ HookHopeful(b)' \subseteq HookHopeful(b)
      BY <1>0, <1>g DEF Hook!Passed, HookHopeful, Hook!Goto
    <2>3. \A b \in 1..MaxBuckets : Hook!Passed(b) \subseteq HookHopeful(b) BY DEF HookHopeful
    <2> QED BY <1>g, <2>1, <2>2, <2>3, <1>s
  <1>u. ASSUME UNCHANGED <<delivery, countedIn, counts>> PROVE HookCountOK'
    BY <1>u, <1>0 DEF HookIInv, HookCountOK, HookTried, Hook!Passed, HookHopeful
  <1>1. ASSUME NEW d \in Webhooks, Hook!ClaimNonce(d) PROVE HookCountOK'
    <2>1. CASE delivery' = [delivery EXCEPT ![d] = "claimed"]
      <3>1. HookTried' = HookTried BY <1>0, <1>1, <2>1 DEF Hook!ClaimNonce, HookTried
      <3>2. \A b \in 1..MaxBuckets : Hook!Passed(b)' = Hook!Passed(b)
            /\ HookHopeful(b)' = HookHopeful(b)
        BY <1>0, <1>1, <2>1 DEF Hook!ClaimNonce, Hook!Passed, HookHopeful
      <3> QED BY <1>1, <3>1, <3>2, <1>s DEF Hook!ClaimNonce, HookHopeful
    <2>2. CASE Hook!Goto(d, "replayed")
      BY <1>1, <2>2, <1>g DEF Hook!ClaimNonce, HookPlaces, Hook!Ended, Hook!Refused
    <2> QED BY <1>1, <2>1, <2>2 DEF Hook!ClaimNonce, Hook!Goto
  <1>2. ASSUME NEW d \in Webhooks, Hook!TooOld(d) PROVE HookCountOK'
    BY <1>2, <1>g DEF Hook!TooOld, HookPlaces, Hook!Ended, Hook!Refused
  <1>3. ASSUME NEW d \in Webhooks, Hook!Count(d) PROVE HookCountOK'
    <2>0. (Hook!CountSQLite(d) /\ ~postgres) \/ (Hook!CountPostgres(d) /\ postgres)
      BY <1>3 DEF Hook!Count
    <2>p. delivery[d] = "claimed" /\ countedIn' = [countedIn EXCEPT ![d] = clock]
      BY <1>3 DEF Hook!Count
    <2>1. CASE counts' = counts /\ Hook!Goto(d, "limited")
      <3>1. HookTried \subseteq HookTried' BY <1>0, <2>1, <2>p DEF HookTried, Hook!Goto
      <3>2. \A b \in 1..MaxBuckets : Hook!Passed(b)' = Hook!Passed(b)
            /\ HookHopeful(b)' = HookHopeful(b)
        BY <1>0, <2>1, <2>p DEF Hook!Passed, HookHopeful, Hook!Goto
      <3> QED BY <2>1, <3>1, <3>2, <1>s DEF HookHopeful
    <2>2. ASSUME NEW s \in {"limited", "first", "counted"}, Hook!Goto(d, s),
                   counts' = [counts EXCEPT ![clock] = counts[clock] + 1],
                 s = "counted" => counts[clock] < SourceLimit, ~postgres
                     => counts[clock] < SourceLimit
          PROVE  HookCountOK'
      <3>1. HookTried' = HookTried \cup {d} /\ d \notin HookTried
        BY <1>0, <2>2, <2>p DEF HookTried, Hook!Goto
      <3>2. Cardinality(HookTried') = Cardinality(HookTried) + 1 /\ Cardinality(HookTried) \in Nat
        BY <3>1, HookFinite, OneMore
      <3>3. ASSUME NEW b \in 1..MaxBuckets
            PROVE  /\ counts'[b] <= Cardinality(HookTried')
                      /\ Cardinality(HookHopeful(b)') <= counts'[b]
                   /\ Cardinality(Hook!Passed(b)') <= SourceLimit
                   /\ ~postgres' => counts'[b] <= SourceLimit
        <4>1. /\ counts[b] <= Cardinality(HookTried) /\ Cardinality(HookHopeful(b)) <= counts[b]
              /\ Cardinality(Hook!Passed(b)) <= SourceLimit
              /\ ~postgres => counts[b] <= SourceLimit BY DEF HookIInv, HookCountOK
        <4>2. /\ IsFiniteSet(HookHopeful(b)) /\ Cardinality(HookHopeful(b)) \in Nat
              /\ IsFiniteSet(Hook!Passed(b)) /\ Cardinality(Hook!Passed(b)) \in Nat BY HookFinite
        <4>n. counts[b] \in Nat BY <1>0
        <4>3. CASE b = clock
          <5>1. HookHopeful(b)' \subseteq HookHopeful(b) \cup {d}
            BY <1>0, <2>2, <2>p DEF HookHopeful, Hook!Passed, Hook!Goto
          <5>2. Cardinality(HookHopeful(b)') <= Cardinality(HookHopeful(b)) + 1
                /\ Cardinality(HookHopeful(b)') \in Nat
            BY <4>2, <5>1, OneMore
          <5>3. counts'[b] = counts[b] + 1 BY <1>d, <2>2, <4>3
          <5>4. Cardinality(Hook!Passed(b)') <= SourceLimit
            <6>1. CASE s = "counted"
              <7>1. Hook!Passed(b)' \subseteq HookHopeful(b)' BY DEF HookHopeful
              <7>2. IsFiniteSet(HookHopeful(b)') BY <4>2, <5>1, OneMore
              <7>3. Cardinality(Hook!Passed(b)') <= Cardinality(HookHopeful(b)')
                    /\ Cardinality(Hook!Passed(b)') \in Nat
                BY <7>1, <7>2, NoMore
              <7>4. counts[b] < SourceLimit BY <2>2, <4>3, <6>1
              <7> QED BY <1>0, <4>1, <4>2, <4>n, <5>2, <7>3, <7>4
            <6>2. CASE s # "counted"
              <7>1. Hook!Passed(b)' \subseteq Hook!Passed(b)
                BY <1>0, <2>2, <2>p, <6>2 DEF Hook!Passed, Hook!Goto
              <7>2. Cardinality(Hook!Passed(b)') <= Cardinality(Hook!Passed(b))
                    /\ Cardinality(Hook!Passed(b)') \in Nat
                BY <4>2, <7>1, NoMore
              <7> QED BY <1>l, <4>1, <4>2, <7>2
            <6> QED BY <6>1, <6>2
          <5>5. ~postgres' => counts[b] + 1 <= SourceLimit BY <1>0, <2>2, <4>3, <4>n
          <5>6. counts[b] + 1 <= Cardinality(HookTried') BY <3>2, <4>1, <4>n
          <5>7. Cardinality(HookHopeful(b)') <= counts[b] + 1 BY <4>1, <4>2, <4>n, <5>2
          <5> QED BY <5>3, <5>4, <5>5, <5>6, <5>7
        <4>4. CASE b # clock
          <5>1. HookHopeful(b)' = HookHopeful(b) /\ Hook!Passed(b)' = Hook!Passed(b)
            BY <1>0, <2>2, <2>p, <4>4 DEF HookHopeful, Hook!Passed, Hook!Goto
          <5>2. counts'[b] = counts[b] BY <1>d, <2>2, <4>4
          <5>3. counts[b] <= Cardinality(HookTried') BY <3>2, <4>1, <4>n
          <5> QED BY <1>0, <4>1, <5>1, <5>2, <5>3
        <4>g. b = clock \/ b # clock OBVIOUS
        <4> QED BY <4>3, <4>4, <4>g
      <3> QED BY <3>3 DEF HookCountOK
    <2>3. CASE Hook!CountSQLite(d) /\ ~postgres BY <2>1, <2>2, <2>3 DEF Hook!CountSQLite
    <2>4. CASE Hook!CountPostgres(d) /\ postgres
      <3>n. counts[clock] \in Nat /\ SourceLimit \in Nat BY <1>0
      <3>1. counts' = [counts EXCEPT ![clock] = counts[clock] + 1] BY <2>4 DEF Hook!CountPostgres
      <3>2. CASE counts[clock] = 0 BY <2>2, <2>4, <3>1, <3>2 DEF Hook!CountPostgres
      <3>3. CASE counts[clock] + 1 > SourceLimit /\ counts[clock] > 0
        BY <2>2, <2>4, <3>1, <3>3 DEF Hook!CountPostgres
      <3>4. CASE counts[clock] # 0 /\ ~(counts[clock] + 1 > SourceLimit /\ counts[clock] > 0)
        <4>1. counts[clock] < SourceLimit BY <3>n, <3>4
        <4> QED BY <2>2, <2>4, <3>1, <3>4, <4>1 DEF Hook!CountPostgres
      <3> QED BY <3>2, <3>3, <3>4
    <2> QED BY <2>0, <2>3, <2>4
  <1>4. ASSUME NEW d \in Webhooks, Hook!ReadCount(d) PROVE HookCountOK'
    <2>1. CASE Hook!Goto(d, "limited")
      BY <1>4, <2>1, <1>g DEF Hook!ReadCount, HookPlaces, Hook!Ended, Hook!Refused
    <2>2. CASE Hook!Goto(d, "counted") /\ ~(counts[countedIn[d]] > SourceLimit)
      <3>1. HookTried \subseteq HookTried'
        BY <1>0, <1>4, <2>2 DEF Hook!ReadCount, HookTried, Hook!Goto
      <3>2. \A b \in 1..MaxBuckets : Hook!Passed(b)' \subseteq HookHopeful(b)
            /\ HookHopeful(b)' \subseteq HookHopeful(b)
        BY <1>0, <1>4, <2>2 DEF Hook!ReadCount, Hook!Passed, HookHopeful, Hook!Goto
      <3>3. \A b \in 1..MaxBuckets : b # countedIn[d] => Hook!Passed(b)' \subseteq Hook!Passed(b)
        BY <1>0, <1>4, <2>2 DEF Hook!ReadCount, Hook!Passed, Hook!Goto
      <3>4. counts[countedIn[d]] <= SourceLimit BY <1>0, <2>2
      <3>5. \A b \in 1..MaxBuckets : Hook!Passed(b)' \subseteq Hook!Passed(b)
            \/ counts[b] <= SourceLimit
        BY <3>3, <3>4
      <3>6. counts' = counts BY <1>4 DEF Hook!ReadCount
      <3> QED BY <3>1, <3>2, <3>5, <3>6, <1>s
    <2> QED BY <1>4, <2>1, <2>2 DEF Hook!ReadCount
  <1>5. ASSUME NEW d \in Webhooks, Hook!Mark(d) \/ Hook!Parse(d) \/ Hook!Answer(d)
        PROVE HookCountOK'
    BY <1>5, <1>g DEF Hook!Mark, Hook!Parse, Hook!Answer, HookPlaces, Hook!Ended, Hook!Refused
  <1>6. ASSUME NEW d \in Webhooks, Hook!Enqueue(d) PROVE HookCountOK' BY <1>6, <1>u DEF Hook!Enqueue
  <1>7. ASSUME NEW d \in Webhooks, NEW s \in {"raised", "gone"}, Hook!Lose(d, s) PROVE HookCountOK'
    BY <1>7, <1>g DEF Hook!Lose, HookPlaces, Hook!Ended, Hook!Refused
  <1>8. CASE Hook!NextBucket BY <1>8, <1>u DEF Hook!NextBucket
  <1>9. ASSUME NEW e \in Hook!Events, Hook!Forget(e) PROVE HookCountOK'
    BY <1>9, <1>u DEF Hook!Forget
  <1> QED BY <1>1, <1>2, <1>3, <1>4, <1>5, <1>6, <1>7, <1>8, <1>9 DEF Hook!Next

LEMMA HookIInvHolds == ASSUME Hook!ConstantsOK PROVE Hook!Spec => []HookIInv
  <1>1. Hook!Init => HookIInv
    <2> SUFFICES ASSUME Hook!Init PROVE HookIInv OBVIOUS
    <2> USE DEF Hook!Init, Hook!Checking, Hook!Taken
    <2>1. HookTried = {} /\ \A b \in 1..MaxBuckets : HookHopeful(b) = {} /\ Hook!Passed(b) = {}
      BY DEF HookTried, HookHopeful, Hook!Passed
    <2>2. Cardinality(HookTried) = 0 /\ \A b \in 1..MaxBuckets : Cardinality(HookHopeful(b)) = 0
          /\ Cardinality(Hook!Passed(b)) = 0
      BY <2>1, FS_EmptySet
    <2>3. HookCountOK BY <2>2, HookSameSets DEF HookCountOK, Hook!ConstantsOK
    <2>4. Cardinality(Webhooks) \in Nat BY FS_CardinalityType, HookSameSets DEF Hook!ConstantsOK
    <2>5. \A d \in Webhooks : 0 <= Messages[Event[d]] BY DEF Hook!ConstantsOK, Hook!Events
    <2>6. Hook!TypeOK BY <2>4, <2>5, HookSameSets DEF Hook!TypeOK, Hook!ConstantsOK
    <2> QED BY <2>3, <2>6 DEF HookIInv, HookQueueOK, HookSeenOK
  <1>2. HookIInv /\ [Hook!Next]_(Hook!vars) => HookIInv'
    <2>1. CASE UNCHANGED Hook!vars
      <3>0. UNCHANGED <<postgres, nonces, clock, counts, seen, enqueued, delivery, countedIn,
              unqueued, spoiled>>
        BY <2>1 DEF Hook!vars
      <3>1. Hook!TypeOK => Hook!TypeOK' BY <3>0 DEF Hook!TypeOK
      <3>2. HookQueueOK => HookQueueOK' BY <3>0 DEF HookQueueOK, Hook!Queued
      <3>3. HookSeenOK => HookSeenOK' BY <3>0 DEF HookSeenOK, HookInHand, Hook!Queued
      <3>4. HookCountOK => HookCountOK' BY <3>0 DEF HookCountOK, HookTried, HookHopeful, Hook!Passed
      <3> QED BY <3>1, <3>2, <3>3, <3>4 DEF HookIInv
    <2>2. ASSUME HookIInv, Hook!Next PROVE HookIInv'
      BY <2>2, HookNextTypes, HookNextQueue, HookNextSeen, HookNextCount DEF HookIInv
    <2> QED BY <2>1, <2>2
  <1> QED BY <1>1, <1>2, PTL DEF Hook!Spec

\* What the runs check follows.
LEMMA HookWebhooksCounted ==
  ASSUME Hook!ConstantsOK, HookIInv PROVE Hook!TakenIsQueued /\ Hook!RateHolds
  <1>1. Hook!TakenIsQueued BY DEF HookIInv, HookQueueOK, HookSeenOK, HookInHand, Hook!TakenIsQueued
  <1> QED BY <1>1, HookSameSets DEF HookIInv, HookCountOK, Hook!RateHolds

-----------------------------------------------------------------------------
(* The composition *)

LEMMA UpkeepSteps ==
  ASSUME [Next]_vars
  PROVE  /\ [Files!Next]_(Files!vars) /\ [Audit!Next]_(Audit!vars)
            /\ [Releases!Next]_(Releases!vars)
         /\ [Upgrade!Next]_(Upgrade!vars) /\ [Memory!Next]_(Memory!vars) /\ [Hook!Next]_(Hook!vars)
  <1>1. UNCHANGED fileVars => UNCHANGED Files!vars
    BY DEF fileVars, Files!vars, Files!projects, Files!process, Files!bounds
  <1>2. UNCHANGED auditVars => UNCHANGED Audit!vars BY DEF auditVars, Audit!vars
  <1>3. UNCHANGED releaseVars => UNCHANGED Releases!vars BY DEF releaseVars, Releases!vars
  <1>4. UNCHANGED proposalVars => UNCHANGED Upgrade!vars BY DEF proposalVars, Upgrade!vars
  <1>5. UNCHANGED <<hookVars, postgres>> => UNCHANGED Hook!vars BY DEF hookVars, Hook!vars
  <1>6. UNCHANGED <<memoryVars, postgres>> => UNCHANGED Memory!vars
    BY DEF memoryVars, Memory!vars, Memory!historyVars, Memory!verdictVars
  <1> QED BY <1>1, <1>2, <1>3, <1>4, <1>5, <1>6
    DEF Next, UpkeepStep, FileStep, AuditStep, ReleaseStep, ProposalStep, MemoryStep, HookStep,
        vars, upkeepVars

LEMMA UpkeepComponents ==
  Spec => /\ Files!Spec /\ Audit!Spec /\ Releases!Spec
          /\ Upgrade!Spec /\ Memory!Spec /\ Hook!Spec
  <1>1. Init => /\ Files!Init /\ Audit!Init /\ Releases!Init
                /\ Upgrade!Init /\ Memory!Init /\ Hook!Init
    BY DEF Init, UpkeepInit
  <1>2. [Next]_vars => /\ [Files!Next]_(Files!vars) /\ [Audit!Next]_(Audit!vars)
                       /\ [Releases!Next]_(Releases!vars)
                       /\ [Upgrade!Next]_(Upgrade!vars) /\ [Memory!Next]_(Memory!vars)
                       /\ [Hook!Next]_(Hook!vars)
    BY UpkeepSteps
  <1> QED BY <1>1, <1>2, PTL
    DEF Spec, Files!Spec, Audit!Spec, Releases!Spec, Upgrade!Spec, Memory!Spec, Hook!Spec

\* The invariants of the six components.
UpkeepIInv == FilesIInv /\ AuditIInv /\ ReleasesIInv /\ UpgradeIInv /\ MemoryIInv /\ HookIInv

LEMMA UpkeepIInvHolds == Spec => []UpkeepIInv
  <1>1. Spec => []FilesIInv BY UpkeepAssumption, FilesIInvHolds, UpkeepComponents, PTL
  <1>2. Spec => []AuditIInv BY UpkeepAssumption, AuditIInvHolds, UpkeepComponents, PTL
  <1>3. Spec => []ReleasesIInv BY UpkeepAssumption, ReleasesIInvHolds, UpkeepComponents, PTL
  <1>4. Spec => []UpgradeIInv BY UpkeepAssumption, UpgradeIInvHolds, UpkeepComponents, PTL
  <1>5. Spec => []HookIInv BY UpkeepAssumption, HookIInvHolds, UpkeepComponents, PTL
  <1>6. Spec => []MemoryIInv BY UpkeepAssumption, MemoryIInvHolds, UpkeepComponents, PTL
  <1> QED BY <1>1, <1>2, <1>3, <1>4, <1>5, <1>6, PTL DEF UpkeepIInv

\* A damaged project file is never taken for an empty one: a process that finds no file,
\* or an unreadable one, knows it by the marker; and as long as no more files are damaged
\* than the rotation keeps, there is a backup with what the file held.
THEOREM FailsClosedHolds == Spec => []FailsClosed
  <1>1. UpkeepIInv => FailsClosed
    BY UpkeepAssumption, FilesFilesStand DEF UpkeepIInv, FailsClosed
  <1> QED BY <1>1, UpkeepIInvHolds, PTL

\* The audit chain forks only where calls overlapped, and an entry names an earlier one;
\* a proposal is in one place, and a human decision about it stays.
THEOREM LateWritesShowHolds == Spec => []LateWritesShow
  <1>1. UpkeepIInv => LateWritesShow
    BY UpkeepAssumption, AuditChainStands, UpgradeDecisionStands DEF UpkeepIInv, LateWritesShow
  <1> QED BY <1>1, UpkeepIInvHolds, PTL

\* Between runs, what current points to passed its health check, or one of the accidents
\* that are named put it there, and it is never behind what runs; a canary was tested.
THEOREM ActiveWasCheckedHolds == Spec => []ActiveWasChecked
  <1>1. UpkeepIInv => ActiveWasChecked
    BY UpkeepAssumption, ReleasesCurrentIsGood, UpgradeDecisionStands
    DEF UpkeepIInv, ActiveWasChecked
  <1> QED BY <1>1, UpkeepIInvHolds, PTL

\* The last verdict on a memory stands, a purged one is back only where a review held its
\* row, and one that is shown was not last reviewed together with one that contradicts it.
THEOREM MemoryStandsHolds == Spec => []MemoryStands
  <1>1. UpkeepIInv => MemoryStands
    BY MemoryReviewsStand DEF UpkeepIInv, MemoryStands, MemoryIInv
  <1> QED BY <1>1, UpkeepIInvHolds, PTL
=============================================================================
