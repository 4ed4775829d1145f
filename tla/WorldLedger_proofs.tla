-------------------------- MODULE WorldLedger_proofs -------------------------
(***************************************************************************)
(* Proofs about WorldLedger, for every set of owners, keys and chunks: the *)
(* projection is well-formed and loses no live belief, a malformed block   *)
(* changes nothing in it, and for keys of one word and status lines that   *)
(* say something the two scripts agree on what is refused and disputed.    *)
(***************************************************************************)
EXTENDS WorldLedger, FiniteSetTheorems, FunctionTheorems, SequenceTheorems, TLAPS

-----------------------------------------------------------------------------
(* Facts about finite sets. *)

\* What a function makes of a finite set is finite.
LEMMA ImageFinite ==
  ASSUME NEW S, IsFiniteSet(S), NEW T, NEW f \in [S -> T],
         \A t \in T : \E s \in S : f[s] = t
  PROVE  IsFiniteSet(T)
<1>1. f \in Surjection(S, T)
  BY DEF Surjection
<1> QED
  BY <1>1, FS_Surjection

\* A nonempty set of line numbers has a last one, which is what Max chooses.
LEMMA MaxOfLines ==
  ASSUME NEW n \in Nat, NEW S \in SUBSET (1..n), S # {}
  PROVE  /\ Max(S) \in S
         /\ \A y \in S : Max(S) >= y
<1> DEFINE From(x) == {y \in S : y >= x}
           Tails == {From(x) : x \in S}
<1>1. IsFiniteSet(S)
  <2>1. IsFiniteSet(1..n)
    BY FS_Interval
  <2> QED
    BY <2>1, FS_Subset
<1>2. Tails \subseteq SUBSET S /\ Tails # {}
  OBVIOUS
<1>3. FiniteSubsetsOf(S) = SUBSET S
  BY <1>1, FS_FiniteSubsetsOfFinite
<1>4. IsWellFoundedOn(StrictSubsetOrdering(S), SUBSET S)
  BY <1>3, FS_StrictSubsetOrderingWellFounded
<1> HIDE DEF Tails
<1>5. PICK U \in Tails : \A V \in Tails : <<V, U>> \notin StrictSubsetOrdering(S)
  BY <1>2, <1>4, WFMin
<1>6. PICK x \in S : U = From(x)
  BY <1>5 DEF Tails
<1>7. ASSUME NEW y \in S
      PROVE  x >= y
  <2>1. SUFFICES ASSUME y > x
                 PROVE  FALSE
    OBVIOUS
  <2>2. From(y) \in Tails /\ From(y) \subseteq S /\ U \subseteq S
    BY <1>6 DEF Tails
  <2>3. From(y) \subseteq U /\ From(y) # U
    <3>1. x \in U /\ x \notin From(y)
      BY <1>6, <2>1
    <3>2. From(y) \subseteq U
      <4>1. \A z \in S : z >= y => z >= x
        BY <2>1
      <4> QED
        BY <1>6, <4>1
    <3> QED
      BY <3>1, <3>2
  <2> HIDE DEF From
  <2>4. <<From(y), U>> \in StrictSubsetOrdering(S)
    BY <2>2, <2>3 DEF StrictSubsetOrdering
  <2> QED
    BY <2>2, <2>4, <1>5
<1>8. \E m \in S : \A y \in S : m >= y
  BY <1>7
<1> QED
  BY <1>8 DEF Max

\* In a strict total order of a finite set, given by what comes before each
\* element, as many elements as the cap allows, or all, have fewer than that
\* before them.
LEMMA TopOfOrder ==
  ASSUME NEW S, IsFiniteSet(S), NEW cap \in Nat, NEW before \in [S -> SUBSET S],
         \A x \in S : x \notin before[x],
         \A x, y \in S : x \in before[y] => before[x] \subseteq before[y],
         \A x, y \in S : x # y => x \in before[y] \/ y \in before[x],
         NEW top, top = {x \in S : Cardinality(before[x]) < cap}
  PROVE  Cardinality(top) = IF Cardinality(S) > cap THEN cap ELSE Cardinality(S)
<1> DEFINE n == Cardinality(S)
           rank == [x \in S |-> Cardinality(before[x])]
           ranks == 0..(n - 1)
           low == 0..((IF n > cap THEN cap ELSE n) - 1)
<1>1. n \in Nat
  BY FS_CardinalityType
<1> HIDE DEF n
<1>2. ASSUME NEW x \in S
      PROVE  /\ IsFiniteSet(before[x])
             /\ Cardinality(before[x]) \in 0..(n - 1)
  <2>1. before[x] \in SUBSET S /\ x \notin before[x]
    OBVIOUS
  <2>2. IsFiniteSet(before[x]) /\ Cardinality(before[x]) <= n
    BY <2>1, FS_Subset DEF n
  <2>3. Cardinality(before[x]) # n
    BY <2>1, FS_Subset DEF n
  <2>4. Cardinality(before[x]) \in Nat
    BY <2>2, FS_CardinalityType
  <2> QED
    BY <1>1, <2>2, <2>3, <2>4
<1>3. ASSUME NEW x \in S, NEW y \in S, x \in before[y]
      PROVE  Cardinality(before[x]) < Cardinality(before[y])
  <2>1. before[x] \in SUBSET before[y]
    BY <1>3
  <2>2. x \in before[y] /\ x \notin before[x]
    BY <1>3
  <2>3. /\ IsFiniteSet(before[y])
        /\ Cardinality(before[x]) \in Nat /\ Cardinality(before[y]) \in Nat
    BY <1>2, <1>1
  <2>4. Cardinality(before[x]) <= Cardinality(before[y])
    BY <2>1, <2>3, FS_Subset
  <2>5. Cardinality(before[x]) # Cardinality(before[y])
    BY <2>1, <2>2, <2>3, FS_Subset
  <2> QED
    BY <2>3, <2>4, <2>5
<1>4. rank \in [S -> 0..(n - 1)]
  BY <1>2
<1>5. rank \in Injection(S, 0..(n - 1))
  <2>1. ASSUME NEW x \in S, NEW y \in S, x # y
        PROVE  rank[x] # rank[y]
    <3>1. Cardinality(before[x]) \in Int /\ Cardinality(before[y]) \in Int
      BY <1>2
    <3>2. Cardinality(before[x]) # Cardinality(before[y])
      <4>1. CASE x \in before[y]
        BY <4>1, <3>1, <1>3
      <4>2. CASE y \in before[x]
        BY <4>2, <3>1, <1>3
      <4> QED
        BY <2>1, <4>1, <4>2
    <3> QED
      BY <3>2
  <2> QED
    BY <1>4, <2>1 DEF Injection, IsInjective
<1>6. IsFiniteSet(0..(n - 1)) /\ Cardinality(0..(n - 1)) = n
  <2>1. n - 1 \in Int
    BY <1>1
  <2>2. /\ IsFiniteSet(0..(n - 1))
        /\ Cardinality(0..(n - 1)) = IF 0 > n - 1 THEN 0 ELSE (n - 1) - 0 + 1
    BY <2>1, FS_Interval
  <2> QED
    BY <1>1, <2>2
<1>7. rank \in Surjection(S, ranks)
  <2>1. rank \in Injection(S, ranks) /\ IsFiniteSet(ranks)
    BY <1>5, <1>6
  <2>2. Cardinality(S) = Cardinality(ranks)
    BY <1>6 DEF n
  <2> HIDE DEF rank, ranks
  <2> QED
    BY <2>1, <2>2, FS_Injection
<1> HIDE DEF rank, ranks
<1>8. \A x, y \in S : rank[x] = rank[y] => x = y
  BY <1>5, Fun_InjectionProperties
<1>9. \A r \in ranks : \E x \in S : rank[x] = r
  BY <1>7, Fun_SurjectionProperties
<1>10. top \in SUBSET S /\ IsFiniteSet(top)
  BY FS_Subset
<1> DEFINE f == [x \in top |-> rank[x]]
<1>11. \A x \in top : rank[x] \in low
  BY <1>1, <1>2 DEF rank
<1>12. \A r \in low : \E x \in top : rank[x] = r
  <2> SUFFICES ASSUME NEW r \in low
               PROVE  \E x \in top : rank[x] = r
    OBVIOUS
  <2>1. r \in 0..(n - 1) /\ r < cap
    BY <1>1
  <2> QED
    BY <2>1, <1>9 DEF rank, ranks
<1> HIDE DEF low
<1>13. f \in [top -> low]
  BY <1>11
<1>14. f \in Injection(top, low)
  BY <1>13, <1>8, <1>10 DEF Injection, IsInjective
<1>15. f \in Surjection(top, low)
  BY <1>13, <1>12 DEF Surjection
<1>16. IsFiniteSet(low) /\ Cardinality(low) = IF n > cap THEN cap ELSE n
  <2> DEFINE k == (IF n > cap THEN cap ELSE n) - 1
  <2>1. low = 0..k
    BY DEF low
  <2>2. k \in Int
    BY <1>1
  <2>3. IsFiniteSet(0..k) /\ Cardinality(0..k) = IF 0 > k THEN 0 ELSE k - 0 + 1
    <3> HIDE DEF k
    <3> QED
      BY <2>2, FS_Interval
  <2> QED
    BY <1>1, <2>1, <2>3
<1>17. Cardinality(top) = Cardinality(low)
  BY <1>14, <1>15, <1>16, FS_Injection
<1> QED
  BY <1>10, <1>16, <1>17 DEF n

-----------------------------------------------------------------------------
(* What the files hold. *)

\* A status line in a file always has a value.
StatusInv ==
  \A o \in Owners : \A i \in DOMAIN files[o] :
    files[o][i].field = "status" => files[o][i].value # Blank

\* templates/world-claims.md: no chunk and no ruling leaves a status line empty.
StatusesFilled ==
  /\ Blank \notin Rulings
  /\ \A chunk \in Chunks : \A i \in DOMAIN chunk :
       chunk[i].field = "status" => chunk[i].value # Blank

\* templates/world-claims.md: a key is one word.
OneWordKeys == \A k \in Keys : Word[k] = k

\* An edited status line is still a line.
LEMMA EditedLine ==
  ASSUME NEW line \in Lines, line.field = "status", NEW value \in STRING \cup {Blank}
  PROVE  /\ [line EXCEPT !.value = value] \in Lines
         /\ [line EXCEPT !.value = value].field = "status"
         /\ [line EXCEPT !.value = value].value = value
<1>1. line \in [field : {"claim", "source", "grade", "status"},
                value : STRING \cup {Blank}]
  BY DEF Lines
<1> QED
  BY <1>1 DEF Lines

\* Appending keeps the files typed.
LEMMA AppendKeepsFiles ==
  ASSUME FilesOK, NEW o \in Owners, NEW chunk \in Chunks, AppendChunk(o, chunk)
  PROVE  /\ FilesOK'
         /\ StatusesFilled /\ StatusInv => StatusInv'
<1>1. chunk \in Seq(Lines) /\ files[o] \in Seq(Lines)
  BY ChunksAssumption DEF FilesOK
<1> DEFINE longer == files[o] \o chunk
<1>2. /\ longer \in Seq(Lines)
      /\ Len(longer) = Len(files[o]) + Len(chunk)
      /\ DOMAIN longer = 1..Len(files[o]) + Len(chunk)
      /\ \A i \in 1..Len(files[o]) + Len(chunk) :
           longer[i] = IF i <= Len(files[o]) THEN files[o][i]
                       ELSE chunk[i - Len(files[o])]
  BY <1>1, ConcatProperties, LenProperties
<1> HIDE DEF longer
<1>3. files' = [files EXCEPT ![o] = longer]
  BY DEF AppendChunk, longer, FilesOK
<1>4. FilesOK'
  BY <1>2, <1>3 DEF FilesOK, AppendChunk
<1>5. ASSUME StatusesFilled, StatusInv
      PROVE  StatusInv'
  <2> SUFFICES ASSUME NEW p \in Owners, NEW i \in DOMAIN files'[p],
                      files'[p][i].field = "status"
               PROVE  files'[p][i].value # Blank
    BY DEF StatusInv
  <2>1. CASE p # o
    BY <2>1, <1>3, <1>5 DEF StatusInv, FilesOK
  <2>2. CASE p = o
    <3>1. files'[p] = longer /\ i \in 1..Len(files[o]) + Len(chunk)
      BY <2>2, <1>2, <1>3 DEF FilesOK
    <3>2. Len(files[o]) \in Nat /\ Len(chunk) \in Nat
          /\ DOMAIN files[o] = 1..Len(files[o]) /\ DOMAIN chunk = 1..Len(chunk)
      BY <1>1, LenProperties
    <3>3. CASE i <= Len(files[o])
      BY <3>1, <3>2, <3>3, <1>2, <1>5 DEF StatusInv
    <3>4. CASE i > Len(files[o])
      <4>1. i - Len(files[o]) \in DOMAIN chunk
        BY <3>1, <3>2, <3>4
      <4>2. longer[i] = chunk[i - Len(files[o])]
        BY <3>1, <3>2, <3>4, <1>2
      <4> QED
        BY <4>1, <4>2, <3>1, <1>5 DEF StatusesFilled
    <3> QED
      BY <3>1, <3>2, <3>3, <3>4
  <2> QED
    BY <2>1, <2>2
<1> QED
  BY <1>4, <1>5

\* So does a ruling.
LEMMA RulingKeepsFiles ==
  ASSUME FilesOK, NEW o \in Owners, NEW i \in 1..MaxLines, NEW status \in Rulings,
         SetStatus(o, i, status)
  PROVE  /\ FilesOK'
         /\ StatusesFilled /\ StatusInv => StatusInv'
<1> DEFINE line == [files[o][i] EXCEPT !.value = status]
           edited == [files[o] EXCEPT ![i] = line]
<1>1. files[o] \in Seq(Lines) /\ i \in 1..Len(files[o]) /\ DOMAIN files[o] = 1..Len(files[o])
  BY LenProperties DEF FilesOK, SetStatus
<1>2. line \in Lines /\ line.value = status
  <2>1. files[o][i] \in Lines
    BY <1>1, ElementOfSeq
  <2> QED
    BY <2>1, EditedLine, ChunksAssumption DEF SetStatus
<1> HIDE DEF line
<1>3. /\ edited \in Seq(Lines)
      /\ Len(edited) = Len(files[o])
      /\ DOMAIN edited = 1..Len(files[o])
      /\ \A j \in 1..Len(files[o]) : edited[j] = IF j = i THEN line ELSE files[o][j]
  BY <1>1, <1>2, ExceptSeq, LenProperties
<1>4. files' = [files EXCEPT ![o] = edited]
  BY DEF SetStatus, edited, line, FilesOK
<1> HIDE DEF edited
<1>5. FilesOK'
  BY <1>3, <1>4 DEF FilesOK
<1>6. ASSUME StatusesFilled, StatusInv
      PROVE  StatusInv'
  <2> SUFFICES ASSUME NEW p \in Owners, NEW j \in DOMAIN files'[p],
                      files'[p][j].field = "status"
               PROVE  files'[p][j].value # Blank
    BY DEF StatusInv
  <2>1. CASE p # o
    BY <2>1, <1>4, <1>6 DEF StatusInv, FilesOK
  <2>2. CASE p = o
    <3>1. files'[p] = edited /\ j \in 1..Len(files[o])
      BY <2>2, <1>3, <1>4 DEF FilesOK
    <3> QED
      BY <3>1, <1>1, <1>2, <1>3, <1>6 DEF StatusInv, StatusesFilled
  <2> QED
    BY <2>1, <2>2
<1> QED
  BY <1>5, <1>6

\* Empty files are typed, and nothing in them is blank.
LEMMA EmptyFiles ==
  ASSUME NEW f, f = [o \in Owners |-> <<>>]
  PROVE  /\ f \in [Owners -> Seq(Lines)]
         /\ \A o \in Owners : Len(f[o]) <= MaxLines /\ DOMAIN f[o] = {}
<1>1. <<>> \in Seq(Lines) /\ Len(<<>>) = 0 /\ DOMAIN <<>> = {}
  BY EmptySeq
<1> QED
  BY <1>1, BoundsAssumption

\* Typing of the files is inductive, and so is that no status line is empty.
LEMMA FilesInvariance == Spec => []FilesOK
<1>1. Init => FilesOK
  BY EmptyFiles DEF Init, FilesOK
<1>2. FilesOK /\ [Next]_vars => FilesOK'
  <2> SUFFICES ASSUME FilesOK, [Next]_vars
               PROVE  FilesOK'
    OBVIOUS
  <2>1. CASE \E o \in Owners, chunk \in Chunks : AppendChunk(o, chunk)
    BY <2>1, AppendKeepsFiles
  <2>2. CASE \E o \in Owners, i \in 1..MaxLines, status \in Rulings :
               SetStatus(o, i, status)
    BY <2>2, RulingKeepsFiles
  <2>3. CASE Park
    BY <2>3, EmptyFiles DEF Park, FilesOK
  <2>4. CASE UNCHANGED vars
    BY <2>4 DEF vars, FilesOK
  <2> QED
    BY <2>1, <2>2, <2>3, <2>4 DEF Next
<1> QED
  BY <1>1, <1>2, PTL DEF Spec

LEMMA StatusInvariance == ASSUME StatusesFilled PROVE Spec => []StatusInv
<1>1. Init => StatusInv
  BY EmptyFiles DEF Init, StatusInv
<1>2. FilesOK /\ StatusInv /\ [Next]_vars => StatusInv'
  <2> SUFFICES ASSUME FilesOK, StatusInv, [Next]_vars
               PROVE  StatusInv'
    OBVIOUS
  <2>1. CASE \E o \in Owners, chunk \in Chunks : AppendChunk(o, chunk)
    BY <2>1, AppendKeepsFiles
  <2>2. CASE \E o \in Owners, i \in 1..MaxLines, status \in Rulings :
               SetStatus(o, i, status)
    BY <2>2, RulingKeepsFiles
  <2>3. CASE Park
    BY <2>3, EmptyFiles DEF Park, StatusInv
  <2>4. CASE UNCHANGED vars
    BY <2>4 DEF vars, StatusInv
  <2> QED
    BY <2>1, <2>2, <2>3, <2>4 DEF Next
<1> QED
  BY <1>1, <1>2, FilesInvariance, PTL DEF Spec

-----------------------------------------------------------------------------
(* What the scripts read. *)

\* A block that no field check refuses has all fields and a known grade.
LEMMA NoReasons ==
  ASSUME NEW o, NEW b, Reasons(o, b) = {}
  PROVE  /\ \A f \in Required : b[f] # Blank
         /\ b.grade \in Grades
         /\ b.status \in Statuses
         /\ o = Research => b.grade \notin WeakGrades
<1>1. \A f \in Required : b[f] # Blank
  BY DEF Reasons
<1>2. b["grade"] # Blank
  BY <1>1 DEF Required
<1>3. b.grade \in Grades \cup {Blank}
  BY DEF Reasons
<1>4. b.status \in Statuses
  BY DEF Reasons
<1>5. o = Research => b.grade \notin WeakGrades
  BY DEF Reasons
<1> QED
  BY <1>1, <1>2, <1>3, <1>4, <1>5

\* The two scripts' field checks refuse the same blocks.
LEMMA SameChecks ==
  ASSUME NEW o, NEW b
  PROVE  VerifyValid(o, b) <=> Reasons(o, b) = {}
<1>1. ASSUME Reasons(o, b) = {}
      PROVE  VerifyValid(o, b)
  BY <1>1, NoReasons DEF VerifyValid
<1>2. ASSUME VerifyValid(o, b)
      PROVE  Reasons(o, b) = {}
  BY <1>2 DEF VerifyValid, Reasons
<1> QED
  BY <1>1, <1>2

\* What a projected belief is: a block that passes both of world.sh's passes.
LEMMA LiveMembers ==
  ASSUME NEW x \in WorldLive
  PROVE  /\ x.owner \in Owners
         /\ x \in LiveOf(x.owner)
         /\ x = [owner |-> x.owner, block |-> x.block]
         /\ x.block \in WorldBlocks(files[x.owner])
         /\ x.block.status = "live"
         /\ Reasons(x.owner, x.block) = {}
         /\ x.block.key \notin Duplicated(x.owner, WorldBlocks(files[x.owner]))
<1>1. PICK o \in Owners : x \in LiveOf(o)
  BY DEF WorldLive
<1>2. PICK b \in {y \in WorldValid(o, WorldBlocks(files[o])) : y.status = "live"} :
        x = [owner |-> o, block |-> b]
  BY <1>1 DEF LiveOf
<1>3. x.owner = o /\ x.block = b
  BY <1>2
<1>4. /\ b \in WorldBlocks(files[o])
      /\ b.status = "live"
      /\ Reasons(o, b) = {}
      /\ b.key \notin Duplicated(o, WorldBlocks(files[o]))
  BY <1>2 DEF WorldValid
<1> QED
  BY <1>1, <1>2, <1>3, <1>4

\* Every projected belief names its owner and has all its fields.
THEOREM TypeCorrectness == Spec => []TypeOK
<1>1. FilesOK => TypeOK
  <2> SUFFICES ASSUME NEW x \in WorldLive
               PROVE  /\ x.owner \in Owners
                      /\ x.block.grade \in Grades
                      /\ Blank \notin {x.block[f] : f \in Required}
    BY DEF TypeOK
  <2> QED
    BY LiveMembers, NoReasons
<1> QED
  BY <1>1, FilesInvariance, PTL

\* A belief heading starts one block.
LEMMA StartsAreLines ==
  ASSUME NEW file \in Seq(Lines), NEW i \in Starts(file)
  PROVE  i \in 1..Len(file) /\ file[i].value \in Keys
<1>1. i \in 1..Len(file) /\ file[i].field = "belief" /\ file[i].value # Blank
  BY LenProperties DEF Starts
<1>2. file[i] \in Lines
  BY <1>1, ElementOfSeq
<1>3. file[i] \in [field : {"belief"}, value : Keys \cup {Blank}]
  BY <1>1, <1>2 DEF Lines
<1> QED
  BY <1>1, <1>3

\* The lines of a field of a block are lines of the file, and if there is one
\* the last is among them.
LEMMA LinesOfField ==
  ASSUME NEW file \in Seq(Lines), NEW i \in Starts(file), NEW field
  PROVE  /\ LinesOf(file, i, field) \subseteq 1..Len(file)
         /\ \A j \in LinesOf(file, i, field) : file[j].field = field
         /\ LinesOf(file, i, field) # {} =>
              Max(LinesOf(file, i, field)) \in LinesOf(file, i, field)
<1>1. i \in 1..Len(file) /\ Len(file) \in Nat
  BY StartsAreLines, LenProperties
<1>2. LinesOf(file, i, field) \subseteq 1..Len(file)
  BY <1>1 DEF LinesOf
<1>3. \A j \in LinesOf(file, i, field) : file[j].field = field
  BY DEF LinesOf
<1>4. LinesOf(file, i, field) # {} =>
        Max(LinesOf(file, i, field)) \in LinesOf(file, i, field)
  <2> HIDE DEF LinesOf
  <2> QED
    BY <1>1, <1>2, MaxOfLines
<1> QED
  BY <1>2, <1>3, <1>4

\* Where no status line is empty the scripts read the same status.
LEMMA SameStatus ==
  ASSUME NEW file \in Seq(Lines), NEW i \in Starts(file),
         \A j \in DOMAIN file : file[j].field = "status" => file[j].value # Blank
  PROVE  WorldStatus(file, i) = VerifyStatus(file, i)
<1> DEFINE lines == LinesOf(file, i, "status")
<1>1. \A j \in lines : file[j].value # Blank
  BY LinesOfField, LenProperties
<1>2. {j \in lines : file[j].value # Blank} = lines
  BY <1>1
<1>3. CASE lines = {}
  BY <1>2, <1>3 DEF WorldStatus, VerifyStatus, FieldOf, LastValue
<1>4. CASE lines # {}
  <2>1. file[Max(lines)].value # Blank
    BY <1>1, <1>4, LinesOfField
  <2> QED
    BY <1>2, <1>4, <2>1 DEF WorldStatus, VerifyStatus, FieldOf, LastValue
<1> QED
  BY <1>3, <1>4

\* So they cut the files into the same blocks.
LEMMA SameBlocks ==
  ASSUME FilesOK, StatusInv, NEW o \in Owners
  PROVE  WorldBlocks(files[o]) = VerifyBlocks(files[o])
<1>1. files[o] \in Seq(Lines)
  BY DEF FilesOK
<1>2. \A i \in Starts(files[o]) :
        WorldStatus(files[o], i) = VerifyStatus(files[o], i)
  BY <1>1, SameStatus DEF StatusInv
<1> QED
  BY <1>2 DEF WorldBlocks, VerifyBlocks

\* A block is cut at its heading, and no two at one.
LEMMA BlocksAreCut ==
  ASSUME NEW file \in Seq(Lines), NEW b \in WorldBlocks(file)
  PROVE  /\ b.at \in Starts(file)
         /\ b.at \in 1..Len(file)
         /\ b.key = file[b.at].value
         /\ b.key \in Keys
         /\ b.observed = FieldOf(file, b.at, "observed")
         /\ b = BlockAt(file, b.at, WorldStatus(file, b.at))
<1>1. PICK i \in Starts(file) : b = BlockAt(file, i, WorldStatus(file, i))
  BY DEF WorldBlocks
<1>2. b.at = i /\ b.key = file[i].value /\ b.observed = FieldOf(file, i, "observed")
  BY <1>1 DEF BlockAt
<1> QED
  BY <1>1, <1>2, StartsAreLines

-----------------------------------------------------------------------------
(* What is refused, and what is disputed. *)

\* Where keys are one word, world.sh refuses the beliefs that share their key
\* with another live belief of their owner, and only those.
LEMMA LiveOfOwner ==
  ASSUME FilesOK, OneWordKeys, NEW o \in Owners
  PROVE  LET live == {b \in WorldBlocks(files[o]) :
                        b.status = "live" /\ Reasons(o, b) = {}}
         IN  {x.block : x \in LiveOf(o)} =
               {b \in live : \A other \in live \ {b} : other.key # b.key}
<1> DEFINE blocks == WorldBlocks(files[o])
           live == {b \in blocks : b.status = "live" /\ Reasons(o, b) = {}}
<1>1. \A b \in blocks : b.key \in Keys
  BY BlocksAreCut DEF FilesOK
<1>2. Survivors(o, blocks) = live
  BY DEF Survivors
<1> HIDE DEF blocks
<1>3. Duplicated(o, blocks) = {b.key : b \in {x \in live : \E y \in live \ {x} : y.key = x.key}}
  BY <1>1, <1>2 DEF Duplicated, OneWordKeys
<1>4. {x.block : x \in LiveOf(o)} = {b \in live : b.key \notin Duplicated(o, blocks)}
  <2> DEFINE V == {x \in WorldValid(o, blocks) : x.status = "live"}
  <2>1. LiveOf(o) = {[owner |-> o, block |-> b] : b \in V}
    BY DEF LiveOf, blocks
  <2>2. V = {b \in live : b.key \notin Duplicated(o, blocks)}
    BY DEF WorldValid
  <2> HIDE DEF V
  <2>3. {x.block : x \in LiveOf(o)} = V
    <3>1. \A b \in V : [owner |-> o, block |-> b] \in LiveOf(o)
                       /\ [owner |-> o, block |-> b].block = b
      BY <2>1
    <3>2. \A x \in LiveOf(o) : x.block \in V
      BY <2>1
    <3> HIDE DEF LiveOf
    <3> QED
      BY <3>1, <3>2
  <2> QED
    BY <2>2, <2>3
<1>5. \A b \in live : b.key \notin Duplicated(o, blocks)
                        <=> \A other \in live \ {b} : other.key # b.key
  BY <1>3
<1> QED
  BY <1>4, <1>5 DEF blocks

\* No owner has two projected beliefs under one key, and nothing else is refused
\* for that, whenever keys are one word.
THEOREM ContradictionsRefused ==
  ASSUME OneWordKeys
  PROVE  Spec => []OnlyContradictionsRefused
<1>1. FilesOK => OnlyContradictionsRefused
  BY LiveOfOwner DEF OnlyContradictionsRefused
<1> QED
  BY <1>1, FilesInvariance, PTL

\* verify.sh's live keys of an owner are those world.sh projects for it.
LEMMA SameLiveKeys ==
  ASSUME FilesOK, StatusInv, OneWordKeys, NEW o \in Owners
  PROVE  VerifyLiveKeys(o) = {x.block.key : x \in LiveOf(o)}
<1> DEFINE live == {b \in WorldBlocks(files[o]) :
                      b.status = "live" /\ Reasons(o, b) = {}}
<1>1. {x.block : x \in LiveOf(o)} =
        {b \in live : \A other \in live \ {b} : other.key # b.key}
  BY LiveOfOwner
<1>2. live = {b \in VerifyBlocks(files[o]) : b.status = "live" /\ VerifyValid(o, b)}
  BY SameBlocks, SameChecks
<1> HIDE DEF live
<1>3. VerifyLiveKeys(o) =
        {b.key : b \in {x \in live : \A y \in live \ {x} : y.key # x.key}}
  BY <1>2 DEF VerifyLiveKeys
<1>4. {x.block.key : x \in LiveOf(o)} = {b.key : b \in {x.block : x \in LiveOf(o)}}
  OBVIOUS
<1> QED
  BY <1>1, <1>3, <1>4

\* The disputes verify.sh counts are the ones world.sh lists, whenever keys are
\* one word and no status line is empty.
THEOREM ReadersAgree ==
  ASSUME OneWordKeys, StatusesFilled
  PROVE  Spec => []ScriptsAgree
<1>1. FilesOK /\ StatusInv => ScriptsAgree
  <2> SUFFICES ASSUME FilesOK, StatusInv, NEW k \in Keys
               PROVE  {o \in Owners : k \in VerifyLiveKeys(o)} =
                        {x.owner : x \in {y \in WorldLive : y.block.key = k}}
    BY DEF ScriptsAgree, VerifyConflicts, Disputed
  <2>1. \A o \in Owners : k \in VerifyLiveKeys(o) <=>
                            \E x \in LiveOf(o) : x.block.key = k
    BY SameLiveKeys
  <2>2. \A o \in Owners : \A x \in LiveOf(o) : x.owner = o /\ x \in WorldLive
    BY DEF LiveOf, WorldLive
  <2>3. \A x \in WorldLive : x.owner \in Owners /\ x \in LiveOf(x.owner)
    BY LiveMembers
  <2> QED
    BY <2>1, <2>2, <2>3
<1> QED
  BY <1>1, FilesInvariance, StatusInvariance, PTL

-----------------------------------------------------------------------------
(* A malformed block changes nothing that is projected. *)

\* The last of a block's lines of a field moves with the lines.
LEMMA ShiftedMax ==
  ASSUME NEW m \in Nat, NEW n \in Nat, NEW S \in SUBSET (1..m), S # {}
  PROVE  Max({n + j : j \in S}) = n + Max(S)
<1> DEFINE T == {n + j : j \in S}
           top == Max(S)
<1>1. top \in S /\ \A y \in S : top >= y
  BY MaxOfLines
<1> HIDE DEF top
<1>2. \A j \in S : j \in 1..m /\ n + j \in 1..(n + m)
  OBVIOUS
<1>3. T \in SUBSET (1..(n + m)) /\ n + m \in Nat /\ \A y \in T : y \in Int
  BY <1>2
<1>4. n + top \in T /\ \A y \in T : n + top >= y
  BY <1>1, <1>2
<1> HIDE DEF T
<1>5. Max(T) \in T /\ \A y \in T : Max(T) >= y
  BY <1>3, <1>4, MaxOfLines
<1>6. Max(T) \in Int /\ n + top \in Int
  BY <1>3, <1>4, <1>5
<1>7. Max(T) >= n + top /\ n + top >= Max(T)
  BY <1>4, <1>5
<1> QED
  BY <1>6, <1>7 DEF T, top

\* A heading after the file keeps what follows out of the file's own blocks.
LEMMA OldBlockUntouched ==
  ASSUME NEW file \in Seq(Lines), NEW chunk \in Seq(Lines), chunk # <<>>,
         chunk[1].field \in Headings,
         NEW i \in Starts(file)
  PROVE  /\ i \in Starts(file \o chunk)
         /\ BlockAt(file \o chunk, i, WorldStatus(file \o chunk, i)) =
              BlockAt(file, i, WorldStatus(file, i))
<1> DEFINE longer == file \o chunk
           n == Len(file)
<1>1. /\ longer \in Seq(Lines)
      /\ Len(longer) = n + Len(chunk)
      /\ DOMAIN longer = 1..(n + Len(chunk))
      /\ \A j \in 1..(n + Len(chunk)) :
           longer[j] = IF j <= n THEN file[j] ELSE chunk[j - n]
  BY ConcatProperties, LenProperties
<1>2. n \in Nat /\ Len(chunk) \in Nat \ {0} /\ i \in 1..n /\ DOMAIN file = 1..n
  BY StartsAreLines, EmptySeq, LenProperties
<1> HIDE DEF longer, n
<1>3. \A j \in 1..n : longer[j] = file[j]
  BY <1>1, <1>2
<1>4. longer[n + 1] = chunk[1] /\ n + 1 \in 1..(n + Len(chunk))
  BY <1>1, <1>2
<1>5. i \in Starts(longer)
  BY <1>1, <1>2, <1>3 DEF Starts
<1>6. ASSUME NEW field
      PROVE  LinesOf(longer, i, field) = LinesOf(file, i, field)
  <2>1. ASSUME NEW j \in LinesOf(longer, i, field)
        PROVE  j \in LinesOf(file, i, field)
    <3>1. j \in (i + 1)..(n + Len(chunk)) /\ longer[j].field = field
          /\ \A h \in (i + 1)..j : longer[h].field \notin Headings
      BY <2>1, <1>1 DEF LinesOf
    <3>2. j <= n
      <4>1. SUFFICES ASSUME j > n
                     PROVE  FALSE
        BY <3>1, <1>2
      <4>2. n + 1 \in (i + 1)..j
        BY <4>1, <3>1, <1>2
      <4> QED
        BY <4>2, <3>1, <1>4
    <3>3. \A h \in (i + 1)..j : longer[h] = file[h]
      BY <3>1, <3>2, <1>2, <1>3
    <3>4. j \in (i + 1)..j /\ j \in (i + 1)..n
      BY <3>1, <3>2, <1>2
    <3> QED
      BY <3>1, <3>3, <3>4 DEF LinesOf, n
  <2>2. ASSUME NEW j \in LinesOf(file, i, field)
        PROVE  j \in LinesOf(longer, i, field)
    <3>1. j \in (i + 1)..n /\ file[j].field = field
          /\ \A h \in (i + 1)..j : file[h].field \notin Headings
      BY <2>2 DEF LinesOf, n
    <3>2. \A h \in (i + 1)..j : longer[h] = file[h]
      BY <3>1, <1>2, <1>3
    <3>3. j \in (i + 1)..j /\ j \in (i + 1)..(n + Len(chunk))
      BY <3>1, <1>2
    <3> QED
      BY <3>1, <3>2, <3>3, <1>1 DEF LinesOf
  <2> QED
    BY <2>1, <2>2
<1>7. ASSUME NEW field
      PROVE  FieldOf(longer, i, field) = FieldOf(file, i, field)
  <2>1. LinesOf(file, i, field) # {} =>
          longer[Max(LinesOf(file, i, field))] = file[Max(LinesOf(file, i, field))]
    BY <1>3, LinesOfField DEF n
  <2> QED
    BY <2>1, <1>6 DEF FieldOf, LastValue
<1>8. longer[i] = file[i]
  BY <1>2, <1>3
<1>9. WorldStatus(longer, i) = WorldStatus(file, i)
  BY <1>7 DEF WorldStatus
<1>10. BlockAt(longer, i, WorldStatus(longer, i)) = BlockAt(file, i, WorldStatus(file, i))
  BY <1>7, <1>8, <1>9 DEF BlockAt
<1> QED
  BY <1>5, <1>10 DEF longer

\* The blocks that follow are the chunk's own, further down.
LEMMA NewBlockShifted ==
  ASSUME NEW file \in Seq(Lines), NEW chunk \in Seq(Lines),
         NEW i \in Starts(file \o chunk), i \notin 1..Len(file)
  PROVE  LET k == i - Len(file)
         IN  /\ k \in Starts(chunk)
             /\ \A field : FieldOf(file \o chunk, i, field) = FieldOf(chunk, k, field)
<1> DEFINE longer == file \o chunk
           n == Len(file)
           k == i - n
<1>1. /\ longer \in Seq(Lines)
      /\ Len(longer) = n + Len(chunk)
      /\ DOMAIN longer = 1..(n + Len(chunk))
      /\ \A j \in 1..(n + Len(chunk)) :
           longer[j] = IF j <= n THEN file[j] ELSE chunk[j - n]
  BY ConcatProperties, LenProperties
<1>2. n \in Nat /\ Len(chunk) \in Nat /\ DOMAIN chunk = 1..Len(chunk)
  BY LenProperties
<1>3. i \in 1..Len(longer) /\ longer[i].field = "belief" /\ longer[i].value # Blank
  BY <1>1 DEF Starts
<1> HIDE DEF longer
<1>4. n \in Nat /\ i \notin 1..n
  BY <1>2
<1> HIDE DEF n
<1>5. k \in 1..Len(chunk) /\ i = n + k
  BY <1>1, <1>2, <1>3, <1>4
<1> HIDE DEF k
<1>6. ASSUME NEW j \in 1..Len(chunk)
      PROVE  longer[n + j] = chunk[j]
  <2>1. n + j \in 1..(n + Len(chunk)) /\ ~(n + j <= n) /\ (n + j) - n = j
    BY <1>2
  <2> QED
    BY <2>1, <1>1
<1>7. k \in Starts(chunk)
  BY <1>2, <1>3, <1>5, <1>6 DEF Starts
<1>8. ASSUME NEW field
      PROVE  LinesOf(longer, i, field) = {n + j : j \in LinesOf(chunk, k, field)}
  <2>1. ASSUME NEW l \in LinesOf(longer, i, field)
        PROVE  \E j \in LinesOf(chunk, k, field) : l = n + j
    <3>1. l \in (i + 1)..(n + Len(chunk)) /\ longer[l].field = field
          /\ \A h \in (i + 1)..l : longer[h].field \notin Headings
      BY <2>1, <1>1 DEF LinesOf
    <3>2. l - n \in (k + 1)..Len(chunk) /\ l = n + (l - n)
      BY <3>1, <1>2, <1>5
    <3>3. chunk[l - n].field = field
      BY <3>1, <3>2, <1>5, <1>6
    <3>4. ASSUME NEW h \in (k + 1)..(l - n)
          PROVE  chunk[h].field \notin Headings
      <4>1. n + h \in (i + 1)..l /\ h \in 1..Len(chunk)
        BY <3>1, <1>2, <1>5, <3>2
      <4> QED
        BY <4>1, <3>1, <1>6
    <3>5. l - n \in LinesOf(chunk, k, field)
      BY <3>2, <3>3, <3>4 DEF LinesOf
    <3> QED
      BY <3>2, <3>5
  <2>2. ASSUME NEW j \in LinesOf(chunk, k, field)
        PROVE  n + j \in LinesOf(longer, i, field)
    <3>1. j \in (k + 1)..Len(chunk) /\ chunk[j].field = field
          /\ \A h \in (k + 1)..j : chunk[h].field \notin Headings
      BY <2>2 DEF LinesOf
    <3>2. n + j \in (i + 1)..(n + Len(chunk)) /\ longer[n + j].field = field
      BY <3>1, <1>2, <1>5, <1>6
    <3>3. ASSUME NEW h \in (i + 1)..(n + j)
          PROVE  longer[h].field \notin Headings
      <4>1. h - n \in (k + 1)..j /\ h - n \in 1..Len(chunk) /\ h = n + (h - n)
        BY <3>1, <1>2, <1>5
      <4> QED
        BY <4>1, <3>1, <1>6
    <3> QED
      BY <3>2, <3>3, <1>1 DEF LinesOf
  <2> QED
    BY <2>1, <2>2
<1>9. ASSUME NEW field
      PROVE  FieldOf(longer, i, field) = FieldOf(chunk, k, field)
  <2> DEFINE lines == LinesOf(chunk, k, field)
  <2>1. lines \subseteq 1..Len(chunk) /\ (lines # {} => Max(lines) \in lines)
    BY <1>7, LinesOfField
  <2>2. LinesOf(longer, i, field) = {n + j : j \in lines}
    BY <1>8
  <2> HIDE DEF lines
  <2>3. CASE lines = {}
    BY <2>2, <2>3 DEF FieldOf, LastValue, lines
  <2>4. CASE lines # {}
    <3>1. Max({n + j : j \in lines}) = n + Max(lines)
      BY <2>1, <2>4, <1>2, <1>4, ShiftedMax
    <3>2. longer[n + Max(lines)] = chunk[Max(lines)]
      BY <2>1, <2>4, <1>6
    <3>3. {n + j : j \in lines} # {}
      BY <2>4
    <3> QED
      BY <2>2, <2>4, <3>1, <3>2, <3>3 DEF FieldOf, LastValue, lines
  <2> QED
    BY <2>3, <2>4
<1> QED
  BY <1>7, <1>9 DEF longer, k, n

\* The field checks look at a block's fields and status, not at where it stands.
LEMMA ReasonsByFields ==
  ASSUME NEW o, NEW file, NEW i, NEW other, NEW k,
         \A field : FieldOf(file, i, field) = FieldOf(other, k, field)
  PROVE  Reasons(o, BlockAt(file, i, WorldStatus(file, i))) =
           Reasons(o, BlockAt(other, k, WorldStatus(other, k)))
<1> DEFINE b == BlockAt(file, i, WorldStatus(file, i))
           c == BlockAt(other, k, WorldStatus(other, k))
<1>1. /\ b.claim = c.claim /\ b.source = c.source
      /\ b.grade = c.grade /\ b.observed = c.observed
  BY DEF BlockAt
<1>2. b.status = c.status
  BY DEF BlockAt, WorldStatus
<1>3. \A f \in Required : b[f] = c[f]
  BY <1>1 DEF Required
<1> HIDE DEF b, c
<1>4. Reasons(o, b) = Reasons(o, c)
  BY <1>1, <1>2, <1>3 DEF Reasons
<1> QED
  BY <1>4 DEF b, c

\* Which blocks pass the field checks does not change with a malformed chunk.
LEMMA SamePassing ==
  ASSUME NEW o, NEW file \in Seq(Lines), NEW chunk \in Seq(Lines), chunk # <<>>,
         chunk[1].field \in Headings,
         \A b \in WorldBlocks(chunk) : Reasons(o, b) # {}
  PROVE  {b \in WorldBlocks(file \o chunk) : Reasons(o, b) = {}} =
           {b \in WorldBlocks(file) : Reasons(o, b) = {}}
<1>1. ASSUME NEW b \in WorldBlocks(file)
      PROVE  b \in WorldBlocks(file \o chunk)
  <2>1. PICK i \in Starts(file) : b = BlockAt(file, i, WorldStatus(file, i))
    BY DEF WorldBlocks
  <2> QED
    BY <2>1, OldBlockUntouched DEF WorldBlocks
<1>2. ASSUME NEW b \in WorldBlocks(file \o chunk), Reasons(o, b) = {}
      PROVE  b \in WorldBlocks(file)
  <2>1. PICK i \in Starts(file \o chunk) :
          b = BlockAt(file \o chunk, i, WorldStatus(file \o chunk, i))
    BY DEF WorldBlocks
  <2>2. CASE i \notin 1..Len(file)
    <3> DEFINE k == i - Len(file)
    <3>1. /\ k \in Starts(chunk)
          /\ \A field : FieldOf(file \o chunk, i, field) = FieldOf(chunk, k, field)
      BY <2>2, NewBlockShifted
    <3>2. BlockAt(chunk, k, WorldStatus(chunk, k)) \in WorldBlocks(chunk)
      BY <3>1 DEF WorldBlocks
    <3> HIDE DEF k
    <3>3. Reasons(o, b) = Reasons(o, BlockAt(chunk, k, WorldStatus(chunk, k)))
      BY <2>1, <3>1, ReasonsByFields
    <3> QED
      BY <3>2, <3>3, <1>2
  <2>3. CASE i \in 1..Len(file)
    <3>1. DOMAIN file = 1..Len(file) /\ (file \o chunk)[i] = file[i]
      <4>1. Len(file) \in Nat /\ Len(chunk) \in Nat /\ DOMAIN file = 1..Len(file)
        BY LenProperties
      <4>2. i \in 1..(Len(file) + Len(chunk)) /\ i <= Len(file)
        BY <4>1, <2>3
      <4> QED
        BY <4>1, <4>2, ConcatProperties
    <3>2. i \in Starts(file)
      BY <3>1, <2>3 DEF Starts
    <3> QED
      BY <2>1, <3>2, OldBlockUntouched DEF WorldBlocks
  <2> QED
    BY <2>2, <2>3
<1> QED
  BY <1>1, <1>2

\* What an owner has live is a matter of the blocks that pass the field checks.
LEMMA ValidByPassing ==
  ASSUME NEW o, NEW these, NEW those,
         {b \in these : Reasons(o, b) = {}} = {b \in those : Reasons(o, b) = {}}
  PROVE  WorldValid(o, these) = WorldValid(o, those)
<1>1. Survivors(o, these) = Survivors(o, those)
  BY DEF Survivors
<1>2. Duplicated(o, these) = Duplicated(o, those)
  BY <1>1 DEF Duplicated
<1> QED
  BY <1>2 DEF WorldValid

\* Whatever chunk an owner adds under a heading of its own, if all its blocks fail
\* the field checks, what world.sh projects does not change.
THEOREM MalformedBlocksAreInert == Spec => MalformedHidesNothing
<1> DEFINE Inert ==
      \A o \in Owners, chunk \in Chunks :
        /\ chunk[1].field \in Headings
        /\ files' = [files EXCEPT ![o] = @ \o chunk]
        /\ \A b \in WorldBlocks(chunk) : Reasons(o, b) # {}
        => WorldLive' = WorldLive
<1>1. FilesOK => Inert
  <2> SUFFICES ASSUME FilesOK, NEW o \in Owners, NEW chunk \in Chunks,
                      chunk[1].field \in Headings,
                      files' = [files EXCEPT ![o] = @ \o chunk],
                      \A b \in WorldBlocks(chunk) : Reasons(o, b) # {}
               PROVE  WorldLive' = WorldLive
    OBVIOUS
  <2>1. files \in [Owners -> Seq(Lines)] /\ chunk \in Seq(Lines)
    BY ChunksAssumption DEF FilesOK
  <2>2. files'[o] = files[o] \o chunk /\ \A p \in Owners \ {o} : files'[p] = files[p]
    BY <2>1
  <2>3. WorldValid(o, WorldBlocks(files[o] \o chunk)) =
          WorldValid(o, WorldBlocks(files[o]))
    <3>1. CASE chunk = <<>>
      BY <3>1, <2>1, ConcatEmptySeq
    <3>2. CASE chunk # <<>>
      BY <3>2, <2>1, SamePassing, ValidByPassing
    <3> QED
      BY <3>1, <3>2
  <2>4. ASSUME NEW p \in Owners
        PROVE  LiveOf(p)' = LiveOf(p)
    <3>1. CASE p = o
      BY <3>1, <2>2, <2>3 DEF LiveOf
    <3>2. CASE p # o
      BY <3>2, <2>2 DEF LiveOf
    <3> QED
      BY <3>1, <3>2
  <2> QED
    BY <2>4 DEF WorldLive
<1>2. FilesOK /\ [Next]_vars => [Inert]_vars
  BY <1>1
<1>3. MalformedHidesNothing <=> [][Inert]_vars
  BY DEF MalformedHidesNothing
<1> HIDE DEF Inert
<1> QED
  BY <1>2, <1>3, FilesInvariance, PTL DEF Spec

-----------------------------------------------------------------------------
(* No live belief is lost on the way to the prompt. *)

\* A date read from a file is one, or is missing.
LEMMA DatesAreRanks ==
  ASSUME NEW file \in Seq(Lines), NEW i \in Starts(file)
  PROVE  FieldOf(file, i, "observed") \in Nat \cup {Blank}
<1> DEFINE lines == LinesOf(file, i, "observed")
<1>1. CASE lines = {}
  BY <1>1 DEF FieldOf, LastValue
<1>2. CASE lines # {}
  <2> DEFINE last == file[Max(lines)]
  <2>1. Max(lines) \in 1..Len(file) /\ last.field = "observed"
    BY <1>2, LinesOfField
  <2>2. last \in Lines
    BY <2>1, ElementOfSeq
  <2>3. last \in [field : {"observed"}, value : Nat \cup {Blank}]
    BY <2>1, <2>2 DEF Lines
  <2>4. FieldOf(file, i, "observed") = last.value
    BY <1>2 DEF FieldOf, LastValue
  <2> HIDE DEF last
  <2> QED
    BY <2>3, <2>4
<1> QED
  BY <1>1, <1>2

\* Finitely many beliefs are projected.
LEMMA LiveIsFinite == ASSUME FilesOK PROVE IsFiniteSet(WorldLive)
<1>1. ASSUME NEW o \in Owners
      PROVE  IsFiniteSet(LiveOf(o))
  <2> DEFINE file == files[o]
             n == Len(file)
             belief == [i \in 1..n |->
               [owner |-> o, block |-> BlockAt(file, i, WorldStatus(file, i))]]
             all == {belief[i] : i \in 1..n}
  <2>1. file \in Seq(Lines) /\ n \in Nat
    BY LenProperties DEF FilesOK
  <2>2. IsFiniteSet(1..n)
    BY <2>1, FS_Interval
  <2>3. IsFiniteSet(all)
    <3>1. belief \in [1..n -> all] /\ \A t \in all : \E i \in 1..n : belief[i] = t
      OBVIOUS
    <3> HIDE DEF belief, all
    <3> QED
      BY <2>2, <3>1, ImageFinite
  <2>4. LiveOf(o) \subseteq all
    <3> SUFFICES ASSUME NEW x \in LiveOf(o)
                 PROVE  x \in all
      OBVIOUS
    <3>1. x \in WorldLive /\ x.owner = o
      BY DEF LiveOf, WorldLive
    <3>2. /\ x = [owner |-> o, block |-> x.block]
          /\ x.block \in WorldBlocks(file)
      BY <3>1, LiveMembers
    <3>3. /\ x.block.at \in 1..n
          /\ x.block = BlockAt(file, x.block.at, WorldStatus(file, x.block.at))
      BY <2>1, <3>2, BlocksAreCut
    <3>4. x = belief[x.block.at]
      BY <3>2, <3>3
    <3> QED
      BY <3>3, <3>4
  <2> QED
    BY <2>3, <2>4, FS_Subset
<1> DEFINE live == [o \in Owners |-> LiveOf(o)]
           parts == {LiveOf(o) : o \in Owners}
<1>2. IsFiniteSet(parts)
  <2>1. live \in [Owners -> parts] /\ \A t \in parts : \E o \in Owners : live[o] = t
    OBVIOUS
  <2> HIDE DEF live, parts
  <2> QED
    BY <2>1, ImageFinite, NamesAssumption DEF NamesAssumption
<1>3. \A S \in parts : IsFiniteSet(S)
  BY <1>1
<1>4. WorldLive = UNION parts
  BY DEF WorldLive
<1> HIDE DEF parts
<1> QED
  BY <1>2, <1>3, <1>4, FS_UNION

\* What --index sorts by tells any two projected beliefs apart.
LEMMA SortKeys ==
  ASSUME FilesOK, NEW x \in WorldLive
  PROVE  /\ x.owner \in Owners
         /\ x.block.observed \in Nat
         /\ x.block.at \in Nat
         /\ OwnerRank[x.owner] \in Nat
         /\ \A y \in WorldLive :
              x.owner = y.owner /\ x.block.at = y.block.at => x = y
         /\ x.block.key \in Keys
<1>1. \A y \in WorldLive :
        /\ y.owner \in Owners
        /\ files[y.owner] \in Seq(Lines)
        /\ y = [owner |-> y.owner, block |-> y.block]
        /\ y.block \in WorldBlocks(files[y.owner])
        /\ Reasons(y.owner, y.block) = {}
  BY LiveMembers DEF FilesOK
<1>2. \A y \in WorldLive :
        /\ y.block.at \in 1..Len(files[y.owner])
        /\ y.block.at \in Starts(files[y.owner])
        /\ y.block.key \in Keys
        /\ y.block.observed = FieldOf(files[y.owner], y.block.at, "observed")
        /\ y.block = BlockAt(files[y.owner], y.block.at,
                             WorldStatus(files[y.owner], y.block.at))
  BY <1>1, BlocksAreCut
<1>3. x.block.observed \in Nat
  <2>1. x.block.observed \in Nat \cup {Blank}
    BY <1>1, <1>2, DatesAreRanks
  <2>2. x.block["observed"] # Blank
    BY <1>1, NoReasons DEF Required
  <2> QED
    BY <2>1, <2>2
<1>4. x.block.at \in Nat
  BY <1>1, <1>2, LenProperties
<1>5. \A y \in WorldLive :
        x.owner = y.owner /\ x.block.at = y.block.at => x = y
  BY <1>1, <1>2
<1> QED
  BY <1>1, <1>2, <1>3, <1>4, <1>5, RanksAssumption

\* The order of the index is strict and total.
LEMMA BeforeIsOrder ==
  ASSUME FilesOK
  PROVE  /\ \A x \in WorldLive : ~ Before(x, x)
         /\ \A x, y, z \in WorldLive : Before(x, y) /\ Before(y, z) => Before(x, z)
         /\ \A x, y \in WorldLive : x # y => Before(x, y) \/ Before(y, x)
<1>1. ASSUME NEW x \in WorldLive
      PROVE  ~ Before(x, x)
  BY SortKeys DEF Before
<1>2. ASSUME NEW x \in WorldLive, NEW y \in WorldLive, NEW z \in WorldLive,
             Before(x, y), Before(y, z)
      PROVE  Before(x, z)
  <2>1. /\ x.block.observed \in Nat /\ y.block.observed \in Nat /\ z.block.observed \in Nat
        /\ x.block.at \in Nat /\ y.block.at \in Nat /\ z.block.at \in Nat
        /\ OwnerRank[x.owner] \in Nat /\ OwnerRank[y.owner] \in Nat
        /\ OwnerRank[z.owner] \in Nat
    BY SortKeys
  <2> QED
    BY <2>1, <1>2 DEF Before
<1>3. ASSUME NEW x \in WorldLive, NEW y \in WorldLive, x # y
      PROVE  Before(x, y) \/ Before(y, x)
  <2>1. /\ x.block.observed \in Nat /\ y.block.observed \in Nat
        /\ x.block.at \in Nat /\ y.block.at \in Nat
        /\ OwnerRank[x.owner] \in Nat /\ OwnerRank[y.owner] \in Nat
        /\ x.owner \in Owners /\ y.owner \in Owners
        /\ ~ (x.owner = y.owner /\ x.block.at = y.block.at)
    BY <1>3, SortKeys
  <2>2. x.owner # y.owner => OwnerRank[x.owner] # OwnerRank[y.owner]
    BY <2>1, RanksAssumption DEF IsInjective
  <2> QED
    BY <2>1, <2>2 DEF Before
<1> QED
  BY <1>1, <1>2, <1>3

\* As many index lines as the cap allows are printed, and the tail counts the rest.
LEMMA LinesAndTail ==
  ASSUME FilesOK
  PROVE  LET live == WorldLive
             all == Undisputed(live)
             index == Index(live)
         IN  /\ index.lines \subseteq all
             /\ Cardinality(index.lines) + index.more = Cardinality(all)
<1> DEFINE all == Undisputed(WorldLive)
           newer == [x \in all |-> {y \in all : Before(y, x)}]
           lines == {x \in all : Cardinality({y \in all : Before(y, x)}) < Cap}
<1>1. all \subseteq WorldLive
  BY DEF Undisputed
<1>2. IsFiniteSet(all) /\ Cardinality(all) \in Nat
  BY <1>1, LiveIsFinite, FS_Subset, FS_CardinalityType
<1> HIDE DEF all
<1>3. newer \in [all -> SUBSET all]
  OBVIOUS
<1>4. /\ \A x \in all : x \notin newer[x]
      /\ \A x, y \in all : x \in newer[y] => newer[x] \subseteq newer[y]
      /\ \A x, y \in all : x # y => x \in newer[y] \/ y \in newer[x]
  BY <1>1, BeforeIsOrder
<1>5. lines = {x \in all : Cardinality(newer[x]) < Cap}
  OBVIOUS
<1> HIDE DEF newer, lines
<1>6. Cardinality(lines) = IF Cardinality(all) > Cap THEN Cap ELSE Cardinality(all)
  BY <1>2, <1>3, <1>4, <1>5, TopOfOrder, BoundsAssumption
<1>7. Index(WorldLive).lines = lines /\ Index(WorldLive).more = Beyond(Cardinality(all), Cap)
  BY DEF Index, lines, all
<1>8. Cardinality(lines) + Beyond(Cardinality(all), Cap) = Cardinality(all)
  BY <1>2, <1>6, BoundsAssumption DEF Beyond
<1>9. lines \subseteq all
  BY DEF lines
<1> QED
  BY <1>7, <1>8, <1>9 DEF all

\* As many disputed keys as the cap allows are shown with all their claimants,
\* and the rest are counted.
LEMMA ShownDisputes ==
  ASSUME FilesOK
  PROVE  LET live == WorldLive
             disputed == Disputed(live)
             contested == {x \in live : x.block.key \in disputed}
             index == Index(live)
         IN  /\ index.claimants \subseteq contested
             /\ {x.block.key : x \in contested} = disputed
             /\ Cardinality({x.block.key : x \in index.claimants}) + index.moreKeys
                  = Cardinality(disputed)
<1> DEFINE live == WorldLive
           disputed == Disputed(live)
           contested == {x \in live : x.block.key \in disputed}
           first == [k \in disputed |-> {l \in disputed : KeyRank[l] < KeyRank[k]}]
           shown == {k \in disputed :
                       Cardinality({l \in disputed : KeyRank[l] < KeyRank[k]}) < DisputedCap}
           claimants == {x \in live : x.block.key \in shown}
<1>1. disputed \subseteq Keys
  BY DEF Disputed
<1>2. IsFiniteSet(disputed) /\ Cardinality(disputed) \in Nat
  BY <1>1, NamesAssumption, FS_Subset, FS_CardinalityType
<1>3. \A k \in disputed : \E x \in live : x.block.key = k
  <2> SUFFICES ASSUME NEW k \in disputed, \A x \in live : x.block.key # k
               PROVE  FALSE
    OBVIOUS
  <2>1. {x.owner : x \in {y \in live : y.block.key = k}} = {}
    OBVIOUS
  <2>2. Cardinality({x.owner : x \in {y \in live : y.block.key = k}}) >= 2
    BY DEF Disputed
  <2>3. Cardinality({}) >= 2
    BY <2>1, <2>2
  <2> QED
    BY <2>3, FS_EmptySet
<1> HIDE DEF disputed
<1>4. \A k \in disputed : KeyRank[k] \in Nat
  BY <1>1, RanksAssumption
<1>5. \A k, l \in disputed : k # l => KeyRank[k] # KeyRank[l]
  BY <1>1, RanksAssumption DEF IsInjective
<1>6. first \in [disputed -> SUBSET disputed]
  OBVIOUS
<1>7. /\ \A k \in disputed : k \notin first[k]
      /\ \A k, l \in disputed : k \in first[l] => first[k] \subseteq first[l]
      /\ \A k, l \in disputed : k # l => k \in first[l] \/ l \in first[k]
  BY <1>4, <1>5
<1>8. shown = {k \in disputed : Cardinality(first[k]) < DisputedCap}
  OBVIOUS
<1> HIDE DEF first, shown
<1>9. Cardinality(shown) =
        IF Cardinality(disputed) > DisputedCap THEN DisputedCap ELSE Cardinality(disputed)
  BY <1>2, <1>6, <1>7, <1>8, TopOfOrder, BoundsAssumption
<1>10. shown \subseteq disputed
  BY DEF shown
<1>11. {x.block.key : x \in claimants} = shown
  BY <1>3, <1>10
<1>12. {x.block.key : x \in contested} = disputed
  BY <1>3
<1>13. claimants \subseteq contested
  BY <1>10
<1>14. /\ Index(live).claimants = claimants
       /\ Index(live).moreKeys = Beyond(Cardinality(disputed), DisputedCap)
  BY DEF Index, shown, disputed
<1>15. Cardinality(shown) + Beyond(Cardinality(disputed), DisputedCap) = Cardinality(disputed)
  BY <1>2, <1>9, BoundsAssumption DEF Beyond
<1> QED
  BY <1>11, <1>12, <1>13, <1>14, <1>15 DEF disputed

\* Every live belief is a line, in the tail's count, or a claimant of a dispute
\* that is shown or counted, whatever the caps.
THEOREM NoBeliefIsLost == Spec => []ProjectionComplete
<1>1. FilesOK => ProjectionComplete
  <2> SUFFICES ASSUME FilesOK
               PROVE  ProjectionComplete
    OBVIOUS
  <2> DEFINE live == WorldLive
             index == Index(live)
             disputed == Disputed(live)
             all == Undisputed(live)
             contested == {x \in live : x.block.key \in disputed}
  <2>1. all = live \ contested
    BY DEF Undisputed
  <2>2. IsFiniteSet(live) /\ Cardinality(live) \in Nat
    BY LiveIsFinite, FS_CardinalityType
  <2>3. /\ index.lines \subseteq all
        /\ Cardinality(index.lines) + index.more = Cardinality(all)
    BY LinesAndTail
  <2>4. /\ index.claimants \subseteq contested
        /\ {x.block.key : x \in contested} = disputed
        /\ Cardinality({x.block.key : x \in index.claimants}) + index.moreKeys
             = Cardinality(disputed)
    BY ShownDisputes
  <2>5. Cardinality(all) + Cardinality(contested) = Cardinality(live)
    <3>1. contested \in SUBSET live /\ live \cap contested = contested
      OBVIOUS
    <3> HIDE DEF contested, live, all
    <3>2. Cardinality(live \ contested) = Cardinality(live) - Cardinality(live \cap contested)
      BY <2>2, FS_Difference
    <3>3. Cardinality(contested) \in Nat
      BY <2>2, <3>1, FS_Subset, FS_CardinalityType
    <3>4. Cardinality(all) = Cardinality(live) - Cardinality(contested)
      BY <2>1, <3>1, <3>2
    <3> QED
      BY <2>2, <3>3, <3>4
  <2>6. index.lines \cap contested = {}
    BY <2>1, <2>3
  <2> QED
    BY <2>3, <2>4, <2>5, <2>6 DEF ProjectionComplete
<1> QED
  BY <1>1, FilesInvariance, PTL
=============================================================================
