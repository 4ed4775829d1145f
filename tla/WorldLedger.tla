----------------------------- MODULE WorldLedger -----------------------------
(***************************************************************************)
(* The belief ledger under .squad/world: one claims file per owner, and    *)
(* the two scripts that read it.  world.sh lists, rejects and projects     *)
(* beliefs; verify.sh derives the number of disputed keys once more, on    *)
(* its own.  Owners append and the human edits; the scripts only read.     *)
(*                                                                         *)
(* A file is a sequence of lines, a line a field and its trimmed value.    *)
(* Claim and source stand for text, a date for its rank, and Blank for a   *)
(* value empty once comments are stripped.  Truncation to 80 bytes,        *)
(* wording and a file whose name has no owner, claims-.md, are left out.   *)
(***************************************************************************)
EXTENDS Naturals, FiniteSets, FiniteSetsExt, Sequences

CONSTANTS
  Owners,       \* what stands between "claims-" and ".md" in the file names
  Research,     \* the owner of claims-research.md
  Keys,
  Word,         \* the part of a key before its first blank
  Blank,
  Chunks,       \* what an owner may write in one go: sequences of lines
  MaxLines,     \* bound: lines in a file
  Rulings,      \* bound: what a status line is edited to
  Cap,          \* --cap
  DisputedCap,  \* --disputed-cap
  OwnerRank,    \* find | sort
  KeyRank       \* sort

VARIABLE files
vars == <<files>>

Grades == {"confirmed", "reported", "inferred", "assumed"}
WeakGrades == {"inferred", "assumed"}
Statuses == {"live", "superseded", "retired"}
Required == {"claim", "source", "grade", "observed"}

Headings == {"belief", "heading"}

\* What a line of each field may hold.
Lines ==
  [field : {"heading"}, value : {Blank}]
    \cup [field : {"belief"}, value : Keys \cup {Blank}]
    \cup [field : {"observed"}, value : Nat \cup {Blank}]
    \cup [field : {"claim", "source", "grade", "status"}, value : STRING \cup {Blank}]

ASSUME NamesAssumption == IsFiniteSet(Owners) /\ IsFiniteSet(Keys)
ASSUME WordAssumption == Word \in [Keys -> Keys]
ASSUME ChunksAssumption ==
  /\ Chunks \subseteq Seq(Lines)
  /\ Rulings \subseteq STRING \cup {Blank}
ASSUME BoundsAssumption == MaxLines \in Nat /\ Cap \in Nat /\ DisputedCap \in Nat
ASSUME RanksAssumption ==
  /\ OwnerRank \in [Owners -> Nat] /\ IsInjective(OwnerRank)
  /\ KeyRank \in [Keys -> Nat] /\ IsInjective(KeyRank)

\* A block starts at a belief heading with a key and ends before the next heading
\* of any level.
Starts(file) ==
  {i \in DOMAIN file : file[i].field = "belief" /\ file[i].value # Blank}

LinesOf(file, i, field) ==
  {j \in (i + 1)..Len(file) :
     /\ file[j].field = field
     /\ \A h \in (i + 1)..j : file[h].field \notin Headings}

\* A later line of a field replaces an earlier one.
LastValue(file, lines, default) ==
  IF lines = {} THEN default ELSE file[Max(lines)].value

FieldOf(file, i, field) == LastValue(file, LinesOf(file, i, field), Blank)

BlockAt(file, i, status) ==
  [at |-> i, key |-> file[i].value, status |-> status,
   claim |-> FieldOf(file, i, "claim"), source |-> FieldOf(file, i, "source"),
   grade |-> FieldOf(file, i, "grade"), observed |-> FieldOf(file, i, "observed")]

-----------------------------------------------------------------------------
(* world.sh *)

\* A block whose last status line is empty, or that has none, is live.
WorldStatus(file, i) ==
  LET last == FieldOf(file, i, "status") IN IF last = Blank THEN "live" ELSE last

WorldBlocks(file) == {BlockAt(file, i, WorldStatus(file, i)) : i \in Starts(file)}

\* Mutant of Reasons: a block without a date is let through.
ReasonsNoObserved(owner, b) ==
  {f \in Required \ {"observed"} : b[f] = Blank}
    \cup (IF b.grade \in Grades \cup {Blank} THEN {} ELSE {"bad_grade"})
    \cup (IF owner = Research /\ b.grade \in WeakGrades
            THEN {"research_grade_ceiling"} ELSE {})
    \cup (IF b.status \in Statuses THEN {} ELSE {"bad_status"})

\* Pass 1.
Reasons(owner, b) ==
  {f \in Required : b[f] = Blank}
    \cup (IF b.grade \in Grades \cup {Blank} THEN {} ELSE {"bad_grade"})
    \cup (IF owner = Research /\ b.grade \in WeakGrades
            THEN {"research_grade_ceiling"} ELSE {})
    \cup (IF b.status \in Statuses THEN {} ELSE {"bad_status"})

\* Mutant of Survivors: duplicates are looked for before the fields are checked.
SurvivorsUnchecked(owner, blocks) == {b \in blocks : b.status = "live"}

Survivors(owner, blocks) ==
  {b \in blocks : b.status = "live" /\ Reasons(owner, b) = {}}

\* Mutant of Duplicated: nothing is a duplicate.
DuplicatedNever(owner, blocks) == {}

\* Pass 2: the list of duplicated keys goes through awk '{print $2}', which keeps
\* a key up to its first blank.
Duplicated(owner, blocks) ==
  LET live == Survivors(owner, blocks)
  IN  {Word[b.key] : b \in {x \in live : \E y \in live \ {x} : y.key = x.key}}

WorldValid(owner, blocks) ==
  LET refused == Duplicated(owner, blocks)
  IN  {b \in blocks : /\ Reasons(owner, b) = {}
                      /\ b.status = "live" => b.key \notin refused}

LiveOf(owner) ==
  {[owner |-> owner, block |-> b] :
     b \in {x \in WorldValid(owner, WorldBlocks(files[owner])) : x.status = "live"}}

WorldLive == UNION {LiveOf(o) : o \in Owners}

Disputed(live) ==
  {k \in Keys : Cardinality({x.owner : x \in {y \in live : y.block.key = k}}) >= 2}

\* Mutant of Undisputed: the join that yields nothing when no key is disputed.
UndisputedJoined(live) ==
  IF Disputed(live) = {} THEN {} ELSE {x \in live : x.block.key \notin Disputed(live)}

\* --index: the newest undisputed beliefs up to the cap, in file order within a
\* day; all claimants of the first disputed keys; the rest are counted.
Undisputed(live) ==
  LET disputed == Disputed(live) IN {x \in live : x.block.key \notin disputed}

Before(x, y) ==
  \/ x.block.observed > y.block.observed
  \/ /\ x.block.observed = y.block.observed
     /\ \/ OwnerRank[x.owner] < OwnerRank[y.owner]
        \/ x.owner = y.owner /\ x.block.at < y.block.at

Beyond(n, cap) == IF n > cap THEN n - cap ELSE 0

Index(live) ==
  LET all == Undisputed(live)
      disputed == Disputed(live)
      shown == {k \in disputed :
                  Cardinality({l \in disputed : KeyRank[l] < KeyRank[k]}) < DisputedCap}
  IN  [lines |-> {x \in all : Cardinality({y \in all : Before(y, x)}) < Cap},
       more |-> Beyond(Cardinality(all), Cap),
       claimants |-> {x \in live : x.block.key \in shown},
       moreKeys |-> Beyond(Cardinality(disputed), DisputedCap)]

-----------------------------------------------------------------------------
(* verify.sh *)

\* An empty status line leaves the status as it was.
VerifyStatus(file, i) ==
  LastValue(file, {j \in LinesOf(file, i, "status") : file[j].value # Blank}, "live")

VerifyBlocks(file) == {BlockAt(file, i, VerifyStatus(file, i)) : i \in Starts(file)}

\* Mutant of VerifyValid: the research grade ceiling is not applied.
VerifyValidNoCeiling(owner, b) ==
  /\ \A f \in Required : b[f] # Blank
  /\ b.grade \in Grades
  /\ b.status \in Statuses

VerifyValid(owner, b) ==
  /\ \A f \in Required : b[f] # Blank
  /\ b.grade \in Grades
  /\ owner = Research => b.grade \notin WeakGrades
  /\ b.status \in Statuses

VerifyLiveKeys(owner) ==
  LET live == {b \in VerifyBlocks(files[owner]) :
                 b.status = "live" /\ VerifyValid(owner, b)}
  IN  {b.key : b \in {x \in live : \A y \in live \ {x} : y.key # x.key}}

VerifyConflicts ==
  {k \in Keys : Cardinality({o \in Owners : k \in VerifyLiveKeys(o)}) >= 2}

-----------------------------------------------------------------------------
(* The ledger's life. *)

Init == files = [o \in Owners |-> <<>>]

\* An owner, or squad-world on the human's behalf, adds to a file.
AppendChunk(o, chunk) ==
  /\ Len(files[o]) + Len(chunk) <= MaxLines
  /\ files' = [files EXCEPT ![o] = @ \o chunk]

\* Adjudication and retirement: the human edits the status line of a block.
SetStatus(o, i, status) ==
  /\ i \in DOMAIN files[o]
  /\ files[o][i].field = "status"
  /\ files' = [files EXCEPT ![o][i].value = status]

\* squad-goal parks the squad: .squad/world is moved away as a whole.
Park == files' = [o \in Owners |-> <<>>]

Next ==
  \/ \E o \in Owners, chunk \in Chunks : AppendChunk(o, chunk)
  \/ \E o \in Owners, i \in 1..MaxLines, status \in Rulings :
       SetStatus(o, i, status)
  \/ Park

Spec == Init /\ [][Next]_vars

-----------------------------------------------------------------------------
FilesOK ==
  /\ files \in [Owners -> Seq(Lines)]
  /\ \A o \in Owners : Len(files[o]) <= MaxLines

\* Every projected belief says who asserts it, from what, when and how firmly,
\* in the ledger's vocabulary.
TypeOK ==
  /\ FilesOK
  /\ \A x \in WorldLive : /\ x.owner \in Owners
                          /\ x.block.grade \in Grades
                          /\ Blank \notin {x.block[f] : f \in Required}

\* verify.sh: "any drift between this and world.sh's own notion of valid is a
\* defect to fix in both scripts": the disputes the two derive are the same.
ScriptsAgree == VerifyConflicts = Disputed(WorldLive)

\* An owner's two live beliefs under one key are a self-contradiction that
\* world.sh refuses to arbitrate: neither of them is projected, and nothing else
\* is refused for it.
OnlyContradictionsRefused ==
  \A o \in Owners :
    LET live == {b \in WorldBlocks(files[o]) :
                   b.status = "live" /\ Reasons(o, b) = {}}
    IN  {x.block : x \in LiveOf(o)} =
          {b \in live : \A other \in live \ {b} : other.key # b.key}

\* A malformed block drags no well-formed one down and lends it nothing:
\* whatever chunk an owner adds under a heading of its own, if no block of it
\* passes the field checks, what world.sh projects does not change.
MalformedHidesNothing ==
  [][\A o \in Owners, chunk \in Chunks :
       /\ chunk[1].field \in Headings
       /\ files' = [files EXCEPT ![o] = @ \o chunk]
       /\ \A b \in WorldBlocks(chunk) : Reasons(o, b) # {}
       => WorldLive' = WorldLive]_vars

\* Every live belief reaches the prompt: as an index line, as one of those the
\* tail counts, or with all who claim its key as a dispute that is shown or
\* counted, and never in two ways.
ProjectionComplete ==
  LET live == WorldLive
      index == Index(live)
      disputed == Disputed(live)
      contested == {x \in live : x.block.key \in disputed}
  IN  /\ index.lines \cap contested = {}
      /\ index.claimants \subseteq contested
      /\ Cardinality(index.lines) + index.more + Cardinality(contested)
           = Cardinality(live)
      /\ Cardinality({x.block.key : x \in index.claimants}) + index.moreKeys
           = Cardinality({x.block.key : x \in contested})
=============================================================================
