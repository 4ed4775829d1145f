---------------------------- MODULE MCWorldLedger ----------------------------
(* Small instances of WorldLedger for TLC. *)
EXTENDS WorldLedger

Line(field, value) == [field |-> field, value |-> value]

\* A block as templates/world-claims.md lays it out.
Full(key, grade, date, status) ==
  <<Line("belief", key), Line("claim", "text"), Line("source", "text"),
    Line("grade", grade), Line("observed", date), Line("status", status)>>

Without(chunk, field) == SelectSeq(chunk, LAMBDA line : line.field # field)

Heading == <<Line("heading", Blank)>>

\* Files as the template asks for them: kebab-case keys, one status at most.
TwoKeys == {"limits", "cost"}
SameWord == [k \in TwoKeys |-> k]
TidyChunks ==
  {Full("limits", "confirmed", 1, "live"),
   Full("cost", "reported", 2, "live"),
   Without(Full("limits", "inferred", 2, "live"), "status"),
   Full("limits", "confirmed", 1, "activ"),
   SubSeq(Full("cost", "reported", 1, "live"), 1, 4),
   Heading \o <<Line("observed", 1)>>}

TidyOwners == {"scout", "research"}

\* Keys that share their first word.
BlankKeys == {"api", "api limits"}
FirstWord == [k \in BlankKeys |-> "api"]
BlankKeyChunks == {Full(k, "confirmed", 1, "live") : k \in BlankKeys}

Superseded == {"superseded"}

KeyOrder == [k \in Keys |-> IF k \in {"cost", "api"} THEN 1 ELSE 2]
Alphabetical ==
  [o \in Owners |-> IF o = "research" THEN 1 ELSE 2]
=============================================================================
