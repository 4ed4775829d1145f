----------------------------- MODULE Namespaces -----------------------------
(***************************************************************************)
(* The identifiers under which providers discover a squad's artifacts.     *)
(* An identifier is a sequence of tokens: "-", "." and words of letters    *)
(* and digits.  A word counts as one character and so does a digest: the   *)
(* limits are constants and the arithmetic on them is that of the code.    *)
(***************************************************************************)
EXTENDS Naturals, Sequences, SequencesExt

CONSTANTS
  NamespaceLimit,   \* PROVIDER_NAMESPACE_MAX_LENGTH
  IdentifierLimit,  \* PROVIDER_ROLE_ID_MAX_LENGTH, PROVIDER_SKILL_ID_MAX_LENGTH
  Digest(_)         \* the first digits of a text's SHA-256, a token

\* The longest namespace leaves room for a marker, a cut word and a digest.
ASSUME LimitsAssumption ==
  /\ NamespaceLimit \in Nat /\ IdentifierLimit \in Nat
  /\ NamespaceLimit >= 3 /\ IdentifierLimit >= NamespaceLimit + 6

\* Equal digests come from equal texts, and no word of a text is a digest: what
\* the identifiers of these texts rely on.
Separate(texts) ==
  \A t \in texts :
    /\ Digest(t) \notin {"-", "h", "d", "role", "squad"}
    /\ \A u \in texts : Digest(t) \notin ToSet(u) /\ (Digest(t) = Digest(u) => t = u)

\* rstrip("-")
Stripped(text) == SubSeq(text, 1, Max({i \in DOMAIN text : text[i] # "-"} \cup {0}))

\* Mutant of Bounded: cuts without a digest.
BoundedByCutting(text, limit) == SubSeq(text, 1, IF Len(text) < limit THEN Len(text) ELSE limit)

Bounded(text, limit) ==
  IF Len(text) <= limit
    THEN text
    ELSE Stripped(SubSeq(text, 1, limit - 2)) \o <<"-", Digest(text)>>

Escape(token) ==
  IF token = "-" THEN <<"-", "h">> ELSE IF token = "." THEN <<"-", "d">> ELSE <<token>>

Escaped(text) == FlattenSeq([i \in DOMAIN text |-> Escape(text[i])])

ProviderNamespace(squad) == Bounded(Escaped(squad), NamespaceLimit)

\* Every role identifier starts with the namespace and two hyphens, which no
\* namespace contains.
ProviderRoleId(squad, role) ==
  LET namespace == ProviderNamespace(squad)
  IN  namespace \o <<"-", "-">> \o Bounded(role, IdentifierLimit - Len(namespace) - 2)

ProviderRoleSkillId(squad, role) ==
  LET namespace == ProviderNamespace(squad)
  IN  namespace \o <<"-", "role", "-">>
        \o Bounded(Escaped(role), IdentifierLimit - Len(namespace) - 3)

ProviderDispatchSkillId(squad) ==
  ProviderNamespace(squad) \o <<"-", "squad", "-", "dispatch">>
=============================================================================
