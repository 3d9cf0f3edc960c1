------------------------------ MODULE Registry ------------------------------
(***************************************************************************)
(* What exists and what the rules are: the pinned snapshot of the item     *)
(* metadata, parsed (metadata/bymykel.py) into a registry that is then     *)
(* validated (metadata/registry.py), and the dated rulesets of the         *)
(* contracts (domain/rules.py).                                            *)
(*                                                                         *)
(* A payload is a set of entries: an identity, a name, the paint index,    *)
(* rarity and float range it states, each a set that is empty when what is *)
(* stated cannot be used, the collections it is in and its qualities.      *)
(* Rarities are numbered up the ladder.  A ruleset is its version, its     *)
(* window of time, whose end is a set of at most one moment, and the       *)
(* inputs it takes by rarity.                                              *)
(***************************************************************************)
EXTENDS Integers, FiniteSets

CONSTANTS Payloads,   \* what a snapshot can say
          RuleSets    \* what the rule registry was built with

VARIABLES payload,    \* the pinned snapshot
          registry    \* what was made of it

Rarities == 1..7
Extraordinary == 7

(* An identity is stated once; the constructor of the registry insists. *)
StatedOnce(entries) == \A e, f \in entries : e.id = f.id => e = f

(* What an entry states is usable: one rarity at most, some collections. *)
IsEntry(e) ==
  /\ e.id \in Nat /\ IsFiniteSet(e.collections) /\ e.collections \subseteq Nat
  /\ e.rarity \subseteq Rarities /\ \A r, t \in e.rarity : r = t

(* A ruleset has a window of time and takes some inputs of a rarity or none. *)
IsRuleSet(rule) ==
  /\ \A until \in rule.until : rule.from < until
  /\ DOMAIN rule.counts \subseteq Rarities
  /\ \A r \in DOMAIN rule.counts : rule.counts[r] \in Nat \ {0}

ASSUME PayloadAssumption ==
  \A p \in Payloads : IsFiniteSet(p) /\ StatedOnce(p) /\ \A e \in p : IsEntry(e)
ASSUME RuleAssumption == IsFiniteSet(RuleSets) /\ \A rule \in RuleSets : IsRuleSet(rule)

-----------------------------------------------------------------------------
(* Parsing.  Nothing is inferred: an entry that does not state a rarity    *)
(* and a range is skipped with an error, one without a collection with a   *)
(* warning. *)
Faulty(entries) == {e \in entries : e.rarity = {} \/ e.range = {}}
Usable(entries) == {e \in entries \ Faulty(entries) : e.collections # {}}

(* Mutant: a paint is one skin, whatever collections it is in. *)
SkinIdsByPaint(entries) == {<<e.id, CHOOSE c \in e.collections : TRUE>> : e \in Usable(entries)}

(* A skin is a paint in a collection. *)
SkinIds(entries) == UNION {{<<e.id, c>> : c \in e.collections} : e \in Usable(entries)}

Entry(entries, s) == CHOOSE e \in entries : e.id = s[1]
Only(S) == CHOOSE x \in S : TRUE

Skin(entries, s) ==
  LET e == Entry(entries, s)
  IN [home |-> s[2], name |-> e.name, paint |-> e.paint, rarity |-> Only(e.rarity),
      range |-> Only(e.range), qualities |-> e.qualities]

(* Mutant: the roster is taken from the collection an entry names first. *)
RosterByFirst(entries, c) ==
  {s \in SkinIds(entries) : s[2] = c /\ c = CHOOSE d \in Entry(entries, s).collections : TRUE}

Roster(entries, c) == {s \in SkinIds(entries) : s[2] = c}

Import(entries) ==
  LET skins == [s \in SkinIds(entries) |-> Skin(entries, s)]
      collections == {s[2] : s \in DOMAIN skins}
  IN [skins |-> skins,
      roster |-> [c \in collections |-> Roster(entries, c)],
      extraordinary |-> {c \in collections : \E s \in DOMAIN skins :
                           skins[s].home = c /\ skins[s].rarity = Extraordinary}]

-----------------------------------------------------------------------------
(* The registry's own lookups and validation. *)
Skins == DOMAIN registry.skins
Collections == DOMAIN registry.roster

SkinsAt(c, r) == {s \in Skins : registry.skins[s].home = c /\ registry.skins[s].rarity = r}
EligibleInputs(c, r, q) == {s \in SkinsAt(c, r) : q \in registry.skins[s].qualities}

(* The skins of the collection one rarity up; nothing follows the last. *)
OutputPool(c, r) == IF r + 1 \in Rarities THEN SkinsAt(c, r + 1) ELSE {}

Members(c) == {s \in Skins : registry.skins[s].home = c}

SkinsNamed(name) == {s \in Skins : registry.skins[s].name = name}

(* Mutant: the name and the rarity are enough. *)
IdentifyByName(row) ==
  LET found == {s \in SkinsNamed(row.name) : /\ registry.skins[s].rarity = row.rarity
                                             /\ row.quality \in registry.skins[s].qualities}
  IN IF Cardinality(found) = 1 THEN found ELSE {}

(* The one skin a venue's row can be (adapters/csfloat.py), or none.  When *)
(* some skin of the name states a paint index, what the row states counts. *)
Identify(row) ==
  LET stated == {s \in SkinsNamed(row.name) : registry.skins[s].paint # {}}
      named == IF row.paint # {} /\ stated # {} THEN {s \in stated : registry.skins[s].paint = row.paint}
               ELSE SkinsNamed(row.name)
      found == {s \in named : /\ registry.skins[s].rarity = row.rarity
                              /\ row.quality \in registry.skins[s].qualities}
  IN IF Cardinality(found) = 1 THEN found ELSE {}

(* The issues that keep a registry from backing a decision about money.    *)
Errors ==
  {<<"UNKNOWN_COLLECTION_REFERENCE", s>> : s \in {t \in Skins : registry.skins[t].home \notin Collections}}
  \cup {<<"UNKNOWN_SKIN_REFERENCE", c>> : c \in {d \in Collections : ~(registry.roster[d] \subseteq Skins)}}
  \cup {<<"COLLECTION_MEMBERSHIP_DISAGREEMENT", c>> : c \in {d \in Collections : ~(Members(d) \subseteq registry.roster[d])}}
  \cup {<<"MISSING_EXTRAORDINARY_MAPPING", c>> : c \in {d \in registry.extraordinary : SkinsAt(d, Extraordinary) = {}}}

RequireValid == Errors = {}

-----------------------------------------------------------------------------
(* Rules. *)
Covers(rule, moment) == rule.from <= moment /\ \A until \in rule.until : moment < until

Governing(moment) == {rule \in RuleSets : Covers(rule, moment)}

(* Mutant: the first ruleset that has begun. *)
ResolveFirst(moment) ==
  {rule \in RuleSets : /\ rule.from <= moment
                       /\ \A other \in RuleSets : other.from <= moment => rule.from <= other.from}

(* The one ruleset that covers the moment; none when several do. *)
Resolve(moment) == {rule \in Governing(moment) : Cardinality(Governing(moment)) = 1}
=============================================================================
