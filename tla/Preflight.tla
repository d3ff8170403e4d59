------------------------------ MODULE Preflight ------------------------------
(***************************************************************************)
(* Structured preflight (src/perp_md/capabilities.py and identity.py):     *)
(* whether a provider's declared capabilities can serve an instrument      *)
(* reference, what is missing when they cannot, and which retrieval a plan *)
(* may promise.                                                            *)
(*                                                                         *)
(* A reference knows some economic attributes (terms, a partial function)  *)
(* and names the instrument by selectors; a selector that more than one    *)
(* identity matches is ambiguous.  A manifest is a sequence of product     *)
(* mappings in the order of their mapping_id, each a scenario, which is a  *)
(* function from attributes to the values it expects, and a set of         *)
(* capabilities.  Messages and identifiers that decide nothing are left    *)
(* out; an issue is its code and what it is about.                         *)
(***************************************************************************)
EXTENDS Integers, Sequences, FiniteSets

Issues(code, about) == {<<code, x>> : x \in about}

IdentityCodes == {"missing_native_identity", "ambiguous_native_identity"}

-----------------------------------------------------------------------------
(* Faulty variants, one for each property about assessments.               *)

\* An ambiguous identity passes for a unique one.
AmbiguityIgnored(ref, c, observed, features) ==
    Issues("missing_native_identity", c.identities \ (ref.unique \cup ref.ambiguous))
        \cup Issues("missing_economic_attribute", c.terms \ DOMAIN ref.terms)
        \cup Issues("missing_runtime_feature", c.features \ features)

-----------------------------------------------------------------------------
(* One reference against one mapping and one capability.                   *)

\* Known attributes that differ exclude a mapping; unknown ones are required.
Contradicted(ref, scenario) ==
    \E a \in DOMAIN scenario \cap DOMAIN ref.terms : ref.terms[a] # scenario[a]

ScenarioIssues(ref, scenario) ==
    Issues("missing_economic_attribute", DOMAIN scenario \ DOMAIN ref.terms)

RequirementIssues(ref, c, observed, features) ==
    Issues("missing_native_identity", c.identities \ (ref.unique \cup ref.ambiguous))
        \cup Issues("ambiguous_native_identity", c.identities \cap ref.ambiguous)
        \cup Issues("missing_economic_attribute", c.terms \ DOMAIN ref.terms)
        \cup Issues("missing_market_observation", c.observations \ observed)
        \cup Issues("missing_runtime_feature", c.features \ features)

DeclarationIssues(c) ==
    IF c.state = "unavailable" THEN Issues("declared_unavailable", {"capability"}) ELSE {}

\* A target without a temporal mode asks for any.
Matches(c, target) == c.kind = target.kind /\ target.mode \in {c.mode, "any"}

-----------------------------------------------------------------------------
(* assess_capability(): the alternatives a manifest offers and what they    *)
(* come to.  An assessment that checks no observations passes all of them.  *)

Alternative(ref, mapping, m, c, observed, features) ==
    [mapping    |-> m,
     capability |-> c,
     issues     |-> ScenarioIssues(ref, mapping.scenario)
                        \cup RequirementIssues(ref, c, observed, features)
                        \cup DeclarationIssues(c)]

Offered(mapping, m, ref, target, observed, features) ==
    IF Contradicted(ref, mapping.scenario) THEN {}
    ELSE {Alternative(ref, mapping, m, c, observed, features) :
             c \in {d \in mapping.capabilities : Matches(d, target)}}

Alternatives(manifest, ref, target, observed, features) ==
    UNION {Offered(manifest[m], m, ref, target, observed, features) : m \in DOMAIN manifest}

Unavailable(a) == \E i \in a.issues : i[1] = "declared_unavailable"

Complete(alternatives) ==
    {a \in alternatives : a.issues = {} /\ a.capability.state # "unavailable"}
Viable(alternatives)   == {a \in alternatives : ~Unavailable(a)}

Common(alternatives) ==
    {i \in UNION {a.issues : a \in alternatives} : \A a \in alternatives : i \in a.issues}

\* The alternative with the fewest issues, the first in mapping order of those.
Fewest(alternatives) ==
    LET size(a) == Cardinality(a.issues) IN
    CHOOSE a \in alternatives : \A b \in alternatives :
        size(a) < size(b) \/ (size(a) = size(b) /\ a.mapping <= b.mapping)

\* What the viable alternatives lack: what all of them lack, if anything.
Lacking(viable) == IF Common(viable) # {} THEN Common(viable) ELSE Fewest(viable).issues

Assessment(status, issues, alternatives) ==
    [status |-> status, issues |-> issues, alternatives |-> alternatives]

\* No mapping of the manifest matches, or each that does is declared unavailable:
\* in both cases no alternative is viable.
Judge(alternatives) ==
    LET viable == Viable(alternatives) IN
    IF Complete(alternatives) # {} THEN Assessment("supported", {}, alternatives)
    ELSE IF viable = {} THEN Assessment("unsupported", Common(alternatives), alternatives)
    ELSE Assessment(IF \A i \in Lacking(viable) : i[1] = "missing_runtime_feature"
                    THEN "runtime_unavailable" ELSE "metadata_incomplete",
                    Lacking(viable), alternatives)

Assess(manifest, ref, target, observed, features) ==
    Judge(Alternatives(manifest, ref, target, observed, features))

\* planned_retrieval(): a plan names a retrieval only when every supported
\* alternative agrees on it.
Shapes(assessment) ==
    IF assessment.status = "supported"
    THEN {a.capability.shape : a \in Complete(assessment.alternatives)} ELSE {}
PlannedRetrievals(assessment) ==
    IF Cardinality(Shapes(assessment)) = 1 THEN Shapes(assessment) ELSE {}

-----------------------------------------------------------------------------
(* The direction of a contract.                                            *)

\* ReferenceInstrument.contract_direction
Direction(terms) ==
    IF {"unit", "settlement"} \subseteq DOMAIN terms
    THEN CASE terms["unit"] = "base" /\ terms["settlement"] = "quote" -> "linear"
           [] terms["unit"] = "quote" /\ terms["settlement"] = "base" -> "inverse"
           [] OTHER -> "unknown"
    ELSE "unknown"

\* instrument_descriptor_from_instrument(): what a legacy Instrument proves.
MarketKind(market) ==
    CASE market \in {"perpetual", "swap"} -> "perpetual"
      [] market = "future" -> "future"
      [] OTHER -> "unknown"
LegacyUnit(direction) == IF direction = "linear" THEN "base" ELSE "quote"
LegacySettlement(direction) == IF direction = "linear" THEN "quote" ELSE "base"

LegacyTerms(instrument) ==
    LET proven == (IF MarketKind(instrument.market) # "unknown" THEN {"kind"} ELSE {})
                      \cup (IF instrument.direction # "unknown"
                            THEN {"unit", "settlement"} ELSE {})
                      \cup (IF instrument.sized THEN {"amount"} ELSE {})
    IN [a \in proven |->
           CASE a = "kind" -> MarketKind(instrument.market)
             [] a = "unit" -> LegacyUnit(instrument.direction)
             [] a = "settlement" -> LegacySettlement(instrument.direction)
             [] a = "amount" -> "given"]

=============================================================================
