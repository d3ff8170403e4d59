---------------------------- MODULE PreflightProofs ----------------------------
(***************************************************************************)
(* What preflight promises for every manifest and every reference          *)
(* (src/perp_md/capabilities.py): what "supported" proves, which verdicts  *)
(* later evidence can change, what a plan stands for, and that legacy      *)
(* instruments keep their direction.                                       *)
(***************************************************************************)
EXTENDS Preflight, FiniteSetTheorems, TLAPS

-----------------------------------------------------------------------------
(* A capability that can serve a reference, written without issues.        *)

\* The reference has every attribute of the scenario with the value it expects,
\* the identities are unique, the terms known, the evidence at hand.
Fits(ref, scenario) ==
    \A a \in DOMAIN scenario : a \in DOMAIN ref.terms /\ ref.terms[a] = scenario[a]

Serves(ref, mapping, c, observed, features) ==
    /\ Fits(ref, mapping.scenario)
    /\ c.state # "unavailable"
    /\ c.identities \subseteq ref.unique \ ref.ambiguous
    /\ c.terms \subseteq DOMAIN ref.terms
    /\ c.observations \subseteq observed
    /\ c.features \subseteq features

\* A reference that knows at least as much: no attribute changed or was lost.
Refines(better, ref) ==
    /\ DOMAIN ref.terms \subseteq DOMAIN better.terms
    /\ \A a \in DOMAIN ref.terms : better.terms[a] = ref.terms[a]

-----------------------------------------------------------------------------
(* Issues.                                                                 *)

\* A set yields no issue only when it is empty (the list of issues of one field).
LEMMA NoIssues ==
    ASSUME NEW code, NEW about
    PROVE  Issues(code, about) = {} <=> about = {}
BY DEF Issues

\* An alternative of a mapping that the reference does not contradict has no
\* issue exactly when its capability serves the reference.
LEMMA IssueFree ==
    ASSUME NEW ref, NEW mapping, NEW m, NEW c, NEW observed, NEW features,
           ~ Contradicted(ref, mapping.scenario)
    PROVE  Alternative(ref, mapping, m, c, observed, features).issues = {}
               <=> Serves(ref, mapping, c, observed, features)
<1>1. ScenarioIssues(ref, mapping.scenario) = {} <=> Fits(ref, mapping.scenario)
  <2>1. ScenarioIssues(ref, mapping.scenario) = {}
            <=> DOMAIN mapping.scenario \ DOMAIN ref.terms = {}
    BY NoIssues DEF ScenarioIssues
  <2>2. QED  BY <2>1 DEF Fits, Contradicted
<1>2. RequirementIssues(ref, c, observed, features) = {}
          <=> /\ c.identities \subseteq ref.unique \ ref.ambiguous
              /\ c.terms \subseteq DOMAIN ref.terms
              /\ c.observations \subseteq observed
              /\ c.features \subseteq features
  <2>1. RequirementIssues(ref, c, observed, features) = {}
            <=> /\ c.identities \ (ref.unique \cup ref.ambiguous) = {}
                /\ c.identities \cap ref.ambiguous = {}
                /\ c.terms \ DOMAIN ref.terms = {}
                /\ c.observations \ observed = {}
                /\ c.features \ features = {}
    BY NoIssues DEF RequirementIssues
  <2>2. QED  BY <2>1
<1>3. DeclarationIssues(c) = {} <=> c.state # "unavailable"
  BY DEF DeclarationIssues, Issues
<1>4. QED
  BY <1>1, <1>2, <1>3 DEF Alternative, Serves

\* What an alternative of an assessment is.
LEMMA AlternativeIs ==
    ASSUME NEW manifest, NEW ref, NEW target, NEW observed, NEW features, NEW a
    PROVE  a \in Alternatives(manifest, ref, target, observed, features)
               <=> \E m \in DOMAIN manifest : \E c \in manifest[m].capabilities :
                       /\ ~ Contradicted(ref, manifest[m].scenario)
                       /\ Matches(c, target)
                       /\ a = Alternative(ref, manifest[m], m, c, observed, features)
BY DEF Alternatives, Offered

-----------------------------------------------------------------------------
(* Verdicts.                                                               *)

\* assess_capability() says "supported" exactly when some declared capability of
\* the asked kind and mode serves the reference: there is nothing an adapter was
\* declared to need that the reference, the observations or the runtime lack.
THEOREM SupportedMeansServed ==
    ASSUME NEW manifest, NEW ref, NEW target, NEW observed, NEW features
    PROVE  Assess(manifest, ref, target, observed, features).status = "supported"
               <=> \E m \in DOMAIN manifest : \E c \in manifest[m].capabilities :
                       Matches(c, target) /\ Serves(ref, manifest[m], c, observed, features)
<1> DEFINE alts == Alternatives(manifest, ref, target, observed, features)
<1>1. Assess(manifest, ref, target, observed, features).status = "supported"
          <=> Complete(alts) # {}
  BY DEF Assess, Judge, Assessment
<1>2. ASSUME NEW a \in Complete(alts)
      PROVE  \E m \in DOMAIN manifest : \E c \in manifest[m].capabilities :
                 Matches(c, target) /\ Serves(ref, manifest[m], c, observed, features)
  <2>1. a \in alts /\ a.issues = {}
    BY <1>2 DEF Complete
  <2>2. PICK m \in DOMAIN manifest : \E c \in manifest[m].capabilities :
            /\ ~ Contradicted(ref, manifest[m].scenario)
            /\ Matches(c, target)
            /\ a = Alternative(ref, manifest[m], m, c, observed, features)
    BY <2>1, AlternativeIs
  <2>3. PICK c \in manifest[m].capabilities :
            /\ ~ Contradicted(ref, manifest[m].scenario)
            /\ Matches(c, target)
            /\ a = Alternative(ref, manifest[m], m, c, observed, features)
    BY <2>2
  <2>4. Serves(ref, manifest[m], c, observed, features)
    BY <2>1, <2>3, IssueFree
  <2>5. QED  BY <2>3, <2>4
<1>3. ASSUME NEW m \in DOMAIN manifest, NEW c \in manifest[m].capabilities,
             Matches(c, target), Serves(ref, manifest[m], c, observed, features)
      PROVE  Complete(alts) # {}
  <2> DEFINE a == Alternative(ref, manifest[m], m, c, observed, features)
  <2>1. ~ Contradicted(ref, manifest[m].scenario)
    BY <1>3 DEF Serves, Fits, Contradicted
  <2>2. a \in alts
    BY <1>3, <2>1, AlternativeIs
  <2>3. a.issues = {}
    BY <1>3, <2>1, IssueFree
  <2>4. a.capability.state # "unavailable"
    BY <1>3 DEF Alternative, Serves
  <2>5. QED  BY <2>2, <2>3, <2>4 DEF Complete
<1>4. QED
  BY <1>1, <1>2, <1>3

\* More evidence never withdraws support: a runtime that proves more features, or
\* a caller that supplies more observations, keeps what was supported.
THEOREM SupportGrowsWithEvidence ==
    ASSUME NEW manifest, NEW ref, NEW target,
           NEW observed, NEW seen, observed \subseteq seen,
           NEW features, NEW proven, features \subseteq proven,
           Assess(manifest, ref, target, observed, features).status = "supported"
    PROVE  Assess(manifest, ref, target, seen, proven).status = "supported"
<1>1. PICK m \in DOMAIN manifest : \E c \in manifest[m].capabilities :
          Matches(c, target) /\ Serves(ref, manifest[m], c, observed, features)
  BY SupportedMeansServed
<1>2. \E c \in manifest[m].capabilities :
          Matches(c, target) /\ Serves(ref, manifest[m], c, seen, proven)
  BY <1>1 DEF Serves
<1>3. QED
  BY <1>2, SupportedMeansServed

\* "unsupported" means that no mapping of the provider that the reference might
\* still be has a capability for the target that is not declared unavailable.
LEMMA UnsupportedMeansNothingViable ==
    ASSUME NEW manifest, NEW ref, NEW target, NEW observed, NEW features
    PROVE  Assess(manifest, ref, target, observed, features).status = "unsupported"
               <=> \A m \in DOMAIN manifest : \A c \in manifest[m].capabilities :
                       /\ ~ Contradicted(ref, manifest[m].scenario)
                       /\ Matches(c, target)
                       => c.state = "unavailable"
<1> DEFINE alts == Alternatives(manifest, ref, target, observed, features)
           Alt(m, c) == Alternative(ref, manifest[m], m, c, observed, features)
<1>1. ASSUME NEW m, NEW c
      PROVE  Unavailable(Alt(m, c)) <=> c.state = "unavailable"
  <2>1. c.state = "unavailable" => <<"declared_unavailable", "capability">> \in Alt(m, c).issues
    BY DEF Alternative, DeclarationIssues, Issues
  <2>2. c.state # "unavailable" => \A i \in Alt(m, c).issues : i[1] # "declared_unavailable"
    <3>1. \A i \in ScenarioIssues(ref, manifest[m].scenario) : i[1] = "missing_economic_attribute"
      BY DEF ScenarioIssues, Issues
    <3>2. \A i \in RequirementIssues(ref, c, observed, features) : i[1] # "declared_unavailable"
      BY DEF RequirementIssues, Issues
    <3>3. QED  BY <3>1, <3>2 DEF Alternative, DeclarationIssues
  <2>3. QED  BY <2>1, <2>2 DEF Unavailable
<1>2. Assess(manifest, ref, target, observed, features).status = "unsupported"
          <=> Viable(alts) = {}
  <2>1. Viable(alts) = {} => Complete(alts) = {}
    BY DEF Viable, Complete, Unavailable
  <2>2. QED  BY <2>1 DEF Assess, Judge, Assessment
<1>3. Viable(alts) = {} <=> \A a \in alts : Unavailable(a)
  BY DEF Viable
<1>4. (\A a \in alts : Unavailable(a))
          <=> \A m \in DOMAIN manifest : \A c \in manifest[m].capabilities :
                  /\ ~ Contradicted(ref, manifest[m].scenario)
                  /\ Matches(c, target)
                  => Unavailable(Alt(m, c))
  BY AlternativeIs
<1>5. QED
  BY <1>1, <1>2, <1>3, <1>4

\* An "unsupported" verdict is final: learning more attributes or identities of
\* the instrument, observing more or installing more never turns it.  Only a new
\* manifest does, so a caller may cache it and need not complete its metadata.
THEOREM UnsupportedIsFinal ==
    ASSUME NEW manifest, NEW target, NEW ref, NEW better, Refines(better, ref),
           NEW observed, NEW seen, NEW features, NEW proven,
           Assess(manifest, ref, target, observed, features).status = "unsupported"
    PROVE  Assess(manifest, better, target, seen, proven).status = "unsupported"
<1>1. ASSUME NEW scenario, Contradicted(ref, scenario)
      PROVE  Contradicted(better, scenario)
  BY <1>1 DEF Contradicted, Refines
<1>2. QED
  BY <1>1, UnsupportedMeansNothingViable

\* An identity that every capability in question needs is missing in no verdict
\* that names no identity: whatever else is lacking, the reference has it, and it is
\* unambiguous.
THEOREM SharedIdentityIsFound ==
    ASSUME NEW manifest, NEW ref, NEW target, NEW observed, NEW features, NEW x,
           \E m \in DOMAIN manifest : \E c \in manifest[m].capabilities :
               ~ Contradicted(ref, manifest[m].scenario) /\ Matches(c, target),
           \A m \in DOMAIN manifest : \A c \in manifest[m].capabilities :
               ~ Contradicted(ref, manifest[m].scenario) /\ Matches(c, target)
               => x \in c.identities,
           \A i \in Assess(manifest, ref, target, observed, features).issues :
               i[1] \notin IdentityCodes
    PROVE  x \in ref.unique \ ref.ambiguous
<1> DEFINE alts == Alternatives(manifest, ref, target, observed, features)
           about(code) == <<code, x>>
<1>1. SUFFICES ASSUME x \notin ref.unique \ ref.ambiguous
               PROVE  \E code \in IdentityCodes :
                          about(code) \in Assess(manifest, ref, target, observed, features).issues
  OBVIOUS
<1>2. PICK code \in IdentityCodes :
          \A m, c, mapping : x \in c.identities
              => about(code) \in Alternative(ref, mapping, m, c, observed, features).issues
  <2>1. CASE x \in ref.ambiguous
    <3>1. \A m, c, mapping : x \in c.identities
              => about("ambiguous_native_identity")
                     \in Alternative(ref, mapping, m, c, observed, features).issues
      BY <2>1 DEF Alternative, RequirementIssues, Issues
    <3>2. QED  BY <3>1 DEF IdentityCodes
  <2>2. CASE x \notin ref.ambiguous
    <3>1. \A m, c, mapping : x \in c.identities
              => about("missing_native_identity")
                     \in Alternative(ref, mapping, m, c, observed, features).issues
      BY <1>1, <2>2 DEF Alternative, RequirementIssues, Issues
    <3>2. QED  BY <3>1 DEF IdentityCodes
  <2>3. QED  BY <2>1, <2>2
<1>3. alts # {}
  <2>1. PICK m \in DOMAIN manifest : \E c \in manifest[m].capabilities :
            ~ Contradicted(ref, manifest[m].scenario) /\ Matches(c, target)
    OBVIOUS
  <2>2. PICK c \in manifest[m].capabilities :
            ~ Contradicted(ref, manifest[m].scenario) /\ Matches(c, target)
    BY <2>1
  <2>3. Alternative(ref, manifest[m], m, c, observed, features) \in alts
    BY <2>2, AlternativeIs
  <2>4. QED  BY <2>3
<1>4. \A a \in alts : about(code) \in a.issues
  BY <1>2, AlternativeIs
<1>5. Complete(alts) = {}
  BY <1>4 DEF Complete
<1>6. about(code) \in Common(alts)
  BY <1>3, <1>4 DEF Common
<1>7. Viable(alts) # {} => about(code) \in Lacking(Viable(alts))
  <2>1. Viable(alts) \subseteq alts
    BY DEF Viable
  <2>2. Viable(alts) # {} => about(code) \in Common(Viable(alts))
    BY <1>4, <2>1 DEF Common
  <2>3. QED  BY <2>2 DEF Lacking
<1>8. QED
  BY <1>5, <1>6, <1>7 DEF Assess, Judge, Assessment

\* A plan names a retrieval only when that is how every supported alternative is
\* retrieved, whichever of them the adapter takes.
THEOREM PlansAreUnambiguous ==
    ASSUME NEW assessment, IsFiniteSet(assessment.alternatives),
           NEW shape \in PlannedRetrievals(assessment)
    PROVE  /\ assessment.status = "supported"
           /\ PlannedRetrievals(assessment) = {shape}
           /\ \A a \in Complete(assessment.alternatives) : a.capability.shape = shape
<1> DEFINE complete == Complete(assessment.alternatives)
           shapeOf(a) == a.capability.shape
<1>1. IsFiniteSet(complete)
  BY FS_Subset DEF Complete
<1>2. assessment.status = "supported" /\ Cardinality(Shapes(assessment)) = 1
  BY DEF PlannedRetrievals, Shapes
<1>3. Shapes(assessment) = {shapeOf(a) : a \in complete}
  BY <1>2 DEF Shapes
<1>4. IsFiniteSet({shapeOf(a) : a \in complete})
  <2>1. [a \in complete |-> shapeOf(a)] \in Surjection(complete, {shapeOf(a) : a \in complete})
    BY DEF Surjection
  <2>2. QED  BY <1>1, <2>1, FS_Surjection
<1>5. PICK only : Shapes(assessment) = {only}
  BY <1>2, <1>3, <1>4, FS_Singleton
<1>6. shape = only /\ PlannedRetrievals(assessment) = {only}
  BY <1>2, <1>5 DEF PlannedRetrievals
<1>7. QED
  BY <1>2, <1>3, <1>5, <1>6

-----------------------------------------------------------------------------
(* Legacy instruments.                                                     *)

\* A legacy instrument converted to a reference keeps its direction, also when it
\* has none: preflight and the adapter that asks for contract_direction agree.
THEOREM LegacyDirectionKept ==
    ASSUME NEW instrument, instrument.direction \in {"linear", "inverse", "unknown"}
    PROVE  Direction(LegacyTerms(instrument)) = instrument.direction
<1> DEFINE terms == LegacyTerms(instrument)
<1>1. CASE instrument.direction = "unknown"
  <2>1. "unit" \notin DOMAIN terms
    BY <1>1 DEF LegacyTerms
  <2>2. QED  BY <1>1, <2>1 DEF Direction
<1>2. CASE instrument.direction # "unknown"
  <2>1. /\ "unit" \in DOMAIN terms /\ "settlement" \in DOMAIN terms
        /\ terms["unit"] = LegacyUnit(instrument.direction)
        /\ terms["settlement"] = LegacySettlement(instrument.direction)
    BY <1>2 DEF LegacyTerms
  <2>2. QED  BY <1>2, <2>1 DEF Direction, LegacyUnit, LegacySettlement
<1>3. QED
  BY <1>1, <1>2

=============================================================================
