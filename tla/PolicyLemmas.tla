---------------------------- MODULE PolicyLemmas ----------------------------
(***************************************************************************)
(* Lemmas about the policy language, for every document, subject and       *)
(* resource; the proofs about loading a policy and about reading under one *)
(* rest on them.                                                           *)
(*                                                                         *)
(* evaluate takes the first rule it finds.  What parsePolicy accepts has   *)
(* one rule at most for a subject and a resource (OneRuleNames), so that   *)
(* the first one is the only one, and a rule allows exactly when the set   *)
(* of rules holds the grant (RuleAllowsGranted).                           *)
(***************************************************************************)
EXTENDS Policy, TLAPS

\* A list of rules: of any length, and numbered by natural numbers.
IsRuleList(rules) == /\ DOMAIN rules \subseteq Nat
                     /\ \A i \in DOMAIN rules : rules[i] \in Rule

Allow(s, r) == [subject |-> s, resource |-> r, decision |-> "allow"]

-----------------------------------------------------------------------------
\* The rules of a document are such a list.
LEMMA DocumentRules ==
  ASSUME NEW doc \in Document
  PROVE  IsRuleList(doc.rules)
  <1>1. doc.rules \in Seq(Rule)
    BY DEF Document
  <1>2. DOMAIN doc.rules = 1 .. Len(doc.rules) /\ Len(doc.rules) \in Nat
    BY <1>1
  <1>3. DOMAIN doc.rules \subseteq Nat
    BY <1>2
  <1>4. ASSUME NEW i \in DOMAIN doc.rules PROVE doc.rules[i] \in Rule
    BY <1>1, <1>2
  <1> QED
    BY <1>3, <1>4 DEF IsRuleList

\* Where the keys are unique, the first rule naming a subject and a resource is
\* any rule naming them.
LEMMA OneRuleNames ==
  ASSUME NEW doc, IsRuleList(doc.rules), RulesUnique(doc),
         NEW s, NEW r, NEW i \in Naming(doc.rules, s, r)
  PROVE  FirstRule(doc.rules, s, r) = doc.rules[i]
  <1> DEFINE named == Naming(doc.rules, s, r)
             First(j) == \A k \in named : j <= k
  <1>1. ASSUME NEW j \in named PROVE j = i
    BY DEF Naming, RulesUnique
  <1>2. First(i)
    BY <1>1 DEF Naming, IsRuleList
  <1>3. (CHOOSE j \in named : First(j)) \in named
    BY <1>2
  <1>4. (CHOOSE j \in named : First(j)) = i
    BY <1>1, <1>3
  <1> QED
    BY <1>4 DEF FirstRule

LEMMA RuleAllowsGranted ==
  ASSUME NEW doc, IsRuleList(doc.rules), RulesUnique(doc), NEW s, NEW r
  PROVE  RuleAllows(doc.rules, s, r)
           <=> \E i \in DOMAIN doc.rules : doc.rules[i] = Allow(s, r)
  <1>1. ASSUME RuleAllows(doc.rules, s, r)
        PROVE  \E i \in DOMAIN doc.rules : doc.rules[i] = Allow(s, r)
    <2>1. PICK i \in Naming(doc.rules, s, r) : TRUE
      BY <1>1 DEF RuleAllows
    <2>2. doc.rules[i].decision = "allow"
      BY <1>1, <2>1, OneRuleNames DEF RuleAllows
    <2>3. /\ i \in DOMAIN doc.rules
          /\ doc.rules[i] \in Rule
          /\ doc.rules[i].subject = s
          /\ doc.rules[i].resource = r
      BY <2>1 DEF Naming, IsRuleList
    <2>4. doc.rules[i] = Allow(s, r)
      BY <2>2, <2>3 DEF Rule, Allow
    <2> QED
      BY <2>3, <2>4
  <1>2. ASSUME NEW i \in DOMAIN doc.rules, doc.rules[i] = Allow(s, r)
        PROVE  RuleAllows(doc.rules, s, r)
    <2>1. i \in Naming(doc.rules, s, r)
      BY <1>2 DEF Naming, Allow
    <2>2. FirstRule(doc.rules, s, r) = Allow(s, r)
      BY <2>1, <1>2, OneRuleNames
    <2> QED
      BY <2>1, <2>2 DEF RuleAllows, Allow
  <1> QED
    BY <1>1, <1>2

\* A read is allowed exactly when the document grants it.
LEMMA EvaluateGranted ==
  ASSUME NEW doc \in Document, doc # NoPolicy, Accepts(doc), NEW s, NEW r
  PROVE  Evaluate(doc, TRUE, s, r, ACTION_READ).decision = "allow"
           <=> Granted(doc, s, r)
  <1>1. RuleAllows(doc.rules, s, r)
           <=> \E i \in DOMAIN doc.rules : doc.rules[i] = Allow(s, r)
    BY DocumentRules, RuleAllowsGranted DEF Accepts
  <1>2. Granted(doc, s, r)
           <=> s \in Range(doc.subjects) /\ RuleAllows(doc.rules, s, r)
    BY <1>1 DEF Granted, Allow
  <1> QED
    BY <1>2 DEF Evaluate, Decision
=============================================================================
