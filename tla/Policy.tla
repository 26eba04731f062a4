------------------------------- MODULE Policy -------------------------------
(***************************************************************************)
(* The policy language and its evaluation: src/policy.ts and src/model.ts. *)
(*                                                                         *)
(* A document is what the YAML text of the policy file says once zod has   *)
(* accepted its shape: the list of subjects, the identifiers declared      *)
(* under "resources", and the list of rules.  A text that YAML or the      *)
(* schema rejects is the single value Malformed.  The only action the      *)
(* schema admits in a rule is "read", so a rule carries no action here.    *)
(***************************************************************************)
EXTENDS Naturals, Sequences, FiniteSets, Functions

CONSTANTS Subjects,    \* identifiers usable as subjects
          Resources,   \* identifiers usable as resources
          Malformed,   \* a policy text YAML or the schema rejects
          NoPolicy     \* the broker's undefined policy

ASSUME PolicyConstants == /\ NoPolicy # Malformed
                          /\ {NoPolicy, Malformed} \cap (Subjects \cup Resources) = {}

Rule == [subject : Subjects, resource : Resources, decision : {"allow", "deny"}]

Document == [subjects  : Seq(Subjects),
             resources : SUBSET Resources,
             rules     : Seq(Rule)]

ASSUME NoPolicyIsNoDocument == NoPolicy \notin Document

ACTION_READ == "read"

-----------------------------------------------------------------------------
(***************************************************************************)
(* parsePolicy: what it accepts beyond the schema.  Every check throws the *)
(* same PolicyLoadError, so only their conjunction matters.                *)
(***************************************************************************)

\* assertUnique on the declared subjects.
UniqueSubjects(doc) == IsInjective(doc.subjects)

\* Every rule speaks of a declared subject and a declared resource.
RulesDeclared_SubjectOnly(doc) ==     \* mutant: resources not looked up
  \A i \in DOMAIN doc.rules : doc.rules[i].subject \in Range(doc.subjects)
RulesDeclared(doc) ==
  \A i \in DOMAIN doc.rules : /\ doc.rules[i].subject \in Range(doc.subjects)
                              /\ doc.rules[i].resource \in doc.resources

\* At most one rule per subject, resource and action (the ruleKeys set).
RulesUnique_NotChecked(doc) == TRUE   \* mutant: no duplicate-key check
RulesUnique(doc) ==
  \A i, j \in DOMAIN doc.rules :
     /\ doc.rules[i].subject = doc.rules[j].subject
     /\ doc.rules[i].resource = doc.rules[j].resource
     => i = j

Accepts(doc) == /\ doc # Malformed
                /\ UniqueSubjects(doc)
                /\ RulesDeclared(doc)
                /\ RulesUnique(doc)

-----------------------------------------------------------------------------
(***************************************************************************)
(* evaluate: the first rule naming the subject and the resource decides,   *)
(* and everything that is not such an allow rule is denied.                *)
(***************************************************************************)

Decision(decision, reason) == [decision |-> decision, reason |-> reason]

Naming(rules, s, r) ==
  {i \in DOMAIN rules : rules[i].subject = s /\ rules[i].resource = r}

\* policy.rules.find(...): the rule of least index among those naming s and r.
FirstRule(rules, s, r) ==
  rules[CHOOSE i \in Naming(rules, s, r) : \A j \in Naming(rules, s, r) : i <= j]

RuleAllows_AnyRule(rules, s, r) ==    \* mutant: the rule's decision is not read
  Naming(rules, s, r) # {}
RuleAllows(rules, s, r) == /\ Naming(rules, s, r) # {}
                           /\ FirstRule(rules, s, r).decision = "allow"

Evaluate(policy, supported, s, r, action) ==
  IF ~supported THEN Decision("deny", "PLATFORM_UNSUPPORTED")
  ELSE IF policy = NoPolicy THEN Decision("deny", "POLICY_UNAVAILABLE")
  ELSE IF /\ action = ACTION_READ
          /\ s \in Range(policy.subjects)
          /\ RuleAllows(policy.rules, s, r)
       THEN Decision("allow", "ALLOWED")
       ELSE Decision("deny", "ACCESS_DENIED")

-----------------------------------------------------------------------------
\* The meaning a policy author gives to a document, with no reference to the
\* order of its rules: the set of grants it declares.
Granted(doc, s, r) ==
  /\ s \in Range(doc.subjects)
  /\ \E i \in DOMAIN doc.rules :
        doc.rules[i] = [subject |-> s, resource |-> r, decision |-> "allow"]
=============================================================================
