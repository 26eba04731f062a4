--------------------------- MODULE PolicyLoading ----------------------------
(***************************************************************************)
(* One subject's broker and the policy file it is started from.  The owner *)
(* edits the file at any time; a (re)started broker reads it once          *)
(* (loadPolicyAndRegistry in src/broker.ts), keeps the parsed policy for   *)
(* its whole life, and answers its synchronous queries from it:            *)
(* listResources and explain.  Registration of the resources is taken to   *)
(* succeed here; ResourceRegistry models it.                               *)
(***************************************************************************)
EXTENDS Policy

CONSTANTS Unreadable,   \* what readFile finds when it fails
          MaxSubjects,  \* bound: length of the subjects list
          MaxRules      \* bound: length of the rules list

VARIABLES text,    \* the policy file
          policy,  \* the running broker's #policy
          startup  \* the diagnostic code of the last start, or "none"

vars == <<text, policy, startup>>

Codes == {"none", "POLICY_FILE_UNAVAILABLE", "POLICY_PARSE_ERROR"}

EmptyDocument == [subjects |-> <<>>, resources |-> {}, rules |-> <<>>]

\* Init: an owner's blank document and a broker that has not found a policy.
Init == /\ text = EmptyDocument
        /\ policy = NoPolicy
        /\ startup = "none"

-----------------------------------------------------------------------------
\* The owner's edits of the file.
IsDocument == text \notin {Unreadable, Malformed}

AddSubject(s) ==
  /\ IsDocument
  /\ Len(text.subjects) < MaxSubjects
  /\ text' = [text EXCEPT !.subjects = Append(@, s)]
  /\ UNCHANGED <<policy, startup>>

DeclareResource(r) ==
  /\ IsDocument
  /\ r \notin text.resources
  /\ text' = [text EXCEPT !.resources = @ \cup {r}]
  /\ UNCHANGED <<policy, startup>>

AddRule(rule) ==
  /\ IsDocument
  /\ Len(text.rules) < MaxRules
  /\ text' = [text EXCEPT !.rules = Append(@, rule)]
  /\ UNCHANGED <<policy, startup>>

Spoil == /\ \E bad \in {Unreadable, Malformed} : text' = bad
         /\ UNCHANGED <<policy, startup>>

-----------------------------------------------------------------------------
(***************************************************************************)
(* create -> loadPolicyAndRegistry.  The broker of the previous start is   *)
(* gone; without failOnStartupError a failed load leaves a broker with no  *)
(* policy.  The schema wants at least one subject.                         *)
(***************************************************************************)
LoadFails(code) == policy' = NoPolicy /\ startup' = code

SchemaAccepts(doc) == doc # Malformed /\ doc.subjects # <<>>

Load ==
  /\ \/ text = Unreadable /\ LoadFails("POLICY_FILE_UNAVAILABLE")
     \/ /\ text # Unreadable
        /\ ~(SchemaAccepts(text) /\ Accepts(text))
        /\ LoadFails("POLICY_PARSE_ERROR")
     \/ /\ text # Unreadable
        /\ SchemaAccepts(text) /\ Accepts(text)
        /\ policy' = text /\ startup' = "none"
  /\ UNCHANGED text

Next == \/ \E s \in Subjects : AddSubject(s)
        \/ \E r \in Resources : DeclareResource(r)
        \/ \E rule \in Rule : AddRule(rule)
        \/ Spoil
        \/ Load

Spec == Init /\ [][Next]_vars

-----------------------------------------------------------------------------
\* explain(resourceId, action), for the broker's own subject.
Explain(s, supported, r, action) == Evaluate(policy, supported, s, r, action)

\* listResources(): the registered identifiers, filtered by evaluate.  A broker
\* with a policy has registered exactly the resources the policy declares.
ListResources(s, supported) ==
  IF ~supported \/ policy = NoPolicy THEN {}
  ELSE {r \in policy.resources :
          Evaluate(policy, TRUE, s, r, ACTION_READ).decision = "allow"}

-----------------------------------------------------------------------------
\* The variables have their types; a policy in force is an accepted document.
TypeOK == /\ text \in {Unreadable, Malformed} \cup Document
          /\ policy \in {NoPolicy} \cup Document
          /\ startup \in Codes

\* However the rules of a loaded policy are shuffled, every subject gets the
\* same decision on every resource: evaluate stops at the first rule it finds,
\* and parsePolicy's duplicate check is what makes that order irrelevant.
DecisionIgnoresRuleOrder ==
  policy # NoPolicy =>
    \A shuffle \in Bijection(DOMAIN policy.rules, DOMAIN policy.rules) :
      LET shuffled == [policy EXCEPT !.rules = [i \in DOMAIN @ |-> @[shuffle[i]]]]
      IN \A s \in Subjects, r \in Resources :
           Evaluate(shuffled, TRUE, s, r, ACTION_READ)
             = Evaluate(policy, TRUE, s, r, ACTION_READ)

\* The broker allows a read exactly when the policy it loaded grants it; a
\* broker whose load failed allows nothing, whatever the file said before.
AllowsExactlyGranted ==
  \A s \in Subjects, r \in Resources :
    Explain(s, TRUE, r, ACTION_READ).decision = "allow"
      <=> (startup = "none" /\ policy # NoPolicy /\ Granted(policy, s, r))

\* list_resources and explain_access agree: a resource is listed exactly when
\* explain says it may be read, for every platform and whatever was loaded.
\* explain does not look at the registered identifiers and listResources does,
\* so this rests on parsePolicy rejecting rules about undeclared resources.
ListedIsWhatExplainAllows ==
  \A s \in Subjects, supported \in BOOLEAN :
    ListResources(s, supported)
      = {r \in Resources : Explain(s, supported, r, ACTION_READ).decision = "allow"}
=============================================================================
