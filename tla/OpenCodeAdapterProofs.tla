----------------------- MODULE OpenCodeAdapterProofs ------------------------
(***************************************************************************)
(* Proofs about PolicyLoading, for every document the owner may have       *)
(* written: they follow from what evaluate allows (PolicyLemmas) and from  *)
(* the invariant that a policy in force was accepted.  Then proofs about   *)
(* OpenCodeAdapter, for command lines of any length, any variables and any *)
(* sets of altered fields: what a server is bound to is what was named for *)
(* it, what runCli reports is true of the session, and the broker's two    *)
(* queries keep their meaning however servers start, fail to start and     *)
(* end.                                                                    *)
(***************************************************************************)
EXTENDS OpenCodeAdapter, PolicyLemmas, WellFoundedInduction

-----------------------------------------------------------------------------
(***************************************************************************)
(* The policy.                                                             *)
(***************************************************************************)
\* A policy in force was accepted, and its load left no diagnostic.
InForce == policy # NoPolicy => Accepts(policy) /\ startup = "none"

\* The diagnostic of a failed start, of which there may be more than Codes, is
\* nothing the queries depend on.
Loaded == /\ text \in {Unreadable, Malformed} \cup Document
          /\ policy \in {NoPolicy} \cup Document
          /\ InForce

LEMMA LoadedInit == Init => Loaded /\ TypeOK
  <1>1. <<>> \in Seq(Subjects) /\ <<>> \in Seq(Rule)
    OBVIOUS
  <1>2. EmptyDocument \in Document
    BY <1>1 DEF EmptyDocument, Document
  <1> QED
    BY <1>2 DEF Init, Loaded, TypeOK, InForce, Codes

\* Whatever the owner edits, the policy in force stays.
LEMMA EditsKeepPolicy ==
  ASSUME Loaded,
         \/ \E s \in Subjects : AddSubject(s)
         \/ \E r \in Resources : DeclareResource(r)
         \/ \E rule \in Rule : AddRule(rule)
         \/ Spoil
  PROVE  Loaded' /\ UNCHANGED <<policy, startup>>
  <1>1. ASSUME NEW s \in Subjects, AddSubject(s)
        PROVE  text' \in Document /\ UNCHANGED <<policy, startup>>
    <2>1. text \in Document
      BY <1>1 DEF AddSubject, IsDocument, Loaded
    <2>2. Append(text.subjects, s) \in Seq(Subjects)
      BY <2>1 DEF Document
    <2> QED
      BY <1>1, <2>1, <2>2 DEF AddSubject, Document
  <1>2. ASSUME NEW r \in Resources, DeclareResource(r)
        PROVE  text' \in Document /\ UNCHANGED <<policy, startup>>
    <2>1. text \in Document
      BY <1>2 DEF DeclareResource, IsDocument, Loaded
    <2> QED
      BY <1>2, <2>1 DEF DeclareResource, Document
  <1>3. ASSUME NEW rule \in Rule, AddRule(rule)
        PROVE  text' \in Document /\ UNCHANGED <<policy, startup>>
    <2>1. text \in Document
      BY <1>3 DEF AddRule, IsDocument, Loaded
    <2>2. Append(text.rules, rule) \in Seq(Rule)
      BY <2>1 DEF Document
    <2> QED
      BY <1>3, <2>1, <2>2 DEF AddRule, Document
  <1>4. ASSUME Spoil
        PROVE  text' \in {Unreadable, Malformed} /\ UNCHANGED <<policy, startup>>
    BY <1>4 DEF Spoil
  <1> QED
    BY <1>1, <1>2, <1>3, <1>4 DEF Loaded, InForce

\* A load puts an accepted document in force, or none.
LEMMA LoadPutsInForce == Loaded /\ Load => Loaded' /\ startup' \in Codes
  <1> SUFFICES ASSUME Loaded, Load PROVE Loaded' /\ startup' \in Codes
    OBVIOUS
  <1>1. \/ policy' = NoPolicy /\ startup' \in Codes
        \/ /\ policy' = text /\ startup' = "none"
           /\ text \in Document /\ Accepts(text)
    BY DEF Load, LoadFails, Codes, SchemaAccepts, Loaded
  <1>2. UNCHANGED text
    BY DEF Load
  <1> QED
    BY <1>1, <1>2 DEF Loaded, InForce, Codes

LEMMA LoadedNext == Loaded /\ TypeOK /\ [Next]_vars => (Loaded /\ TypeOK)'
  <1> SUFFICES ASSUME Loaded, TypeOK, [Next]_vars
               PROVE  Loaded' /\ TypeOK'
    OBVIOUS
  <1>1. CASE Load
    BY <1>1, LoadPutsInForce DEF Loaded, TypeOK
  <1>2. CASE UNCHANGED vars
    BY <1>2 DEF vars, Loaded, InForce, TypeOK
  <1>3. CASE Next /\ ~Load
    BY <1>3, EditsKeepPolicy DEF Next, Loaded, TypeOK
  <1> QED
    BY <1>1, <1>2, <1>3

LEMMA PolicySound == Spec => [](Loaded /\ TypeOK)
  BY LoadedInit, LoadedNext, PTL DEF Spec

-----------------------------------------------------------------------------
(***************************************************************************)
(* The broker allows a read exactly when the document it loaded grants it, *)
(* whatever the owner wrote, in whatever order the file was edited and     *)
(* loaded: evaluate over parsePolicy's output has the meaning of a set of  *)
(* grants.                                                                 *)
(***************************************************************************)
LEMMA LoadedGrants == Loaded => AllowsExactlyGranted
  <1> SUFFICES ASSUME Loaded,
                      NEW s \in Subjects, NEW r \in Resources
               PROVE  Explain(s, TRUE, r, ACTION_READ).decision = "allow"
                        <=> /\ startup = "none"
                            /\ policy # NoPolicy
                            /\ Granted(policy, s, r)
    BY DEF AllowsExactlyGranted
  <1>1. CASE policy = NoPolicy
    BY <1>1 DEF Explain, Evaluate, Decision
  <1>2. CASE policy # NoPolicy
    <2>1. policy \in Document /\ Accepts(policy) /\ startup = "none"
      BY <1>2 DEF Loaded, InForce
    <2> QED
      BY <1>2, <2>1, EvaluateGranted DEF Explain
  <1> QED
    BY <1>1, <1>2

(***************************************************************************)
(* list_resources shows exactly what explain_access says may be read.      *)
(* The one reads the registered identifiers and the other only the rules,  *)
(* so the proof rests on parsePolicy's check that rules speak of declared  *)
(* resources.                                                              *)
(***************************************************************************)
LEMMA LoadedLists == Loaded => ListedIsWhatExplainAllows
  <1> SUFFICES ASSUME Loaded,
                      NEW s \in Subjects, NEW supported \in BOOLEAN
               PROVE  ListResources(s, supported)
                        = {r \in Resources :
                             Explain(s, supported, r, ACTION_READ).decision = "allow"}
    BY DEF ListedIsWhatExplainAllows
  <1>1. CASE ~supported \/ policy = NoPolicy
    <2>1. ASSUME NEW r
          PROVE  Explain(s, supported, r, ACTION_READ).decision # "allow"
      BY <1>1 DEF Explain, Evaluate, Decision
    <2> QED
      BY <1>1, <2>1 DEF ListResources
  <1>2. CASE supported /\ policy # NoPolicy
    <2>1. policy \in Document /\ Accepts(policy)
      BY <1>2 DEF Loaded, InForce
    <2>2. policy.resources \subseteq Resources
      BY <2>1 DEF Document
    <2>3. ASSUME NEW r,
                 Explain(s, TRUE, r, ACTION_READ).decision = "allow"
          PROVE  r \in policy.resources
      <3>1. Granted(policy, s, r)
        BY <1>2, <2>1, <2>3, EvaluateGranted DEF Explain
      <3> QED
        BY <2>1, <3>1 DEF Granted, Accepts, RulesDeclared
    <2> QED
      BY <1>2, <2>2, <2>3 DEF ListResources, Explain
  <1> QED
    BY <1>1, <1>2

(***************************************************************************)
(* No order of the rules changes a decision: shuffling them keeps the keys *)
(* unique and keeps the set of rules, and on such a list evaluate reads    *)
(* nothing but the set.                                                    *)
(***************************************************************************)
LEMMA LoadedIgnoresOrder == Loaded => DecisionIgnoresRuleOrder
  <1>1. ASSUME NEW doc \in Document, Accepts(doc),
               NEW p \in Bijection(DOMAIN doc.rules, DOMAIN doc.rules),
               NEW other,
               other.rules = [i \in DOMAIN doc.rules |-> doc.rules[p[i]]],
               NEW s, NEW r
        PROVE  RuleAllows(other.rules, s, r) <=> RuleAllows(doc.rules, s, r)
    <2>1. /\ p \in [DOMAIN doc.rules -> DOMAIN doc.rules]
          /\ \A i, j \in DOMAIN doc.rules : p[i] = p[j] => i = j
          /\ \A j \in DOMAIN doc.rules : \E i \in DOMAIN doc.rules : p[i] = j
      BY DEF Bijection, Injection, Surjection, IsInjective
    <2>2. IsRuleList(doc.rules)
      BY DocumentRules
    <2>3. IsRuleList(other.rules)
      BY <1>1, <2>1, <2>2 DEF IsRuleList
    <2>4. RulesUnique(other)
      BY <1>1, <2>1 DEF RulesUnique, Accepts
    <2>5. (\E i \in DOMAIN other.rules : other.rules[i] = Allow(s, r))
            <=> \E i \in DOMAIN doc.rules : doc.rules[i] = Allow(s, r)
      BY <1>1, <2>1
    <2> QED
      BY <1>1, <2>2, <2>3, <2>4, <2>5, RuleAllowsGranted DEF Accepts
  <1>2. ASSUME Loaded, policy # NoPolicy,
               NEW p \in Bijection(DOMAIN policy.rules, DOMAIN policy.rules),
               NEW other,
               other = [policy EXCEPT !.rules = [i \in DOMAIN @ |-> @[p[i]]]],
               NEW s \in Subjects, NEW r \in Resources
        PROVE  Evaluate(other, TRUE, s, r, ACTION_READ)
                 = Evaluate(policy, TRUE, s, r, ACTION_READ)
    <2>1. policy \in Document /\ Accepts(policy)
      BY <1>2 DEF Loaded, InForce
    <2>2. /\ other.subjects = policy.subjects
          /\ other.rules = [i \in DOMAIN policy.rules |-> policy.rules[p[i]]]
      BY <1>2, <2>1 DEF Document
    <2>3. RuleAllows(other.rules, s, r) <=> RuleAllows(policy.rules, s, r)
      BY <1>1, <2>1, <2>2
    <2>4. other # NoPolicy
      <3>1. p \in [DOMAIN policy.rules -> DOMAIN policy.rules]
        BY DEF Bijection, Injection
      <3>2. policy.rules \in Seq(Rule)
        BY <2>1 DEF Document
      <3>3. other.rules \in Seq(Rule)
        <4> DEFINE n == Len(policy.rules)
        <4>1. n \in Nat /\ DOMAIN policy.rules = 1 .. n
          BY <3>2
        <4>2. \A i \in 1 .. n : policy.rules[i] \in Rule
          BY <3>2
        <4>3. other.rules \in [1 .. n -> Rule]
          BY <2>2, <3>1, <4>1, <4>2
        <4> QED
          BY <4>1, <4>3
      <3>4. other \in Document
        BY <1>2, <2>1, <3>3, <2>2 DEF Document
      <3> QED
        BY <3>4, NoPolicyIsNoDocument
    <2> QED
      BY <1>2, <2>2, <2>3, <2>4 DEF Evaluate
  <1>3. Loaded => DecisionIgnoresRuleOrder
    <2> SUFFICES ASSUME Loaded, policy # NoPolicy,
                        NEW p \in Bijection(DOMAIN policy.rules, DOMAIN policy.rules),
                        NEW s \in Subjects, NEW r \in Resources
                 PROVE  Evaluate([policy EXCEPT !.rules =
                                    [i \in DOMAIN @ |-> @[p[i]]]],
                                 TRUE, s, r, ACTION_READ)
                          = Evaluate(policy, TRUE, s, r, ACTION_READ)
      BY DEF DecisionIgnoresRuleOrder
    <2> QED
      BY <1>2
  <1> QED
    BY <1>3

-----------------------------------------------------------------------------
\* The broker allows a read exactly when the document it loaded grants it.
THEOREM ExactlyGranted == Spec => []AllowsExactlyGranted
  BY PolicySound, LoadedGrants, PTL

\* The resources it lists are those that explain_access allows.
THEOREM ListingAgrees == Spec => []ListedIsWhatExplainAllows
  BY PolicySound, LoadedLists, PTL

\* No order of the rules changes a decision.
THEOREM OrderIrrelevant == Spec => []DecisionIgnoresRuleOrder
  BY PolicySound, LoadedIgnoresOrder, PTL

-----------------------------------------------------------------------------
(***************************************************************************)
(* Command lines.                                                          *)
(***************************************************************************)
LEMMA HasLeast ==
  ASSUME NEW S, S \subseteq Nat, S # {}
  PROVE  \E k \in S : \A j \in S : k <= j
<1> DEFINE R == {ss \in Nat \X Nat : ss[1] < ss[2]}
<1>1. IsWellFoundedOn(R, Nat)
  BY NatLessThanWellFounded DEF OpToRel
<1>2. ASSUME NEW j \in Nat, NEW k \in Nat, <<j, k>> \notin R PROVE k <= j
  BY <1>2
<1> HIDE DEF R
<1>3. PICK k \in S : \A j \in S : <<j, k>> \notin R
  BY <1>1, WFMin
<1> QED
  BY <1>2, <1>3

\* What is numbered as a command line is.
IsLine(words) == DOMAIN words \subseteq Nat

LEMMA CommandIsLine ==
  ASSUME NEW words \in UserCommands \cup HostCommands
  PROVE  IsLine(words) /\ IsLine(AdapterPart(words))
<1>1. words \in Seq(Range(words))
  BY CommandLines
<1>2. IsLine(words) /\ Len(words) \in Nat
  BY <1>1 DEF IsLine
<1> DEFINE I == {i \in 1 .. Len(words) : words[i] = W("--")}
           separator == IF I # {} THEN Min(I) ELSE 0
<1>3. AdapterPart(words) = IF separator = 0 THEN words ELSE SubSeq(words, 1, separator - 1)
  BY DEF AdapterPart, SelectInSeq
<1>4. I # {} => Min(I) \in I
  <2> SUFFICES ASSUME I # {} PROVE Min(I) \in I
    OBVIOUS
  <2>1. I \subseteq Nat
    BY <1>2
  <2> HIDE DEF I
  <2>2. \E k \in I : \A j \in I : k <= j
    BY <2>1, HasLeast
  <2> QED
    BY <2>2 DEF Min
<1>5. separator \in 0 .. Len(words)
  BY <1>2, <1>4
<1> HIDE DEF separator
<1>6. CASE separator = 0
  BY <1>2, <1>3, <1>6
<1>7. CASE separator # 0
  <2>1. separator - 1 \in 0 .. Len(words)
    BY <1>2, <1>5, <1>7
  <2>2. SubSeq(words, 1, separator - 1) \in Seq(Range(words))
    BY <1>1, <2>1
  <2>3. DOMAIN SubSeq(words, 1, separator - 1) \subseteq Nat
    BY <2>2
  <2> QED
    BY <1>2, <1>3, <1>7, <2>3 DEF IsLine
<1> QED
  BY <1>6, <1>7

\* Where no flag comes twice, what is given for a flag is one word.
LEMMA GivenOnce ==
  ASSUME NEW words, IsLine(words), \A i \in Flags(words) : ~Repeated(words, i),
         NEW flag, NEW v \in Given(words, flag), NEW w \in Given(words, flag)
  PROVE  v = w
<1>1. PICK i \in Flags(words) : words[i].text = flag /\ v = words[i + 1]
  BY DEF Given
<1>2. PICK j \in Flags(words) : words[j].text = flag /\ w = words[j + 1]
  BY DEF Given
<1>3. ~(i < j) /\ ~(j < i)
  BY <1>1, <1>2 DEF Repeated
<1>4. i = j
  BY <1>3 DEF Flags, IsLine
<1> QED
  BY <1>1, <1>2, <1>4

\* A command line without an error repeats no flag: the first error is found.
LEMMA NoErrorNoRepeat ==
  ASSUME NEW words, IsLine(words), FirstPairError(words) = "none"
  PROVE  \A i \in Flags(words) : ~Repeated(words, i)
<1> DEFINE bad == {i \in Flags(words) : PairError(words, i) # "none"}
<1>1. bad = {}
  <2> SUFFICES ASSUME bad # {} PROVE FALSE
    OBVIOUS
  <2> DEFINE first == CHOOSE i \in bad : \A j \in bad : i <= j
  <2>1. bad \subseteq Nat
    BY DEF Flags, IsLine
  <2>2. first \in bad
    <3> HIDE DEF bad
    <3>1. \E i \in bad : \A j \in bad : i <= j
      BY <2>1, HasLeast
    <3> QED
      BY <3>1
  <2>3. FirstPairError(words) = PairError(words, first)
    BY DEF FirstPairError
  <2> HIDE DEF first
  <2> QED
    BY <2>2, <2>3
<1> QED
  BY <1>1 DEF PairError

\* A flag wins over its variable, and it is given once.
LEMMA FlagIsTaken ==
  ASSUME NEW words, IsLine(words), FirstPairError(words) = "none",
         NEW env, NEW flag, NEW w \in Given(words, flag)
  PROVE  TheSetting(words, env, flag) = w
<1>1. Setting(words, env, flag) = Given(words, flag)
  BY DEF Setting, Or
<1>2. \A v \in Given(words, flag) : v = w
  BY NoErrorNoRepeat, GivenOnce
<1> QED
  BY <1>1, <1>2 DEF TheSetting

\* The server's command names policy, subject and audit file, each once.
LEMMA CommandNames ==
  ASSUME NEW a
  PROVE  /\ Given(ServerCommand(a), "--policy") = {a.policy}
         /\ Given(ServerCommand(a), "--subject") = {a.subject}
         /\ Given(ServerCommand(a), "--audit") = {a.audit}
<1> DEFINE words == ServerCommand(a)
<1>1. /\ DOMAIN words = 1 .. 10
      /\ words[1].text = "--policy" /\ words[2] = a.policy
      /\ words[3].text = "--subject" /\ words[4] = a.subject
      /\ words[5].text = "--audit" /\ words[6] = a.audit
      /\ words[7].text = "--server-name" /\ words[9].text = "--max-bytes"
  BY DEF ServerCommand, W
<1> HIDE DEF words
<1>2. Flags(words) = {1, 3, 5, 7, 9}
  BY <1>1 DEF Flags
<1>3. /\ {j \in Flags(words) : words[j].text = "--policy"} = {1}
      /\ {j \in Flags(words) : words[j].text = "--subject"} = {3}
      /\ {j \in Flags(words) : words[j].text = "--audit"} = {5}
  BY <1>1, <1>2
<1>4. /\ Given(words, "--policy") = {words[i + 1] : i \in {1}}
      /\ Given(words, "--subject") = {words[i + 1] : i \in {3}}
      /\ Given(words, "--audit") = {words[i + 1] : i \in {5}}
  BY <1>3, Zenon DEF Given
<1>5. /\ {words[i + 1] : i \in {1}} = {words[2]}
      /\ {words[i + 1] : i \in {3}} = {words[4]}
      /\ {words[i + 1] : i \in {5}} = {words[6]}
  OBVIOUS
<1> QED
  BY <1>1, <1>4, <1>5 DEF words

\* What the adapter makes of its own command line.
LEMMA ParsedArguments ==
  ASSUME NEW words \in UserCommands, NEW a \in ParseAdapter(words),
         NEW f \in Required, NEW w \in Given(AdapterPart(words), f)
  PROVE  Given(ServerCommand(a), f)
           = {IF f = "--subject" THEN w ELSE Resolve("home", w)}
<1> DEFINE part == AdapterPart(words)
<1>1. WellFormed(part) /\ a \in Arguments(part)
  BY DEF ParseAdapter
<1>2. IsLine(part)
  BY CommandIsLine
<1>3. \A i \in Flags(part) : ~Repeated(part, i)
  BY <1>1 DEF WellFormed
<1> HIDE DEF part
<1>4. PICK s \in Given(part, "--subject"), p \in Given(part, "--policy"),
          d \in Given(part, "--audit") :
        a.subject = s /\ a.policy = Resolve("home", p) /\ a.audit = Resolve("home", d)
  BY <1>1 DEF Arguments
<1>5. \A flag : \A u, v \in Given(part, flag) : u = v
  BY <1>2, <1>3, GivenOnce
<1>6. w \in Given(part, f)
  BY DEF part
<1> QED
  BY <1>4, <1>5, <1>6, CommandNames DEF Required

-----------------------------------------------------------------------------
(***************************************************************************)
(* The server's start.                                                     *)
(***************************************************************************)
\* Whatever becomes of a start, a server that is bound has taken its settings from a
\* command line without an error.
LEMMA StartBinds ==
  ASSUME NEW words, NEW env, StartServer(words, env), bound = <<>>, bound' # <<>>
  PROVE  /\ FirstPairError(words) = "none"
         /\ \A f \in Required : bound'[f] = TheSetting(words, env, f)
<1> DEFINE binding == [f \in Required |-> TheSetting(words, env, f)]
<1>1. ArgumentError(words, env) = "none" /\ bound' = binding
  BY DEF StartServer, StartFails
<1>2. FirstPairError(words) = "none"
  BY <1>1 DEF ArgumentError
<1> QED
  BY <1>1, <1>2

LEMMA StartLoads ==
  ASSUME Loaded, NEW words, NEW env, StartServer(words, env)
  PROVE  Loaded'
<1>1. CASE Load
  BY <1>1, LoadPutsInForce
<1>2. CASE UNCHANGED text /\ policy' = NoPolicy
  BY <1>2 DEF Loaded, InForce
<1> QED
  BY <1>1, <1>2 DEF StartServer, StartFails, LoadFails

-----------------------------------------------------------------------------
(***************************************************************************)
(* The policy in force, through every start and end of a server.           *)
(***************************************************************************)
LEMMA LoadedSession == Loaded /\ [SessionNext]_adapterVars => Loaded'
<1> SUFFICES ASSUME Loaded, [SessionNext]_adapterVars PROVE Loaded'
  OBVIOUS
<1>1. CASE UNCHANGED vars
  BY <1>1 DEF vars, Loaded, InForce
<1>2. CASE AgentStartsServer
  BY <1>2, StartLoads DEF AgentStartsServer
<1>3. CASE HostStartsServer
  BY <1>3, StartLoads DEF HostStartsServer
<1>4. CASE AgentExits \/ Again
  BY <1>4 DEF AgentExits, Again, ServerEnds, Loaded, InForce
<1>5. CASE EditPolicy
  BY <1>5, EditsKeepPolicy DEF EditPolicy
<1>6. CASE \/ Type \/ AssertWorkspace \/ MakeRoot \/ MakeConfigHome \/ Preflight
           \/ Spawn \/ RemoveRoot \/ EditSources \/ Kill
  BY <1>1, <1>6 DEF Type, AssertWorkspace, MakeRoot, MakeConfigHome, Preflight, Spawn,
                    RemoveRoot, EditSources, Kill
<1> QED
  BY <1>1, <1>2, <1>3, <1>4, <1>5, <1>6 DEF SessionNext, adapterVars

-----------------------------------------------------------------------------
(***************************************************************************)
(* The course of a session.                                                *)
(***************************************************************************)
Before == {"workspace", "mkdtemp", "mkdir", "preflight", "spawn"}
Over == {"done", "killed", "orphan"}

\* Who typed what, and what has been parsed.
LineKnown ==
  /\ at \in {"idle", "hosted", "running", "rm"} \cup Before \cup Over
  /\ at \notin {"idle", "hosted"} => typed \in UserCommands
  /\ at \in Before \cup {"running", "rm", "killed", "orphan"} \/ ran => ParseAdapter(typed) # {}

\* An agent ran from Spawn on, and what it ran with was compared.
RunKnown ==
  /\ ran \in BOOLEAN
  /\ at \in {"idle", "hosted"} \cup Before => ~ran
  /\ at \in {"running", "orphan"} => ran
  /\ (at = "spawn" \/ ran) /\ ~edited => Isolated
  /\ ServerIsUp => at \in {"hosted", "running", "orphan"}

\* What will be reported is true already before the finally block, which can only
\* turn it into the error of its own failure.
ReportKnown ==
  /\ at \in {"idle", "hosted", "workspace", "mkdtemp"} => ~root
  /\ at = "done" /\ root => outcome = "INVALID_ARGUMENTS"
  /\ at \in {"rm", "done"} =>
        /\ outcome \in {"WORKSPACE_UNAVAILABLE", NotIsolated,
                        "OPENCODE_EXECUTABLE_UNAVAILABLE"} => ~ran
        /\ outcome \in {"ok", "OPENCODE_EXIT_FAILED"} => ran
        /\ outcome = "INVALID_ARGUMENTS" => ParseAdapter(typed) = {} \/ broke

Course == LineKnown /\ RunKnown /\ ReportKnown

LEMMA CourseInit == SessionInit => Course
  BY DEF SessionInit, Course, LineKnown, RunKnown, ReportKnown, Before, Over, ServerIsUp

\* The steps of the adapter itself.
LEMMA CourseAdapter ==
  ASSUME Course,
         \/ Type \/ AssertWorkspace \/ MakeRoot \/ MakeConfigHome \/ Preflight \/ Spawn
         \/ AgentExits \/ RemoveRoot
  PROVE  Course'
<1> USE DEF Course, Before, Over, Go, Throw, NotIsolated
<1>1. LineKnown'
  BY DEF LineKnown, RunKnown, Type, AssertWorkspace, MakeRoot, MakeConfigHome, Preflight,
         Spawn, AgentExits, RemoveRoot
<1>2. RunKnown'
  <2>1. CASE Type \/ AssertWorkspace \/ MakeRoot \/ MakeConfigHome
    BY <2>1 DEF RunKnown, Type, AssertWorkspace, MakeRoot, MakeConfigHome, ServerIsUp,
                Isolated
  <2>2. CASE Preflight
    BY <2>2 DEF RunKnown, Preflight, ServerIsUp, Isolated
  <2>3. CASE Spawn
    BY <2>3 DEF RunKnown, Spawn, ServerIsUp, Isolated
  <2>4. CASE RemoveRoot
    BY <2>4 DEF RunKnown, RemoveRoot, ServerIsUp, Isolated
  <2>5. CASE AgentExits
    BY <2>5 DEF RunKnown, AgentExits, ServerEnds, ServerIsUp, Isolated
  <2> QED
    BY <2>1, <2>2, <2>3, <2>4, <2>5
<1>3. ReportKnown'
  <2>1. CASE Type \/ AssertWorkspace \/ MakeRoot \/ MakeConfigHome
    BY <2>1 DEF ReportKnown, RunKnown, LineKnown, Type, AssertWorkspace, MakeRoot,
                MakeConfigHome
  <2>2. CASE Preflight \/ Spawn \/ AgentExits \/ RemoveRoot
    BY <2>2 DEF ReportKnown, RunKnown, LineKnown, Preflight, Spawn, AgentExits, RemoveRoot,
                RmFails
  <2> QED
    BY <2>1, <2>2
<1> QED
  BY <1>1, <1>2, <1>3

LEMMA CourseNext == Course /\ [SessionNext]_adapterVars => Course'
<1> SUFFICES ASSUME Course, [SessionNext]_adapterVars PROVE Course'
  OBVIOUS
<1> USE DEF Course, LineKnown, RunKnown, ReportKnown, Before, Over, Isolated, ServerIsUp
<1>1. CASE UNCHANGED <<session, bound>>
  BY <1>1 DEF session
<1>2. CASE AgentStartsServer
  BY <1>2 DEF AgentStartsServer, session
<1>3. CASE HostStartsServer
  BY <1>3 DEF HostStartsServer
<1>4. CASE Again
  BY <1>4 DEF Again, ServerEnds
<1>5. CASE EditSources
  BY <1>5 DEF EditSources
<1>6. CASE Kill
  BY <1>6 DEF Kill
<1>7. CASE EditPolicy
  BY <1>1, <1>7 DEF EditPolicy
<1> QED
  BY <1>1, <1>2, <1>3, <1>4, <1>5, <1>6, <1>7, CourseAdapter DEF SessionNext, adapterVars

-----------------------------------------------------------------------------
(***************************************************************************)
(* What a server is bound to.                                              *)
(***************************************************************************)
LEMMA AgentsServer ==
  ASSUME Course, ServedAsNamed, AgentStartsServer
  PROVE  ServedAsNamed'
<1> SUFFICES ASSUME ServerIsUp', ~edited
             PROVE  \A f \in Required : \A w \in Given(AdapterPart(typed), f) :
                       bound'[f] = IF f = "--subject" THEN w ELSE Resolve("home", w)
  BY DEF AgentStartsServer, session, ServedAsNamed
<1>1. /\ at \in {"running", "orphan"} /\ bound = <<>> /\ bound' # <<>>
      /\ typed \in UserCommands /\ "command" \notin sources
  BY DEF AgentStartsServer, ServerIsUp, Course, LineKnown, RunKnown, Isolated, Compared
<1>2. PICK env \in Environments, a \in ParseAdapter(typed) :
        StartServer(ServerCommand(a), env)
  BY <1>1 DEF AgentStartsServer
<1>3. \A f \in Required : bound'[f] = TheSetting(ServerCommand(a), env, f)
  BY <1>1, <1>2, StartBinds
<1>4. ASSUME NEW f \in Required, NEW w \in Given(AdapterPart(typed), f)
      PROVE  bound'[f] = IF f = "--subject" THEN w ELSE Resolve("home", w)
  <2> DEFINE named == IF f = "--subject" THEN w ELSE Resolve("home", w)
  <2>1. Given(ServerCommand(a), f) = {named}
    BY <1>1, ParsedArguments
  <2> HIDE DEF named
  <2>2. TheSetting(ServerCommand(a), env, f) = named
    BY <2>1 DEF TheSetting, Setting, Or
  <2> QED
    BY <1>3, <2>2 DEF named
<1> QED
  BY <1>4

LEMMA HostsServer ==
  ASSUME Course, HostStartsServer
  PROVE  ServedAsNamed'
<1>1. PICK env \in Environments, words \in HostCommands :
        typed' = words /\ StartServer(words, env)
  BY DEF HostStartsServer
<1>2. at' = "hosted" /\ bound = <<>>
  BY DEF HostStartsServer, Course, RunKnown, ServerIsUp
<1>3. ASSUME ServerIsUp', NEW f \in Required, NEW w \in Given(words, f)
      PROVE  bound'[f] = w
  <2>1. FirstPairError(words) = "none" /\ bound'[f] = TheSetting(words, env, f)
    BY <1>1, <1>2, <1>3, StartBinds DEF ServerIsUp
  <2> QED
    BY <1>3, <2>1, CommandIsLine, FlagIsTaken
<1> QED
  BY <1>1, <1>2, <1>3 DEF ServedAsNamed

LEMMA ServedNext == Course /\ ServedAsNamed /\ [SessionNext]_adapterVars => ServedAsNamed'
<1> SUFFICES ASSUME Course, ServedAsNamed, [SessionNext]_adapterVars PROVE ServedAsNamed'
  OBVIOUS
<1>1. CASE UNCHANGED <<session, bound>>
  BY <1>1 DEF session, ServedAsNamed, ServerIsUp
<1>2. CASE EditPolicy
  BY <1>1, <1>2 DEF EditPolicy
<1>3. CASE AgentExits \/ Again
  BY <1>3 DEF AgentExits, Again, ServerEnds, ServedAsNamed, ServerIsUp
<1>4. CASE Kill
  BY <1>4 DEF Kill, ServedAsNamed, ServerIsUp, Course, RunKnown
<1>5. CASE \/ Type \/ AssertWorkspace \/ MakeRoot \/ MakeConfigHome \/ Preflight
           \/ Spawn \/ RemoveRoot \/ EditSources
  <2>1. bound' = bound /\ at \notin {"hosted", "running", "orphan"}
    BY <1>5 DEF Type, AssertWorkspace, MakeRoot, MakeConfigHome, Preflight, Spawn,
                RemoveRoot, EditSources
  <2> QED
    BY <2>1 DEF ServedAsNamed, ServerIsUp, Course, RunKnown
<1> QED
  BY <1>1, <1>2, <1>3, <1>4, <1>5, AgentsServer, HostsServer DEF SessionNext, adapterVars

-----------------------------------------------------------------------------
(***************************************************************************)
(* The properties.                                                         *)
(***************************************************************************)
SessionSound == Loaded /\ Course /\ ServedAsNamed

LEMMA SessionIsSound == SessionSpec => []SessionSound
<1>1. SessionInit => SessionSound
  BY LoadedInit, CourseInit DEF SessionInit, SessionSound, ServedAsNamed, ServerIsUp
<1>2. SessionSound /\ [SessionNext]_adapterVars => SessionSound'
  BY LoadedSession, CourseNext, ServedNext DEF SessionSound
<1> QED
  BY <1>1, <1>2, PTL DEF SessionSpec

\* A server serves the subject, the policy and the audit file that were named for it,
\* for every command line and whatever variables it finds.
THEOREM NamedIsServed == SessionSpec => []ServedAsNamed
<1>1. SessionSound => ServedAsNamed
  BY DEF SessionSound
<1> QED
  BY <1>1, SessionIsSound, PTL

\* What runCli reports is true of the session, whichever of its steps failed, the
\* finally block's included.
THEOREM OutcomesAreTrue == SessionSpec => []OutcomeIsTruthful
<1>1. SessionSound => OutcomeIsTruthful
  BY DEF SessionSound, Course, LineKnown, RunKnown, ReportKnown, Isolated, NotIsolated,
         Before, OutcomeIsTruthful
<1> QED
  BY <1>1, SessionIsSound, PTL

\* Also through failed starts, exits and orphans a broker allows exactly what the
\* document it loaded grants.
THEOREM GrantedInSessions == SessionSpec => []AllowsExactlyGranted
<1>1. SessionSound => AllowsExactlyGranted
  BY LoadedGrants DEF SessionSound
<1> QED
  BY <1>1, SessionIsSound, PTL

\* In every session list_resources and explain_access agree.
THEOREM ListedInSessions == SessionSpec => []ListedIsWhatExplainAllows
<1>1. SessionSound => ListedIsWhatExplainAllows
  BY LoadedLists DEF SessionSound
<1> QED
  BY <1>1, SessionIsSound, PTL

\* In every session the order of the rules changes no decision.
THEOREM OrderlessInSessions == SessionSpec => []DecisionIgnoresRuleOrder
<1>1. SessionSound => DecisionIgnoresRuleOrder
  BY LoadedIgnoresOrder DEF SessionSound
<1> QED
  BY <1>1, SessionIsSound, PTL
=============================================================================
