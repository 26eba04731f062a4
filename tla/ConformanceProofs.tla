-------------------------- MODULE ConformanceProofs --------------------------
(***************************************************************************)
(* The verdict of the two conformance suites, for every number of          *)
(* deviations.  First the fixture: what its policy grants is what the      *)
(* suites expect.  Then, one upon the other, what a run keeps:             *)
(*   HeldKnown  which brokers run, what the finally clause will close and  *)
(*              what exists, by where the run is parked;                   *)
(*   Asking     the answers and the events seen are those of the first     *)
(*              calls of the script, and as promised while none deviated;  *)
(*   Judged     a report that passes has checked a script run to its end,  *)
(*              and one that does not has seen a deviation or a failure.   *)
(***************************************************************************)
EXTENDS Conformance, PolicyLemmas, FiniteSetTheorems, SequenceTheorems

-----------------------------------------------------------------------------
(***************************************************************************)
(* The fixture.  What its policy grants is what the suites' calls expect.  *)
(***************************************************************************)
Known == suite \in {"broker", "host"}

Grants == {<<"parent", Finance>>, <<"parent", Support>>, <<"finance-agent", Finance>>,
           <<"support-agent", Support>>}

RuleOf(s, r) == [subject |-> s, resource |-> r,
                 decision |-> IF <<s, r>> \in Grants THEN "allow" ELSE "deny"]

\* Its rules, written out.
FixtureRules(rules) ==
  IF suite = "host"
  THEN /\ DOMAIN rules = 1 .. 2
       /\ rules[1] = RuleOf("finance-agent", Finance)
       /\ rules[2] = RuleOf("finance-agent", Support)
  ELSE /\ DOMAIN rules = 1 .. 6
       /\ rules[1] = RuleOf("parent", Finance) /\ rules[2] = RuleOf("parent", Support)
       /\ rules[3] = RuleOf("finance-agent", Finance)
       /\ rules[4] = RuleOf("finance-agent", Support)
       /\ rules[5] = RuleOf("support-agent", Finance)
       /\ rules[6] = RuleOf("support-agent", Support)

LEMMA FixtureIs ==
  ASSUME Known
  PROVE  /\ FixtureRules(Fixture.rules) /\ Fixture.rules \in Seq(Rule)
         /\ Fixture.subjects = Brokers /\ Fixture.resources = TheResources
<1> USE DEF Finance, Support, Permits, Forbids, TheSubjects, TheResources, Rule
<1>1. CASE suite = "host"
  BY <1>1, FixtureNames DEF Fixture, FixtureRules, RuleOf, HostRules, Grants
<1>2. CASE suite = "broker"
  <2> DEFINE first == <<Permits("parent", Finance), Permits("parent", Support)>>
             last == <<Forbids("support-agent", Finance), Permits("support-agent", Support)>>
  <2>1. first \in Seq(Rule) /\ HostRules \in Seq(Rule) /\ last \in Seq(Rule)
    BY FixtureNames DEF HostRules
  <2>2. first \o HostRules \in Seq(Rule)
    BY <2>1
  <2>3. /\ Len(first \o HostRules) = 4
        /\ (first \o HostRules)[1] = first[1] /\ (first \o HostRules)[2] = first[2]
        /\ (first \o HostRules)[3] = HostRules[1] /\ (first \o HostRules)[4] = HostRules[2]
    BY <2>1 DEF HostRules
  <2>4. Fixture.rules = (first \o HostRules) \o last
    BY <1>2 DEF Fixture
  <2> QED
    BY <1>2, <2>1, <2>2, <2>3, <2>4 DEF Fixture, FixtureRules, RuleOf, HostRules, Grants
<1> QED
  BY <1>1, <1>2 DEF Known

LEMMA BrokersAre ==
  ASSUME Known
  PROVE  /\ suite = "host" => Range(Brokers) = {"finance-agent"}
         /\ suite = "broker" => Range(Brokers) = TheSubjects
         /\ Brokers \in Seq(TheSubjects) /\ IsInjective(Brokers)
<1>1. CASE suite = "host"
  BY <1>1 DEF Brokers, Range, IsInjective, TheSubjects
<1>2. CASE suite = "broker"
  BY <1>2 DEF Brokers, Range, IsInjective, TheSubjects
<1> QED
  BY <1>1, <1>2 DEF Known

LEMMA RuleOfSays ==
  ASSUME NEW s, NEW r
  PROVE  /\ RuleOf(s, r).subject = s /\ RuleOf(s, r).resource = r
         /\ RuleOf(s, r) = Allow(s, r) <=> <<s, r>> \in Grants
BY DEF RuleOf, Allow

\* The rules of each suite, and what they are about.
LEMMA HostRulesAre ==
  ASSUME suite = "host"
  PROVE  LET rules == Fixture.rules
         IN /\ DOMAIN rules = {1, 2}
            /\ rules[1] = RuleOf("finance-agent", Finance)
            /\ rules[2] = RuleOf("finance-agent", Support)
<1>1. FixtureRules(Fixture.rules)
  BY FixtureIs DEF Known
<1>2. 1 .. 2 = {1, 2}
  OBVIOUS
<1> QED
  BY <1>1, <1>2 DEF FixtureRules

LEMMA BrokerRulesAre ==
  ASSUME suite = "broker"
  PROVE  LET rules == Fixture.rules
         IN /\ DOMAIN rules = {1, 2, 3, 4, 5, 6}
            /\ rules[1] = RuleOf("parent", Finance)
            /\ rules[2] = RuleOf("parent", Support)
            /\ rules[3] = RuleOf("finance-agent", Finance)
            /\ rules[4] = RuleOf("finance-agent", Support)
            /\ rules[5] = RuleOf("support-agent", Finance)
            /\ rules[6] = RuleOf("support-agent", Support)
<1>1. FixtureRules(Fixture.rules)
  BY FixtureIs DEF Known
<1>2. 1 .. 6 = {1, 2, 3, 4, 5, 6}
  OBVIOUS
<1> QED
  BY <1>1, <1>2 DEF FixtureRules

LEMMA FixtureUnique ==
  ASSUME Known
  PROVE  RulesUnique(Fixture)
<1> DEFINE rules == Fixture.rules
<1> SUFFICES ASSUME NEW i \in DOMAIN rules, NEW j \in DOMAIN rules,
                    rules[i].subject = rules[j].subject,
                    rules[i].resource = rules[j].resource
             PROVE  i = j
  BY DEF RulesUnique
<1>1. CASE suite = "host"
  <2>1. rules[1].resource = Finance /\ rules[2].resource = Support
    BY <1>1, HostRulesAre DEF RuleOf
  <2> QED
    BY <1>1, <2>1, HostRulesAre DEF Finance, Support
<1>2. CASE suite = "broker"
  <2>1. /\ rules[1].subject = "parent" /\ rules[1].resource = Finance
        /\ rules[2].subject = "parent" /\ rules[2].resource = Support
    BY <1>2, BrokerRulesAre DEF RuleOf
  <2>2. /\ rules[3].subject = "finance-agent" /\ rules[3].resource = Finance
        /\ rules[4].subject = "finance-agent" /\ rules[4].resource = Support
    BY <1>2, BrokerRulesAre DEF RuleOf
  <2>3. /\ rules[5].subject = "support-agent" /\ rules[5].resource = Finance
        /\ rules[6].subject = "support-agent" /\ rules[6].resource = Support
    BY <1>2, BrokerRulesAre DEF RuleOf
  <2>4. DOMAIN rules = {1, 2, 3, 4, 5, 6}
    BY <1>2, BrokerRulesAre
  <2> HIDE DEF rules
  <2> QED
    BY <2>1, <2>2, <2>3, <2>4 DEF Finance, Support
<1> QED
  BY <1>1, <1>2 DEF Known

\* What the policy grants, in the policy's own terms.
LEMMA FixtureGrants ==
  ASSUME Known, NEW s \in Range(Brokers), NEW r \in TheResources
  PROVE  Granted(Fixture, s, r) <=> <<s, r>> \in Grants
<1> DEFINE rules == Fixture.rules
<1>1. \A i \in DOMAIN rules : \E t, u : rules[i] = RuleOf(t, u)
  <2>1. CASE suite = "host"
    BY <2>1, HostRulesAre
  <2>2. CASE suite = "broker"
    BY <2>2, BrokerRulesAre
  <2> QED
    BY <2>1, <2>2 DEF Known
<1>2. \E i \in DOMAIN rules : rules[i] = RuleOf(s, r)
  <2>1. CASE suite = "host"
    <3>1. s = "finance-agent"
      BY <2>1, BrokersAre
    <3> QED
      BY <2>1, <3>1, HostRulesAre DEF TheResources
  <2>2. CASE suite = "broker"
    <3>1. s \in TheSubjects
      BY <2>2, BrokersAre
    <3>2. CASE s = "parent"
      BY <2>2, <3>2, BrokerRulesAre DEF TheResources
    <3>3. CASE s = "finance-agent"
      BY <2>2, <3>3, BrokerRulesAre DEF TheResources
    <3>4. CASE s = "support-agent"
      BY <2>2, <3>4, BrokerRulesAre DEF TheResources
    <3> QED
      BY <3>1, <3>2, <3>3, <3>4 DEF TheSubjects
  <2> QED
    BY <2>1, <2>2 DEF Known
<1>3. Granted(Fixture, s, r) <=> \E i \in DOMAIN rules : rules[i] = Allow(s, r)
  BY FixtureIs DEF Granted, Allow
<1> HIDE DEF rules
<1>4. ASSUME NEW i \in DOMAIN rules, rules[i] = Allow(s, r) PROVE <<s, r>> \in Grants
  <2>1. PICK t, u : rules[i] = RuleOf(t, u)
    BY <1>1
  <2>2. rules[i].subject = s /\ rules[i].resource = r
    BY <1>4 DEF Allow
  <2>3. RuleOf(t, u).subject = t /\ RuleOf(t, u).resource = u
    BY RuleOfSays
  <2>4. t = s /\ u = r
    BY <2>1, <2>2, <2>3
  <2>5. RuleOf(s, r) = Allow(s, r)
    BY <1>4, <2>1, <2>4
  <2> QED
    BY <2>5, RuleOfSays
<1> QED
  BY <1>2, <1>3, <1>4, RuleOfSays

LEMMA DecidedByGrants ==
  ASSUME Known, NEW s \in Range(Brokers), NEW r \in TheResources
  PROVE  Decided(s, r) = IF <<s, r>> \in Grants THEN Decision("allow", "ALLOWED")
                         ELSE Decision("deny", "ACCESS_DENIED")
<1>1. Fixture \in Document
  BY FixtureIs, BrokersAre, FixtureNames DEF Document, Fixture
<1>2. Fixture # NoPolicy
  BY <1>1, NoPolicyIsNoDocument
<1>3. RuleAllows(Fixture.rules, s, r) <=> Granted(Fixture, s, r)
  BY <1>1, DocumentRules, FixtureUnique, RuleAllowsGranted, FixtureIs
  DEF Granted, Allow
<1> QED
  BY <1>2, <1>3, FixtureGrants, FixtureIs DEF Decided, Evaluate, Decision

-----------------------------------------------------------------------------
(***************************************************************************)
(* The scripts.                                                            *)
(***************************************************************************)
BrokerScript == {"parentList", "financeList", "supportList", "parentFinance",
                 "parentSupport", "financeAllowed", "financeDenied",
                 "financeSpoofDenied", "supportAllowed", "supportDenied"}
HostScript == {"directResourceRead", "symlinkAliasRead", "policyRead", "auditRead",
               "authorized", "unauthorized", "assignedSocketRemoval",
               "protectedHardLinkCreation"}

LEMMA ScriptIs ==
  ASSUME Known
  PROVE  /\ suite = "broker" => Len(Script) = 10 /\ Range(Script) = BrokerScript
         /\ suite = "host" => Len(Script) = 8 /\ Range(Script) = HostScript
         /\ DOMAIN Script = 1 .. Len(Script)
         /\ IsInjective(Script)
<1>1. CASE suite = "host"
  <2>1. \A i \in 1 .. 8 : i \in {1, 2, 3, 4, 5, 6, 7, 8}
    OBVIOUS
  <2> QED
    BY <1>1, <2>1 DEF Script, Range, IsInjective, HostScript
<1>2. CASE suite = "broker"
  <2>1. \A i \in 1 .. 10 : i \in {1, 2, 3, 4, 5, 6, 7, 8, 9, 10}
    OBVIOUS
  <2> QED
    BY <1>2, <2>1 DEF Script, Range, IsInjective, BrokerScript
<1> QED
  BY <1>1, <1>2 DEF Known

\* Who reads what in a script.
Asks(n) ==
  CASE n = "parentFinance" -> <<"parent", Finance>>
    [] n = "parentSupport" -> <<"parent", Support>>
    [] n \in {"financeAllowed", "authorized"} -> <<"finance-agent", Finance>>
    [] n \in {"financeDenied", "financeSpoofDenied", "unauthorized"} ->
         <<"finance-agent", Support>>
    [] n = "supportAllowed" -> <<"support-agent", Support>>
    [] n = "supportDenied" -> <<"support-agent", Finance>>
ReadNames == {"parentFinance", "parentSupport", "financeAllowed", "authorized",
              "financeDenied", "financeSpoofDenied", "unauthorized", "supportAllowed",
              "supportDenied"}
Lists(n) == CASE n = "parentList" -> "parent"
              [] n = "financeList" -> "finance-agent"
              [] n = "supportList" -> "support-agent"
ListNames == {"parentList", "financeList", "supportList"}
OtherNames == {"preexistingHardLinkRefused", "directResourceRead", "symlinkAliasRead",
               "policyRead", "auditRead", "assignedSocketRemoval",
               "protectedHardLinkCreation"}

LEMMA CallsAre ==
  /\ \A n \in ReadNames : /\ Calls[n].tool = "read" /\ Calls[n].by = Asks(n)[1]
                          /\ Calls[n].resource = Asks(n)[2]
  /\ \A n \in ListNames : Calls[n].tool = "list" /\ Calls[n].by = Lists(n)
  /\ \A n \in OtherNames : Calls[n].tool = "direct" /\ Calls[n].by = "probe"
<1>1. ASSUME NEW n \in ReadNames
      PROVE  /\ Calls[n].tool = "read" /\ Calls[n].by = Asks(n)[1]
             /\ Calls[n].resource = Asks(n)[2]
  BY DEF ReadNames, Asks, Calls, Read
<1>2. ASSUME NEW n \in ListNames PROVE Calls[n].tool = "list" /\ Calls[n].by = Lists(n)
  BY DEF ListNames, Lists, Calls, List
<1>3. ASSUME NEW n \in OtherNames PROVE Calls[n].tool = "direct" /\ Calls[n].by = "probe"
  BY DEF OtherNames, Calls, Direct
<1> QED
  BY <1>1, <1>2, <1>3

LEMMA ScriptAsks ==
  ASSUME Known, NEW n \in Range(Script) \cup {"preexistingHardLinkRefused"}
  PROVE  /\ n \in ReadNames \cup ListNames \cup OtherNames
         /\ n \in ReadNames => Asks(n)[1] \in Range(Brokers) /\ Asks(n)[2] \in TheResources
         /\ n \in ListNames => Lists(n) \in Range(Brokers)
<1>1. CASE suite = "host"
  BY <1>1, ScriptIs, BrokersAre
  DEF HostScript, ReadNames, ListNames, OtherNames, Asks, TheResources
<1>2. CASE suite = "broker"
  BY <1>2, ScriptIs, BrokersAre
  DEF BrokerScript, ReadNames, ListNames, OtherNames, Asks, Lists, TheResources, TheSubjects
<1> QED
  BY <1>1, <1>2 DEF Known

\* What is promised, from what is granted.
LEMMA PromisedAre ==
  ASSUME Known, NEW n \in Range(Script) \cup {"preexistingHardLinkRefused"}
  PROVE  /\ n \in OtherNames => Promised(Calls[n]) = "refused"
         /\ n \in ListNames =>
              Promised(Calls[n]) = {r \in TheResources : <<Lists(n), r>> \in Grants}
         /\ n \in ReadNames =>
              LET r == Asks(n)[2]
              IN Promised(Calls[n]) =
                   IF Asks(n) \in Grants THEN Answer(Decision("allow", "ALLOWED"), r, r)
                   ELSE Answer(Decision("deny", "ACCESS_DENIED"), r, "none")
<1>1. ASSUME n \in OtherNames PROVE Promised(Calls[n]) = "refused"
  BY <1>1, CallsAre DEF Promised
<1>2. ASSUME n \in ListNames
      PROVE  Promised(Calls[n]) = {r \in TheResources : <<Lists(n), r>> \in Grants}
  <2>1. \A r \in TheResources :
          Decided(Lists(n), r).decision = "allow" <=> <<Lists(n), r>> \in Grants
    BY <1>2, ScriptAsks, DecidedByGrants DEF Decision
  <2> QED
    BY <1>2, <2>1, CallsAre DEF Promised, Asker
<1>3. ASSUME n \in ReadNames
      PROVE  LET r == Asks(n)[2]
             IN Promised(Calls[n]) =
                  IF Asks(n) \in Grants THEN Answer(Decision("allow", "ALLOWED"), r, r)
                  ELSE Answer(Decision("deny", "ACCESS_DENIED"), r, "none")
  <2> DEFINE s == Asks(n)[1]
             r == Asks(n)[2]
  <2>1. Asks(n) = <<s, r>>
    BY <1>3 DEF ReadNames, Asks
  <2>2. Decided(s, r) = IF Asks(n) \in Grants THEN Decision("allow", "ALLOWED")
                        ELSE Decision("deny", "ACCESS_DENIED")
    BY <1>3, <2>1, ScriptAsks, DecidedByGrants
  <2>3. Promised(Calls[n]) = ReadAnswer(s, r)
    BY <1>3, CallsAre DEF Promised, Asker
  <2> QED
    BY <2>2, <2>3 DEF ReadAnswer, Answer, Decision
<1> QED
  BY <1>1, <1>2, <1>3

-----------------------------------------------------------------------------
(***************************************************************************)
(* The verdict on a script that has been run to its end.                   *)
(***************************************************************************)
AuditRecord == [subject : TheSubjects, decision : {"allow", "deny", "error"},
                secret : {TRUE, FALSE}]
Logged == logs \in [TheSubjects -> Seq(AuditRecord)]

InScript == DOMAIN seen \subseteq Range(Script) \cup {"preexistingHardLinkRefused"}
Ended == /\ Range(Script) \subseteq DOMAIN seen
         /\ suite = "broker" => DOMAIN seen = Range(Script)

LEMMA TwoCounted ==
  ASSUME NEW a, NEW b, a # b PROVE IsFiniteSet({a, b}) /\ Cardinality({a, b}) = 2
<1>1. IsFiniteSet({a}) /\ Cardinality({a}) = 1
  BY FS_Singleton
<1> QED
  BY <1>1, FS_AddElement, {a} \cup {b} = {a, b}

LEMMA ThreeCounted ==
  ASSUME NEW a, NEW b, NEW c, a # b, a # c, b # c PROVE Cardinality({a, b, c}) = 3
<1>1. IsFiniteSet({a, b}) /\ Cardinality({a, b}) = 2
  BY TwoCounted
<1>2. Cardinality({a, b} \cup {c}) = 3
  BY <1>1, FS_AddElement
<1> QED
  BY <1>2, {a, b} \cup {c} = {a, b, c}

LEMMA ReadsAre ==
  ASSUME Known, InScript, NEW n \in DOMAIN seen
  PROVE  \A s \in TheSubjects : n \in Reads(s) <=> n \in ReadNames /\ Asks(n)[1] = s
<1>1. n \in ReadNames \cup ListNames \cup OtherNames
  BY ScriptAsks DEF InScript
<1> QED
  BY <1>1, CallsAre DEF Reads

LEMMA ReadsOf ==
  ASSUME Known, InScript, Ended
  PROVE  /\ suite = "broker" =>
              /\ Reads("parent") = {"parentFinance", "parentSupport"}
              /\ Reads("finance-agent") =
                   {"financeAllowed", "financeDenied", "financeSpoofDenied"}
              /\ Reads("support-agent") = {"supportAllowed", "supportDenied"}
         /\ suite = "host" => Reads("finance-agent") = {"authorized", "unauthorized"}
<1>0. \A s : Reads(s) \subseteq DOMAIN seen
  BY DEF Reads
<1>1. CASE suite = "broker"
  <2>1. DOMAIN seen = BrokerScript
    BY <1>1, ScriptIs DEF Ended
  <2> QED
    BY <1>0, <1>1, <2>1, ReadsAre DEF BrokerScript, ReadNames, Asks, TheSubjects
<1>2. CASE suite = "host"
  <2>1. /\ HostScript \subseteq DOMAIN seen
        /\ DOMAIN seen \subseteq HostScript \cup {"preexistingHardLinkRefused"}
    BY <1>2, ScriptIs DEF Ended, InScript
  <2> QED
    BY <1>0, <1>2, <2>1, ReadsAre DEF HostScript, ReadNames, Asks, TheSubjects
<1> QED
  BY <1>1, <1>2 DEF Known

LEMMA CountsOf ==
  ASSUME Known, InScript, Ended
  PROVE  /\ suite = "broker" =>
              /\ Cardinality(Reads("parent")) = 2
              /\ Cardinality(Reads("finance-agent")) = 3
              /\ Cardinality(Reads("support-agent")) = 2
         /\ suite = "host" => Cardinality(Reads("finance-agent")) = 2
<1>1. Cardinality({"parentFinance", "parentSupport"}) = 2
  BY TwoCounted
<1>2. Cardinality({"financeAllowed", "financeDenied", "financeSpoofDenied"}) = 3
  BY ThreeCounted
<1>3. Cardinality({"supportAllowed", "supportDenied"}) = 2
  BY TwoCounted
<1>4. Cardinality({"authorized", "unauthorized"}) = 2
  BY TwoCounted
<1> QED
  BY <1>1, <1>2, <1>3, <1>4, ReadsOf

LEMMA ObtainedIs ==
  ASSUME NEW s PROVE Obtained(s) = {seen[n].content : n \in Reads(s)} \ {"none"}
BY DEF Obtained, Reads

\* What AuditOf asks for, for a subject with something to read.
LEMMA AuditIs ==
  ASSUME Logged, NEW s \in TheSubjects, NEW count \in {2, 3}, AuditOf(s, count)
  PROVE  /\ Len(logs[s]) = count
         /\ \E e \in Range(logs[s]) : e.subject = s
         /\ \A e \in Range(logs[s]) : ~e.secret
<1>1. logs[s] \in Seq(AuditRecord) /\ Len(logs[s]) = count
  BY DEF Logged, AuditOf
<1>2. logs[s][1] \in Range(logs[s])
  BY <1>1 DEF Range
<1> QED
  BY <1>1, <1>2 DEF AuditOf

\* The checks of the broker suite establish the boundary.
LEMMA BrokerBoundary ==
  ASSUME Known, suite = "broker", InScript, Ended, Logged, BrokerChecks
  PROVE  BoundaryHeld
<1>1. /\ seen.parentFinance.content = Finance /\ seen.parentSupport.content = Support
      /\ seen.financeAllowed.content = Finance /\ seen.financeDenied.content = "none"
      /\ seen.financeSpoofDenied.content = "none"
      /\ seen.supportAllowed.content = Support /\ seen.supportDenied.content = "none"
  BY DEF BrokerChecks, IsDecision, Answer
<1>2. /\ Obtained("parent") = {Finance, Support} /\ Obtained("finance-agent") = {Finance}
      /\ Obtained("support-agent") = {Support}
  BY <1>1, ReadsOf, ObtainedIs DEF Finance, Support
<1>3. DOMAIN seen = BrokerScript
  BY ScriptIs DEF Ended
<1>4. \A n \in DOMAIN seen : n \in ReadNames \cup ListNames
  BY <1>3 DEF BrokerScript, ReadNames, ListNames
<1> SUFFICES ASSUME NEW s \in TheSubjects
             PROVE  /\ Obtained(s) = {r \in TheResources : Granted(Fixture, s, r)}
                    /\ \A n \in DOMAIN seen :
                         /\ Calls[n].tool = "direct" => seen[n] = "refused"
                         /\ Calls[n].tool = "list" /\ Calls[n].by = s => seen[n] = Obtained(s)
                    /\ Len(logs[s]) = Cardinality(Reads(s))
                    /\ \E e \in Range(logs[s]) : e.subject = s
                    /\ \A e \in Range(logs[s]) : ~e.secret
  BY BrokersAre DEF BoundaryHeld
<1>5. Obtained(s) = {r \in TheResources : Granted(Fixture, s, r)}
  <2>1. \A r \in TheResources : Granted(Fixture, s, r) <=> <<s, r>> \in Grants
    BY BrokersAre, FixtureGrants
  <2> QED
    BY <1>2, <2>1 DEF Grants, TheResources, TheSubjects, Finance, Support
<1>6. ASSUME NEW n \in DOMAIN seen
      PROVE  /\ Calls[n].tool = "direct" => seen[n] = "refused"
             /\ Calls[n].tool = "list" /\ Calls[n].by = s => seen[n] = Obtained(s)
  <2>1. CASE n \in ReadNames
    BY <2>1, CallsAre
  <2>2. CASE n \in ListNames
    BY <2>2, <1>2, CallsAre DEF ListNames, Lists, BrokerChecks
  <2> QED
    BY <1>4, <2>1, <2>2
<1>7. Len(logs[s]) = Cardinality(Reads(s))
  BY CountsOf DEF BrokerChecks, AuditOf, TheSubjects
<1>8. /\ \E e \in Range(logs[s]) : e.subject = s
      /\ \A e \in Range(logs[s]) : ~e.secret
  BY AuditIs DEF BrokerChecks, TheSubjects
<1> QED
  BY <1>5, <1>6, <1>7, <1>8

\* So do those of the host suite, for the one subject it runs.
LEMMA HostBoundary ==
  ASSUME Known, suite = "host", InScript, Ended, HostChecks
  PROVE  BoundaryHeld
<1> DEFINE s == "finance-agent"
<1>1. Obtained(s) = {Finance}
  BY ReadsOf, ObtainedIs DEF HostChecks, Finance
<1>2. Obtained(s) = {r \in TheResources : Granted(Fixture, s, r)}
  <2>1. \A r \in TheResources : Granted(Fixture, s, r) <=> <<s, r>> \in Grants
    BY BrokersAre, FixtureGrants
  <2> QED
    BY <1>1, <2>1 DEF Grants, TheResources, Finance, Support
<1>3. \A n \in DOMAIN seen : /\ Calls[n].tool = "direct" => seen[n] = "refused"
                             /\ Calls[n].tool # "list"
  <2>1. \A n \in DOMAIN seen : n \in ReadNames \cup OtherNames
    BY ScriptIs DEF InScript, HostScript, ReadNames, OtherNames
  <2>2. \A n \in DOMAIN seen : Calls[n].tool = "direct" => seen[n] = "refused"
    BY Zenon DEF HostChecks
  <2> QED
    BY <2>1, <2>2, CallsAre
<1> QED
  BY <1>2, <1>3, BrokersAre DEF BoundaryHeld, HostChecks

Checked == IF suite = "broker" THEN BrokerChecks ELSE HostChecks

LEMMA PassMeansBoundary ==
  ASSUME Known, InScript, Ended, Logged, Checked
  PROVE  BoundaryHeld
BY BrokerBoundary, HostBoundary DEF Known, Checked

\* What is so of an installation that has kept its promises so far.
Kept ==
  /\ \A n \in DOMAIN seen : seen[n] = Promised(Calls[n])
  /\ \A s \in TheSubjects :
       /\ Len(logs[s]) = Cardinality(Reads(s))
       /\ \A e \in Range(logs[s]) : \E n \in Reads(s) : e = Events(Calls[n])[1]
       /\ \A n \in Reads(s) : Events(Calls[n])[1] \in Range(logs[s])

\* The event of a call that reads.
LEMMA EventIs ==
  ASSUME Known, InScript, NEW s \in TheSubjects, NEW n \in Reads(s)
  PROVE  /\ Len(Events(Calls[n])) = 1
         /\ Events(Calls[n])[1] =
              AuditEvent(s, IF Asks(n) \in Grants THEN "allow" ELSE "deny")
<1>1. n \in DOMAIN seen /\ n \in ReadNames /\ Asks(n)[1] = s
  BY ReadsAre DEF Reads
<1>2. Asks(n) = <<s, Asks(n)[2]>>
  BY <1>1 DEF ReadNames, Asks
<1>3. s \in Range(Brokers) /\ Asks(n)[2] \in TheResources
  BY <1>1, ScriptAsks DEF InScript
<1>4. Decided(s, Asks(n)[2]).decision = IF Asks(n) \in Grants THEN "allow" ELSE "deny"
  BY <1>2, <1>3, DecidedByGrants DEF Decision
<1> QED
  BY <1>1, <1>4, CallsAre DEF Events, Asker

\* Its audit passes, and holds the decisions its policy asks for.
LEMMA KeptAudit ==
  ASSUME Known, InScript, Kept, Logged, NEW s \in TheSubjects
  PROVE  AuditOf(s, Cardinality(Reads(s)))
<1>1. ASSUME NEW e \in Range(logs[s]) PROVE e.subject = s /\ ~e.secret
  <2>1. PICK n \in Reads(s) : e = Events(Calls[n])[1]
    BY DEF Kept
  <2>2. e = AuditEvent(s, IF Asks(n) \in Grants THEN "allow" ELSE "deny")
    BY <2>1, EventIs
  <2> QED
    BY <2>2 DEF AuditEvent
<1> QED
  BY <1>1 DEF AuditOf, Kept

LEMMA BrokerKept ==
  ASSUME Known, suite = "broker", InScript, Ended, Kept, Logged
  PROVE  BrokerChecks
<1> USE DEF Finance, Support
<1>1. DOMAIN seen = BrokerScript
  BY ScriptIs DEF Ended
<1>2. /\ seen.parentList = {Finance, Support} /\ seen.financeList = {Finance}
      /\ seen.supportList = {Support}
  <2>1. ASSUME NEW n \in ListNames
        PROVE  seen[n] = {r \in TheResources : <<Lists(n), r>> \in Grants}
    BY <1>1, <2>1, PromisedAre DEF BrokerScript, ListNames, Kept, InScript
  <2>2. /\ seen.parentList = {r \in TheResources : <<"parent", r>> \in Grants}
        /\ seen.financeList = {r \in TheResources : <<"finance-agent", r>> \in Grants}
        /\ seen.supportList = {r \in TheResources : <<"support-agent", r>> \in Grants}
    BY <2>1 DEF ListNames, Lists
  <2> QED
    BY <2>2 DEF Grants, TheResources
<1>3. /\ IsDecision(seen.parentFinance, "allow", Finance, Finance)
      /\ IsDecision(seen.parentSupport, "allow", Support, Support)
      /\ IsDecision(seen.financeDenied, "deny", Support, "none")
      /\ IsDecision(seen.supportDenied, "deny", Finance, "none")
      /\ IsDecision(seen.financeSpoofDenied, "deny", Support, "none")
      /\ IsDecision(seen.financeAllowed, "allow", Finance, Finance)
      /\ IsDecision(seen.supportAllowed, "allow", Support, Support)
  <2>1. ASSUME NEW n \in ReadNames \cap BrokerScript
        PROVE  LET r == Asks(n)[2]
               IN seen[n] = IF Asks(n) \in Grants
                            THEN Answer(Decision("allow", "ALLOWED"), r, r)
                            ELSE Answer(Decision("deny", "ACCESS_DENIED"), r, "none")
    BY <1>1, <2>1, PromisedAre DEF Kept, InScript
  <2> QED
    BY <2>1 DEF ReadNames, BrokerScript, Asks, Grants, IsDecision, Answer, Decision
<1>4. AuditOf("parent", 2) /\ AuditOf("finance-agent", 3) /\ AuditOf("support-agent", 2)
  BY KeptAudit, CountsOf DEF TheSubjects
<1>5. \A e \in Range(logs["parent"]) : e.decision = "allow"
  <2>1. \A n \in Reads("parent") : Asks(n) \in Grants
    BY ReadsOf DEF Asks, Grants
  <2>2. ASSUME NEW e \in Range(logs["parent"]) PROVE e.decision = "allow"
    <3>1. PICK n \in Reads("parent") : e = Events(Calls[n])[1]
      BY DEF Kept, TheSubjects
    <3>2. e = AuditEvent("parent", "allow")
      BY <2>1, <3>1, EventIs DEF TheSubjects
    <3> QED
      BY <3>2 DEF AuditEvent
  <2> QED
    BY <2>2
<1> QED
  BY <1>2, <1>3, <1>4, <1>5 DEF BrokerChecks

LEMMA HostKept ==
  ASSUME Known, suite = "host", InScript, Ended, Kept, Logged
  PROVE  HostChecks
<1> USE DEF Finance, Support
<1>1. \A n \in DOMAIN seen : n \in ReadNames \cup OtherNames
  BY ScriptIs DEF InScript, HostScript, ReadNames, OtherNames
<1>2. \A n \in DOMAIN seen : Calls[n].tool = "direct" => seen[n] = "refused"
  <2> SUFFICES ASSUME NEW n \in DOMAIN seen, Calls[n].tool = "direct" PROVE seen[n] = "refused"
    OBVIOUS
  <2>1. n \in OtherNames
    BY <1>1, CallsAre
  <2> QED
    BY <2>1, PromisedAre DEF Kept, InScript
<1>3. "authorized" \in DOMAIN seen /\ "unauthorized" \in DOMAIN seen
  BY ScriptIs DEF Ended, HostScript
<1>4. /\ seen.authorized.content = Finance
      /\ seen.unauthorized.decision = "deny" /\ seen.unauthorized.content = "none"
  <2>1. ASSUME NEW n \in {"authorized", "unauthorized"}
        PROVE  LET r == Asks(n)[2]
               IN seen[n] = IF Asks(n) \in Grants
                            THEN Answer(Decision("allow", "ALLOWED"), r, r)
                            ELSE Answer(Decision("deny", "ACCESS_DENIED"), r, "none")
    BY <1>3, <2>1, PromisedAre DEF Kept, InScript, ReadNames
  <2> QED
    BY <2>1 DEF Asks, Grants, Answer, Decision
<1>5. /\ AuditEvent("finance-agent", "allow") \in Range(logs["finance-agent"])
      /\ AuditEvent("finance-agent", "deny") \in Range(logs["finance-agent"])
  <2>1. "authorized" \in Reads("finance-agent") /\ "unauthorized" \in Reads("finance-agent")
    BY ReadsOf
  <2>2. Asks("authorized") \in Grants /\ Asks("unauthorized") \notin Grants
    BY DEF Asks, Grants
  <2> QED
    BY <2>1, <2>2, EventIs DEF Kept, TheSubjects
<1>6. \A e \in Range(logs["finance-agent"]) : ~e.secret
  BY KeptAudit DEF AuditOf, TheSubjects
<1> QED
  BY <1>2, <1>4, <1>5, <1>6 DEF HostChecks, AuditEvent

-----------------------------------------------------------------------------
(***************************************************************************)
(* What a call adds.                                                       *)
(***************************************************************************)
\* Until a suite has ended it asks in the order of its script, so that the number of
\* the answers says which call is next.
Answered == DOMAIN seen \cap Range(Script)
InOrder == \E k \in 0 .. Len(Script) : /\ Answered = {Script[i] : i \in 1 .. k}
                                       /\ Cardinality(Answered) = k

Observed == /\ Logged /\ deviated \in Nat /\ IsFiniteSet(DOMAIN seen)
            /\ InScript /\ (suite = "broker" => DOMAIN seen \subseteq Range(Script))
            /\ deviated = 0 => Kept

\* The events a call may leave are events.
LEMMA EventsLogged ==
  ASSUME Known, NEW n \in Range(Script) \cup {"preexistingHardLinkRefused"},
         Calls[n].tool = "read"
  PROVE  /\ Calls[n].by \in TheSubjects
         /\ Events(Calls[n]) \in Seq(AuditRecord) /\ Len(Events(Calls[n])) = 1
         /\ \A events \in DeviantEvents(Calls[n]) : events \in Seq(AuditRecord)
<1> DEFINE s == Calls[n].by
           d == Decided(s, Calls[n].resource).decision
<1>1. n \in ReadNames
  BY ScriptAsks, CallsAre
<1>2. s \in Range(Brokers) /\ Calls[n].resource \in TheResources
  BY <1>1, ScriptAsks, CallsAre
<1>3. s \in TheSubjects
  BY <1>2, BrokersAre DEF TheSubjects, Known
<1>4. d \in {"allow", "deny"}
  <2> DEFINE r == Calls[n].resource
  <2>1. \/ Decided(s, r) = Decision("allow", "ALLOWED")
        \/ Decided(s, r) = Decision("deny", "ACCESS_DENIED")
    BY <1>2, DecidedByGrants
  <2> QED
    BY <2>1 DEF Decision
<1>5. Events(Calls[n]) = <<AuditEvent(s, d)>>
  BY DEF Events, Asker
<1> HIDE DEF s, d
<1>6. AuditEvent(s, d) \in AuditRecord
  BY <1>3, <1>4 DEF AuditEvent, AuditRecord
<1>7. ASSUME NEW events \in DeviantEvents(Calls[n]) PROVE events \in Seq(AuditRecord)
  <2> DEFINE event == AuditEvent(s, d)
  <2>1. event \in AuditRecord
    BY <1>6
  <2>2. PICK e \in AuditRecord : events \in {<<>>, <<event, event>>, <<e>>}
    <3>1. /\ [event EXCEPT !.secret = TRUE] \in AuditRecord
          /\ [event EXCEPT !.decision = "error"] \in AuditRecord
          /\ \A t \in TheSubjects : [event EXCEPT !.subject = t] \in AuditRecord
      BY <2>1 DEF AuditRecord
    <3>2. Events(Calls[n])[1] = event
      BY <1>5
    <3> HIDE DEF event
    <3>3. \/ events \in {<<>>, <<event, event>>, <<[event EXCEPT !.secret = TRUE]>>,
                        <<[event EXCEPT !.decision = "error"]>>}
          \/ \E t \in TheSubjects : events = <<[event EXCEPT !.subject = t]>>
      BY <3>2 DEF DeviantEvents
    <3> QED
      BY <2>1, <3>1, <3>3
  <2> HIDE DEF event
  <2>3. <<>> \in Seq(AuditRecord)
    OBVIOUS
  <2>4. <<event, event>> \in Seq(AuditRecord) /\ <<e>> \in Seq(AuditRecord)
    BY <2>1
  <2> QED
    BY <2>2, <2>3, <2>4
<1> QED
  BY <1>3, <1>5, <1>6, <1>7 DEF s

LEMMA SuiteStays ==
  ASSUME UNCHANGED suite
  PROVE  /\ Brokers' = Brokers /\ Script' = Script /\ Fixture' = Fixture /\ Known' = Known
         /\ Range(Brokers)' = Range(Brokers) /\ Range(Script)' = Range(Script)
         /\ \A call : Promised(call)' = Promised(call) /\ Events(call)' = Events(call)
<1>1. /\ Brokers' = Brokers /\ Script' = Script /\ Fixture' = Fixture /\ Known' = Known
  BY DEF Brokers, Script, Fixture, Known
<1>2. \A s, r : Decided(s, r)' = Decided(s, r)
  BY <1>1 DEF Decided
<1>3. \A s, r : ReadAnswer(s, r)' = ReadAnswer(s, r)
  BY <1>2 DEF ReadAnswer
<1>4. \A call : Promised(call)' = Promised(call) /\ Events(call)' = Events(call)
  BY <1>2, <1>3 DEF Promised, Events
<1> QED
  BY <1>1, <1>4 DEF Range

LEMMA OneMore ==
  ASSUME NEW S, NEW l \in Seq(S), NEW m \in Seq(S), Len(m) = 1
  PROVE  /\ l \o m \in Seq(S) /\ Len(l \o m) = Len(l) + 1
         /\ Range(l \o m) = Range(l) \cup {m[1]}
<1>1. l \o m \in Seq(S) /\ Len(l \o m) = Len(l) + Len(m)
  BY ConcatProperties, Zenon
<1>2. \A i \in 1 .. Len(l) + Len(m) :
        (l \o m)[i] = IF i <= Len(l) THEN l[i] ELSE m[i - Len(l)]
  BY ConcatProperties, Zenon
<1>3. /\ Len(l) \in Nat /\ DOMAIN l = 1 .. Len(l)
      /\ DOMAIN (l \o m) = 1 .. Len(l \o m)
  BY <1>1
<1> DEFINE lm == l \o m
<1> HIDE DEF lm
<1>4. /\ \A i \in 1 .. Len(l) : lm[i] = l[i]
      /\ lm[Len(l) + 1] = m[1]
  BY <1>2, <1>3 DEF lm
<1>5. DOMAIN lm = (1 .. Len(l)) \cup {Len(l) + 1}
  BY <1>1, <1>3 DEF lm
<1>6. Range(lm) = Range(l) \cup {m[1]}
  BY <1>3, <1>4, <1>5 DEF Range
<1> QED
  BY <1>1, <1>6 DEF lm


LEMMA ObserveNames ==
  ASSUME NEW n, Observe(n) PROVE n \in DOMAIN seen'
<1>1. PICK answer :
        seen' = [m \in DOMAIN seen \cup {n} |-> IF m = n THEN answer ELSE seen[m]]
  BY Zenon DEF Observe
<1> QED
  BY <1>1

\* A call adds its name to the answers; what it says and leaves in the audit is what
\* was promised, or the deviation is counted.
LEMMA ObserveAdds ==
  ASSUME Known, Observed, NEW n \in Range(Script) \cup {"preexistingHardLinkRefused"},
         suite = "broker" => n \in Range(Script), n \notin DOMAIN seen,
         Observe(n), UNCHANGED suite
  PROVE  Observed' /\ DOMAIN seen' = DOMAIN seen \cup {n}
<1> DEFINE call == Calls[n]
<1>1. PICK answer, events :
        /\ seen' = [m \in DOMAIN seen \cup {n} |-> IF m = n THEN answer ELSE seen[m]]
        /\ logs' = IF call.tool # "read" THEN logs
                   ELSE [logs EXCEPT ![call.by] = @ \o events]
        /\ call.tool = "read" => events \in Seq(AuditRecord)
        /\ deviated' \in Nat
        /\ deviated' = 0 => /\ deviated = 0 /\ answer = Promised(call)
                            /\ events = Events(call)
  <2>1. CASE /\ seen' = [m \in DOMAIN seen \cup {n} |->
                           IF m = n THEN Promised(call) ELSE seen[m]]
             /\ logs' = IF call.tool # "read" THEN logs
                        ELSE [logs EXCEPT ![call.by] = @ \o Events(call)]
             /\ UNCHANGED deviated
    BY <2>1, EventsLogged DEF Observed
  <2>2. CASE /\ deviated' = deviated + 1
             /\ \E answer \in Deviant(call) :
                  seen' = [m \in DOMAIN seen \cup {n} |-> IF m = n THEN answer ELSE seen[m]]
             /\ logs' = IF call.tool # "read" THEN logs
                        ELSE [logs EXCEPT ![call.by] = @ \o Events(call)]
    <3>1. deviated' \in Nat /\ deviated' # 0
      BY <2>2 DEF Observed
    <3> QED
      BY <2>2, <3>1, EventsLogged
  <2>3. CASE /\ deviated' = deviated + 1
             /\ seen' = [m \in DOMAIN seen \cup {n} |->
                           IF m = n THEN Promised(call) ELSE seen[m]]
             /\ \E events \in DeviantEvents(call) :
                  logs' = IF call.tool # "read" THEN logs
                          ELSE [logs EXCEPT ![call.by] = @ \o events]
    <3>1. deviated' \in Nat /\ deviated' # 0
      BY <2>3 DEF Observed
    <3> QED
      BY <2>3, <3>1, EventsLogged
  <2> QED
    BY <2>1, <2>2, <2>3, Zenon DEF Observe
<1>2. DOMAIN seen' = DOMAIN seen \cup {n}
  BY <1>1
<1>3. /\ IsFiniteSet(DOMAIN seen)' /\ InScript'
      /\ (suite = "broker" => DOMAIN seen \subseteq Range(Script))'
  BY <1>2, FS_AddElement, SuiteStays DEF Observed, InScript
<1>4. Logged'
  <2>1. CASE call.tool # "read"
    BY <1>1, <2>1 DEF Observed, Logged
  <2>2. CASE call.tool = "read"
    <3>1. call.by \in TheSubjects /\ logs[call.by] \in Seq(AuditRecord)
      BY <2>2, EventsLogged DEF Observed, Logged
    <3>2. logs[call.by] \o events \in Seq(AuditRecord)
      BY <1>1, <2>2, <3>1
    <3> QED
      BY <1>1, <2>2, <3>1, <3>2 DEF Observed, Logged
  <2> QED
    BY <2>1, <2>2
<1>5. ASSUME deviated' = 0 PROVE Kept'
  <2>1. Kept /\ answer = Promised(call) /\ events = Events(call)
    BY <1>1, <1>5 DEF Observed
  <2>2. \A m \in DOMAIN seen' : seen'[m] = Promised(Calls[m])
    BY <1>1, <2>1 DEF Kept
  <2>3. ASSUME NEW s \in TheSubjects
        PROVE  /\ Len(logs'[s]) = Cardinality(Reads(s)')
               /\ \A e \in Range(logs'[s]) : \E m \in Reads(s)' : e = Events(Calls[m])[1]
               /\ \A m \in Reads(s)' : Events(Calls[m])[1] \in Range(logs'[s])
    <3>1. Reads(s)' = IF call.tool = "read" /\ call.by = s THEN Reads(s) \cup {n}
                      ELSE Reads(s)
      BY <1>2 DEF Reads
    <3>2. CASE call.tool = "read" /\ call.by = s
      <4>1. logs'[s] = logs[s] \o Events(call) /\ logs[s] \in Seq(AuditRecord)
        BY <1>1, <2>1, <3>2 DEF Observed, Logged
      <4>2. /\ Len(logs'[s]) = Len(logs[s]) + 1
            /\ Range(logs'[s]) = Range(logs[s]) \cup {Events(call)[1]}
        <5>1. Events(call) \in Seq(AuditRecord) /\ Len(Events(call)) = 1
          BY <3>2, EventsLogged
        <5> HIDE DEF call
        <5> QED
          BY <4>1, <5>1, OneMore
      <4>3. Cardinality(Reads(s)') = Cardinality(Reads(s)) + 1
        <5>1. IsFiniteSet(Reads(s)) /\ n \notin Reads(s)
          BY FS_Subset DEF Observed, Reads
        <5> QED
          BY <3>1, <3>2, <5>1, FS_AddElement
      <4> QED
        BY <2>1, <3>1, <3>2, <4>2, <4>3 DEF Kept
    <3>3. CASE ~(call.tool = "read" /\ call.by = s)
      <4>1. logs'[s] = logs[s]
        BY <1>1, <3>3 DEF Observed, Logged
      <4> QED
        BY <2>1, <3>1, <3>3, <4>1 DEF Kept
    <3> QED
      BY <3>2, <3>3
  <2> QED
    BY <2>2, <2>3, SuiteStays DEF Kept
<1> QED
  BY <1>1, <1>2, <1>3, <1>4, <1>5 DEF Observed

-----------------------------------------------------------------------------
(***************************************************************************)
(* The course of a suite.                                                  *)
(***************************************************************************)
\* The brokers are started in their order.
BegunKnown == started \in IF suite = "host" THEN {{}, {"finance-agent"}}
                          ELSE {{}, {"parent"}, {"parent", "finance-agent"}, TheSubjects}

\* A start that failed has left brokers: no call has been made.
LeftRunning == /\ failed /\ Answered = {}
               /\ suite = "broker" => started # Range(Brokers)

\* What runs, what the finally clause will close, and the directory.
HeldKnown ==
  /\ BegunKnown
  /\ at \in {"platform", "mkdtemp", "fixture", "preflight"} => started = {} /\ held = {}
  /\ at = "connect" => started # Range(Brokers) /\ held = {}
  /\ at = "script" => started = Range(Brokers) /\ held = started
  /\ at = "close" => \/ held = started /\ started = Range(Brokers)
                     \/ held = {} /\ outcome = "fail" /\ (started # {} => LeftRunning)
  /\ at = "rm" /\ started # {} => LeftRunning /\ outcome = "fail"
  /\ at = "done" /\ started # {} => LeftRunning /\ outcome \in {"fail", "rejected"}
  /\ at \in {"platform", "mkdtemp"} => ~root
  /\ at = "done" /\ root => suite = "host" \/ outcome = "rejected"

LEMMA ConnectAdds ==
  ASSUME Known, BegunKnown, started # Range(Brokers), UNCHANGED suite,
         started' = started \cup {Brokers[Cardinality(started) + 1]}
  PROVE  BegunKnown'
<1>1. /\ Cardinality({}) = 0 /\ Cardinality({"parent"}) = 1
      /\ Cardinality({"parent", "finance-agent"}) = 2
  BY FS_EmptySet, FS_Singleton, TwoCounted
<1>2. CASE suite = "host"
  <2>1. started = {}
    BY <1>2, BrokersAre DEF BegunKnown
  <2>2. Brokers[1] = "finance-agent"
    BY <1>2 DEF Brokers
  <2>3. Cardinality(started) + 1 = 1
    BY <1>1, <2>1
  <2> QED
    BY <1>2, <2>1, <2>2, <2>3 DEF BegunKnown
<1>3. CASE suite = "broker"
  <2>1. /\ Brokers[1] = "parent" /\ Brokers[2] = "finance-agent"
        /\ Brokers[3] = "support-agent"
    BY <1>3 DEF Brokers
  <2>2. \/ started = {} /\ Cardinality(started) + 1 = 1
        \/ started = {"parent"} /\ Cardinality(started) + 1 = 2
        \/ started = {"parent", "finance-agent"} /\ Cardinality(started) + 1 = 3
    <3>1. started \in {{}, {"parent"}, {"parent", "finance-agent"}}
      BY <1>3, BrokersAre DEF BegunKnown
    <3>2. CASE started = {}
      BY <1>1, <3>2
    <3>3. CASE started = {"parent"}
      BY <1>1, <3>3
    <3>4. CASE started = {"parent", "finance-agent"}
      BY <1>1, <3>4
    <3> QED
      BY <3>1, <3>2, <3>3, <3>4
  <2> QED
    BY <1>3, <2>1, <2>2 DEF BegunKnown, TheSubjects
<1> QED
  BY <1>2, <1>3 DEF Known

\* Every call is made once, in the order of the script.
Asking ==
  /\ Observed /\ InOrder
  /\ at \in {"platform", "mkdtemp", "fixture", "preflight"} => DOMAIN seen = {}
  /\ at = "preflight" => suite = "host"
  /\ at = "connect" => Answered = {}

LEMMA HeldNext == Known /\ HeldKnown /\ Asking /\ [Next]_vars => HeldKnown'
<1> SUFFICES ASSUME Known, HeldKnown, Asking, [Next]_vars PROVE HeldKnown'
  OBVIOUS
<1>0. UNCHANGED suite
  BY DEF Next, vars, resources, Platform, MakeRoot, WriteFixture, Preflight, Connect, Call,
         Report, Close, RemoveRoot, Fails
<1>1. Range(Brokers)' = Range(Brokers) /\ Range(Brokers) # {}
  BY <1>0, SuiteStays, BrokersAre DEF Known, TheSubjects
<1>2. BegunKnown' \/ UNCHANGED started => BegunKnown'
  BY <1>0 DEF HeldKnown, BegunKnown
<1>3. UNCHANGED seen => Answered' = Answered
  BY <1>0, SuiteStays DEF Answered
<1>4. at = "connect" => Answered = {}
  BY DEF Asking
<1> USE DEF HeldKnown, resources, observations, Fails
<1>5. CASE UNCHANGED vars
  BY <1>0, <1>1, <1>2, <1>5, <1>3 DEF vars, LeftRunning
<1>6. CASE Platform \/ MakeRoot \/ WriteFixture \/ Preflight \/ Call \/ Report
  BY <1>0, <1>1, <1>2, <1>6
  DEF Platform, MakeRoot, WriteFixture, Preflight, Call, Report
<1>7. CASE Connect
  <2>1. CASE Fails
    BY <1>0, <1>1, <1>2, <1>7, <1>3, <1>4, <2>1 DEF Connect, LeftRunning
  <2>2. CASE suite = "host" /\ started' = Range(Brokers) /\ at' = "close" /\ ~Fails
    <3>1. /\ held' = {} /\ outcome' = "fail" /\ failed' = TRUE /\ Answered' = {}
      BY <1>7, <1>3, <1>4, <2>2 DEF Connect
    <3>2. BegunKnown'
      BY <1>0, <2>2, SuiteStays, BrokersAre DEF Known, BegunKnown
    <3> QED
      BY <1>0, <1>1, <2>2, <3>1, <3>2 DEF LeftRunning
  <2>3. CASE ~Fails /\ at' # "close"
    <3>1. /\ at = "connect"
          /\ started' = started \cup {Brokers[Cardinality(started) + 1]}
          /\ held' = IF started' = Range(Brokers) THEN started' ELSE {}
          /\ at' = IF started' = Range(Brokers) THEN "script" ELSE "connect"
      BY <1>7, <2>3 DEF Connect, Held
    <3>2. BegunKnown'
      BY <1>0, <3>1, ConnectAdds
    <3> QED
      BY <1>1, <3>1, <3>2
  <2> QED
    BY <1>7, <2>1, <2>3, <2>2 DEF Connect, Held
<1>8. CASE Close
  <2>1. /\ at = "close" /\ at' = "rm" /\ UNCHANGED <<outcome, failed, seen>>
        /\ \/ started' = {}
           \/ started' = started /\ outcome = "fail" /\ (started # {} => LeftRunning)
    BY <1>8 DEF Close, Closed
  <2>2. BegunKnown'
    BY <1>0, <2>1 DEF BegunKnown
  <2> QED
    BY <1>0, <1>1, <1>3, <2>1, <2>2 DEF LeftRunning
<1>9. CASE RemoveRoot
  <2>1. at = "rm" /\ at' = "done" /\ UNCHANGED <<started, held>> /\ (failed => failed')
        /\ UNCHANGED seen
    BY <1>9 DEF RemoveRoot
  <2>2. LeftRunning => LeftRunning'
    BY <1>0, <1>1, <1>3, <2>1 DEF LeftRunning
  <2>3. CASE root' = FALSE /\ UNCHANGED outcome
    BY <1>1, <1>2, <2>1, <2>3, <2>2
  <2>4. CASE outcome' = IF suite = "broker" THEN "rejected" ELSE outcome
    BY <1>0, <1>1, <1>2, <2>1, <2>4, <2>2 DEF Known
  <2> QED
    BY <1>9, <2>3, <2>4 DEF RemoveRoot
<1> QED
  BY <1>5, <1>6, <1>7, <1>8, <1>9 DEF Next

LEMMA AskingInit == Init => Known /\ Asking /\ HeldKnown
<1> SUFFICES ASSUME Init PROVE Known /\ Asking /\ HeldKnown
  OBVIOUS
<1>1. Known /\ DOMAIN seen = {} /\ deviated = 0 /\ deviated \in Nat
  BY DEF Init, Known
<1>2. Logged
  <2>1. <<>> \in Seq(AuditRecord)
    OBVIOUS
  <2> QED
    BY <2>1 DEF Init, Logged
<1>3. \A s \in TheSubjects : Reads(s) = {} /\ logs[s] = <<>>
  BY <1>1 DEF Reads, Init
<1>4. Kept
  <2>1. Len(<<>>) = 0 /\ Range(<<>>) = {} /\ Cardinality({}) = 0
    BY FS_EmptySet DEF Range
  <2> QED
    BY <1>1, <1>3, <2>1 DEF Kept
<1>5. Observed
  BY <1>1, <1>2, <1>4, FS_EmptySet DEF Observed, InScript
<1>6. InOrder
  <2>1. 0 \in 0 .. Len(Script) /\ {Script[i] : i \in 1 .. 0} = {}
    BY <1>1, ScriptIs DEF Known
  <2>2. Answered = {} /\ Cardinality(Answered) = 0
    BY <1>1, FS_EmptySet DEF Answered
  <2> QED
    BY <2>1, <2>2 DEF InOrder
<1>7. HeldKnown
  BY DEF Init, HeldKnown, BegunKnown
<1> QED
  BY <1>1, <1>5, <1>6, <1>7 DEF Init, Asking

LEMMA NextName ==
  ASSUME Known, Observed, InOrder, Asked < Len(Script), NEW n, n = Script[Asked + 1]
  PROVE  /\ n \in Range(Script) /\ n \notin DOMAIN seen
         /\ \A S : S = Answered \cup {n} =>
              \E k \in 0 .. Len(Script) : S = {Script[i] : i \in 1 .. k}
                                          /\ Cardinality(S) = k
<1>1. PICK k \in 0 .. Len(Script) : /\ Answered = {Script[i] : i \in 1 .. k}
                                    /\ Cardinality(Answered) = k
  BY DEF InOrder
<1>2. Asked = k
  BY <1>1 DEF Asked, Answered
<1>3. Len(Script) \in Nat /\ k + 1 \in 1 .. Len(Script) /\ n = Script[k + 1]
  BY <1>2, ScriptIs DEF Known
<1>4. n \in Range(Script)
  BY <1>3, ScriptIs DEF Range
<1>5. n \notin Answered
  <2> SUFFICES ASSUME n \in Answered PROVE FALSE
    OBVIOUS
  <2>1. PICK i \in 1 .. k : n = Script[i]
    BY <1>1
  <2>2. i \in DOMAIN Script /\ k + 1 \in DOMAIN Script /\ i # k + 1
    BY <1>3, ScriptIs
  <2> QED
    BY <1>3, <2>1, <2>2, ScriptIs DEF IsInjective
<1>6. IsFiniteSet(Answered)
  BY FS_Subset DEF Observed, Answered
<1>7. ASSUME NEW S, S = Answered \cup {n}
      PROVE  k + 1 \in 0 .. Len(Script) /\ S = {Script[i] : i \in 1 .. (k + 1)}
             /\ Cardinality(S) = k + 1
  <2>1. Cardinality(S) = k + 1
    BY <1>1, <1>5, <1>6, <1>7, FS_AddElement
  <2>2. 1 .. (k + 1) = (1 .. k) \cup {k + 1}
    OBVIOUS
  <2> QED
    BY <1>1, <1>3, <1>7, <2>1, <2>2
<1> QED
  BY <1>4, <1>5, <1>7 DEF Answered

LEMMA AskingNext == Known /\ Asking /\ [Next]_vars => Asking'
<1> SUFFICES ASSUME Known, Asking, [Next]_vars PROVE Asking'
  OBVIOUS
<1>0. UNCHANGED suite
  BY DEF Next, vars, Platform, MakeRoot, WriteFixture, Preflight, Connect, Call,
         Report, Close, RemoveRoot, Fails
<1>1. Known' /\ Script' = Script /\ Range(Script)' = Range(Script)
  BY <1>0, SuiteStays
<1>2. CASE UNCHANGED observations
  <2>1. Answered' = Answered /\ InOrder'
    BY <1>1, <1>2 DEF observations, Answered, Asking, InOrder
  <2>2. ASSUME Kept PROVE Kept'
    <3>1. \A s : Reads(s)' = Reads(s)
      BY <1>2 DEF observations, Reads
    <3>2. seen' = seen /\ logs' = logs
      BY <1>2 DEF observations
    <3>3. \A call : Promised(call)' = Promised(call) /\ Events(call)' = Events(call)
      BY <1>0, SuiteStays
    <3> QED
      BY <2>2, <3>1, <3>2, <3>3 DEF Kept
  <2>3. Observed'
    BY <1>0, <1>1, <1>2, <2>2 DEF observations, Asking, Observed, Logged, InScript
  <2>4. \/ UNCHANGED at
        \/ at' \in {"close", "rm", "done"}
        \/ at = "platform" /\ at' = "mkdtemp"
        \/ at = "mkdtemp" /\ at' = "fixture"
        \/ at = "fixture" /\ at' = IF suite = "host" THEN "preflight" ELSE "connect"
        \/ at = "connect" /\ at' = "script"
        \/ at = "preflight" /\ DOMAIN seen' # {}
    <3>1. CASE Preflight
      BY <3>1, ObserveNames DEF Preflight, Fails
    <3> QED
      BY <3>1 DEF Next, vars, Platform, MakeRoot, WriteFixture, Connect, Call, Report, Close,
                  RemoveRoot, Fails
  <2> QED
    BY <1>0, <1>2, <2>1, <2>3, <2>4 DEF Asking, observations, Answered
<1>3. CASE Preflight /\ Observe("preexistingHardLinkRefused") /\ at' = "connect"
  <2>1. Observed' /\ DOMAIN seen' = {"preexistingHardLinkRefused"}
    BY <1>0, <1>3, ObserveAdds DEF Asking, Preflight
  <2>2. "preexistingHardLinkRefused" \notin Range(Script)
    BY ScriptIs DEF BrokerScript, HostScript, Known
  <2>3. Answered' = {} /\ Answered = {}
    BY <1>1, <1>3, <2>1, <2>2 DEF Answered, Asking, Preflight
  <2>4. InOrder'
    BY <1>1, <2>3 DEF Asking, InOrder
  <2> QED
    BY <1>3, <2>1, <2>3, <2>4 DEF Asking
<1>4. CASE Call /\ Asked < Len(Script) /\ Observe(Script[Asked + 1])
  <2> DEFINE n == Script[Asked + 1]
  <2>1. n \in Range(Script) /\ n \notin DOMAIN seen
    BY <1>4, NextName DEF Asking
  <2>2. Observed' /\ DOMAIN seen' = DOMAIN seen \cup {n}
    BY <1>0, <1>4, <2>1, ObserveAdds DEF Asking
  <2>3. Answered' = Answered \cup {n}
    BY <1>1, <2>1, <2>2 DEF Answered
  <2>4. InOrder'
    <3>1. \A S : S = Answered \cup {n} =>
            \E k \in 0 .. Len(Script) : S = {Script[i] : i \in 1 .. k}
                                        /\ Cardinality(S) = k
      BY <1>4, NextName DEF Asking
    <3> HIDE DEF n
    <3> QED
      BY <1>1, <2>3, <3>1 DEF InOrder
  <2>5. at = "script" /\ at' \in {"script", "close"}
    BY <1>4 DEF Call, Fails
  <2> QED
    BY <2>2, <2>4, <2>5 DEF Asking
<1>5. \/ UNCHANGED observations
      \/ Preflight /\ Observe("preexistingHardLinkRefused") /\ at' = "connect"
      \/ Call /\ Asked < Len(Script) /\ Observe(Script[Asked + 1])
  BY DEF Next, vars, observations, Platform, MakeRoot, WriteFixture, Preflight, Connect, Call,
         Report, Close, RemoveRoot, Fails
<1> QED
  BY <1>2, <1>3, <1>4, <1>5

-----------------------------------------------------------------------------
\* A report that passes has checked a script that has been run to its end; one that
\* does not has seen a deviation, or a step has failed.
Ending == {"close", "rm", "done"}
Judged == /\ at \notin Ending => outcome = "none" /\ ~failed
          /\ outcome = "pass" => Ended /\ Checked
          /\ at \in Ending /\ deviated = 0 /\ ~failed => outcome \in {"pass", "unsupported"}

LEMMA ReportJudges ==
  ASSUME Known, Asking, Judged, Report
  PROVE  Judged'
<1>1. /\ at = "script" /\ at' = "close" /\ outcome' = Status /\ Asked = Len(Script)
      /\ UNCHANGED <<suite, observations, failed>>
  BY DEF Report
<1>2. Ended
  <2>1. PICK k \in 0 .. Len(Script) : /\ Answered = {Script[i] : i \in 1 .. k}
                                      /\ Cardinality(Answered) = k
    BY DEF Asking, InOrder
  <2>2. k = Len(Script)
    <3>1. Asked = Cardinality(Answered)
      BY DEF Asked, Answered
    <3> QED
      BY <1>1, <2>1, <3>1
  <2>3. Answered = Range(Script)
    <3>1. DOMAIN Script = 1 .. Len(Script)
      BY ScriptIs
    <3> QED
      BY <2>1, <2>2, <3>1, Zenon DEF Range
  <2> QED
    BY <2>3 DEF Answered, Ended, Asking, Observed
<1>3. Ended' /\ Checked' = Checked
  BY <1>1, <1>2, SuiteStays DEF observations, Ended, Checked, BrokerChecks, HostChecks, AuditOf
<1>4. outcome' = "pass" => Checked
  BY <1>1 DEF Status, Checked
<1>5. deviated = 0 => Checked
  <2> SUFFICES ASSUME deviated = 0 PROVE Checked
    OBVIOUS
  <2>1. InScript /\ Kept /\ Logged
    BY DEF Asking, Observed
  <2> QED
    BY <1>2, <2>1, BrokerKept, HostKept DEF Known, Checked
<1>6. Checked => outcome' = "pass"
  BY <1>1 DEF Status, Checked
<1> QED
  BY <1>1, <1>3, <1>4, <1>5, <1>6 DEF Judged, observations, Ending

LEMMA JudgedNext == Known /\ Asking /\ Judged /\ [Next]_vars => Judged'
<1> SUFFICES ASSUME Known, Asking, Judged, [Next]_vars PROVE Judged'
  OBVIOUS
<1>1. CASE Report
  BY <1>1, ReportJudges
<1>2. CASE ~Report /\ outcome' \notin {"pass", outcome}
  BY <1>2 DEF Next, vars, Platform, MakeRoot, WriteFixture, Preflight, Connect, Call, Close,
              RemoveRoot, Fails, Judged, Ending, observations
<1>3. CASE ~Report /\ outcome' = outcome
  <2>1. CASE at \in Ending
    <3>1. UNCHANGED <<suite, observations>> /\ at' \in Ending /\ (failed' = failed \/ failed')
      BY <1>3, <2>1 DEF Next, vars, Platform, MakeRoot, WriteFixture, Preflight, Connect, Call,
                        Close, RemoveRoot, Ending, observations
    <3>2. Ended' = Ended /\ Checked' = Checked
      BY <3>1, SuiteStays
      DEF observations, Ended, Checked, BrokerChecks, HostChecks, AuditOf
    <3> QED
      BY <1>3, <2>1, <3>1, <3>2 DEF Judged, observations
  <2>2. CASE at \notin Ending
    BY <1>3, <2>2 DEF Next, vars, Platform, MakeRoot, WriteFixture, Preflight, Connect, Call,
                      Close, RemoveRoot, Fails, Judged, Ending
  <2> QED
    BY <2>1, <2>2
<1>4. CASE ~Report /\ outcome' = "pass"
  BY <1>3, <1>4 DEF Next, vars, Platform, MakeRoot, WriteFixture, Preflight, Connect, Call,
                    Close, RemoveRoot, Fails
<1> QED
  BY <1>1, <1>2, <1>3, <1>4

-----------------------------------------------------------------------------
(***************************************************************************)
(* The properties.                                                         *)
(***************************************************************************)
SuiteSound == Known /\ HeldKnown /\ Asking /\ Judged

LEMMA SuiteIsSound == Spec => []SuiteSound
<1>1. Init => SuiteSound
  BY AskingInit DEF Init, SuiteSound, Judged, Ending
<1>2. SuiteSound /\ [Next]_vars => SuiteSound'
  <2>1. Known /\ [Next]_vars => Known'
    BY DEF Known, Next, vars, Platform, MakeRoot, WriteFixture, Preflight, Connect, Call,
           Report, Close, RemoveRoot, Fails
  <2> QED
    BY <2>1, HeldNext, AskingNext, JudgedNext DEF SuiteSound
<1> QED
  BY <1>1, <1>2, PTL DEF Spec

\* A suite passes an installation only if the policy's boundary held in all it has
\* seen, and passes every installation that keeps its promises, however often and in
\* whatever answers and events one deviates.
THEOREM VerdictsAreExact == Spec => []VerdictIsExact
<1>1. SuiteSound => VerdictIsExact
  BY PassMeansBoundary
  DEF SuiteSound, Judged, Ending, Asking, Observed, VerdictIsExact
<1> QED
  BY <1>1, SuiteIsSound, PTL

\* When a run is over, no broker of it runs unless a start failed, in which case no
\* call has been made and no report says "pass"; and the broker suite has reported
\* only after its directory was gone.
THEOREM ReportsComeLast == Spec => []ReportMeansCleaned
<1>1. SuiteSound => ReportMeansCleaned
  <2>1. Answered = {} => Asked = 0
    BY FS_EmptySet DEF Answered, Asked
  <2> QED
    BY <2>1 DEF SuiteSound, HeldKnown, LeftRunning, ReportMeansCleaned
<1> QED
  BY <1>1, SuiteIsSound, PTL
=============================================================================
