----------------------------- MODULE Conformance -----------------------------
(***************************************************************************)
(* src/conformance.ts and src/host-conformance.ts: the two programs that   *)
(* judge an installation, and src/mcp-server.ts, through which they ask.   *)
(* Both set up a fixture, start one broker for each subject, make their    *)
(* calls in a fixed order, read the audit, draw up a report and clean up.  *)
(* The host suite's calls are made by a probe inside the sandbox.          *)
(*                                                                         *)
(* Any step may fail.  What is judged, broker or sandbox, answers as it    *)
(* promises or deviates: another answer, another, a second or no event.    *)
(***************************************************************************)
EXTENDS Policy

CONSTANT MaxDeviations   \* bound: how often one run's subjects deviate

VARIABLES suite,     \* which program runs: "broker" or "host"
          at,        \* where it is parked
          seen,      \* the answers so far, by the name the code gives them
          logs,      \* the audit events of each subject's broker
          root,      \* whether the temporary directory exists
          started,   \* the brokers that run
          held,      \* the connections, or the handle, the finally clause closes
          outcome,   \* the report's status, or "rejected": no report
          deviated,  \* history: how often an answer or an event deviated
          failed     \* history: a step of the suite failed

vars == <<suite, at, seen, logs, root, started, held, outcome, deviated, failed>>

Finance == "finance-transactions"
Support == "support-tickets"
TheSubjects == {"parent", "finance-agent", "support-agent"}
TheResources == {Finance, Support}
ASSUME FixtureNames == Subjects = TheSubjects /\ Resources = TheResources

Brokers == IF suite = "broker" THEN <<"parent", "finance-agent", "support-agent">>
           ELSE <<"finance-agent">>

\* The policy of the fixture: the parent may read both, each agent its own.
Permits(s, r) == [subject |-> s, resource |-> r, decision |-> "allow"]
Forbids(s, r) == [subject |-> s, resource |-> r, decision |-> "deny"]
HostRules == <<Permits("finance-agent", Finance), Forbids("finance-agent", Support)>>
Fixture ==
  [subjects |-> Brokers, resources |-> TheResources,
   rules |-> IF suite = "host" THEN HostRules
             ELSE <<Permits("parent", Finance), Permits("parent", Support)>>
                    \o HostRules
                    \o <<Forbids("support-agent", Finance),
                         Permits("support-agent", Support)>>]

-----------------------------------------------------------------------------
(***************************************************************************)
(* The calls.  A call names its connection; "as" is who it claims to be in *)
(* fields of its own.  Whatever the tool is, "refused" is what a direct    *)
(* attempt of the probe must come to.                                      *)
(***************************************************************************)
List(s) == [tool |-> "list", by |-> s, resource |-> "none", as |-> s]
Read(s, r) == [tool |-> "read", by |-> s, resource |-> r, as |-> s]
Direct == [tool |-> "direct", by |-> "probe", resource |-> "none", as |-> "probe"]

Calls ==
  [parentList |-> List("parent"), financeList |-> List("finance-agent"),
   supportList |-> List("support-agent"),
   parentFinance |-> Read("parent", Finance), parentSupport |-> Read("parent", Support),
   financeAllowed |-> Read("finance-agent", Finance),
   financeDenied |-> Read("finance-agent", Support),
   financeSpoofDenied |-> [Read("finance-agent", Support) EXCEPT !.as = "support-agent"],
   supportAllowed |-> Read("support-agent", Support),
   supportDenied |-> Read("support-agent", Finance),
   preexistingHardLinkRefused |-> Direct, directResourceRead |-> Direct,
   symlinkAliasRead |-> Direct, policyRead |-> Direct, auditRead |-> Direct,
   authorized |-> Read("finance-agent", Finance),
   unauthorized |-> Read("finance-agent", Support),
   assignedSocketRemoval |-> Direct, protectedHardLinkCreation |-> Direct]

Script ==
  IF suite = "broker"
  THEN <<"parentList", "financeList", "supportList", "parentFinance", "parentSupport",
         "financeAllowed", "financeDenied", "financeSpoofDenied", "supportAllowed",
         "supportDenied">>
  ELSE <<"directResourceRead", "symlinkAliasRead", "policyRead", "auditRead",
         "authorized", "unauthorized", "assignedSocketRemoval",
         "protectedHardLinkCreation">>

\* createMcpServer: every tool asks the one broker of the connection, and takes
\* nothing but the resource's identifier from the arguments.
Asker(call) == call.by

Decided(s, r) == Evaluate(Fixture, TRUE, s, r, ACTION_READ)
Answer(d, r, content) ==
  [decision |-> d.decision, reason |-> d.reason, resource |-> r, content |-> content]
ReadAnswer(s, r) ==
  Answer(Decided(s, r), r, IF Decided(s, r).decision = "allow" THEN r ELSE "none")
Promised(call) ==
  CASE call.tool = "direct" -> "refused"
    [] call.tool = "list" ->
         {r \in TheResources : Decided(Asker(call), r).decision = "allow"}
    [] call.tool = "read" -> ReadAnswer(Asker(call), call.resource)

\* What a broker or a sandbox that deviates may answer instead.
Deviant(call) ==
  CASE call.tool = "direct" -> {"allowed", "anotherError"}
    [] call.tool = "list" -> SUBSET TheResources \ {Promised(call)}
    [] call.tool = "read" ->
         {Answer(d, call.resource, c) :
            d \in {Decision("allow", "ALLOWED"), Decision("deny", "ACCESS_DENIED"),
                   Decision("error", "RESOURCE_CHANGED")},
            c \in TheResources \cup {"none"}} \ {Promised(call)}

AuditEvent(s, decision) == [subject |-> s, decision |-> decision, secret |-> FALSE]
Events(call) ==
  IF call.tool # "read" THEN <<>>
  ELSE <<AuditEvent(Asker(call), Decided(Asker(call), call.resource).decision)>>
DeviantEvents(call) ==
  IF call.tool # "read" THEN {}
  ELSE LET event == Events(call)[1]
       IN {<<>>, <<event, event>>, <<[event EXCEPT !.secret = TRUE]>>,
           <<[event EXCEPT !.decision = "error"]>>}
            \cup {<<[event EXCEPT !.subject = s]>> : s \in TheSubjects \ {event.subject}}

-----------------------------------------------------------------------------
(***************************************************************************)
(* The checks of the reports.                                              *)
(***************************************************************************)
IsDecision_AnyContent(answer, decision, r, content) ==      \* mutant
  answer.decision = decision /\ answer.resource = r
IsDecision(answer, decision, r, content) ==
  answer = Answer([decision |-> decision,
                   reason |-> IF decision = "allow" THEN "ALLOWED" ELSE "ACCESS_DENIED"],
                  r, content)

AuditOf(s, count) == /\ Len(logs[s]) = count
                     /\ \A e \in Range(logs[s]) : e.subject = s /\ ~e.secret

BrokerChecks ==
  /\ seen.parentList = {Finance, Support}          \* parent_authority_control
  /\ IsDecision(seen.parentFinance, "allow", Finance, Finance)
  /\ IsDecision(seen.parentSupport, "allow", Support, Support)
  /\ seen.financeList = {Finance}                  \* authorized_resource_listing,
  /\ seen.supportList = {Support}                  \* unauthorized_resource_hidden
  /\ IsDecision(seen.financeDenied, "deny", Support, "none")
  /\ IsDecision(seen.supportDenied, "deny", Finance, "none")
  /\ IsDecision(seen.financeSpoofDenied, "deny", Support, "none")
  /\ IsDecision(seen.financeAllowed, "allow", Finance, Finance)
  /\ IsDecision(seen.supportAllowed, "allow", Support, Support)
  /\ AuditOf("parent", 2) /\ AuditOf("finance-agent", 3) /\ AuditOf("support-agent", 2)
  /\ \A e \in Range(logs["parent"]) : e.decision = "allow"

HostChecks ==
  /\ \A n \in DOMAIN seen : Calls[n].tool = "direct" => seen[n] = "refused"
  /\ seen.authorized.content = Finance             \* compared as hashes
  /\ seen.unauthorized.decision = "deny" /\ seen.unauthorized.content = "none"
  /\ LET events == Range(logs["finance-agent"])
     IN /\ \E e \in events : e.subject = "finance-agent"
        /\ {"allow", "deny"} \subseteq {e.decision : e \in events}
        /\ \A e \in events : ~e.secret

Status == IF IF suite = "broker" THEN BrokerChecks ELSE HostChecks THEN "pass" ELSE "fail"

-----------------------------------------------------------------------------
(***************************************************************************)
(* The run of a suite.                                                     *)
(***************************************************************************)
Init == /\ suite \in {"broker", "host"}
        /\ at = "platform" /\ outcome = "none"
        /\ seen = [n \in {} |-> "refused"] /\ logs = [s \in TheSubjects |-> <<>>]
        /\ root = FALSE /\ started = {} /\ held = {}
        /\ deviated = 0 /\ failed = FALSE

observations == <<seen, logs, deviated>>
resources == <<root, started, held>>

\* The catch clause: what is left is the clean-up.
Fails == /\ at' = "close" /\ outcome' = "fail" /\ failed' = TRUE
         /\ UNCHANGED <<suite, observations, resources>>

Platform == /\ at = "platform"
            /\ \/ at' = "mkdtemp" /\ UNCHANGED outcome
               \/ at' = "done" /\ outcome' = "unsupported"
            /\ UNCHANGED <<suite, observations, resources, failed>>

\* mkdtemp is outside the try: there is no report if it fails.
MakeRoot ==
  /\ at = "mkdtemp"
  /\ \/ at' = "fixture" /\ root' = TRUE /\ UNCHANGED <<outcome, failed>>
     \/ at' = "done" /\ outcome' = "rejected" /\ failed' = TRUE /\ UNCHANGED root
  /\ UNCHANGED <<suite, observations, started, held>>

WriteFixture ==
  /\ at = "fixture"
  /\ \/ /\ at' = IF suite = "host" THEN "preflight" ELSE "connect"
        /\ UNCHANGED <<suite, observations, resources, outcome, failed>>
     \/ Fails

\* One call and its answer, and the events the broker appends for it.
Observe(n) ==
  LET call == Calls[n]
      Sees(answer) == seen' = [m \in DOMAIN seen \cup {n} |->
                                 IF m = n THEN answer ELSE seen[m]]
      Logs(events) == logs' = IF call.tool # "read" THEN logs
                              ELSE [logs EXCEPT ![call.by] = @ \o events]
  IN \/ Sees(Promised(call)) /\ Logs(Events(call)) /\ UNCHANGED deviated
     \/ /\ deviated < MaxDeviations /\ deviated' = deviated + 1
        /\ \/ \E answer \in Deviant(call) : Sees(answer) /\ Logs(Events(call))
           \/ \E events \in DeviantEvents(call) : Sees(Promised(call)) /\ Logs(events)

\* The host suite's hard link, which the boundary check must refuse.
Preflight ==
  /\ at = "preflight"
  /\ \/ /\ Observe("preexistingHardLinkRefused") /\ at' = "connect"
        /\ UNCHANGED <<suite, resources, outcome, failed>>
     \/ Fails

\* connections.push comes after the third connection, brokerHandle when its
\* start has ended.
Held(brokers) == IF brokers = Range(Brokers) THEN brokers ELSE {}

\* A broker starts, or does not: a client that cannot connect closes both ends
\* of its transport.  The host suite's broker listens on a socket before the
\* socket's mode is set: if that fails the start has failed, there is no handle,
\* and the broker runs on.
Connect ==
  /\ at = "connect"
  /\ \/ LET s == Brokers[Cardinality(started) + 1]
        IN /\ started' = started \cup {s} /\ held' = Held(started')
           /\ at' = IF started' = Range(Brokers) THEN "script" ELSE "connect"
           /\ UNCHANGED <<suite, observations, root, outcome, failed>>
     \/ Fails
     \/ /\ suite = "host" /\ started' = Range(Brokers)
        /\ at' = "close" /\ outcome' = "fail" /\ failed' = TRUE
        /\ UNCHANGED <<suite, observations, root, held>>

Asked == Cardinality(DOMAIN seen \cap Range(Script))

Call ==
  /\ at = "script"
  /\ \/ /\ Asked < Len(Script)
        /\ Observe(Script[Asked + 1])
        /\ UNCHANGED <<suite, at, resources, outcome, failed>>
     \/ Fails

\* The audit is read, and every check is made on what has been seen.
Report == /\ at = "script" /\ Asked = Len(Script)
          /\ at' = "close" /\ outcome' = Status
          /\ UNCHANGED <<suite, observations, resources, failed>>

\* finally: a connection that cannot be closed is passed over.
Closed_Forgotten == held' = {} /\ UNCHANGED started      \* mutant: nothing is closed
Closed == held' = {} /\ started' = started \ held
Close == /\ at = "close"
         /\ Closed /\ at' = "rm"
         /\ UNCHANGED <<suite, observations, root, outcome, failed>>

\* Only the broker suite gives up its report when the directory cannot go.
RemoveRoot ==
  /\ at = "rm" /\ at' = "done"
  /\ \/ root' = FALSE /\ UNCHANGED <<outcome, failed>>
     \/ /\ failed' = TRUE /\ UNCHANGED root
        /\ outcome' = IF suite = "broker" THEN "rejected" ELSE outcome
  /\ UNCHANGED <<suite, observations, started, held>>

Next == \/ Platform \/ MakeRoot \/ WriteFixture \/ Preflight \/ Connect
        \/ Call \/ Report \/ Close \/ RemoveRoot

Spec == Init /\ [][Next]_vars

-----------------------------------------------------------------------------
\* What a subject has got out of its broker, or past it.
Obtained(s) == {seen[n].content : n \in {m \in DOMAIN seen : /\ Calls[m].tool = "read"
                                                             /\ Calls[m].by = s}}
                 \ {"none"}
Reads(s) == {n \in DOMAIN seen : Calls[n].tool = "read" /\ Calls[n].by = s}

\* The boundary the suites are there to establish, in the policy's own terms.
BoundaryHeld ==
  \A s \in Range(Brokers) :
    /\ Obtained(s) = {r \in TheResources : Granted(Fixture, s, r)}
    /\ \A n \in DOMAIN seen :
         /\ Calls[n].tool = "direct" => seen[n] = "refused"
         /\ Calls[n].tool = "list" /\ Calls[n].by = s => seen[n] = Obtained(s)
    /\ suite = "broker" => Len(logs[s]) = Cardinality(Reads(s))
    /\ \E e \in Range(logs[s]) : e.subject = s
    /\ \A e \in Range(logs[s]) : ~e.secret

\* A suite passes an installation only if the boundary held in all it has seen,
\* and passes every installation that keeps its promises: no check of the
\* reports is missing, and none asks for what the broker does not do.
VerdictIsExact ==
  /\ outcome = "pass" => BoundaryHeld
  /\ at = "done" /\ deviated = 0 /\ ~failed => outcome \in {"pass", "unsupported"}

\* When a run is over, no broker of it runs, unless the start itself failed: at
\* the second or third broker of the broker suite, the first ones run on, and at
\* the mode of the host suite's socket, its broker does.  Then no call has been
\* made and no report says "pass".  With the broker suite's report its directory,
\* which holds the canaries, is gone.
ReportMeansCleaned ==
  at = "done" =>
    /\ started # {} => /\ failed /\ outcome \in {"fail", "rejected"} /\ Asked = 0
                       /\ suite = "broker" => started # Range(Brokers)
    /\ root => suite = "host" \/ outcome = "rejected"
=============================================================================
