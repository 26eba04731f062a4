------------------------------ MODULE Launcher ------------------------------
(***************************************************************************)
(* The isolated launcher, src/isolated-opencode.ts: it checks that one     *)
(* trust root can be denied to the agent, starts the broker of             *)
(* SocketBroker outside the sandbox, runs the agent inside, and cleans up. *)
(* The owner may edit the policy and link files in between.                *)
(*                                                                         *)
(* A path is the sequence of its names, already resolved by realpath.      *)
(***************************************************************************)
EXTENDS SocketBroker

CONSTANTS Names,     \* what paths are made of
          Sites,     \* deployments: the workspace, the policy's and the audit's directory
          Storages,  \* storage roots a policy may name
          Dotted     \* names that begin with ".."

ASSUME LauncherConstants ==
  /\ Sites \subseteq [workspace : Seq(Names), policyDir : Seq(Names), auditDir : Seq(Names)]
  /\ Storages \subseteq Seq(Names) /\ Dotted \subseteq Names

VARIABLES at,        \* where runIsolatedOpenCodeSubject is
          site,      \* the deployment at hand
          storage,   \* the storage root the policy file names now
          linked,    \* whether a registered file has a second hard link now
          read,      \* the storage root of the policy that the launcher read
          trustRoot, \* boundary.trustRoot
          served,    \* the storage root of the policy that the broker read
          directory, \* temporaryRoot: "none", "made" or "removed"
          child,     \* the sandboxed agent: "none", "running" or "gone"
          outcome    \* "none", or the code it ends with

owner == <<site, storage, linked>>
found == <<read, trustRoot, served>>
launch == <<at, owner, found, directory, child, outcome>>
allVars == <<launch, vars>>

Places == {"begin", "policy", "links", "paths", "directory", "starting", "preflight",
           "profile", "spawn", "child", "close", "closing", "remove", "done"}
Outcomes == {"none", "ok", "HOST_ISOLATION_UNAVAILABLE", "HOST_BOUNDARY_INVALID",
             "HOST_PROFILE_FAILED", "OPENCODE_PROFILE_NOT_ISOLATED",
             "OPENCODE_EXIT_FAILED"}

-----------------------------------------------------------------------------
(***************************************************************************)
(* The boundary.                                                           *)
(***************************************************************************)
Within(dir, p) == Len(dir) <= Len(p) /\ dir = SubSeq(p, 1, Len(dir))

\* overlaps: p is dir or below it, as path.relative shows it; a first name that
\* begins with ".." is taken for the way up.
overlaps(dir, p) ==
  /\ Within(dir, p)
  /\ dir # p => p[Len(dir) + 1] \notin Dotted

\* The longest prefix of the first path that overlaps all others, or the root.
commonAncestor_OfTwo(first, second, third) ==     \* mutant: the last path is forgotten
  LET shared == {k \in 0 .. Len(first) : overlaps(SubSeq(first, 1, k), second)}
  IN SubSeq(first, 1, CHOOSE k \in shared \cup {0} : \A j \in shared : j <= k)
commonAncestor(first, second, third) ==
  LET shared == {k \in 0 .. Len(first) :
                   \A p \in {second, third} : overlaps(SubSeq(first, 1, k), p)}
  IN SubSeq(first, 1, CHOOSE k \in shared \cup {0} : \A j \in shared : j <= k)

Apart_OneWay(workspace, trust) == ~overlaps(trust, workspace)   \* mutant
Apart(workspace, trust) ==
  ~overlaps(workspace, trust) /\ ~overlaps(trust, workspace)

-----------------------------------------------------------------------------
LauncherInit ==
  /\ Init /\ path = "none"
  /\ at = "begin"
  /\ site \in Sites /\ storage \in Storages /\ linked \in BOOLEAN
  /\ read = <<>> /\ trustRoot = <<>> /\ served = <<>>
  /\ directory = "none" /\ child = "none" /\ outcome = "none"

\* An error before the directory exists: there is nothing to clean up.
Reject(code) == /\ at' = "done" /\ outcome' = code
                /\ UNCHANGED <<owner, found, directory, child, vars>>

\* An error in the try block: the finally block closes the broker it has.
Abandon_KeepsBroker(code) ==          \* mutant: only the directory is cleaned up
  /\ at' = "remove" /\ outcome' = code
Abandon(code) ==
  /\ at' = IF phase = "up" THEN "close" ELSE "remove"
  /\ outcome' = code

Proceed(place) == at' = place /\ UNCHANGED outcome

\* assertHostMechanism.
CheckHost ==
  /\ at = "begin"
  /\ \/ Reject("HOST_ISOLATION_UNAVAILABLE")
     \/ /\ at' = "policy"
        /\ UNCHANGED <<owner, found, directory, child, outcome, vars>>

\* resolveHostIsolationBoundary: realpath and readFile of the policy, the lstat of
\* its resources, the realpath of the rest.
ReadPolicy ==
  /\ at = "policy"
  /\ \/ Reject("HOST_BOUNDARY_INVALID")
     \/ /\ read' = storage /\ at' = "links"
        /\ UNCHANGED <<owner, trustRoot, served, directory, child, outcome, vars>>

CheckLinks ==
  /\ at = "links"
  /\ \/ linked /\ Reject("HOST_BOUNDARY_INVALID")
     \/ /\ ~linked /\ at' = "paths"
        /\ UNCHANGED <<owner, found, directory, child, outcome, vars>>

ResolveRoot ==
  LET trust == commonAncestor(read, site.policyDir, site.auditDir)
      accepted == trust # <<>> /\ Apart(site.workspace, trust)
  IN /\ at = "paths"
     /\ \/ ~accepted /\ Reject("HOST_BOUNDARY_INVALID")
        \/ /\ accepted /\ trustRoot' = trust /\ at' = "directory"
           /\ UNCHANGED <<owner, read, served, directory, child, outcome, vars>>

\* mkdtemp, and in the try block the two directories below it.
MakeDirectory ==
  /\ at = "directory"
  /\ \/ Reject("HOST_PROFILE_FAILED")
     \/ /\ directory' = "made"
        /\ Proceed("starting") \/ Abandon("HOST_PROFILE_FAILED")
        /\ UNCHANGED <<owner, found, child, vars>>

\* startSocketBroker runs; its create reads the policy file for the second time.
BrokerStarts ==
  /\ at = "starting" /\ StartStep
  /\ served' = IF phase = "create" /\ phase' = "listen" THEN storage ELSE served
  /\ UNCHANGED <<at, owner, read, trustRoot, directory, child, outcome>>

Started_Early == phase \in {"chmod", "up"}    \* mutant: not awaited to its end
Started == phase = "up"

BrokerStarted ==
  /\ at = "starting"
  /\ \/ Started /\ Proceed("preflight")
     \/ phase \in {"failed", "leaked"} /\ Abandon("HOST_PROFILE_FAILED")
  /\ UNCHANGED <<owner, found, directory, child, vars>>

\* The resolved profile is compared before anything is launched.
Preflight ==
  /\ at = "preflight"
  /\ \/ Proceed("profile")
     \/ \E code \in {"HOST_PROFILE_FAILED", "OPENCODE_PROFILE_NOT_ISOLATED"} : Abandon(code)
  /\ UNCHANGED <<owner, found, directory, child, vars>>

WriteProfile ==
  /\ at = "profile"
  /\ Proceed("spawn") \/ Abandon("HOST_PROFILE_FAILED")
  /\ UNCHANGED <<owner, found, directory, child, vars>>

Spawn ==
  /\ at = "spawn"
  /\ \/ Proceed("child") /\ child' = "running"
     \/ Abandon("HOST_PROFILE_FAILED") /\ UNCHANGED child
  /\ UNCHANGED <<owner, found, directory, vars>>

ChildExits ==
  /\ at = "child"
  /\ child' = "gone"
  /\ \/ at' = "close" /\ outcome' = "ok"
     \/ Abandon("OPENCODE_EXIT_FAILED")
  /\ UNCHANGED <<owner, found, directory, vars>>

\* The finally block: brokerHandle.close(), then rm.  A rejection of either takes
\* the place of the result.
BeginClose ==
  /\ at = "close" /\ CloseSessions
  /\ at' = "closing"
  /\ UNCHANGED <<owner, found, directory, child, outcome>>

CloseReturns ==
  /\ at = "closing"
  /\ \/ phase = "closed" /\ Proceed("remove")
     \/ phase = "unclean" /\ at' = "done" /\ outcome' = "HOST_PROFILE_FAILED"
  /\ UNCHANGED <<owner, found, directory, child, vars>>

RemoveDirectory ==
  /\ at = "remove" /\ at' = "done"
  /\ \/ directory' = "removed" /\ path' = "none" /\ UNCHANGED outcome
     \/ outcome' = "HOST_PROFILE_FAILED" /\ UNCHANGED <<directory, path>>
  /\ UNCHANGED <<owner, found, child, phase, private, listening, connections>>

-----------------------------------------------------------------------------
\* The owner edits the policy file, or somebody links a registered file.
EditPolicy ==
  /\ storage' \in Storages \ {storage}
  /\ UNCHANGED <<at, site, linked, found, directory, child, outcome, vars>>

LinkFile ==
  /\ ~linked /\ linked' = TRUE
  /\ UNCHANGED <<at, site, storage, found, directory, child, outcome, vars>>

\* What goes on in the broker meanwhile; the agent starts the relays.
ServeStep ==
  /\ \/ EndStep
     \/ Occupy /\ directory = "made"
     \/ \E c \in Clients : \/ child # "none" /\ (CheckDestination(c) \/ Connect(c))
                           \/ WriteUnit(c) \/ Leave(c) \/ SocketStep(c)
     \/ \E r \in Requests : Answer(r)
  /\ UNCHANGED launch

LaunchStep == \/ CheckHost \/ ReadPolicy \/ CheckLinks \/ ResolveRoot \/ MakeDirectory
              \/ BrokerStarts \/ BrokerStarted \/ Preflight \/ WriteProfile \/ Spawn
              \/ BeginClose \/ CloseReturns \/ RemoveDirectory

LauncherNext == LaunchStep \/ ChildExits \/ ServeStep \/ EditPolicy \/ LinkFile

LauncherSpec == LauncherInit /\ [][LauncherNext]_allVars

\* The launcher and the broker in it go on; the agent need not exit.
LauncherFairSpec ==
  /\ LauncherSpec
  /\ WF_allVars(LaunchStep)
  /\ WF_allVars(EndStep /\ UNCHANGED launch)
  /\ \A c \in Clients : WF_allVars(SocketStep(c) /\ UNCHANGED launch)

-----------------------------------------------------------------------------
\* The variables have their types, and the broker's have theirs.
LauncherTypeOK ==
  /\ TypeOK
  /\ at \in Places
  /\ site \in Sites /\ storage \in Storages /\ linked \in BOOLEAN
  /\ {read, served} \subseteq Storages \cup {<<>>}
  /\ Within(trustRoot, read)
  /\ directory \in {"none", "made", "removed"}
  /\ child \in {"none", "running", "gone"}
  /\ outcome \in Outcomes

\* What the sandbox denies to a running agent covers the policy, the audit file
\* and the storage root the launcher saw.  The broker reads the policy again, and
\* the claim for its storage root needs that nobody edited it in between.
TrustRootCovers ==
  child = "running" =>
    /\ \A p \in {site.policyDir, site.auditDir, read} : Within(trustRoot, p)
    /\ served = read => Within(trustRoot, served)
    /\ trustRoot # <<>>

\* The agent's workspace and what is denied to it are apart, in both directions.
\* A name that begins with ".." is the exception (WorkspaceOutside).
HasDotted(p) == \E i \in DOMAIN p : p[i] \in Dotted
WorkspaceApart ==
  child = "running" =>
    \/ HasDotted(site.workspace) \/ HasDotted(trustRoot)
    \/ ~Within(trustRoot, site.workspace) /\ ~Within(site.workspace, trustRoot)

\* ADR-027 as it stands, DECISIONS.md:381-382: one dedicated trust root that does
\* not contain the agent workspace.
WorkspaceOutside == child = "running" => ~Within(trustRoot, site.workspace)

\* A relay of a running agent is never turned away: the agent runs only while the
\* broker is fully up.
RelaysAreServed == child = "running" => \A c \in Relays : conn[c] # "refused"

\* When the launcher is done, whichever step failed, no agent runs, no broker
\* listens unless its own start failed half way, and a directory that was left
\* behind is reported by an error.
DoneIsClean ==
  at = "done" => /\ child # "running"
                 /\ listening => phase = "leaked"
                 /\ directory = "made" => outcome # "ok"
                 /\ outcome = "ok" => phase = "closed" /\ Alive = {} /\ child = "gone"

\* Once the agent is gone or its launch has failed the launcher ends, unless a
\* relay that connected while the broker was closing stays connected.
LaunchEnds ==
  at \in {"close", "closing", "remove"} ~> (at = "done" \/ Late \ left # {})
=============================================================================
