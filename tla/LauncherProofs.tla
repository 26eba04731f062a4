--------------------------- MODULE LauncherProofs ---------------------------
(***************************************************************************)
(* Proofs about SocketBroker, for any number of clients, whatever they     *)
(* write and wherever the stream is cut; and then about Launcher, for any  *)
(* paths, deployments and relays.  The broker's own invariants hold inside *)
(* the launcher, whose only step of its own on the broker's variables is   *)
(* to remove the directory with the socket in it.                          *)
(***************************************************************************)
EXTENDS Launcher, TLAPS, WellFoundedInduction

-----------------------------------------------------------------------------
(***************************************************************************)
(* Types.                                                                  *)
(***************************************************************************)
Counters == /\ sent \in [Clients -> Nat] /\ got \in [Clients -> Nat]
            /\ handled \in [Clients -> Nat]

Typed == TypeOK /\ Counters

LEMMA ScriptLengths == \A c \in Clients : Len(Script[c]) \in Nat
  BY SocketConstants

LEMMA TypedInit == Init => Typed
<1> SUFFICES ASSUME Init PROVE Typed
  OBVIOUS
<1>1. ASSUME NEW c \in Clients
      PROVE  /\ sent[c] \in 0 .. 2 * Len(Script[c]) /\ got[c] \in 0 .. sent[c]
             /\ handled[c] \in 0 .. Len(Script[c])
  <2>1. sent[c] = 0 /\ got[c] = 0 /\ handled[c] = 0
    BY DEF Init
  <2> QED
    BY <2>1, ScriptLengths
<1>2. Counters
  BY DEF Init, Counters
<1>3. /\ conn \in [Clients -> Sockets] /\ told \in [Clients -> 0 .. 1]
      /\ phase \in Phases
  BY DEF Init, Sockets, Phases, Starting
<1> QED
  BY <1>1, <1>2, <1>3 DEF Init, Typed, TypeOK

\* The steps of startSocketBroker and of close() that touch no connection.
LEMMA ServerTyped ==
  ASSUME Typed, StartStep \/ EndStep \/ Occupy
  PROVE  Typed' /\ UNCHANGED connections
<1>1. /\ UNCHANGED connections /\ phase' \in Phases
      /\ path' \in {"none", "socket", "other"}
      /\ private' \in BOOLEAN /\ listening' \in BOOLEAN
  BY DEF StartStep, EndStep, CheckAbsent, CreateBroker, Listen, MakePrivate,
         StopListening, RemovePath, Occupy, Typed, TypeOK, Phases, Starting
<1> QED
  BY <1>1 DEF connections, streams, requests, Typed, TypeOK, Counters

LEMMA NotifyTyped ==
  ASSUME Typed, NEW c \in Clients, NotifyClosed(c)
  PROVE  told' \in [Clients -> 0 .. 1] /\ sessions' \subseteq sessions
  BY DEF NotifyClosed, Typed, TypeOK

LEMMA TypedNext == Typed /\ [Next]_vars => Typed'
<1> SUFFICES ASSUME Typed, [Next]_vars PROVE Typed'
  OBVIOUS
<1> USE DEF Typed, TypeOK, Counters
<1>1. CASE UNCHANGED vars
  BY <1>1 DEF vars, start, streams, requests
<1>2. CASE StartStep \/ EndStep \/ Occupy
  BY <1>2, ServerTyped
<1>3. CASE CloseSessions
  BY <1>3 DEF CloseSessions, Destroyed, streams, requests, Phases, Sockets
<1>4. ASSUME NEW c \in Clients, CheckDestination(c) \/ Connect(c) \/ Leave(c) \/ Reset(c)
      PROVE  Typed'
  BY <1>4 DEF CheckDestination, Connect, AddSession, Leave, Reset, start, streams,
              requests, Sockets
<1>5. ASSUME NEW c \in Clients, WriteUnit(c) PROVE Typed'
  <2>1. /\ sent' = [sent EXCEPT ![c] = sent[c] + 1] /\ sent[c] < 2 * Len(Script[c])
        /\ UNCHANGED <<start, sessions, awaiting, conn, left, got, handled, requests, told>>
    BY <1>5 DEF WriteUnit
  <2>2. sent' \in [Clients -> Nat]
    BY <2>1
  <2>3. \A d \in Clients : sent'[d] \in 0 .. 2 * Len(Script[d]) /\ got[d] \in 0 .. sent'[d]
    BY <2>1, ScriptLengths
  <2> QED
    BY <2>1, <2>2, <2>3 DEF start, requests
<1>6. ASSUME NEW c \in Clients, Data(c) PROVE Typed'
  <2>1. PICK n \in got[c] + 1 .. sent[c] :
          /\ got' = [got EXCEPT ![c] = n]
          /\ handled' = [handled EXCEPT ![c] = n \div 2]
          /\ running' = running \cup
               {r \in Requests : r[1] = c /\ handled[c] < r[2] /\ r[2] <= handled'[c]}
          /\ UNCHANGED <<start, sessions, awaiting, conn, left, sent, answered, told>>
    BY <1>6 DEF Data, TakenUpTo
  <2>2. n \in Nat /\ n <= sent[c] /\ sent[c] <= 2 * Len(Script[c])
    BY <2>1
  <2>3. n \div 2 \in 0 .. Len(Script[c])
    BY <2>2, ScriptLengths
  <2>4. got' \in [Clients -> Nat] /\ handled' \in [Clients -> Nat]
    BY <2>1, <2>2, <2>3, ScriptLengths
  <2>5. \A d \in Clients : got'[d] \in 0 .. sent[d] /\ handled'[d] \in 0 .. Len(Script[d])
    BY <2>1, <2>2, <2>3
  <2>6. running' \subseteq Requests
    BY <2>1
  <2> QED
    BY <2>1, <2>4, <2>5, <2>6 DEF start
<1>7. ASSUME NEW c \in Clients, SocketCloses(c) \/ SessionClosed(c) PROVE Typed'
  <2>1. told' \in [Clients -> 0 .. 1] /\ sessions' \subseteq sessions
    BY <1>7, NotifyTyped DEF SocketCloses, SessionClosed
  <2> QED
    BY <1>7, <2>1 DEF SocketCloses, SessionClosed, start, streams, requests, Sockets
<1>8. ASSUME NEW r \in Requests, Answer(r) PROVE Typed'
  BY <1>8 DEF Answer, start, streams
<1> QED
  BY <1>1, <1>2, <1>3, <1>4, <1>5, <1>6, <1>7, <1>8 DEF Next, SocketStep

\* Type correctness; in particular onclose is called at most once per transport,
\* although both the socket's event and transport.close() notify.
THEOREM TypeCorrect == Spec => []TypeOK
<1>1. Typed => TypeOK
  BY DEF Typed
<1> QED
  BY <1>1, TypedInit, TypedNext, PTL DEF Spec

-----------------------------------------------------------------------------
(***************************************************************************)
(* Sessions.  A transport that has notified is no session any more, and    *)
(* its socket is gone; hence no connection can lose its session before.    *)
(***************************************************************************)
ToldIsGone == \A c \in Clients :
                told[c] # 0 => conn[c] \in {"destroyed", "closed"} /\ c \notin sessions

Matched == SessionsAreConnections /\ ToldIsGone

LEMMA MatchedInit == Init => Matched
  BY DEF Init, Matched, SessionsAreConnections, ToldIsGone

LEMMA MatchedNext == Typed /\ Matched /\ [Next]_vars => Matched'
<1> SUFFICES ASSUME Typed, Matched, [Next]_vars PROVE Matched'
  OBVIOUS
<1> USE DEF Typed, TypeOK, Matched, SessionsAreConnections, ToldIsGone
<1>1. CASE UNCHANGED <<sessions, conn, told>>
  BY <1>1
<1>2. CASE StartStep \/ EndStep \/ Occupy
  BY <1>1, <1>2, ServerTyped DEF connections
<1>3. CASE CloseSessions
  BY <1>3 DEF CloseSessions, Destroyed
<1>4. ASSUME NEW c \in Clients, CheckDestination(c) \/ Connect(c) PROVE Matched'
  BY <1>4 DEF CheckDestination, Connect, ReadyToConnect, AddSession
<1>5. ASSUME NEW c \in Clients, WriteUnit(c) \/ Leave(c) \/ Data(c) PROVE Matched'
  BY <1>1, <1>5 DEF WriteUnit, Leave, Data
<1>6. ASSUME NEW c \in Clients, Reset(c) PROVE Matched'
  BY <1>6 DEF Reset
<1>7. ASSUME NEW c \in Clients, SocketCloses(c) PROVE Matched'
  BY <1>7 DEF SocketCloses, NotifyClosed
<1>8. ASSUME NEW c \in Clients, SessionClosed(c) PROVE Matched'
  BY <1>8 DEF SessionClosed, NotifyClosed
<1>9. ASSUME NEW r \in Requests, Answer(r) PROVE Matched'
  BY <1>1, <1>9 DEF Answer
<1> QED
  BY <1>1, <1>2, <1>3, <1>4, <1>5, <1>6, <1>7, <1>8, <1>9 DEF Next, SocketStep, vars

\* Every connection that can still speak is in the set of sessions, and no session
\* outlives its socket, however connects, resets and the broker's close() fall.
THEOREM SessionsMatch == Spec => []SessionsAreConnections
<1> DEFINE IInv == Typed /\ Matched
<1>1. Init => IInv
  BY TypedInit, MatchedInit
<1>2. IInv /\ [Next]_vars => IInv'
  BY TypedNext, MatchedNext
<1>3. IInv => SessionsAreConnections
  BY DEF Matched
<1> QED
  BY <1>1, <1>2, <1>3, PTL DEF Spec

-----------------------------------------------------------------------------
(***************************************************************************)
(* After close().  Once the server has stopped listening the connections   *)
(* only become fewer, and its callback comes when there are none.          *)
(***************************************************************************)
Quiet == /\ phase \in {"stopping", "closed", "unclean"} => ~listening
         /\ phase = "closed" => Alive = {} /\ path # "socket"

LEMMA QuietNext == Typed /\ Quiet /\ [Next]_vars => Quiet'
<1> SUFFICES ASSUME Typed, Quiet, [Next]_vars PROVE Quiet'
  OBVIOUS
<1> USE DEF Quiet, Alive
<1>1. CASE UNCHANGED <<start, conn>>
  BY <1>1 DEF start
<1>2. CASE StartStep \/ EndStep \/ Occupy
  BY <1>2
  DEF StartStep, EndStep, CheckAbsent, CreateBroker, Listen, MakePrivate, StopListening,
      RemovePath, ServerClosed, Occupy, connections
<1>3. CASE CloseSessions
  BY <1>3 DEF CloseSessions
<1>4. ASSUME NEW c \in Clients,
             \/ CheckDestination(c) \/ Connect(c) \/ Reset(c) \/ SocketCloses(c)
      PROVE  Quiet'
  BY <1>4 DEF CheckDestination, Connect, Reset, SocketCloses, start, Typed, TypeOK
<1>5. ASSUME NEW c \in Clients,
             WriteUnit(c) \/ Leave(c) \/ Data(c) \/ SessionClosed(c)
      PROVE  Quiet'
  BY <1>1, <1>5 DEF WriteUnit, Leave, Data, SessionClosed
<1>6. ASSUME NEW r \in Requests, Answer(r) PROVE Quiet'
  BY <1>1, <1>6 DEF Answer
<1> QED
  BY <1>1, <1>2, <1>3, <1>4, <1>5, <1>6 DEF Next, SocketStep, vars

\* When close() has returned, nothing of the broker is left: it does not listen, no
\* session is open, and no socket is left that anybody could be told something on.
THEOREM ClosedForGood == Spec => []ClosedIsQuiet
<1> DEFINE IInv == Typed /\ Matched /\ Quiet
<1>1. Init => IInv
  BY TypedInit, MatchedInit DEF Init, Quiet
<1>2. IInv /\ [Next]_vars => IInv'
  BY TypedNext, MatchedNext, QuietNext
<1>3. IInv => ClosedIsQuiet
  BY DEF Matched, SessionsAreConnections, Quiet, Alive, ClosedIsQuiet, Typed, TypeOK
<1> QED
  BY <1>1, <1>2, <1>3, PTL DEF Spec

-----------------------------------------------------------------------------
(***************************************************************************)
(* Paths.  commonAncestor takes the longest of its candidates, and there   *)
(* is one: a bounded set of numbers has a greatest member.                 *)
(***************************************************************************)
LEMMA HasLeast ==
  ASSUME NEW S, S \subseteq Nat, S # {}
  PROVE  \E k \in S : \A j \in S : k <= j
<1> DEFINE R == {ss \in Nat \X Nat : ss[1] < ss[2]}
<1>1. IsWellFoundedOn(R, Nat)
  BY NatLessThanWellFounded DEF OpToRel
<1>2. ASSUME NEW j \in Nat, NEW k \in Nat, <<j, k>> \notin R PROVE k <= j
  BY <1>2
<1> HIDE DEF R
<1>3. PICK k \in S : \A j \in S : <<j, k>> \notin R
  BY <1>1, WFMin
<1> QED
  BY <1>2, <1>3

LEMMA HasGreatest ==
  ASSUME NEW n \in Nat, NEW S, S \subseteq 0 .. n, S # {}
  PROVE  \E k \in S : \A j \in S : j <= k
<1> DEFINE T == {n - k : k \in S}
<1>1. T \subseteq Nat
  OBVIOUS
<1>2. T # {}
  OBVIOUS
<1>3. PICK m \in T : \A j \in T : m <= j
  <2> HIDE DEF T
  <2> QED
    BY <1>1, <1>2, HasLeast
<1>4. PICK k \in S : m = n - k
  OBVIOUS
<1>5. \A j \in S : n - j \in T
  OBVIOUS
<1>6. \A j \in S : j <= k
  BY <1>3, <1>4, <1>5
<1> QED
  BY <1>6

LEMMA PrefixFacts ==
  ASSUME NEW p \in Seq(Names), NEW k \in 0 .. Len(p)
  PROVE  /\ SubSeq(p, 1, k) \in Seq(Names) /\ Len(SubSeq(p, 1, k)) = k
         /\ Within(SubSeq(p, 1, k), p)
         /\ k = 0 => SubSeq(p, 1, k) = <<>>
<1>1. SubSeq(p, 1, k) \in Seq(Names) /\ Len(SubSeq(p, 1, k)) = k
  OBVIOUS
<1>2. k = 0 => SubSeq(p, 1, k) = <<>>
  BY <1>1
<1> QED
  BY <1>1, <1>2 DEF Within

\* What commonAncestor returns is a directory above the first path and, unless it
\* is the root, above the others.
LEMMA AncestorCovers ==
  ASSUME NEW first \in Seq(Names), NEW second, NEW third
  PROVE  LET dir == commonAncestor(first, second, third)
         IN /\ dir \in Seq(Names) /\ Within(dir, first)
            /\ dir # <<>> => Within(dir, second) /\ Within(dir, third)
<1> DEFINE shared == {k \in 0 .. Len(first) :
                        \A p \in {second, third} : overlaps(SubSeq(first, 1, k), p)}
           longest == CHOOSE k \in shared \cup {0} : \A j \in shared : j <= k
<1>1. Len(first) \in Nat /\ shared \subseteq 0 .. Len(first)
  OBVIOUS
<1>2. \E k \in shared \cup {0} : \A j \in shared : j <= k
  <2>1. CASE shared = {}
    BY <2>1
  <2>2. CASE shared # {}
    <3> HIDE DEF shared
    <3>1. PICK k \in shared : \A j \in shared : j <= k
      BY <1>1, <2>2, HasGreatest
    <3> QED
      BY <3>1
  <2> QED
    BY <2>1, <2>2
<1>3. longest \in shared \cup {0}
  BY <1>2
<1>4. longest \in 0 .. Len(first)
  <2> HIDE DEF longest, shared
  <2> QED
    BY <1>1, <1>3
<1>5. commonAncestor(first, second, third) = SubSeq(first, 1, longest)
  BY DEF commonAncestor
<1>6. longest # 0 => /\ Within(SubSeq(first, 1, longest), second)
                     /\ Within(SubSeq(first, 1, longest), third)
  BY <1>3 DEF overlaps
<1> HIDE DEF longest, shared
<1> QED
  BY <1>4, <1>5, <1>6, PrefixFacts

\* overlaps misses no path below a directory but for a name that begins with dots.
LEMMA OverlapsButDotted ==
  ASSUME NEW dir \in Seq(Names), NEW p \in Seq(Names), Within(dir, p), ~overlaps(dir, p)
  PROVE  HasDotted(p)
<1>1. dir # p /\ p[Len(dir) + 1] \in Dotted
  BY DEF overlaps
<1>2. Len(dir) # Len(p)
  <2>1. SubSeq(p, 1, Len(p)) = p
    OBVIOUS
  <2> QED
    BY <1>1, <2>1 DEF Within
<1>3. Len(dir) + 1 \in DOMAIN p
  BY <1>2 DEF Within
<1> QED
  BY <1>1, <1>3 DEF HasDotted

-----------------------------------------------------------------------------
(***************************************************************************)
(* The broker inside.                                                      *)
(***************************************************************************)
\* The launcher's rm takes the socket's path and leaves the rest as it is.
RemovesPath == /\ at = "remove" /\ path' \in {"none", path}
               /\ UNCHANGED <<phase, private, listening, connections>>

LEMMA BrokerSteps ==
  ASSUME [LauncherNext]_allVars
  PROVE  [Next]_vars \/ RemovesPath
<1>1. CASE UNCHANGED allVars
  BY <1>1 DEF allVars
<1>2. CASE LaunchStep
  BY <1>2
  DEF LaunchStep, CheckHost, ReadPolicy, CheckLinks, ResolveRoot, MakeDirectory,
      BrokerStarts, BrokerStarted, Preflight, WriteProfile, Spawn, BeginClose,
      CloseReturns, RemoveDirectory, Reject, Next, RemovesPath
<1>3. CASE ChildExits \/ EditPolicy \/ LinkFile
  BY <1>3 DEF ChildExits, EditPolicy, LinkFile
<1>4. CASE ServeStep
  BY <1>4 DEF ServeStep, Next
<1> QED
  BY <1>1, <1>2, <1>3, <1>4 DEF LauncherNext

BrokerSound == Typed /\ Matched /\ Quiet

LEMMA BrokerSoundInit == LauncherInit => BrokerSound
  BY TypedInit, MatchedInit DEF LauncherInit, Init, Quiet, BrokerSound

LEMMA BrokerSoundNext == BrokerSound /\ [LauncherNext]_allVars => BrokerSound'
<1> SUFFICES ASSUME BrokerSound, [LauncherNext]_allVars PROVE BrokerSound'
  OBVIOUS
<1>1. CASE [Next]_vars
  BY <1>1, TypedNext, MatchedNext, QuietNext DEF BrokerSound
<1>2. CASE RemovesPath
  BY <1>2
  DEF RemovesPath, connections, streams, requests, BrokerSound, Typed, TypeOK, Counters,
      Matched, SessionsAreConnections, ToldIsGone, Quiet, Alive
<1> QED
  BY <1>1, <1>2, BrokerSteps

\* Where start and close are, as far as the launcher depends on it: who reaches the
\* socket while the broker is up finds it there, private and with a listener.
Reachable == /\ phase \in {"chmod", "up", "ending"} => path = "socket" /\ listening
             /\ phase = "up" => private
             /\ listening => phase \in {"chmod", "up", "ending", "leaked"}

\* The points of the try block at which the broker is up, and those after it.
Attended == {"preflight", "profile", "spawn", "child", "close"}
Finished == {"start", "failed", "leaked", "closed", "unclean"}

\* What the launcher's control point says of the broker.
PhaseKnown ==
  /\ at \in {"begin", "policy", "links", "paths", "directory"} => phase = "start"
  /\ at = "starting" => phase \in Starting \cup {"up", "failed", "leaked"}
  /\ at \in Attended => phase = "up"
  /\ at = "closing" => phase \in {"ending", "stopping", "closed", "unclean"}
  /\ at \in {"remove", "done"} => phase \in Finished

\* What it says of the agent, of the result and of the directory.
ChildKnown ==
  /\ child \in {"none", "running", "gone"}
  /\ child = "running" <=> at = "child"
  /\ child = "gone" => at \in {"close", "closing", "remove", "done"}
ResultKnown ==
  /\ at \notin {"close", "closing", "remove", "done"} => outcome = "none"
  /\ outcome = "ok" => /\ child = "gone"
                       /\ at \in {"remove", "done"} => phase = "closed"
  /\ at = "done" /\ directory = "made" => outcome # "ok"

Control == Reachable /\ PhaseKnown /\ ChildKnown /\ ResultKnown

LEMMA ControlInit == LauncherInit => Control
  BY DEF LauncherInit, Init, Control, Reachable, PhaseKnown, ChildKnown, ResultKnown,
         Attended

\* The steps that leave the broker alone.
LEMMA ControlLaunch ==
  ASSUME Control,
         \/ CheckHost \/ ReadPolicy \/ CheckLinks \/ ResolveRoot \/ MakeDirectory
         \/ BrokerStarted \/ Preflight \/ WriteProfile \/ Spawn \/ ChildExits
         \/ CloseReturns \/ EditPolicy \/ LinkFile
  PROVE  Control'
<1>1. Reachable'
  BY DEF CheckHost, ReadPolicy, CheckLinks, ResolveRoot, MakeDirectory, BrokerStarted,
         Preflight, WriteProfile, Spawn, ChildExits, CloseReturns, EditPolicy, LinkFile,
         Reject, vars, start, Control, Reachable
<1>2. PhaseKnown'
  BY DEF CheckHost, ReadPolicy, CheckLinks, ResolveRoot, MakeDirectory, BrokerStarted,
         Preflight, WriteProfile, Spawn, ChildExits, CloseReturns, EditPolicy, LinkFile,
         Reject, Abandon, Proceed, Started, vars, start, Control, PhaseKnown, Starting,
         Attended, Finished
<1>3. ChildKnown'
  BY DEF CheckHost, ReadPolicy, CheckLinks, ResolveRoot, MakeDirectory, BrokerStarted,
         Preflight, WriteProfile, Spawn, ChildExits, CloseReturns, EditPolicy, LinkFile,
         Reject, Abandon, Proceed, Control, ChildKnown
<1>4. ResultKnown'
  BY DEF CheckHost, ReadPolicy, CheckLinks, ResolveRoot, MakeDirectory, BrokerStarted,
         Preflight, WriteProfile, Spawn, ChildExits, CloseReturns, EditPolicy, LinkFile,
         Reject, Abandon, Proceed, Started, vars, start, Control, PhaseKnown, Starting,
         Attended, Finished, ChildKnown, ResultKnown
<1> QED
  BY <1>1, <1>2, <1>3, <1>4 DEF Control

\* The steps of the broker, whoever takes them.
LEMMA ControlBroker ==
  ASSUME Control, BrokerStarts \/ BeginClose \/ RemoveDirectory \/ ServeStep
  PROVE  Control'
<1> USE DEF Control, Reachable, PhaseKnown, ChildKnown, ResultKnown, Starting, Attended,
            Finished
<1>1. CASE BrokerStarts
  BY <1>1 DEF BrokerStarts, StartStep, CheckAbsent, CreateBroker, Listen, Bindable,
              MakePrivate
<1>2. CASE BeginClose
  BY <1>2 DEF BeginClose, CloseSessions
<1>3. CASE RemoveDirectory
  BY <1>3 DEF RemoveDirectory
<1>4. CASE EndStep /\ UNCHANGED launch
  BY <1>4 DEF EndStep, StopListening, RemovePath, launch
<1>5. CASE Occupy /\ UNCHANGED launch
  BY <1>5 DEF Occupy, launch
<1>6. CASE UNCHANGED <<start, launch>>
  BY <1>6 DEF start, launch
<1>7. ASSUME NEW c \in Clients,
             \/ CheckDestination(c) \/ Connect(c) \/ WriteUnit(c) \/ Leave(c)
             \/ SocketStep(c)
      PROVE  UNCHANGED start
  BY <1>7 DEF CheckDestination, Connect, WriteUnit, Leave, SocketStep, Data, SocketCloses,
              SessionClosed
<1>8. ASSUME NEW r \in Requests, Answer(r) PROVE UNCHANGED start
  BY <1>8 DEF Answer
<1> QED
  BY <1>1, <1>2, <1>3, <1>4, <1>5, <1>6, <1>7, <1>8 DEF ServeStep

LEMMA ControlNext == Control /\ [LauncherNext]_allVars => Control'
<1> SUFFICES ASSUME Control, [LauncherNext]_allVars PROVE Control'
  OBVIOUS
<1>1. CASE UNCHANGED allVars
  BY <1>1 DEF allVars, launch, vars, start, Control, Reachable, PhaseKnown, ChildKnown,
              ResultKnown
<1> QED
  BY <1>1, ControlLaunch, ControlBroker DEF LauncherNext, LaunchStep

-----------------------------------------------------------------------------
(***************************************************************************)
(* The boundary.  It is fixed before the directory is made, and neither it *)
(* nor the deployment changes afterwards.                                  *)
(***************************************************************************)
Bounded ==
  /\ site \in Sites /\ storage \in Storages
  /\ read \in Storages \cup {<<>>} /\ served \in Storages \cup {<<>>}
  /\ at \in {"begin", "policy"} => read = <<>>
  /\ \/ trustRoot = <<>>
     \/ trustRoot = commonAncestor(read, site.policyDir, site.auditDir)
  /\ at \in {"begin", "policy", "links", "paths"} => trustRoot = <<>>
  /\ at \in {"directory", "starting"} \cup Attended =>
        trustRoot # <<>> /\ Apart(site.workspace, trustRoot)

LEMMA BoundedInit == LauncherInit => Bounded
  BY DEF LauncherInit, Bounded, Attended

LEMMA BoundedNext == Control /\ Bounded /\ [LauncherNext]_allVars => Bounded'
<1> SUFFICES ASSUME Control, Bounded, [LauncherNext]_allVars PROVE Bounded'
  OBVIOUS
<1> USE DEF Bounded, Attended
<1>1. CASE UNCHANGED launch
  BY <1>1 DEF launch, owner, found
<1>2. CASE ReadPolicy
  BY <1>2 DEF ReadPolicy, Reject, owner, found
<1>3. CASE ResolveRoot
  BY <1>3 DEF ResolveRoot, Reject, owner, found
<1>4. CASE BrokerStarts
  BY <1>4 DEF BrokerStarts, owner
<1>5. CASE \/ CheckHost \/ CheckLinks \/ MakeDirectory \/ BrokerStarted \/ Preflight
           \/ WriteProfile \/ Spawn \/ ChildExits
  BY <1>5 DEF CheckHost, CheckLinks, MakeDirectory, BrokerStarted, Preflight, WriteProfile,
              Spawn, ChildExits, Reject, Abandon, Proceed, Control, PhaseKnown, owner, found
<1>6. CASE BeginClose \/ CloseReturns \/ RemoveDirectory
  BY <1>6 DEF BeginClose, CloseReturns, RemoveDirectory, Proceed, owner, found
<1>7. CASE EditPolicy \/ LinkFile
  BY <1>7 DEF EditPolicy, LinkFile, found
<1> QED
  BY <1>1, <1>2, <1>3, <1>4, <1>5, <1>6, <1>7
  DEF LauncherNext, LaunchStep, ServeStep, allVars

LEMMA TrustRootIsPath ==
  ASSUME Bounded
  PROVE  /\ trustRoot \in Seq(Names) /\ Within(trustRoot, read)
         /\ trustRoot # <<>> => /\ Within(trustRoot, site.policyDir)
                               /\ Within(trustRoot, site.auditDir)
<1>1. read \in Seq(Names)
  <2>1. <<>> \in Seq(Names)
    OBVIOUS
  <2> QED
    BY <2>1, LauncherConstants DEF Bounded
<1>2. CASE trustRoot = <<>>
  <2>1. /\ <<>> \in Seq(Names) /\ Len(<<>>) = 0 /\ SubSeq(read, 1, 0) = <<>>
        /\ 0 <= Len(read)
    BY <1>1
  <2> QED
    BY <1>2, <2>1 DEF Within
<1>3. CASE trustRoot # <<>>
  <2>1. trustRoot = commonAncestor(read, site.policyDir, site.auditDir)
    BY <1>3 DEF Bounded
  <2> QED
    BY <1>1, <1>3, <2>1, AncestorCovers
<1> QED
  BY <1>2, <1>3

-----------------------------------------------------------------------------
\* No connection is made before there is an agent, and then the broker is up.
Admitted ==
  /\ child = "none" => \A c \in Clients : conn[c] = "none"
  /\ child = "running" => \A c \in Relays : conn[c] # "refused"

LEMMA AdmittedNext ==
  BrokerSound /\ Control /\ Admitted /\ [LauncherNext]_allVars => Admitted'
<1> SUFFICES ASSUME BrokerSound, Control, Admitted, [LauncherNext]_allVars
             PROVE  Admitted'
  OBVIOUS
<1> USE SocketConstants DEF Admitted
<1>1. CASE UNCHANGED <<conn, child>>
  BY <1>1
<1>2. CASE Spawn
  BY <1>2 DEF Spawn, vars, Control, ChildKnown
<1>3. CASE ChildExits
  BY <1>3 DEF ChildExits
<1>4. CASE BeginClose
  BY <1>4 DEF BeginClose, CloseSessions, Destroyed, Control, ChildKnown
<1>5. ASSUME NEW c \in Clients, ServeStep, CheckDestination(c) \/ Connect(c), child # "none"
      PROVE  Admitted'
  BY <1>5 DEF ServeStep, launch, CheckDestination, Connect, DestinationValid, ReadyToConnect,
              Control, Reachable, PhaseKnown, Attended, ChildKnown, BrokerSound, Typed,
              TypeOK
<1>6. ASSUME NEW c \in Clients, ServeStep, SocketCloses(c)
      PROVE  Admitted'
  BY <1>6 DEF ServeStep, launch, SocketCloses, BrokerSound, Typed, TypeOK
<1>7. ASSUME NEW c \in Clients, ServeStep,
             WriteUnit(c) \/ Leave(c) \/ Data(c) \/ SessionClosed(c)
      PROVE  UNCHANGED <<conn, child>>
  BY <1>7 DEF ServeStep, launch, WriteUnit, Leave, Data, SessionClosed
<1>8. ASSUME ServeStep, EndStep \/ Occupy \/ \E r \in Requests : Answer(r)
      PROVE  UNCHANGED <<conn, child>>
  BY <1>8 DEF ServeStep, launch, EndStep, StopListening, RemovePath, Occupy, Answer,
              connections
<1>9. CASE BrokerStarts
  BY <1>1, <1>9 DEF BrokerStarts, StartStep, CheckAbsent, CreateBroker, Listen, MakePrivate,
                    connections
<1>10. CASE \/ CheckHost \/ ReadPolicy \/ CheckLinks \/ ResolveRoot \/ MakeDirectory
            \/ BrokerStarted \/ Preflight \/ WriteProfile \/ CloseReturns
            \/ RemoveDirectory \/ EditPolicy \/ LinkFile \/ UNCHANGED allVars
  BY <1>1, <1>10
  DEF CheckHost, ReadPolicy, CheckLinks, ResolveRoot, MakeDirectory, BrokerStarted,
      Preflight, WriteProfile, CloseReturns, RemoveDirectory, EditPolicy, LinkFile, Reject,
      allVars, launch, vars, connections
<1>11. CASE ServeStep
  BY <1>1, <1>5, <1>6, <1>7, <1>8, <1>11 DEF ServeStep, SocketStep
<1> QED
  BY <1>2, <1>3, <1>4, <1>9, <1>10, <1>11 DEF LauncherNext, LaunchStep

Plain == /\ at \in Places /\ linked \in BOOLEAN /\ outcome \in Outcomes
         /\ directory \in {"none", "made", "removed"}

LEMMA PlainNext == Plain /\ [LauncherNext]_allVars => Plain'
<1> SUFFICES ASSUME Plain, [LauncherNext]_allVars PROVE Plain'
  OBVIOUS
<1> USE DEF Plain, Places, Outcomes, owner
<1>1. CASE UNCHANGED launch
  BY <1>1 DEF launch
<1>2. CASE \/ CheckHost \/ ReadPolicy \/ CheckLinks \/ ResolveRoot \/ MakeDirectory
           \/ BrokerStarts \/ BrokerStarted
  BY <1>2 DEF CheckHost, ReadPolicy, CheckLinks, ResolveRoot, MakeDirectory, BrokerStarts,
              BrokerStarted, Reject, Abandon, Proceed
<1>3. CASE \/ Preflight \/ WriteProfile \/ Spawn \/ ChildExits \/ BeginClose
           \/ CloseReturns \/ RemoveDirectory
  BY <1>3 DEF Preflight, WriteProfile, Spawn, ChildExits, BeginClose, CloseReturns,
              RemoveDirectory, Abandon, Proceed
<1>4. CASE EditPolicy \/ LinkFile
  BY <1>4 DEF EditPolicy, LinkFile
<1> QED
  BY <1>1, <1>2, <1>3, <1>4 DEF LauncherNext, LaunchStep, ServeStep, allVars

-----------------------------------------------------------------------------
(***************************************************************************)
(* The properties.                                                         *)
(***************************************************************************)
LauncherSound == BrokerSound /\ Control /\ Bounded /\ Admitted /\ Plain

LEMMA LauncherSoundInit == LauncherInit => LauncherSound
<1>1. LauncherInit => Admitted /\ Plain
  BY DEF LauncherInit, Init, Admitted, Plain, Places, Outcomes
<1> QED
  BY <1>1, BrokerSoundInit, ControlInit, BoundedInit DEF LauncherSound

LEMMA LauncherSoundNext == LauncherSound /\ [LauncherNext]_allVars => LauncherSound'
  BY BrokerSoundNext, ControlNext, BoundedNext, AdmittedNext, PlainNext DEF LauncherSound

LEMMA LauncherSoundAlways == LauncherSpec => []LauncherSound
  BY LauncherSoundInit, LauncherSoundNext, PTL DEF LauncherSpec

\* Type correctness, of the launcher's variables and of the broker's.
THEOREM LauncherTypeCorrect == LauncherSpec => []LauncherTypeOK
<1>1. LauncherSound => LauncherTypeOK
  BY TrustRootIsPath
  DEF LauncherSound, BrokerSound, Typed, Control, ChildKnown, Bounded, Plain, LauncherTypeOK
<1> QED
  BY <1>1, LauncherSoundAlways, PTL

\* Inside the launcher, too, sessions are connections and a closed broker is quiet,
\* although the launcher removes the directory under the socket's path.
THEOREM BrokerInside == LauncherSpec => [](SessionsAreConnections /\ ClosedIsQuiet)
<1>1. LauncherSound => SessionsAreConnections /\ ClosedIsQuiet
  BY DEF LauncherSound, BrokerSound, Matched, SessionsAreConnections, Quiet, Alive,
         ClosedIsQuiet, Typed, TypeOK
<1> QED
  BY <1>1, LauncherSoundAlways, PTL

\* What the sandbox denies to a running agent covers the policy, the audit file and
\* the storage root the launcher saw, for every deployment.
THEOREM TrustRootIsCovering == LauncherSpec => []TrustRootCovers
<1>1. LauncherSound => TrustRootCovers
  BY TrustRootIsPath
  DEF LauncherSound, Control, ChildKnown, Bounded, Attended, TrustRootCovers
<1> QED
  BY <1>1, LauncherSoundAlways, PTL

\* The agent's workspace is neither in the trust root nor above it, unless one of
\* them has a name that begins with two dots.
THEOREM WorkspaceIsApart == LauncherSpec => []WorkspaceApart
<1>1. LauncherSound => WorkspaceApart
  <2> SUFFICES ASSUME LauncherSound, child = "running" PROVE WorkspaceApart
    BY DEF WorkspaceApart
  <2>1. site.workspace \in Seq(Names) /\ trustRoot \in Seq(Names)
    BY LauncherConstants, TrustRootIsPath DEF LauncherSound, Bounded
  <2>2. Apart(site.workspace, trustRoot)
    BY DEF LauncherSound, Control, ChildKnown, Bounded, Attended
  <2> QED
    BY <2>1, <2>2, OverlapsButDotted DEF Apart, WorkspaceApart
<1> QED
  BY <1>1, LauncherSoundAlways, PTL

\* No relay of a running agent is turned away: it looks at the socket when the
\* broker has made it private and listens.
THEOREM RelaysFindTheBroker == LauncherSpec => []RelaysAreServed
<1>1. LauncherSound => RelaysAreServed
  BY DEF LauncherSound, Admitted, RelaysAreServed
<1> QED
  BY <1>1, LauncherSoundAlways, PTL

\* When the launcher is done, whichever of its steps failed, nothing is left but
\* what an error, or a start that failed half way, accounts for.
THEOREM NothingIsLeft == LauncherSpec => []DoneIsClean
<1>1. LauncherSound => DoneIsClean
  BY DEF LauncherSound, BrokerSound, Quiet, Control, Reachable, PhaseKnown, Finished,
         ChildKnown, ResultKnown, DoneIsClean
<1> QED
  BY <1>1, LauncherSoundAlways, PTL
=============================================================================
