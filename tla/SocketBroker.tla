---------------------------- MODULE SocketBroker ----------------------------
(***************************************************************************)
(* The broker behind a Unix socket: startSocketBroker and its close        *)
(* (src/socket-broker.ts), the server side of every connection             *)
(* (src/unix-socket-transport.ts), and the relay that checks the socket    *)
(* before it connects (src/socket-relay.ts).                               *)
(*                                                                         *)
(* A client writes the lines of its script, and the stream may be cut      *)
(* anywhere: a line is two units on the wire, and a chunk any number of    *)
(* them.  A line is a request, or it does not parse.  What a request does  *)
(* is SubjectBroker's affair; here it runs and is answered.                *)
(***************************************************************************)
EXTENDS Naturals, Sequences, FiniteSets

CONSTANTS Clients,   \* connections, each made once
          Relays,    \* those made by socket-relay; the others connect unchecked
          Script     \* what each client writes: lines, "request" or "garbage"

ASSUME SocketConstants == /\ Relays \subseteq Clients
                          /\ Script \in [Clients -> Seq({"request", "garbage"})]

VARIABLES phase,     \* where startSocketBroker and then close() are
          path,      \* what socketPath names: "none", "socket" or "other"
          private,   \* whether the socket's mode is 0600
          listening, \* server.listening
          sessions,  \* the set of sessions (McpServer objects), one per connection
          awaiting,  \* the sessions whose close() the broker's close() awaits
          conn,      \* each connection's socket on the server's side
          left,      \* the clients that have ended their side
          sent,      \* units each client has written
          got,       \* units the data handler has appended to the ReadBuffer
          handled,   \* lines it has taken out of it
          running,   \* requests being served: <<client, line>>
          answered,  \* requests whose answer has been written to the socket
          told       \* calls of each transport's onclose

start == <<phase, path, private, listening>>
streams == <<left, sent, got, handled>>
requests == <<running, answered>>
vars == <<start, sessions, awaiting, conn, streams, requests, told>>

Starting == {"start", "create", "listen", "chmod"}
Phases == Starting \cup {"up", "ending", "stopping", "closed", "unclean", "failed", "leaked"}
Sockets == {"none", "checked", "refused", "open", "destroyed", "closed"}

Lines(c) == DOMAIN Script[c]
Requests == UNION {{<<c, i>> : i \in {j \in Lines(c) : Script[c][j] = "request"}} :
                     c \in Clients}

\* The connections server.close() waits for.
Alive == {c \in Clients : conn[c] \in {"open", "destroyed"}}

Init == /\ phase = "start"
        /\ path \in {"none", "other"}
        /\ private = FALSE /\ listening = FALSE
        /\ sessions = {} /\ awaiting = {}
        /\ conn = [c \in Clients |-> "none"]
        /\ left = {}
        /\ sent = [c \in Clients |-> 0]
        /\ got = [c \in Clients |-> 0]
        /\ handled = [c \in Clients |-> 0]
        /\ running = {} /\ answered = {}
        /\ told = [c \in Clients |-> 0]

-----------------------------------------------------------------------------
\* startSocketBroker, one action per await.
connections == <<sessions, awaiting, conn, streams, requests, told>>

\* assertSocketPathAbsent; lstat may fail with another error than ENOENT.
CheckAbsent ==
  /\ phase = "start"
  /\ \/ path = "none" /\ phase' = "create"
     \/ phase' = "failed"
  /\ UNCHANGED <<path, private, listening, connections>>

\* SubjectBroker.create, which throws when the policy cannot be loaded.
CreateBroker ==
  /\ phase = "create"
  /\ phase' \in {"listen", "failed"}
  /\ UNCHANGED <<path, private, listening, connections>>

\* server.listen: bind(2) refuses a path that exists, or fails for another reason.
Bindable == path = "none"

Listen ==
  /\ phase = "listen"
  /\ \/ /\ Bindable
        /\ path' = "socket" /\ private' = FALSE /\ listening' = TRUE
        /\ phase' = "chmod"
     \/ /\ phase' = "failed"
        /\ UNCHANGED <<path, private, listening>>
  /\ UNCHANGED connections

\* chmod(socketPath, 0o600).  When it throws, start is rejected and the server is
\* left listening with nobody to close it.
MakePrivate ==
  /\ phase = "chmod"
  /\ \/ private' = TRUE /\ phase' = "up"
     \/ phase' = "leaked" /\ UNCHANGED private
  /\ UNCHANGED <<path, listening, connections>>

-----------------------------------------------------------------------------
(***************************************************************************)
(* The clients.  A relay looks at the socket first, where                  *)
(* assertSocketDestination wants mode 0600, and connects later.            *)
(***************************************************************************)
DestinationValid == path = "socket" /\ private

CheckDestination(c) ==
  /\ c \in Relays /\ conn[c] = "none"
  /\ conn' = [conn EXCEPT ![c] = IF DestinationValid THEN "checked" ELSE "refused"]
  /\ UNCHANGED <<start, sessions, awaiting, streams, requests, told>>

ReadyToConnect(c) == conn[c] = IF c \in Relays THEN "checked" ELSE "none"

\* The connection listener: a session for the socket, and a transport on it.
AddSession_Late(c) == UNCHANGED sessions          \* mutant: added when it speaks
AddSession(c) == sessions' = sessions \cup {c}

Connect(c) ==
  /\ ReadyToConnect(c)
  /\ \/ /\ listening
        /\ conn' = [conn EXCEPT ![c] = "open"]
        /\ AddSession(c)
     \/ /\ ~listening
        /\ conn' = [conn EXCEPT ![c] = "refused"]
        /\ UNCHANGED sessions
  /\ UNCHANGED <<start, awaiting, streams, requests, told>>

WriteUnit(c) ==
  /\ conn[c] = "open" /\ c \notin left
  /\ sent[c] < 2 * Len(Script[c])
  /\ sent' = [sent EXCEPT ![c] = @ + 1]
  /\ UNCHANGED <<start, sessions, awaiting, conn, left, got, handled, requests, told>>

\* The client ends its side (a relay's stdin ends).
Leave(c) ==
  /\ conn[c] = "open" /\ c \notin left
  /\ left' = left \cup {c}
  /\ UNCHANGED <<start, sessions, awaiting, conn, sent, got, handled, requests, told>>

\* Its host cuts the connection: the socket reports an error and destroys itself.
Reset(c) ==
  /\ conn[c] = "open" /\ c \notin left
  /\ left' = left \cup {c}
  /\ conn' = [conn EXCEPT ![c] = "destroyed"]
  /\ UNCHANGED <<start, sessions, awaiting, sent, got, handled, requests, told>>

-----------------------------------------------------------------------------
(***************************************************************************)
(* UnixSocketServerTransport.                                              *)
(***************************************************************************)

\* The data handler's loop: every whole line is taken; one that does not parse is
\* reported and the loop goes on.
TakenUpTo_StopsAtGarbage(c, whole) ==  \* mutant: return in the catch clause
  LET garbage == {i \in Lines(c) : /\ handled[c] < i /\ i <= whole
                                   /\ Script[c][i] = "garbage"}
  IN IF garbage = {} THEN whole
     ELSE CHOOSE i \in garbage : \A j \in garbage : i <= j
TakenUpTo(c, whole) == whole

Data(c) ==
  \E n \in got[c] + 1 .. sent[c] :
    /\ conn[c] = "open"
    /\ got' = [got EXCEPT ![c] = n]
    /\ handled' = [handled EXCEPT ![c] = TakenUpTo(c, n \div 2)]
    /\ running' = running \cup
         {r \in Requests : r[1] = c /\ handled[c] < r[2] /\ r[2] <= handled'[c]}
    /\ UNCHANGED <<start, sessions, awaiting, conn, left, sent, answered, told>>

\* The handler has its result: send writes it, or throws and it is dropped.
Answer(r) ==
  /\ r \in running
  /\ running' = running \ {r}
  /\ answered' = IF conn[r[1]] = "open" THEN answered \cup {r} ELSE answered
  /\ UNCHANGED <<start, sessions, awaiting, conn, streams, told>>

\* notifyClosed, once: onclose removes the session.
NotifyClosed(c) ==
  /\ told' = [told EXCEPT ![c] = 1]
  /\ sessions' = IF told[c] = 0 THEN sessions \ {c} ELSE sessions

\* The socket's "close" event: it was destroyed, or the client has left and
\* everything it wrote has been read.
SocketCloses(c) ==
  /\ \/ conn[c] = "destroyed"
     \/ conn[c] = "open" /\ c \in left /\ got[c] = sent[c]
  /\ conn' = [conn EXCEPT ![c] = "closed"]
  /\ NotifyClosed(c)
  /\ UNCHANGED <<start, awaiting, streams, requests>>

\* The rest of transport.close(): it has waited for the event.
SessionClosed(c) ==
  /\ c \in awaiting /\ conn[c] = "closed"
  /\ awaiting' = awaiting \ {c}
  /\ NotifyClosed(c)
  /\ UNCHANGED <<start, conn, streams, requests>>

-----------------------------------------------------------------------------
(***************************************************************************)
(* close().  All sessions of the moment are closed: an open socket is      *)
(* destroyed and its event awaited; where the socket is destroyed already, *)
(* transport.close() only notifies.  Connections accepted from here on are *)
(* in nobody's list.                                                       *)
(***************************************************************************)
Destroyed_OnlyWaits(cs) == conn       \* mutant: close() waits without destroying
Destroyed(cs) == [c \in Clients |-> IF c \in cs THEN "destroyed" ELSE conn[c]]

CloseSessions ==
  LET open == {c \in sessions : conn[c] = "open"}
  IN /\ phase = "up"
     /\ phase' = "ending"
     /\ conn' = Destroyed(open)
     /\ awaiting' = open
     /\ told' = [c \in Clients |-> IF c \in sessions \ open THEN 1 ELSE told[c]]
     /\ sessions' = open
     /\ UNCHANGED <<path, private, listening, streams, requests>>

\* closeServer: server.close() stops listening, and libuv removes the path.
StopListening ==
  /\ phase = "ending" /\ awaiting = {}
  /\ phase' = "stopping"
  /\ listening' = FALSE /\ path' = "none"
  /\ UNCHANGED <<private, connections>>

\* Its callback comes when the last connection has ended; then unlink(socketPath),
\* where only ENOENT is forgiven.
ServerClosed_AtOnce == TRUE           \* mutant: the callback is not awaited
ServerClosed == Alive = {}

RemovePath ==
  /\ phase = "stopping" /\ ServerClosed
  /\ \/ phase' = "closed" /\ path' = "none"
     \/ path # "none" /\ phase' = "unclean" /\ UNCHANGED path
  /\ UNCHANGED <<private, listening, connections>>

\* Somebody else makes a file at the path.
Occupy ==
  /\ path = "none"
  /\ path' = "other"
  /\ UNCHANGED <<phase, private, listening, connections>>

-----------------------------------------------------------------------------
StartStep == CheckAbsent \/ CreateBroker \/ Listen \/ MakePrivate
EndStep == StopListening \/ RemovePath
SocketStep(c) == Data(c) \/ SocketCloses(c) \/ SessionClosed(c)

Next == \/ StartStep \/ CloseSessions \/ EndStep \/ Occupy
        \/ \E c \in Clients : \/ CheckDestination(c) \/ Connect(c)
                              \/ WriteUnit(c) \/ Leave(c) \/ Reset(c)
                              \/ SocketStep(c)
        \/ \E r \in Requests : Answer(r)

Spec == Init /\ [][Next]_vars

\* The event loop: what the broker has begun goes on.  Nothing is assumed of the
\* clients: they may stay connected and silent forever.
FairSpec == /\ Spec
            /\ WF_vars(StartStep) /\ WF_vars(EndStep)
            /\ \A c \in Clients : WF_vars(SocketStep(c))
            /\ \A r \in Requests : WF_vars(Answer(r))

-----------------------------------------------------------------------------
\* The variables have their types; onclose is called once at most.
TypeOK == /\ phase \in Phases
          /\ path \in {"none", "socket", "other"}
          /\ private \in BOOLEAN /\ listening \in BOOLEAN
          /\ sessions \subseteq Clients /\ awaiting \subseteq Clients
          /\ conn \in [Clients -> Sockets]
          /\ left \subseteq Clients
          /\ \A c \in Clients : /\ sent[c] \in 0 .. 2 * Len(Script[c])
                                /\ got[c] \in 0 .. sent[c]
                                /\ handled[c] \in 0 .. Len(Script[c])
          /\ running \subseteq Requests /\ answered \subseteq Requests
          /\ told \in [Clients -> 0 .. 1]

\* Every connection that can still speak is in the set of sessions, so that the
\* broker's close() reaches it, and no session outlives its socket.
SessionsAreConnections ==
  \A c \in Clients : /\ conn[c] = "open" => c \in sessions
                     /\ c \in sessions => conn[c] \in {"open", "destroyed"}

\* When close() has returned nothing of the broker is left: it does not listen,
\* no session is open, and nobody can be told anything any more.
ClosedIsQuiet ==
  phase = "closed" => ~listening /\ sessions = {} /\ Alive = {} /\ path # "socket"

\* close() ends, unless a client that connected while it was closing the others
\* stays: only a connection that is not in its list can keep it waiting, and only
\* until its client leaves.
Late == {c \in Clients : conn[c] = "open" /\ c \notin awaiting}
CloseEnds ==
  phase \in {"ending", "stopping"}
    ~> (phase \in {"closed", "unclean"} \/ Late \ left # {})

\* A request whose line has arrived is answered, unless its connection is gone.
WrittenIsAnswered ==
  \A r \in Requests :
    (sent[r[1]] >= 2 * r[2]) ~> (r \in answered \/ conn[r[1]] # "open")
=============================================================================
