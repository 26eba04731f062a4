------------------------ MODULE SubjectBrokerProofs ------------------------
(***************************************************************************)
(* Proofs about SubjectBroker, for any number of requests and resources,   *)
(* any policies, any storage and every setting of the audit destination.   *)
(* What is proved about the audit writer by itself is brought in as an     *)
(* instance of its proofs: every step of the broker is a step of the       *)
(* writer or leaves the writer's variables alone.                          *)
(***************************************************************************)
EXTENDS SubjectBroker, PolicyLemmas, FiniteSetTheorems

Writer == INSTANCE AuditWriterProofs WITH Calls <- Requests, Events <- Event

LEMMA WriterConstants == Writer!AuditConstants
  BY ComponentConstants
  DEF Audit!AuditConstants, Writer!Absent, Audit!Absent, Writer!Blocked, Audit!Blocked,
      Writer!FaultKinds, Audit!FaultKinds

\* The broker's instance of the writer and the one the proofs are about agree.
LEMMA SameInit == Audit!Init => Writer!Init
  BY DEF Writer!Init, Audit!Init, Writer!Absent, Audit!Absent, Writer!Blocked,
         Audit!Blocked, Writer!OwnerModes, Audit!OwnerModes, Writer!OwnerFiles,
         Audit!OwnerFiles

LEMMA SameNext == Audit!Next => Writer!Next
<1> USE DEF Audit!world, Audit!Fail, Audit!Absent, Audit!Blocked, Audit!OwnerModes,
            Audit!Begin, Audit!Invalid, Audit!WriteFailed, Writer!world, Writer!Fail,
            Writer!Absent, Writer!Blocked, Writer!OwnerModes, Writer!Begin,
            Writer!Invalid, Writer!WriteFailed, Audit!OwnerFiles, Writer!OwnerFiles
<1>1. ASSUME NEW c \in Requests PROVE Audit!Step(c) = Writer!Step(c)
  BY Zenon
  DEF Audit!Step, Writer!Step, Audit!CreateExclusive, Writer!CreateExclusive,
      Audit!OpenExisting, Writer!OpenExisting, Audit!Chmod, Writer!Chmod, Audit!Stat,
      Writer!Stat, Audit!Write, Writer!Write, Audit!WriteRest, Writer!WriteRest,
      Audit!Sync, Writer!Sync, Audit!Close, Writer!Close, Audit!AlreadyThere,
      Writer!AlreadyThere, Audit!SecondOpenFails, Writer!SecondOpenFails,
      Audit!Openable, Writer!Openable, Audit!Waitable, Writer!Waitable,
      Audit!CloseRejects, Writer!CloseRejects, Audit!ModeAccepted, Writer!ModeAccepted,
      Audit!AppendPart, Writer!AppendPart, Audit!NextAfter, Writer!NextAfter,
      Audit!Flush, Writer!Flush
<1>2. Audit!Environment = Writer!Environment
  BY Zenon
  DEF Audit!Environment, Writer!Environment, Audit!Rotate, Writer!Rotate, Audit!Block,
      Writer!Block, Audit!OwnerChmod, Writer!OwnerChmod, Audit!Kill, Writer!Kill,
      Audit!PowerLoss, Writer!PowerLoss, Audit!ProcessDies, Writer!ProcessDies,
      Audit!Kept, Writer!Kept, Audit!Torn, Writer!Torn
<1>3. \A c \in Requests : Audit!Call(c) = Writer!Call(c)
  BY DEF Audit!Call, Writer!Call
<1> QED
  BY <1>1, <1>2, <1>3 DEF Audit!Next, Writer!Next

-----------------------------------------------------------------------------
(***************************************************************************)
(* Frames.  What a step of one request leaves alone of another one, and    *)
(* what a step of append does to its own call.                             *)
(***************************************************************************)
OwnTypes == /\ supported \in BOOLEAN
            /\ policy \in Policies \cup {NoPolicy}
            /\ mishaps \in Mishaps
            /\ text \in [Inodes -> Texts]
            /\ overwritten \in SUBSET Inodes
            /\ pc \in [Requests -> Points]
            /\ want \in [Requests -> Resources \cup {NoResource}]
            /\ buf \in [Requests -> Bytes]
            /\ verdict \in [Requests -> Verdicts]
            /\ answer \in [Requests -> Answer \cup {NoAnswer}]
            /\ Registry!OpenTypeOK

\* The variables are functions, as far as a step of one request needs it.
Functional ==
  /\ pc \in [Requests -> Points]
  /\ want \in [Requests -> Resources \cup {NoResource}]
  /\ buf \in [Requests -> Bytes]
  /\ verdict \in [Requests -> Verdicts]
  /\ answer \in [Requests -> Answer \cup {NoAnswer}]
  /\ oat \in [Requests -> Registry!OpenPoints]
  /\ oid \in [Requests -> Resources \cup {NoResource}]
  /\ oh \in [Requests -> Inodes \cup {NoHandle}]
  /\ ores \in [Requests -> {"none", "ok", "changed"}]
  /\ at \in [Requests -> Writer!Points]
  /\ fh \in [Requests -> Files \cup {NoFile}]
  /\ ev \in [Requests -> Event \cup {NoEvent}]
  /\ res \in [Requests -> Writer!Results]

LEMMA TypesAreFunctional == OwnTypes /\ Writer!Typed => Functional
  BY DEF OwnTypes, Registry!OpenTypeOK, Functional, Writer!Typed, Writer!TypeOK

Still(p) == /\ pc'[p] = pc[p] /\ want'[p] = want[p] /\ buf'[p] = buf[p]
            /\ verdict'[p] = verdict[p] /\ answer'[p] = answer[p]
            /\ oat'[p] = oat[p] /\ oid'[p] = oid[p] /\ oh'[p] = oh[p] /\ ores'[p] = ores[p]
            /\ at'[p] = at[p] /\ ev'[p] = ev[p] /\ res'[p] = res[p]

\* append: its own call moves on, to its end at the latest; its event stays.
LEMMA AppendStep ==
  ASSUME Functional, NEW q \in Requests, Audit!Step(q)
  PROVE  /\ at[q] \notin {"idle", "done", "lost"} /\ at'[q] \notin {"idle", "lost"}
         /\ ev' = ev
         /\ \A p \in Requests \ {q} : at'[p] = at[p] /\ res'[p] = res[p]
<1> USE DEF Functional, Audit!Fail, Audit!Invalid, Audit!WriteFailed
<1>1. CASE Audit!CreateExclusive(q) \/ Audit!OpenExisting(q) \/ Audit!Chmod(q)
  BY <1>1 DEF Audit!CreateExclusive, Audit!AlreadyThere, Audit!OpenExisting,
              Audit!SecondOpenFails, Audit!Chmod
<1>2. CASE Audit!Stat(q)
  BY <1>2 DEF Audit!Stat
<1>3. CASE Audit!Write(q) \/ Audit!WriteRest(q)
  BY <1>3 DEF Audit!Write, Audit!WriteRest, Audit!NextAfter
<1>4. CASE Audit!Sync(q) \/ Audit!Close(q)
  BY <1>4 DEF Audit!Sync, Audit!Close
<1> QED
  BY <1>1, <1>2, <1>3, <1>4 DEF Audit!Step

\* openVerified: the same for the registry's part of a request.
LEMMA OpeningStep ==
  ASSUME Functional, NEW q \in Requests, Registry!OpenStep(q)
  PROVE  /\ oid' = oid /\ UNCHANGED <<entry, moved, pinned>>
         /\ \A p \in Requests \ {q} :
              oat'[p] = oat[p] /\ oh'[p] = oh[p] /\ ores'[p] = ores[p]
  BY DEF Functional, Registry!OpenStep, Registry!Open, Registry!Verify, Registry!Mismatch,
         Registry!Drop, Registry!paths

BeginAudit(q) == \/ UNCHANGED <<log, appending>>
                 \/ \E e : Audit!Begin(q, e)

LEMMA OthersStill ==
  ASSUME Functional, NEW q \in Requests, NEW p \in Requests \ {q},
         (\E r \in Resources : ReadResource(q, r)) \/ RequestStep(q)
  PROVE  Still(p)
<1> USE DEF Functional, Still, opening, request, appending, log
<1>1. ASSUME BeginAudit(q) PROVE at'[p] = at[p] /\ ev'[p] = ev[p] /\ res'[p] = res[p]
  BY <1>1 DEF BeginAudit, Audit!Begin
<1>2. CASE \E r \in Resources : ReadResource(q, r)
  <2>1. BeginAudit(q)
    BY <1>2 DEF ReadResource, AppendAudit, BeginAudit
  <2> QED
    BY <1>1, <1>2, <2>1 DEF ReadResource, AppendAudit
<1>3. CASE HookReturns(q)
  <2>1. BeginAudit(q)
    BY <1>3 DEF HookReturns, AuditError, AppendAudit, BeginAudit
  <2> QED
    BY <1>1, <1>3, <2>1 DEF HookReturns, AuditError, AppendAudit, Registry!BeginOpen
<1>4. CASE OpenStep(q)
  BY <1>4, OpeningStep DEF OpenStep
<1>5. CASE Opened(q)
  <2>1. BeginAudit(q)
    BY <1>5 DEF Opened, AuditError, AppendAudit, BeginAudit
  <2> QED
    BY <1>1, <1>5, <2>1 DEF Opened, AuditError, AppendAudit
<1>6. CASE ReadChunk(q)
  BY <1>6 DEF ReadChunk
<1>7. CASE ReadEnd(q) \/ ReadFails(q)
  BY <1>7 DEF ReadEnd, ReadFails
<1>8. CASE CloseHandle(q)
  <2>1. BeginAudit(q)
    BY <1>8 DEF CloseHandle, AuditError, AppendAudit, BeginAudit
  <2> QED
    BY <1>1, <1>8, <2>1 DEF CloseHandle, ClosesHandle, AuditError, AppendAudit
<1>9. CASE AuditStep(q)
  BY <1>9, AppendStep DEF AuditStep
<1>10. CASE Respond(q)
  BY <1>10 DEF Respond
<1> QED
  BY <1>2, <1>3, <1>4, <1>5, <1>6, <1>7, <1>8, <1>9, <1>10 DEF RequestStep, FileStep

-----------------------------------------------------------------------------
(***************************************************************************)
(* First layer: where a request is.  Its append begins when it is parked   *)
(* at "audit" and not before, which is why append is called once and its   *)
(* event is about the resource asked for; the answer is what that append   *)
(* came to.                                                                *)
(***************************************************************************)
BeforeAudit == {"idle", "hook", "open", "read", "close"}

Place(q) ==
  /\ IF pc[q] = "idle" THEN want[q] = NoResource ELSE want[q] \in Resources
  /\ pc[q] \in BeforeAudit => at[q] = "idle"
  /\ pc[q] = "close" => verdict[q] # "none"
  /\ pc[q] \in {"audit", "answered"} => /\ at[q] \notin {"idle", "lost"}
                                        /\ ev[q] \in Event
                                        /\ ev[q].resource = want[q]
  /\ IF pc[q] = "answered"
     THEN at[q] = "done" /\ answer[q] = Outcome(ev[q], res[q], buf[q])
     ELSE answer[q] = NoAnswer
  /\ pc[q] = "lost" => /\ at[q] \in {"idle", "done", "lost"}
                       /\ at[q] # "idle" => ev[q] \in Event /\ ev[q].resource = want[q]

Places == \A q \in Requests : Place(q)

LEMMA PlacesInit == Init => Places
  BY DEF Init, Places, Place, BeforeAudit, Audit!Init

\* An event built by the broker is an event.
LEMMA EventTyped ==
  ASSUME NEW r \in Resources, NEW d \in {"allow", "deny", "error"},
         NEW reason \in {"ALLOWED", "ACCESS_DENIED", "POLICY_UNAVAILABLE",
                         "PLATFORM_UNSUPPORTED", "RESOURCE_CHANGED",
                         "RESOURCE_TOO_LARGE", "RESOURCE_ENCODING_INVALID",
                         "INTERNAL_ERROR"}
  PROVE  EventOf(r, d, reason) \in Event /\ EventOf(r, d, reason).resource = r
  BY DEF EventOf, Event

\* From there on the request waits for its append.
LEMMA AppendAuditPlaces ==
  ASSUME Functional, NEW q \in Requests, Place(q), NEW r \in Resources, want'[q] = r,
         NEW d \in {"allow", "deny", "error"},
         NEW reason \in {"ALLOWED", "ACCESS_DENIED", "POLICY_UNAVAILABLE",
                         "PLATFORM_UNSUPPORTED", "RESOURCE_CHANGED",
                         "RESOURCE_TOO_LARGE", "RESOURCE_ENCODING_INVALID",
                         "INTERNAL_ERROR"},
         AppendAudit(q, r, d, reason), answer' = answer, pc[q] \in BeforeAudit
  PROVE  Place(q)'
<1>1. /\ pc'[q] = "audit" /\ at'[q] = "create"
      /\ ev'[q] = EventOf(r, d, reason)
  BY DEF AppendAudit, Audit!Begin, Functional
<1>2. ev'[q] \in Event /\ ev'[q].resource = r
  BY <1>1, EventTyped
<1>3. answer'[q] = NoAnswer
  BY DEF Place, BeforeAudit
<1> QED
  BY <1>1, <1>2, <1>3 DEF Place, BeforeAudit

LEMMA ReadResourcePlaces ==
  ASSUME Functional, NEW q \in Requests, Place(q), NEW r \in Resources, ReadResource(q, r)
  PROVE  Place(q)'
<1> DEFINE decided == Evaluate(policy, supported, subjectId, r, ACTION_READ)
<1>1. pc[q] = "idle" /\ want'[q] = r /\ answer' = answer
  BY DEF ReadResource, Functional
<1>2. CASE decided.decision = "deny"
  <2>1. decided.reason \in {"PLATFORM_UNSUPPORTED", "POLICY_UNAVAILABLE", "ACCESS_DENIED"}
    BY <1>2 DEF Evaluate, Decision
  <2>2. AppendAudit(q, r, "deny", decided.reason)
    BY <1>2 DEF ReadResource
  <2> QED
    BY <1>1, <2>1, <2>2, AppendAuditPlaces DEF BeforeAudit
<1>3. CASE decided.decision # "deny"
  <2>1. pc' = [pc EXCEPT ![q] = "hook"] /\ UNCHANGED <<log, appending>>
    BY <1>3 DEF ReadResource
  <2> QED
    BY <1>1, <2>1 DEF Place, BeforeAudit, Functional, appending
<1> QED
  BY <1>2, <1>3

LEMMA RequestStepPlaces ==
  ASSUME Functional, NEW q \in Requests, Place(q), RequestStep(q)
  PROVE  Place(q)'
<1> USE DEF Functional, appending, log, request
<1>a. ASSUME NEW reason \in {"POLICY_UNAVAILABLE", "RESOURCE_CHANGED",
                             "RESOURCE_TOO_LARGE", "RESOURCE_ENCODING_INVALID",
                             "INTERNAL_ERROR"},
             AuditError(q, reason), UNCHANGED <<want, answer>>,
             pc[q] \in BeforeAudit \ {"idle"}
      PROVE  Place(q)'
  <2>1. want[q] \in Resources /\ want'[q] = want[q]
    BY <1>a DEF Place
  <2> QED
    BY <1>a, <2>1, AppendAuditPlaces DEF AuditError
<1>1. CASE HookReturns(q)
  <2>1. CASE pc' = [pc EXCEPT ![q] = "open"] /\ UNCHANGED <<log, appending>>
    BY <1>1, <2>1 DEF HookReturns, Place, BeforeAudit
  <2>2. CASE AuditError(q, "POLICY_UNAVAILABLE") \/ AuditError(q, "INTERNAL_ERROR")
    BY <1>1, <2>2, <1>a DEF HookReturns, BeforeAudit
  <2> QED
    BY <1>1, <2>1, <2>2 DEF HookReturns
<1>2. CASE OpenStep(q)
  BY <1>2 DEF OpenStep, Place
<1>3. CASE Opened(q)
  <2>1. CASE pc' = [pc EXCEPT ![q] = "read"] /\ UNCHANGED <<log, appending>>
    BY <1>3, <2>1 DEF Opened, Place, BeforeAudit
  <2>2. CASE AuditError(q, "RESOURCE_CHANGED")
    BY <1>3, <2>2, <1>a DEF Opened, BeforeAudit
  <2> QED
    BY <1>3, <2>1, <2>2 DEF Opened
<1>4. CASE ReadChunk(q)
  BY <1>4 DEF ReadChunk, Place, BeforeAudit
<1>5. CASE ReadEnd(q) \/ ReadFails(q)
  BY <1>5 DEF ReadEnd, ReadFails, Place, BeforeAudit
<1>6. CASE CloseHandle(q)
  <2>1. CASE AppendAudit(q, want[q], "allow", "ALLOWED")
    <3>1. want[q] \in Resources /\ want'[q] = want[q] /\ answer' = answer
          /\ pc[q] \in BeforeAudit
      BY <1>6 DEF CloseHandle, Place, BeforeAudit
    <3> QED
      BY <2>1, <3>1, AppendAuditPlaces
  <2>2. CASE verdict[q] # "content" /\ AuditError(q, verdict[q])
    <3>1. verdict[q] \in {"RESOURCE_TOO_LARGE", "RESOURCE_ENCODING_INVALID",
                          "INTERNAL_ERROR"}
      BY <1>6, <2>2 DEF CloseHandle, Place, Verdicts
    <3> QED
      BY <1>6, <2>2, <3>1, <1>a DEF CloseHandle, BeforeAudit
  <2>3. CASE AuditError(q, "INTERNAL_ERROR")
    BY <1>6, <2>3, <1>a DEF CloseHandle, BeforeAudit
  <2> QED
    BY <1>6, <2>1, <2>2, <2>3 DEF CloseHandle
<1>7. CASE AuditStep(q)
  <2>1. at'[q] \notin {"idle", "lost"} /\ ev' = ev
    BY <1>7, AppendStep DEF AuditStep
  <2> QED
    BY <1>7, <2>1 DEF AuditStep, Place, BeforeAudit
<1>8. CASE Respond(q)
  BY <1>8 DEF Respond, Place, BeforeAudit
<1> QED
  BY <1>1, <1>2, <1>3, <1>4, <1>5, <1>6, <1>7, <1>8 DEF RequestStep, FileStep

\* What happens to every request at once: the process ends.
LEMMA DeathPlaces ==
  ASSUME Functional, NEW q \in Requests, Place(q), Restart
  PROVE  Place(q)'
<1>1. Audit!ProcessDies
  BY DEF Restart, Audit!Kill, Audit!PowerLoss
<1>2. /\ pc'[q] = IF InProgress(q) THEN "lost" ELSE pc[q]
      /\ UNCHANGED <<want, buf, verdict, answer, ev, res>>
      /\ at'[q] = IF at[q] \in {"idle", "done"} THEN at[q] ELSE "lost"
  BY <1>1 DEF Restart, Audit!ProcessDies
<1>3. CASE pc[q] \in {"idle", "answered", "lost"}
  BY <1>2, <1>3 DEF Place, BeforeAudit, InProgress
<1>4. CASE pc[q] \in BeforeAudit \ {"idle"}
  BY <1>2, <1>4 DEF Place, BeforeAudit, InProgress
<1>5. CASE pc[q] = "audit"
  BY <1>2, <1>5 DEF Place, BeforeAudit, InProgress
<1> QED
  BY <1>3, <1>4, <1>5 DEF BeforeAudit, Functional, Points

\* The owner's steps leave every request where it is.
LEMMA OwnerStill ==
  ASSUME \/ \E r \in Resources : Repoint(r)
         \/ \E i \in Inodes, t \in Texts : Overwrite(i, t)
         \/ Destination
  PROVE  UNCHANGED <<boot, request, opening, at, ev, res>>
  BY DEF Repoint, Overwrite, Destination, request, opening, appending, boot,
         Registry!Repoint, Registry!openVars, Audit!Rotate, Audit!Block, Audit!OwnerChmod

LEMMA PlacesNext == Functional /\ Places /\ [Next]_vars => Places'
<1> SUFFICES ASSUME Functional, Places, [Next]_vars, NEW p \in Requests PROVE Place(p)'
  BY DEF Places
<1>1. Place(p)
  BY DEF Places
<1>2. ASSUME NEW q \in Requests,
             (\E r \in Resources : ReadResource(q, r)) \/ RequestStep(q)
      PROVE  Place(p)'
  <2>1. CASE p = q
    BY <1>1, <1>2, <2>1, ReadResourcePlaces, RequestStepPlaces
  <2>2. CASE p # q
    <3>1. Still(p)
      BY <1>2, <2>2, OthersStill
    <3> QED
      BY <1>1, <3>1 DEF Still, Place
  <2> QED
    BY <2>1, <2>2
<1>3. CASE \/ \E r \in Resources : Repoint(r)
           \/ \E i \in Inodes, t \in Texts : Overwrite(i, t)
           \/ Destination
  BY <1>1, <1>3, OwnerStill DEF Place, request
<1>4. CASE Restart
  BY <1>1, <1>4, DeathPlaces
<1>5. CASE UNCHANGED vars
  BY <1>1, <1>5 DEF Place, vars, request, appending
<1> QED
  BY <1>2, <1>3, <1>4, <1>5 DEF Next

-----------------------------------------------------------------------------
(***************************************************************************)
(* Second layer: the policy in force and the handles opened under it.  A   *)
(* policy that is loaded is an accepted document with every resource       *)
(* pinned; an openVerified in progress holds a handle between its open and *)
(* its settling, and what it hands over is on the pinned file.             *)
(***************************************************************************)
PolicySound ==
  policy # NoPolicy => /\ policy \in Document /\ Accepts(policy)
                       /\ pinned \in [policy.resources -> Inodes]

\* An openVerified that the request is awaiting.
Opening(q) ==
  /\ oat[q] # "idle" /\ oid[q] = want[q]
  /\ oat[q] \in {"open", "fstat"} => want[q] \in DOMAIN pinned
  /\ oat[q] \in {"open", "blocked"} => oh[q] = NoHandle
  /\ oat[q] \in {"fstat", "drop"} => oh[q] \in Inodes
  /\ IF oat[q] = "done"
     THEN \/ /\ ores[q] = "ok"
             /\ want[q] \in DOMAIN pinned /\ oh[q] = pinned[want[q]]
          \/ ores[q] = "changed" /\ oh[q] = NoHandle
     ELSE ores[q] = "none"

Handle(q) ==
  /\ pc[q] \in {"idle", "hook"} => oat[q] = "idle" /\ ores[q] = "none"
  /\ pc[q] = "open" => Opening(q)
  /\ pc[q] \in {"read", "close"} =>
       want[q] \in DOMAIN pinned /\ oh[q] = pinned[want[q]]
  /\ pc[q] \in {"idle", "hook", "audit", "answered", "lost"} => oh[q] = NoHandle
  /\ pc[q] \in {"hook", "open", "read", "close"} => MayRead(want[q])
  /\ pc[q] = "audit" /\ ev[q].decision = "allow" => MayRead(want[q])

Handles == \A q \in Requests : Handle(q)

LEMMA PolicySoundInit == Init => PolicySound
<1> SUFFICES ASSUME Init, policy # NoPolicy PROVE PolicySound
  BY DEF PolicySound
<1>1. policy \in Document /\ Accepts(policy)
  BY BrokerConstants DEF Init, MayServe
<1>2. policy.resources \subseteq Resources
  BY <1>1 DEF Document
<1>3. \A r \in Resources : entry[r].inode \in Inodes
  BY DEF Init, Registry!Direct
<1>4. pinned = Captured(policy)
  BY DEF Init
<1>5. pinned \in [policy.resources -> Inodes]
  BY <1>2, <1>3, <1>4 DEF Captured
<1> QED
  BY <1>1, <1>5 DEF PolicySound

LEMMA HandlesInit == Init => Handles
  BY DEF Init, Handles, Handle, Registry!OpenInit

LEMMA BootStill ==
  ASSUME [Next]_vars, ~Restart
  PROVE  UNCHANGED boot
<1>1. ASSUME NEW q \in Requests, RequestStep(q) PROVE UNCHANGED boot
  BY <1>1 DEF RequestStep, FileStep, HookReturns, OpenStep, Opened, ReadChunk, ReadEnd,
              ReadFails, CloseHandle, AuditStep, Respond
<1>2. ASSUME NEW q \in Requests, NEW r \in Resources, ReadResource(q, r)
      PROVE  UNCHANGED boot
  BY <1>2 DEF ReadResource
<1>3. CASE UNCHANGED vars
  BY <1>3 DEF vars
<1> QED
  BY <1>1, <1>2, <1>3, OwnerStill DEF Next

LEMMA PolicySoundNext == OwnTypes /\ PolicySound /\ [Next]_vars => PolicySound'
<1> SUFFICES ASSUME OwnTypes, PolicySound, [Next]_vars PROVE PolicySound'
  OBVIOUS
<1>1. CASE ~Restart
  BY <1>1, BootStill DEF PolicySound, boot
<1>2. CASE Restart
  <2>1. CASE policy' = NoPolicy
    BY <2>1 DEF PolicySound
  <2>2. ASSUME NEW doc \in Policies, MayServe(doc), policy' = doc, pinned' = Captured(doc)
        PROVE  PolicySound'
    <3>1. doc \in Document /\ Accepts(doc) /\ doc.resources \subseteq Resources
      BY <2>2, BrokerConstants DEF MayServe, Document
    <3>2. \A r \in doc.resources : entry[r].inode \in Inodes
      BY <2>2, <3>1 DEF MayServe, Registrable, OwnTypes, Registry!OpenTypeOK,
                        Registry!PathState
    <3>3. Captured(doc) \in [doc.resources -> Inodes]
      BY <3>2 DEF Captured
    <3> QED
      BY <2>2, <3>1, <3>3 DEF PolicySound
  <2> QED
    BY <1>2, <2>1, <2>2 DEF Restart
<1> QED
  BY <1>1, <1>2

\* The handle openVerified holds: none before the open, one until it settles,
\* and the pinned file's when it settles well.
LEMMA OpeningKept ==
  ASSUME Functional, NEW q \in Requests, Opening(q), Registry!OpenStep(q),
         entry \in [Resources -> Registry!PathState], UNCHANGED <<want, pinned>>,
         want[q] \in Resources
  PROVE  Opening(q)'
<1> USE DEF Functional, Opening, Registry!paths
<1>1. CASE Registry!Open(q)
  <2>1. CASE Registry!Opens(oid[q]) /\ oat' = [oat EXCEPT ![q] = Registry!AfterOpen(entry[oid[q]].inode)]
    <3>1. entry[want[q]].inode \in Inodes
      BY <1>1, <2>1 DEF Registry!Open, Registry!Opens, Registry!PathState
    <3> QED
      BY <1>1, <2>1, <3>1 DEF Registry!Open, Registry!AfterOpen
  <2>2. CASE /\ oat' = [oat EXCEPT ![q] = "done"]
             /\ ores' = [ores EXCEPT ![q] = "changed"]
             /\ UNCHANGED oh
    BY <1>1, <2>2 DEF Registry!Open
  <2> QED
    BY <1>1, <2>1, <2>2 DEF Registry!Open
<1>2. CASE Registry!Verify(q)
  BY <1>2 DEF Registry!Verify, Registry!SameIdentity, Registry!Mismatch
<1>3. CASE Registry!Drop(q)
  BY <1>3 DEF Registry!Drop
<1> QED
  BY <1>1, <1>2, <1>3 DEF Registry!OpenStep

\* A read that evaluate allows is one the policy in force grants.
LEMMA AllowedIsGranted ==
  ASSUME PolicySound, supported \in BOOLEAN, NEW r,
         Evaluate(policy, supported, subjectId, r, ACTION_READ).decision # "deny"
  PROVE  MayRead(r)
<1>1. supported /\ policy # NoPolicy
  BY DEF Evaluate, Decision
<1>2. Evaluate(policy, TRUE, subjectId, r, ACTION_READ).decision = "allow"
  BY <1>1 DEF Evaluate, Decision
<1>3. Granted(policy, subjectId, r)
  BY <1>1, <1>2, EvaluateGranted DEF PolicySound
<1> QED
  BY <1>1, <1>3 DEF MayRead

LEMMA ReadResourceHandles ==
  ASSUME Functional, PolicySound, supported \in BOOLEAN,
         NEW q \in Requests, Handle(q), NEW r \in Resources, ReadResource(q, r)
  PROVE  Handle(q)'
<1> DEFINE decided == Evaluate(policy, supported, subjectId, r, ACTION_READ)
<1>1. /\ pc[q] = "idle" /\ want'[q] = r
      /\ UNCHANGED <<supported, policy, pinned, oat, oid, oh, ores>>
  BY DEF ReadResource, Functional, boot, opening
<1>2. CASE decided.decision = "deny"
  <2>1. pc'[q] = "audit" /\ ev'[q].decision = "deny"
    BY <1>2 DEF ReadResource, AppendAudit, Audit!Begin, EventOf, Functional
  <2> QED
    BY <1>1, <2>1 DEF Handle
<1>3. CASE decided.decision # "deny"
  <2>1. pc'[q] = "hook"
    BY <1>3 DEF ReadResource, Functional
  <2>2. MayRead(r)
    BY <1>3, AllowedIsGranted
  <2>3. MayRead(want[q])'
    BY <1>1, <2>2 DEF MayRead
  <2> QED
    BY <1>1, <2>1, <2>3 DEF Handle
<1> QED
  BY <1>2, <1>3

LEMMA RequestStepHandles ==
  ASSUME Functional, NEW q \in Requests, Place(q), Handle(q), RequestStep(q),
         entry \in [Resources -> Registry!PathState], NoHandle \notin Inodes
  PROVE  Handle(q)'
<1> USE DEF Functional, opening, request, appending, log
<1>1. UNCHANGED <<want, boot>>
  BY DEF RequestStep, FileStep, HookReturns, OpenStep, Opened, ReadChunk, ReadEnd,
         ReadFails, CloseHandle, AuditStep, Respond, boot
<1>2. MayRead(want[q])' <=> MayRead(want[q])
  BY <1>1 DEF MayRead, boot
<1>3. ASSUME NEW reason, AuditError(q, reason)
      PROVE  pc'[q] = "audit" /\ ev'[q].decision = "error"
  BY <1>3 DEF AuditError, AppendAudit, Audit!Begin, EventOf
<1>4. CASE HookReturns(q)
  <2>1. pc[q] = "hook"
    BY <1>4 DEF HookReturns
  <2>2. CASE pc' = [pc EXCEPT ![q] = "open"] /\ Registry!BeginOpen(q, want[q])
    <3>1. Opening(q)'
      BY <1>1, <1>4, <2>1, <2>2 DEF HookReturns, Registry!BeginOpen, Opening, Handle, boot,
                                    Registry!paths
    <3> QED
      BY <1>2, <1>4, <2>1, <2>2, <3>1 DEF Handle
  <2>3. CASE /\ \E reason : AuditError(q, reason)
             /\ UNCHANGED opening
    BY <1>2, <1>3, <2>1, <2>3 DEF Handle
  <2> QED
    BY <1>4, <2>2, <2>3 DEF HookReturns
<1>5. CASE OpenStep(q)
  <2>1. Opening(q)'
    BY <1>1, <1>5, OpeningKept DEF OpenStep, Handle, Place, boot
  <2> QED
    BY <1>2, <1>5, <2>1 DEF OpenStep, Handle
<1>6. CASE Opened(q)
  <2>1. Opening(q) /\ oat[q] = "done" /\ pc[q] = "open"
    BY <1>6 DEF Opened, Handle
  <2>2. CASE ores[q] = "ok" /\ pc' = [pc EXCEPT ![q] = "read"]
    BY <1>1, <1>2, <1>6, <2>1, <2>2 DEF Opened, Handle, Opening, boot
  <2>3. CASE ores[q] = "changed" /\ AuditError(q, "RESOURCE_CHANGED")
    BY <1>1, <1>2, <1>3, <1>6, <2>1, <2>3 DEF Opened, Handle, Opening
  <2> QED
    BY <1>6, <2>2, <2>3 DEF Opened
<1>7. CASE ReadChunk(q)
  BY <1>1, <1>2, <1>7 DEF ReadChunk, Handle, boot
<1>8. CASE ReadEnd(q) \/ ReadFails(q)
  BY <1>1, <1>2, <1>8 DEF ReadEnd, ReadFails, Handle, boot
<1>9. CASE CloseHandle(q)
  <2>1. pc[q] = "close" /\ oh'[q] = NoHandle /\ pc'[q] = "audit"
    BY <1>9 DEF CloseHandle, ClosesHandle, AuditError, AppendAudit
  <2>2. MayRead(want[q])
    BY <2>1 DEF Handle
  <2> QED
    BY <1>2, <2>1, <2>2 DEF Handle
<1>10. CASE AuditStep(q)
  <2>1. ev' = ev
    BY <1>10, AppendStep DEF AuditStep
  <2> QED
    BY <1>1, <1>2, <1>10, <2>1 DEF AuditStep, Handle, boot
<1>11. CASE Respond(q)
  BY <1>11 DEF Respond, Handle
<1> QED
  BY <1>4, <1>5, <1>6, <1>7, <1>8, <1>9, <1>10, <1>11 DEF RequestStep, FileStep

LEMMA HandlesNext ==
  /\ Functional /\ OwnTypes /\ PolicySound /\ Places /\ Handles
  /\ [Next]_vars
  => Handles'
<1> SUFFICES ASSUME Functional, OwnTypes, PolicySound, Places, Handles, [Next]_vars,
                    NEW p \in Requests
             PROVE  Handle(p)'
  BY DEF Handles
<1>1. Handle(p)
  BY DEF Handles
<1>2. ASSUME NEW q \in Requests,
             (\E r \in Resources : ReadResource(q, r)) \/ RequestStep(q), ~Restart
      PROVE  Handle(p)'
  <2>1. CASE p = q
    <3>1. /\ entry \in [Resources -> Registry!PathState] /\ NoHandle \notin Inodes
          /\ supported \in BOOLEAN /\ Place(q)
      BY ComponentConstants DEF Registry!OpenConstants, OwnTypes, Registry!OpenTypeOK, Places
    <3> QED
      BY <1>1, <1>2, <2>1, <3>1, ReadResourceHandles, RequestStepHandles
  <2>2. CASE p # q
    <3>1. Still(p) /\ UNCHANGED boot
      BY <1>2, <2>2, OthersStill, BootStill
    <3> QED
      BY <1>1, <3>1 DEF Still, Handle, Opening, MayRead, boot
  <2> QED
    BY <2>1, <2>2
<1>3. CASE \/ \E r \in Resources : Repoint(r)
           \/ \E i \in Inodes, t \in Texts : Overwrite(i, t)
           \/ Destination
  BY <1>1, <1>3, OwnerStill DEF Handle, Opening, MayRead, boot, request, opening
<1>4. CASE Restart
  <2>1. /\ pc'[p] = IF InProgress(p) THEN "lost" ELSE pc[p]
        /\ oh'[p] = NoHandle /\ UNCHANGED <<want, oat, ores>>
    BY <1>4 DEF Restart
  <2>2. pc[p] \in Points
    BY DEF Functional
  <2>3. pc'[p] \in {"idle", "answered", "lost"} /\ (pc'[p] = "idle" => pc[p] = "idle")
    BY <2>1, <2>2 DEF InProgress, Points
  <2> QED
    BY <1>1, <2>1, <2>3 DEF Handle
<1>5. CASE UNCHANGED vars
  BY <1>1, <1>5 DEF Handle, Opening, MayRead, vars, request, opening, appending, boot
<1> QED
  BY <1>2, <1>3, <1>4, <1>5 DEF Next

-----------------------------------------------------------------------------
(***************************************************************************)
(* Third layer: the types, and the writer inside the broker.  A request    *)
(* begins its append once, at a call of append that was idle, which is     *)
(* what the writer's own specification allows.                             *)
(***************************************************************************)
WriterNext == [Writer!Next]_(Writer!vars)

LEMMA OwnTypesInit == Init => OwnTypes
<1> SUFFICES ASSUME Init PROVE OwnTypes
  OBVIOUS
<1>1. PolicySound
  BY PolicySoundInit
<1>2. pinned \in UNION {[S -> Inodes] : S \in SUBSET Resources}
  <2>1. CASE policy = NoPolicy
    <3>1. Registry!NoPins \in [{} -> Inodes]
      BY DEF Registry!NoPins
    <3> QED
      BY <2>1, <3>1 DEF Init
  <2>2. CASE policy # NoPolicy
    BY <1>1, <2>2 DEF PolicySound, Document
  <2> QED
    BY <2>1, <2>2
<1>3. entry \in [Resources -> Registry!PathState]
  BY DEF Init, Registry!Direct, Registry!PathState, Registry!Routes
<1> QED
  BY <1>2, <1>3
  DEF Init, OwnTypes, Registry!OpenTypeOK, Registry!OpenInit, Registry!OpenPoints, Points,
      Verdicts, Bytes, Empty

\* The number of bytes read stays a number, and they are of the texts there are.
LEMMA ChunkTyped ==
  ASSUME OwnTypes, NEW q \in Requests, oh[q] \in Inodes, NEW n \in BytesRead(q)
  PROVE  /\ n \in Nat \ {0} /\ n <= chunkBytes /\ n <= remaining(q) /\ n <= Available(q)
         /\ [total |-> buf[q].total + n, from |-> buf[q].from \cup {text[oh[q]]}] \in Bytes
<1>1. /\ text[oh[q]] \in Texts /\ text[oh[q]].len \in Nat
      /\ buf[q].total \in Nat /\ buf[q].from \in SUBSET Texts
      /\ maxResourceBytes \in Nat /\ chunkBytes \in Nat
  BY BrokerConstants DEF OwnTypes, Bytes
<1>2. remaining(q) \in Int /\ Available(q) \in Int
  BY <1>1 DEF remaining, Available
<1>3. n \in Nat \ {0} /\ n <= chunkBytes /\ n <= remaining(q) /\ n <= Available(q)
  BY <1>1, <1>2 DEF BytesRead, Smaller
<1> QED
  BY <1>1, <1>3 DEF Bytes

LEMMA RequestStepTypes ==
  ASSUME OwnTypes, Functional, PolicySound, NEW q \in Requests, Place(q), Handle(q),
         RequestStep(q) \/ \E r \in Resources : ReadResource(q, r),
         UNCHANGED environment
  PROVE  OwnTypes'
<1> USE DEF opening, storage, boot, environment
<1>1. UNCHANGED mishaps
  OBVIOUS
<1>2. CASE \E r \in Resources : ReadResource(q, r)
  BY <1>2 DEF OwnTypes, ReadResource, AppendAudit, Points, Registry!OpenTypeOK
<1>3. CASE HookReturns(q)
  <2>1. CASE Registry!BeginOpen(q, want[q]) /\ pc' = [pc EXCEPT ![q] = "open"]
    <3>1. want[q] \in Resources
      BY <1>3 DEF HookReturns, Place
    <3> QED
      BY <1>3, <2>1, <3>1 DEF OwnTypes, HookReturns, Points, Registry!OpenTypeOK, Registry!BeginOpen,
                        Registry!paths, Registry!OpenPoints
  <2>2. CASE pc' = [pc EXCEPT ![q] = "audit"] /\ UNCHANGED <<storage, opening>>
    BY <1>3, <2>2 DEF OwnTypes, HookReturns, Points, Registry!OpenTypeOK
  <2> QED
    BY <1>3, <2>1, <2>2 DEF HookReturns, AuditError, AppendAudit
<1>4. CASE OpenStep(q)
  <2>1. /\ UNCHANGED <<supported, policy, text, overwritten, pc, want, buf, verdict, answer,
                       mishaps, entry, moved, pinned>>
        /\ pc[q] = "open"
    BY <1>4, OpeningStep DEF OpenStep, request
  <2>2. Opening(q) /\ want[q] \in Resources
    BY <2>1 DEF Handle, Place
  <2>3. /\ oat' \in [Requests -> Registry!OpenPoints]
        /\ oid' \in [Requests -> Resources \cup {NoResource}]
        /\ oh' \in [Requests -> Inodes \cup {NoHandle}]
        /\ ores' \in [Requests -> {"none", "ok", "changed"}]
    <3> USE DEF Functional, Registry!OpenPoints
    <3>1. CASE Registry!Open(q)
      <4>1. CASE Registry!Opens(oid[q])
        <5>1. entry[oid[q]].inode \in Inodes
          BY <2>2, <4>1 DEF Opening, OwnTypes, Registry!OpenTypeOK, Registry!Opens,
                            Registry!PathState
        <5> QED
          BY <3>1, <4>1, <5>1 DEF Registry!Open, Registry!AfterOpen
      <4>2. CASE ~Registry!Opens(oid[q])
        BY <3>1, <4>2 DEF Registry!Open
      <4> QED
        BY <4>1, <4>2
    <3>2. CASE Registry!Verify(q)
      BY <3>2 DEF Registry!Verify, Registry!Mismatch
    <3>3. CASE Registry!Drop(q)
      BY <3>3 DEF Registry!Drop
    <3> QED
      BY <1>4, <3>1, <3>2, <3>3 DEF OpenStep, Registry!OpenStep
  <2> QED
    BY <2>1, <2>3 DEF OwnTypes, Registry!OpenTypeOK
<1>5. CASE Opened(q)
  BY <1>5 DEF OwnTypes, Opened, AuditError, AppendAudit, Points, Registry!OpenTypeOK
<1>6. CASE ReadChunk(q)
  <2>1. oh[q] \in Inodes
    <3>1. want[q] \in DOMAIN pinned /\ oh[q] = pinned[want[q]]
      BY <1>6 DEF ReadChunk, Handle
    <3> QED
      BY <3>1 DEF OwnTypes, Registry!OpenTypeOK
  <2>2. PICK n \in BytesRead(q) :
          /\ buf' = [buf EXCEPT ![q] = [total |-> buf[q].total + n,
                                        from |-> buf[q].from \cup {text[oh[q]]}]]
          /\ verdict' \in [Requests -> Verdicts] /\ pc' \in [Requests -> Points]
    <3>1. [verdict EXCEPT ![q] = "RESOURCE_TOO_LARGE"] \in [Requests -> Verdicts]
      BY DEF OwnTypes, Verdicts
    <3>2. [pc EXCEPT ![q] = "close"] \in [Requests -> Points]
      BY DEF OwnTypes, Points
    <3>3. buf \in [Requests -> Bytes]
      BY DEF OwnTypes
    <3> QED
      BY <1>6, <3>1, <3>2, <3>3 DEF ReadChunk, OwnTypes
  <2>3. buf' \in [Requests -> Bytes]
    BY <2>1, <2>2, ChunkTyped DEF OwnTypes
  <2> QED
    BY <1>6, <2>2, <2>3 DEF OwnTypes, ReadChunk, Registry!OpenTypeOK
<1>7. CASE ReadEnd(q) \/ ReadFails(q)
  BY <1>7 DEF OwnTypes, ReadEnd, ReadFails, Points, Verdicts, Registry!OpenTypeOK
<1>8. CASE CloseHandle(q)
  BY <1>8 DEF OwnTypes, CloseHandle, ClosesHandle, AuditError, AppendAudit, Points,
              Registry!OpenTypeOK
<1>9. CASE AuditStep(q)
  BY <1>9 DEF OwnTypes, AuditStep, request, Registry!OpenTypeOK
<1>10. CASE Respond(q)
  <2>1. ev[q] \in Event
    BY <1>10 DEF Respond, Place
  <2>2. Outcome(ev[q], res[q], buf[q]) \in Answer
    <3>1. buf[q] \in Bytes /\ Empty \in Bytes
      BY DEF OwnTypes, Bytes, Empty
    <3>2. /\ ev[q].reason \in {e.reason : e \in Event}
          /\ ev[q].decision \in {"allow", "deny", "error"}
      BY <2>1 DEF Event
    <3> QED
      BY <3>1, <3>2 DEF Outcome, Answer, NoContent
  <2> QED
    BY <1>10, <2>2 DEF OwnTypes, Respond, Points, Registry!OpenTypeOK
<1> QED
  BY <1>2, <1>3, <1>4, <1>5, <1>6, <1>7, <1>8, <1>9, <1>10 DEF RequestStep, FileStep

LEMMA OwnTypesNext ==
  /\ OwnTypes /\ Functional /\ PolicySound /\ Places /\ Handles
  /\ [Next]_vars
  => OwnTypes'
<1> SUFFICES ASSUME OwnTypes, Functional, PolicySound, Places, Handles, [Next]_vars
             PROVE  OwnTypes'
  OBVIOUS
<1> USE DEF environment, boot, request, opening
<1>0. ASSUME Next PROVE UNCHANGED environment
  BY <1>0 DEF Next
<1>1. CASE UNCHANGED vars
  BY <1>1 DEF vars, OwnTypes, Registry!OpenTypeOK, storage
<1>2. ASSUME NEW q \in Requests, UNCHANGED environment,
             RequestStep(q) \/ \E r \in Resources : ReadResource(q, r)
      PROVE  OwnTypes'
  BY <1>2, RequestStepTypes DEF Places, Handles
<1>3. ASSUME NEW r \in Resources, Repoint(r), UNCHANGED environment PROVE OwnTypes'
  BY <1>3 DEF OwnTypes, Repoint, Registry!Repoint, Registry!openVars, Registry!OpenTypeOK
<1>4. ASSUME NEW i \in Inodes, NEW t \in Texts, Overwrite(i, t), UNCHANGED environment
      PROVE  OwnTypes'
  BY <1>4 DEF OwnTypes, Overwrite, Registry!OpenTypeOK
<1>5. ASSUME Destination, UNCHANGED environment PROVE OwnTypes'
  BY <1>5 DEF OwnTypes, Destination, Registry!OpenTypeOK, storage
<1>6. ASSUME Restart, UNCHANGED environment PROVE OwnTypes'
  <2>1. PolicySound'
    BY PolicySoundNext
  <2>2. policy' \in Policies \cup {NoPolicy}
    BY <1>6 DEF Restart
  <2>3. pinned' \in UNION {[S -> Inodes] : S \in SUBSET Resources}
    <3>1. CASE policy' = NoPolicy
      <4>1. Registry!NoPins \in [{} -> Inodes]
        BY DEF Registry!NoPins
      <4>2. ASSUME NEW doc \in Policies PROVE doc # NoPolicy
        BY <4>2, BrokerConstants, NoPolicyIsNoDocument
      <4> QED
        BY <1>6, <3>1, <4>1, <4>2 DEF Restart
    <3>2. CASE policy' # NoPolicy
      BY <2>1, <3>2 DEF PolicySound, Document
    <3> QED
      BY <3>1, <3>2
  <2> QED
    BY <1>6, <2>2, <2>3
    DEF OwnTypes, Restart, Registry!OpenTypeOK, Points, storage
<1> QED
  BY <1>0, <1>1, <1>2, <1>3, <1>4, <1>5, <1>6 DEF Next

\* Every step of the broker is a step of its audit writer or leaves it alone.
LEMMA BrokerStepsWriter == Functional /\ Places /\ [Next]_vars => WriterNext
<1> SUFFICES ASSUME Functional, Places, [Next]_vars PROVE WriterNext
  OBVIOUS
<1> USE DEF environment, log, appending
<1>1. ASSUME Audit!Next PROVE WriterNext
  BY <1>1, SameNext DEF WriterNext
<1>2. ASSUME UNCHANGED <<setting, log, appending>> PROVE WriterNext
  BY <1>2 DEF WriterNext, Writer!vars
<1>3. CASE UNCHANGED vars
  BY <1>2, <1>3 DEF vars
<1>4. ASSUME NEW q \in Requests, at[q] = "idle", NEW r \in Resources,
             NEW d \in {"allow", "deny", "error"},
             NEW reason \in {"ALLOWED", "ACCESS_DENIED", "POLICY_UNAVAILABLE",
                             "PLATFORM_UNSUPPORTED", "RESOURCE_CHANGED",
                             "RESOURCE_TOO_LARGE", "RESOURCE_ENCODING_INVALID",
                             "INTERNAL_ERROR"},
             AppendAudit(q, r, d, reason), UNCHANGED setting
      PROVE  WriterNext
  <2>1. EventOf(r, d, reason) \in Event
    BY EventTyped
  <2> QED
    BY <1>1, <1>4, <2>1 DEF AppendAudit, Audit!Next, Audit!Call
<1>5. ASSUME NEW q \in Requests, UNCHANGED setting,
             RequestStep(q) \/ \E r \in Resources : ReadResource(q, r)
      PROVE  WriterNext
  <2>1. Place(q)
    BY DEF Places
  <2>2. ASSUME NEW reason \in {"POLICY_UNAVAILABLE", "RESOURCE_CHANGED",
                               "RESOURCE_TOO_LARGE", "RESOURCE_ENCODING_INVALID",
                               "INTERNAL_ERROR"},
               AuditError(q, reason), pc[q] \in BeforeAudit \ {"idle"}
        PROVE  WriterNext
    BY <1>4, <1>5, <2>1, <2>2 DEF AuditError, Place
  <2>3. CASE \E r \in Resources : ReadResource(q, r)
    <3>1. PICK r \in Resources : ReadResource(q, r)
      BY <2>3
    <3> DEFINE decided == Evaluate(policy, supported, subjectId, r, ACTION_READ)
    <3>2. at[q] = "idle"
      BY <2>1, <3>1 DEF ReadResource, Place, BeforeAudit
    <3>3. CASE decided.decision = "deny"
      <4>1. decided.reason \in {"PLATFORM_UNSUPPORTED", "POLICY_UNAVAILABLE", "ACCESS_DENIED"}
        BY <3>3 DEF Evaluate, Decision
      <4>2. AppendAudit(q, r, "deny", decided.reason)
        BY <3>1, <3>3 DEF ReadResource
      <4> QED
        BY <1>4, <1>5, <3>2, <4>1, <4>2
    <3>4. CASE decided.decision # "deny"
      BY <1>2, <1>5, <3>1, <3>4 DEF ReadResource
    <3> QED
      BY <3>3, <3>4
  <2>4. CASE HookReturns(q)
    <3>1. \/ UNCHANGED <<log, appending>>
          \/ AuditError(q, "POLICY_UNAVAILABLE") \/ AuditError(q, "INTERNAL_ERROR")
      BY <2>4 DEF HookReturns
    <3> QED
      BY <1>2, <1>5, <2>2, <2>4, <3>1 DEF HookReturns, BeforeAudit
  <2>5. CASE Opened(q)
    <3>1. UNCHANGED <<log, appending>> \/ AuditError(q, "RESOURCE_CHANGED")
      BY <2>5 DEF Opened
    <3> QED
      BY <1>2, <1>5, <2>2, <2>5, <3>1 DEF Opened, BeforeAudit
  <2>6. CASE OpenStep(q) \/ ReadChunk(q) \/ ReadEnd(q) \/ ReadFails(q) \/ Respond(q)
    BY <1>2, <1>5, <2>6 DEF OpenStep, ReadChunk, ReadEnd, ReadFails, Respond
  <2>7. CASE CloseHandle(q)
    <3>1. CASE AppendAudit(q, want[q], "allow", "ALLOWED")
      BY <1>4, <1>5, <2>1, <2>7, <3>1 DEF CloseHandle, Place, BeforeAudit
    <3>2. CASE verdict[q] # "content" /\ AuditError(q, verdict[q])
      <4>1. verdict[q] \in {"RESOURCE_TOO_LARGE", "RESOURCE_ENCODING_INVALID",
                            "INTERNAL_ERROR"}
        BY <2>1, <2>7, <3>2 DEF CloseHandle, Place, Functional, Verdicts
      <4> QED
        BY <2>2, <2>7, <3>2, <4>1 DEF CloseHandle, BeforeAudit
    <3>3. CASE AuditError(q, "INTERNAL_ERROR")
      BY <2>2, <2>7, <3>3 DEF CloseHandle, BeforeAudit
    <3> QED
      BY <2>7, <3>1, <3>2, <3>3 DEF CloseHandle
  <2>8. CASE AuditStep(q)
    BY <1>1, <1>5, <2>8 DEF AuditStep, Audit!Next
  <2> QED
    BY <1>5, <2>3, <2>4, <2>5, <2>6, <2>7, <2>8 DEF RequestStep, FileStep
<1>6. ASSUME UNCHANGED setting,
             \/ \E r \in Resources : Repoint(r)
             \/ \E i \in Inodes, t \in Texts : Overwrite(i, t)
      PROVE  WriterNext
  BY <1>2, <1>6 DEF Repoint, Overwrite
<1>7. ASSUME Destination \/ Restart, UNCHANGED setting PROVE WriterNext
  BY <1>1, <1>7 DEF Destination, Restart, Audit!Next, Audit!Environment
<1> QED
  BY <1>3, <1>5, <1>6, <1>7 DEF Next

Sound == OwnTypes /\ PolicySound /\ Places /\ Handles /\ Writer!Typed

LEMMA SoundInit == Init => Sound
<1>1. Init => Writer!Typed
  BY SameInit, WriterConstants, Writer!TypedInit DEF Init
<1> QED
  BY <1>1, OwnTypesInit, PolicySoundInit, PlacesInit, HandlesInit DEF Sound

LEMMA SoundNext == Sound /\ [Next]_vars => Sound'
<1> SUFFICES ASSUME Sound, [Next]_vars PROVE Sound'
  OBVIOUS
<1>1. Functional
  BY TypesAreFunctional DEF Sound
<1>2. WriterNext
  BY <1>1, BrokerStepsWriter DEF Sound
<1>3. Writer!Typed'
  BY <1>2, WriterConstants, Writer!TypedNext DEF Sound, WriterNext
<1> QED
  BY <1>1, <1>3, OwnTypesNext, PolicySoundNext, PlacesNext, HandlesNext DEF Sound

LEMMA SoundSteps == Sound /\ [Next]_vars => [Writer!Next]_(Writer!vars)
  BY TypesAreFunctional, BrokerStepsWriter DEF Sound, WriterNext

\* All that the audit writer guarantees it guarantees inside the broker: the
\* broker uses append as the writer's specification has it (broker.ts:303-319).
THEOREM WriterInside == Spec => Writer!Spec
<1>1. Init => Writer!Init
  BY SameInit DEF Init
<1> QED
  BY <1>1, SoundInit, SoundNext, SoundSteps, PTL DEF Spec, Writer!Spec

\* The variables have their types.
THEOREM TypeCorrect == Spec => []TypeOK
<1>1. Sound => TypeOK
  BY DEF Sound, OwnTypes, TypeOK, Writer!Typed, Writer!TypeOK, Audit!TypeOK,
         Writer!PathStates, Audit!PathStates, Writer!Absent, Audit!Absent, Writer!Blocked,
         Audit!Blocked, Writer!Modes, Audit!Modes, Writer!Points, Audit!Points,
         Writer!Results, Audit!Results, Writer!Fragment, Audit!Fragment
<1> QED
  BY <1>1, SoundInit, SoundNext, PTL DEF Spec

-----------------------------------------------------------------------------
(***************************************************************************)
(* What the broker promises about its reads.                               *)
(***************************************************************************)

\* Bytes are read from the registered file of a granted resource only, whoever
\* re-points the path and whenever the broker restarts (broker.ts:255-271).
THEOREM ReadsAreGranted == Spec => []ReadsOnlyGrantedFiles
<1>1. Sound => ReadsOnlyGrantedFiles
  BY DEF Sound, Handles, Handle, ReadsOnlyGrantedFiles
<1> QED
  BY <1>1, SoundInit, SoundNext, PTL DEF Spec

\* Every path to the append has closed the file (the finally clause,
\* broker.ts:268-270), and so has the death of the process.
THEOREM HandlesAreClosed == Spec => []HandleClosedBeforeAudit
<1>1. Sound => HandleClosedBeforeAudit
  BY DEF Sound, Handles, Handle, HandleClosedBeforeAudit
<1> QED
  BY <1>1, SoundInit, SoundNext, PTL DEF Spec

\* An answer is given in one step, and stays.
LEMMA OnlyRespondAnswers ==
  ASSUME Functional, NEW q \in Requests, [Next]_vars, pc'[q] = "answered"
  PROVE  \/ pc[q] = "answered" /\ UNCHANGED <<answer[q], want[q], buf[q]>>
         \/ Respond(q)
<1> USE DEF Functional
<1>1. ASSUME NEW p \in Requests \ {q},
             (\E r \in Resources : ReadResource(p, r)) \/ RequestStep(p)
      PROVE  pc[q] = "answered" /\ UNCHANGED <<answer[q], want[q], buf[q]>>
  BY <1>1, OthersStill DEF Still
<1>2. ASSUME \E r \in Resources : ReadResource(q, r) PROVE FALSE
  BY <1>2 DEF ReadResource, AppendAudit
<1>3. ASSUME RequestStep(q), ~Respond(q) PROVE FALSE
  <2>1. pc'[q] \in {"open", "audit", "read", "close"}
    BY <1>3 DEF RequestStep, FileStep, HookReturns, OpenStep, Opened, ReadChunk, ReadEnd,
                ReadFails, CloseHandle, AuditStep, AuditError, AppendAudit, request
  <2> QED
    BY <2>1
<1>4. CASE \/ \E r \in Resources : Repoint(r)
           \/ \E i \in Inodes, t \in Texts : Overwrite(i, t)
           \/ Destination
  BY <1>4, OwnerStill DEF request
<1>5. CASE Restart
  BY <1>5 DEF Restart, InProgress
<1>6. CASE UNCHANGED vars
  BY <1>6 DEF vars, request
<1> QED
  BY <1>1, <1>2, <1>3, <1>4, <1>5, <1>6 DEF Next

\* Content leaves while the policy that granted it is in force, although several
\* awaits lie between evaluate and the release.
THEOREM ReleasesAreGranted == Spec => ReleasedUnderPolicy
<1> DEFINE Releases == \A q \in Requests : ~Released(q) /\ Released(q)' => MayRead(want[q])
<1>1. ASSUME Sound, [Next]_vars PROVE [Releases]_vars
  <2> SUFFICES ASSUME NEW q \in Requests, ~Released(q), Released(q)', vars' # vars
               PROVE  MayRead(want[q])
    OBVIOUS
  <2>1. Functional /\ Place(q) /\ Handle(q)
    BY <1>1, TypesAreFunctional DEF Sound, Places, Handles
  <2>2. pc'[q] = "answered" /\ answer'[q].decision = "allow"
    BY DEF Released, Answered
  <2>3. CASE pc[q] = "answered" /\ answer'[q] = answer[q]
    BY <2>2, <2>3 DEF Released, Answered
  <2>4. CASE Respond(q)
    <3>1. pc[q] = "audit" /\ answer'[q] = Outcome(ev[q], res[q], buf[q])
      BY <2>1, <2>4 DEF Respond, Functional
    <3>2. ev[q].decision = "allow"
      BY <2>2, <3>1 DEF Outcome
    <3> QED
      BY <2>1, <3>1, <3>2 DEF Handle
  <2> QED
    BY <1>1, <2>1, <2>2, <2>3, <2>4, OnlyRespondAnswers
<1> QED
  BY <1>1, SoundInit, SoundNext, PTL DEF Spec, ReleasedUnderPolicy

-----------------------------------------------------------------------------
(***************************************************************************)
(* What the broker promises about the audit.                               *)
(***************************************************************************)

\* An answer other than AUDIT_FAILED is the event of an append that succeeded.
LEMMA AnswerIsEvent ==
  ASSUME NEW q \in Requests, Place(q), Answered(q), answer[q].reason # "AUDIT_FAILED"
  PROVE  /\ res[q] = "ok" /\ ev[q] \in Event
         /\ ev[q] = EventOf(want[q], answer[q].decision, answer[q].reason)
<1>1. ev[q] \in Event /\ ev[q].resource = want[q] /\ answer[q] = Outcome(ev[q], res[q], buf[q])
  BY DEF Place, Answered
<1>2. res[q] = "ok"
  BY <1>1 DEF Outcome
<1>3. answer[q].decision = ev[q].decision /\ answer[q].reason = ev[q].reason
  BY <1>1, <1>2 DEF Outcome
<1> QED
  BY <1>1, <1>2, <1>3 DEF Event, EventOf

\* A record that is durable in the writer is an event in the broker's ledger.
LEMMA DurableIsLedger ==
  ASSUME NEW q \in Requests, Writer!Durable(q)
  PROVE  ev[q] \in DurableEvents(q)
<1>1. PICK f \in named : \E i \in 1 .. disk[f] :
        body[f][i].by = q /\ body[f][i].event = ev[q] /\ Writer!EndsLine(body[f][i])
  BY DEF Writer!Durable
<1>2. PICK i \in 1 .. disk[f] :
        body[f][i].by = q /\ body[f][i].event = ev[q] /\ Writer!EndsLine(body[f][i])
  BY <1>1
<1> DEFINE here == {j \in 1 .. disk[f] : body[f][j].by = q /\ Audit!EndsLine(body[f][j])}
<1>3. i \in here
  BY <1>2 DEF Writer!EndsLine, Audit!EndsLine
<1>4. ev[q] \in {body[f][j].event : j \in here}
  BY <1>2, <1>3
<1> QED
  BY <1>4 DEF DurableEvents

\* Where fsync makes the directory entry durable, every answer but AUDIT_FAILED
\* has its event on the disk, with its decision and reason, for good: through
\* rotation, the faults of other requests, crashes and restarts (ADR-006,
\* ADR-012; broker.ts:303-346).
THEOREM AnswersStandInTheLog == DirEntrySync /\ Spec => []AnswersAreAudited
<1> SUFFICES ASSUME DirEntrySync PROVE Spec => []AnswersAreAudited
  OBVIOUS
<1>1. Spec => []Writer!AcknowledgedIsDurable
  BY WriterInside, WriterConstants, Writer!Durability, PTL
<1>2. Sound /\ Writer!AcknowledgedIsDurable => AnswersAreAudited
  <2> SUFFICES ASSUME Sound, Writer!AcknowledgedIsDurable, NEW q \in Requests,
                      Answered(q), answer[q].reason # "AUDIT_FAILED"
               PROVE  EventOf(want[q], answer[q].decision, answer[q].reason)
                        \in DurableEvents(q)
    BY DEF AnswersAreAudited
  <2>1. /\ res[q] = "ok" /\ ev[q] \in Event
        /\ ev[q] = EventOf(want[q], answer[q].decision, answer[q].reason)
    BY AnswerIsEvent DEF Sound, Places
  <2>2. Writer!Durable(q)
    BY <2>1, WriterConstants DEF Writer!AcknowledgedIsDurable, Writer!Acknowledged,
                                 Writer!AuditConstants
  <2> QED
    BY <2>1, <2>2, DurableIsLedger
<1> QED
  BY <1>1, <1>2, SoundInit, SoundNext, PTL DEF Spec

\* A request begins at most one record, in all files together: neither a failed
\* append, a failing close nor a refusal is audited twice (ADR-012, "exactly
\* one").
THEOREM OneEventPerRequest == Spec => []NeverTwoEvents
<1>1. Spec => []Writer!Single
  BY WriterInside, WriterConstants, Writer!OneRecordPerCall, PTL
<1>2. Sound /\ Writer!Single => NeverTwoEvents
  <2> SUFFICES ASSUME Sound, Writer!Single, NEW q \in Requests
               PROVE  Cardinality(RecordsOf(q)) <= 1
    BY DEF NeverTwoEvents
  <2>1. \A f \in Files : DOMAIN body[f] = 1 .. Len(body[f])
    BY DEF Sound, Writer!Typed, Writer!TypeOK
  <2>2. ASSUME NEW x \in RecordsOf(q)
        PROVE  \E f \in Files : \E i \in 1 .. Len(body[f]) :
                 x = <<f, i>> /\ Writer!BeginsRecord(q, f, i)
    BY <2>1, <2>2 DEF RecordsOf, Writer!BeginsRecord
  <2>3. ASSUME NEW x \in RecordsOf(q), NEW y \in RecordsOf(q) PROVE x = y
    BY <2>2 DEF Writer!Single, Writer!OneRecord
  <2>4. CASE RecordsOf(q) = {}
    BY <2>4, FS_EmptySet
  <2>5. CASE RecordsOf(q) # {}
    <3>1. PICK x \in RecordsOf(q) : TRUE
      BY <2>5
    <3>2. RecordsOf(q) = {x}
      BY <2>3, <3>1
    <3>3. Cardinality({x}) = 1
      BY FS_Singleton
    <3> QED
      BY <3>2, <3>3
  <2> QED
    BY <2>4, <2>5
<1> QED
  BY <1>1, <1>2, SoundInit, SoundNext, PTL DEF Spec

-----------------------------------------------------------------------------
(***************************************************************************)
(* Fourth layer: the bytes read.  While a request reads it has not passed  *)
(* the limit, and what it has is of the text its file holds as long as     *)
(* that was not overwritten; what ends the loop says what the bytes are.   *)
(***************************************************************************)
WholeText(b) == /\ b.total <= maxResourceBytes
                /\ \E t \in Texts : t.len = b.total /\ t.utf8 /\ b.from \subseteq {t}

\* What a verdict, or the reason code made from it, says of the bytes b.
Justified(v, b) ==
  /\ v \in {"content", "ALLOWED"} /\ overwritten = {} => WholeText(b)
  /\ v = "RESOURCE_TOO_LARGE" => \E t \in b.from : t.len > maxResourceBytes
  /\ v = "RESOURCE_ENCODING_INVALID" /\ overwritten = {} =>
       \E t \in Texts : b.from = {t} /\ ~t.utf8

Content(q) ==
  /\ pc[q] \in {"idle", "hook", "open"} => buf[q] = Empty
  /\ pc[q] = "read" =>
       /\ buf[q].total <= maxResourceBytes
       /\ oh[q] \notin overwritten =>
            /\ buf[q].total <= text[oh[q]].len
            /\ buf[q].from = IF buf[q].total = 0 THEN {} ELSE {text[oh[q]]}
  /\ pc[q] = "close" => Justified(verdict[q], buf[q])
  /\ pc[q] \in {"audit", "answered"} =>
       /\ Justified(ev[q].reason, buf[q])
       /\ ev[q].decision = "allow" => ev[q].reason = "ALLOWED"

Contents == \A q \in Requests : Content(q)

LEMMA ContentsInit == Init => Contents
  BY DEF Init, Contents, Content

\* A chunk: the limit is passed by the one extra byte, of a text that is longer.
LEMMA ChunkContent ==
  ASSUME OwnTypes, Functional, NEW q \in Requests, Handle(q), Content(q), ReadChunk(q)
  PROVE  Content(q)'
<1>1. /\ pc[q] = "read" /\ oh[q] \in Inodes
      /\ UNCHANGED <<text, overwritten, oh>>
  <2>1. pc[q] = "read" /\ want[q] \in DOMAIN pinned /\ oh[q] = pinned[want[q]]
    BY DEF ReadChunk, Handle
  <2> QED
    BY <2>1 DEF OwnTypes, Registry!OpenTypeOK, ReadChunk, storage, opening
<1>2. PICK n \in BytesRead(q) :
        LET total == buf[q].total + n
        IN /\ buf' = [buf EXCEPT ![q] = [total |-> total,
                                        from |-> @.from \cup {text[oh[q]]}]]
           /\ IF TooLarge(total)
              THEN /\ verdict' = [verdict EXCEPT ![q] = "RESOURCE_TOO_LARGE"]
                   /\ pc' = [pc EXCEPT ![q] = "close"]
              ELSE UNCHANGED <<verdict, pc>>
  BY DEF ReadChunk
<1> DEFINE total == buf[q].total + n
<1>3. /\ buf'[q].total = total /\ buf'[q].from = buf[q].from \cup {text[oh[q]]}
  BY <1>2 DEF Functional
<1>4. /\ n \in Nat \ {0} /\ n <= Available(q)
      /\ text[oh[q]] \in Texts /\ text[oh[q]].len \in Nat
      /\ buf[q].total \in Nat /\ maxResourceBytes \in Nat
  BY <1>1, ChunkTyped, BrokerConstants DEF OwnTypes, Bytes
<1>5. total \in Nat /\ total # 0 /\ total <= text[oh[q]].len
  BY <1>4 DEF Available
<1>6. CASE TooLarge(total)
  <2>1. pc'[q] = "close" /\ verdict'[q] = "RESOURCE_TOO_LARGE"
    BY <1>2, <1>6 DEF Functional
  <2>2. text[oh[q]] \in buf'[q].from /\ text[oh[q]].len > maxResourceBytes
    BY <1>3, <1>4, <1>5, <1>6 DEF TooLarge
  <2> QED
    BY <2>1, <2>2 DEF Content, Justified
<1>7. CASE ~TooLarge(total)
  <2>1. pc'[q] = "read"
    BY <1>1, <1>2, <1>7
  <2>2. total <= maxResourceBytes
    BY <1>4, <1>5, <1>7 DEF TooLarge
  <2>3. oh[q] \notin overwritten => buf'[q].from = {text[oh[q]]}
    BY <1>1, <1>3 DEF Content
  <2> QED
    BY <1>1, <1>3, <1>5, <2>1, <2>2, <2>3 DEF Content
<1> QED
  BY <1>6, <1>7

\* End of file: what was read is all of the text, and the decoder tells of it.
LEMMA EndOfText ==
  ASSUME OwnTypes, Functional, NEW q \in Requests, Handle(q), Content(q), ReadEnd(q),
         oh[q] \notin overwritten
  PROVE  LET t == text[oh[q]]
         IN /\ t \in Texts /\ buf[q].total = t.len /\ t.len <= maxResourceBytes
            /\ buf[q].from = IF t.len = 0 THEN {} ELSE {t}
            /\ t.len = 0 => t.utf8
            /\ verdict'[q] = IF t.utf8 THEN "content" ELSE "RESOURCE_ENCODING_INVALID"
<1> DEFINE t == text[oh[q]]
<1>1. pc[q] = "read" /\ oh[q] \in Inodes
  <2>1. pc[q] = "read" /\ want[q] \in DOMAIN pinned /\ oh[q] = pinned[want[q]]
    BY DEF ReadEnd, Handle
  <2> QED
    BY <2>1 DEF OwnTypes, Registry!OpenTypeOK
<1>2. /\ t \in Texts /\ t.len \in Nat /\ (t.len = 0 => t.utf8) /\ t.utf8 \in BOOLEAN
      /\ buf[q] \in Bytes /\ buf[q].total \in Nat
      /\ maxResourceBytes \in Nat /\ chunkBytes \in Nat \ {0}
  BY <1>1, BrokerConstants DEF OwnTypes, Bytes
<1>3. PICK decodes \in Decodes(buf[q]) :
        verdict'[q] = IF decodes THEN "content" ELSE "RESOURCE_ENCODING_INVALID"
  BY DEF ReadEnd, Functional
<1>4. /\ buf[q].total <= maxResourceBytes /\ buf[q].total <= t.len
      /\ buf[q].from = IF buf[q].total = 0 THEN {} ELSE {t}
  BY <1>1 DEF Content
<1>5. buf[q].total = t.len
  <2>1. 1 \notin BytesRead(q)
    BY DEF ReadEnd
  <2>2. remaining(q) \in Int /\ remaining(q) >= 1 /\ Available(q) = t.len - buf[q].total
    BY <1>2, <1>4 DEF remaining, Available
  <2>3. ~(Available(q) >= 1)
    BY <1>2, <2>1, <2>2 DEF BytesRead, Smaller
  <2> QED
    BY <1>2, <1>4, <2>2, <2>3
<1>6. Decodes(buf[q]) = {t.utf8}
  <2>1. CASE t.len = 0
    BY <1>2, <1>5, <2>1 DEF Decodes
  <2>2. CASE t.len # 0
    <3>1. buf[q] = [total |-> t.len, from |-> {t}]
      BY <1>2, <1>4, <1>5, <2>2 DEF Bytes
    <3>2. \A u \in Texts : buf[q] = [total |-> u.len, from |-> {u}] => u = t
      BY <3>1
    <3>3. {u \in Texts : buf[q] = [total |-> u.len, from |-> {u}]} = {t}
      BY <1>2, <3>1, <3>2
    <3>4. {u.utf8 : u \in {w \in Texts : buf[q] = [total |-> w.len, from |-> {w}]}} = {t.utf8}
      BY <3>3
    <3>5. \E u \in Texts : buf[q] = [total |-> u.len, from |-> {u}]
      BY <1>2, <3>1
    <3> QED
      BY <1>5, <2>2, <3>4, <3>5 DEF Decodes
  <2> QED
    BY <2>1, <2>2
<1>7. decodes = t.utf8
  BY <1>6
<1> QED
  BY <1>2, <1>3, <1>4, <1>5, <1>7

LEMMA EndContent ==
  ASSUME OwnTypes, Functional, NEW q \in Requests, Handle(q), Content(q), ReadEnd(q)
  PROVE  Content(q)'
<1> DEFINE t == text[oh[q]]
<1>1. pc'[q] = "close" /\ UNCHANGED <<overwritten, buf>>
  BY DEF ReadEnd, storage, Functional
<1>2. verdict'[q] \in {"content", "RESOURCE_ENCODING_INVALID"}
  BY DEF ReadEnd, Functional
<1>3. CASE overwritten # {}
  BY <1>1, <1>2, <1>3 DEF Content, Justified
<1>4. CASE overwritten = {}
  <2>1. /\ t \in Texts /\ buf[q].total = t.len /\ t.len <= maxResourceBytes
        /\ buf[q].from = IF t.len = 0 THEN {} ELSE {t}
        /\ t.len = 0 => t.utf8
        /\ verdict'[q] = IF t.utf8 THEN "content" ELSE "RESOURCE_ENCODING_INVALID"
    BY <1>4, EndOfText
  <2>2. CASE t.utf8
    <3>1. WholeText(buf[q])
      BY <2>1, <2>2 DEF WholeText
    <3> QED
      BY <1>1, <2>1, <2>2, <3>1 DEF Content, Justified, WholeText
  <2>3. CASE ~t.utf8
    BY <1>1, <2>1, <2>3 DEF Content, Justified
  <2> QED
    BY <2>2, <2>3
<1> QED
  BY <1>3, <1>4

\* The event appended says what the verdict said.
LEMMA AuditContent ==
  ASSUME Functional, NEW q \in Requests, NEW r, NEW d, NEW reason,
         AppendAudit(q, r, d, reason), UNCHANGED <<buf, overwritten>>,
         Justified(reason, buf[q]), d = "allow" => reason = "ALLOWED"
  PROVE  Content(q)'
<1>1. /\ pc'[q] = "audit" /\ ev'[q].reason = reason /\ ev'[q].decision = d
      /\ buf'[q] = buf[q]
  BY DEF AppendAudit, Audit!Begin, EventOf, Functional
<1> QED
  BY <1>1 DEF Content, Justified, WholeText

LEMMA RequestStepContent ==
  ASSUME OwnTypes, Functional, NEW q \in Requests, Place(q), Handle(q), Content(q),
         RequestStep(q) \/ \E r \in Resources : ReadResource(q, r)
  PROVE  Content(q)'
<1> USE DEF Functional, opening, storage, request, appending, log
<1>1. ASSUME NEW v \in {"POLICY_UNAVAILABLE", "RESOURCE_CHANGED", "INTERNAL_ERROR",
                        "PLATFORM_UNSUPPORTED", "ACCESS_DENIED"}
      PROVE  Justified(v, buf[q])
  BY DEF Justified
<1>2. CASE \E r \in Resources : ReadResource(q, r)
  <2>1. PICK r \in Resources : ReadResource(q, r)
    BY <1>2
  <2> DEFINE decided == Evaluate(policy, supported, subjectId, r, ACTION_READ)
  <2>2. pc[q] = "idle" /\ UNCHANGED <<buf, overwritten>>
    BY <2>1 DEF ReadResource
  <2>3. CASE decided.decision = "deny"
    <3>1. decided.reason \in {"PLATFORM_UNSUPPORTED", "POLICY_UNAVAILABLE", "ACCESS_DENIED"}
      BY <2>3 DEF Evaluate, Decision
    <3>2. AppendAudit(q, r, "deny", decided.reason)
      BY <2>1, <2>3 DEF ReadResource
    <3>3. Justified(decided.reason, buf[q])
      BY <1>1, <3>1
    <3> QED
      BY <2>2, <3>2, <3>3, AuditContent
  <2>4. CASE decided.decision # "deny"
    BY <2>1, <2>2, <2>4 DEF ReadResource, Content
  <2> QED
    BY <2>3, <2>4
<1>3. ASSUME NEW reason \in {"POLICY_UNAVAILABLE", "RESOURCE_CHANGED", "INTERNAL_ERROR"},
             AuditError(q, reason), UNCHANGED <<buf, overwritten>>
      PROVE  Content(q)'
  BY <1>1, <1>3, AuditContent DEF AuditError
<1>4. CASE HookReturns(q)
  <2>1. CASE pc' = [pc EXCEPT ![q] = "open"]
    BY <1>4, <2>1 DEF HookReturns, Content
  <2>2. CASE AuditError(q, "POLICY_UNAVAILABLE") \/ AuditError(q, "INTERNAL_ERROR")
    BY <1>3, <1>4, <2>2 DEF HookReturns
  <2> QED
    BY <1>4, <2>1, <2>2 DEF HookReturns
<1>5. CASE OpenStep(q)
  BY <1>5 DEF OpenStep, Content
<1>6. CASE Opened(q)
  <2>1. CASE ores[q] = "ok" /\ pc' = [pc EXCEPT ![q] = "read"]
    <3>1. buf'[q] = Empty /\ pc'[q] = "read" /\ UNCHANGED <<text, oh>>
      BY <1>6, <2>1 DEF Opened, Content
    <3>2. text[oh[q]].len \in Nat
      <4>1. Opening(q) /\ oat[q] = "done" /\ NoHandle \notin Inodes
        BY <1>6, ComponentConstants DEF Opened, Handle, Registry!OpenConstants
      <4>2. oh[q] \in Inodes
        BY <2>1, <4>1 DEF Opening, OwnTypes, Registry!OpenTypeOK
      <4> QED
        BY <4>2, BrokerConstants DEF OwnTypes
    <3> QED
      BY <3>1, <3>2, BrokerConstants DEF Content, Empty
  <2>2. CASE AuditError(q, "RESOURCE_CHANGED")
    BY <1>3, <1>6, <2>2 DEF Opened
  <2> QED
    BY <1>6, <2>1, <2>2 DEF Opened
<1>7. CASE ReadChunk(q)
  BY <1>7, ChunkContent
<1>8. CASE ReadEnd(q)
  BY <1>8, EndContent
<1>9. CASE ReadFails(q)
  BY <1>9 DEF ReadFails, Content, Justified
<1>10. CASE CloseHandle(q)
  <2>1. Justified(verdict[q], buf[q]) /\ UNCHANGED <<buf, overwritten>>
    BY <1>10 DEF CloseHandle, Content
  <2>2. CASE verdict[q] = "content" /\ AppendAudit(q, want[q], "allow", "ALLOWED")
    <3>1. Justified("ALLOWED", buf[q])
      BY <2>1, <2>2 DEF Justified
    <3> QED
      BY <2>1, <2>2, <3>1, AuditContent
  <2>3. CASE AuditError(q, verdict[q])
    BY <2>1, <2>3, AuditContent DEF AuditError
  <2>4. CASE AuditError(q, "INTERNAL_ERROR")
    BY <1>3, <2>1, <2>4
  <2> QED
    BY <1>10, <2>2, <2>3, <2>4 DEF CloseHandle
<1>11. CASE AuditStep(q)
  <2>1. ev' = ev
    BY <1>11, AppendStep DEF AuditStep
  <2> QED
    BY <1>11, <2>1 DEF AuditStep, Content, Justified, WholeText
<1>12. CASE Respond(q)
  BY <1>12 DEF Respond, Content, Justified, WholeText
<1> QED
  BY <1>2, <1>4, <1>5, <1>6, <1>7, <1>8, <1>9, <1>10, <1>11, <1>12
  DEF RequestStep, FileStep

LEMMA ContentsNext ==
  /\ OwnTypes /\ Functional /\ Places /\ Handles /\ Contents
  /\ [Next]_vars
  => Contents'
<1> SUFFICES ASSUME OwnTypes, Functional, Places, Handles, Contents, [Next]_vars,
                    NEW p \in Requests
             PROVE  Content(p)'
  BY DEF Contents
<1>1. Content(p)
  BY DEF Contents
<1>2. ASSUME UNCHANGED <<pc, buf, verdict, ev, oh, text, overwritten>> PROVE Content(p)'
  BY <1>1, <1>2 DEF Content, Justified, WholeText
<1>3. ASSUME NEW q \in Requests,
             RequestStep(q) \/ \E r \in Resources : ReadResource(q, r)
      PROVE  Content(p)'
  <2>1. CASE p = q
    BY <1>1, <1>3, <2>1, RequestStepContent DEF Places, Handles
  <2>2. CASE p # q
    <3>1. Still(p)
      BY <1>3, <2>2, OthersStill
    <3>2. UNCHANGED <<text, overwritten>>
      BY <1>3 DEF RequestStep, FileStep, ReadResource, HookReturns, OpenStep, Opened,
                  ReadChunk, ReadEnd, ReadFails, CloseHandle, AuditStep, Respond,
                  storage
    <3> QED
      BY <1>1, <3>1, <3>2 DEF Still, Content, Justified, WholeText
  <2> QED
    BY <2>1, <2>2
<1>4. ASSUME NEW r \in Resources, Repoint(r) PROVE Content(p)'
  BY <1>2, <1>4, OwnerStill DEF Repoint, request, opening
<1>5. ASSUME NEW i \in Inodes, NEW t \in Texts, Overwrite(i, t) PROVE Content(p)'
  <2>1. UNCHANGED <<pc, buf, verdict, ev, oh>> /\ overwritten' = overwritten \cup {i}
    BY <1>5, OwnerStill DEF Overwrite, request, opening
  <2>2. pc[p] = "read" /\ oh[p] \notin overwritten' => text'[oh[p]] = text[oh[p]]
    <3>1. text' = [text EXCEPT ![i] = t] /\ text \in [Inodes -> Texts]
      BY <1>5 DEF Overwrite, OwnTypes
    <3>2. pc[p] = "read" => want[p] \in DOMAIN pinned /\ oh[p] = pinned[want[p]]
      BY DEF Handles, Handle
    <3>3. pc[p] = "read" => oh[p] \in Inodes
      BY <3>2 DEF OwnTypes, Registry!OpenTypeOK
    <3> QED
      BY <2>1, <3>1, <3>3
  <2> QED
    BY <1>1, <2>1, <2>2 DEF Content, Justified
<1>6. ASSUME Destination PROVE Content(p)'
  BY <1>2, <1>6, OwnerStill DEF Destination, storage, request, opening
<1>7. CASE Restart
  <2>1. /\ pc'[p] = IF InProgress(p) THEN "lost" ELSE pc[p]
        /\ UNCHANGED <<buf, verdict, ev, overwritten>>
    BY <1>7 DEF Restart, storage, Audit!Kill, Audit!PowerLoss, Audit!ProcessDies
  <2>2. pc'[p] \in {"idle", "answered", "lost"} /\ (pc'[p] # "lost" => pc'[p] = pc[p])
    BY <2>1 DEF InProgress, Functional, Points
  <2> QED
    BY <1>1, <2>1, <2>2 DEF Content, Justified, WholeText
<1>8. CASE UNCHANGED vars
  BY <1>2, <1>8 DEF vars, request, opening, appending, storage
<1> QED
  BY <1>3, <1>4, <1>5, <1>6, <1>7, <1>8 DEF Next

\* Unless a file was overwritten, what is released is one whole text within the
\* limit: the loop stops neither a byte early nor a byte late, whatever short
\* reads there are (broker.ts:119-157).
THEOREM ReleasesAreWhole == Spec => []ReleasedWhole
<1> DEFINE IInv == Sound /\ Contents
<1>1. IInv /\ [Next]_vars => IInv'
  BY SoundNext, ContentsNext, TypesAreFunctional DEF Sound
<1>2. IInv => ReleasedWhole
  <2> SUFFICES ASSUME IInv, NEW q \in Requests, Released(q), overwritten = {}
               PROVE  WholeText(answer[q].content)
    BY DEF ReleasedWhole, WholeText
  <2>1. Place(q) /\ Content(q) /\ pc[q] = "answered" /\ answer[q].decision = "allow"
    BY DEF Sound, Places, Contents, Released, Answered
  <2>2. answer[q] = Outcome(ev[q], res[q], buf[q])
    BY <2>1 DEF Place
  <2>3. ev[q].decision = "allow" /\ answer[q].content = buf[q]
    BY <2>1, <2>2 DEF Outcome
  <2>4. Justified(ev[q].reason, buf[q]) /\ ev[q].reason = "ALLOWED"
    BY <2>1, <2>3 DEF Content
  <2> QED
    BY <2>3, <2>4 DEF Justified
<1> QED
  BY <1>1, <1>2, SoundInit, ContentsInit, PTL DEF Spec

-----------------------------------------------------------------------------
(***************************************************************************)
(* Fifth layer: what an error says of the file.  The path of a resource    *)
(* nobody moved leads to the pinned file, which is a regular one, so that  *)
(* without I/O errors an openVerified of it cannot end as changed.         *)
(***************************************************************************)
PinnedInPlace ==
  policy # NoPolicy =>
    \A r \in policy.resources \ moved : /\ entry[r] # Missing
                                        /\ entry[r] = Registry!Direct(pinned[r])
                                        /\ Registry!IsFile(pinned[r])

NoIo == "io" \notin mishaps

Truthful(q) ==
  NoIo => /\ pc[q] = "open" /\ want[q] \notin moved =>
               /\ oat[q] = "fstat" => oh[q] = pinned[want[q]]
               /\ oat[q] # "drop" /\ ores[q] # "changed"
          /\ pc[q] = "close" => verdict[q] # "INTERNAL_ERROR"
          /\ pc[q] \in {"audit", "answered"} =>
               /\ ev[q].reason # "INTERNAL_ERROR"
               /\ ev[q].reason = "RESOURCE_CHANGED" => want[q] \in moved

AllTruthful == \A q \in Requests : Truthful(q)

LEMMA TruthfulInit == Init => AllTruthful
  BY DEF Init, AllTruthful, Truthful, Registry!OpenInit

LEMMA PinnedInit == Init => PinnedInPlace
<1> SUFFICES ASSUME Init, policy # NoPolicy, NEW r \in policy.resources
             PROVE  /\ entry[r] # Missing
                    /\ entry[r] = Registry!Direct(pinned[r])
                    /\ Registry!IsFile(pinned[r])
  BY DEF PinnedInPlace
<1>1. policy \in Document /\ Registrable(policy) /\ pinned = Captured(policy)
  BY BrokerConstants DEF Init, MayServe
<1>2. r \in Resources
  BY <1>1 DEF Document
<1>3. \E i \in Inodes : entry[r] = Registry!Direct(i)
  BY <1>2 DEF Init
<1> QED
  BY <1>1, <1>3 DEF Registrable, Captured, Registry!Direct

LEMMA PinnedNext ==
  OwnTypes /\ PolicySound /\ PinnedInPlace /\ [Next]_vars => PinnedInPlace'
<1> SUFFICES ASSUME OwnTypes, PolicySound, PinnedInPlace, [Next]_vars PROVE PinnedInPlace'
  OBVIOUS
<1>1. ASSUME UNCHANGED <<policy, pinned, entry, moved>> PROVE PinnedInPlace'
  BY <1>1 DEF PinnedInPlace, Registry!Direct, Registry!IsFile
<1>2. ASSUME NEW q \in Requests,
             RequestStep(q) \/ \E r \in Resources : ReadResource(q, r)
      PROVE  UNCHANGED <<policy, pinned, entry, moved>>
  <2>1. CASE OpenStep(q)
    BY <2>1, <1>2
    DEF OpenStep, boot, Registry!OpenStep, Registry!Open, Registry!Verify, Registry!Drop,
        Registry!paths
  <2>2. CASE HookReturns(q)
    BY <2>2 DEF HookReturns, boot, storage, Registry!BeginOpen, Registry!paths
  <2> QED
    BY <1>2, <2>1, <2>2 DEF RequestStep, FileStep, ReadResource, Opened, ReadChunk,
                            ReadEnd, ReadFails, CloseHandle, AuditStep, Respond, storage,
                            boot
<1>3. ASSUME NEW r \in Resources, Repoint(r) PROVE PinnedInPlace'
  <2>1. \A s \in Resources \ moved' : s \in Resources \ moved /\ entry'[s] = entry[s]
    BY <1>3 DEF Repoint, Registry!Repoint, OwnTypes, Registry!OpenTypeOK
  <2>2. policy # NoPolicy => policy.resources \subseteq Resources
    BY DEF PolicySound, Document
  <2> QED
    BY <1>3, <2>1, <2>2 DEF Repoint, boot, PinnedInPlace, Registry!Direct, Registry!IsFile
<1>4. ASSUME NEW i \in Inodes, NEW t \in Texts, Overwrite(i, t) PROVE PinnedInPlace'
  BY <1>1, <1>4 DEF Overwrite, boot
<1>5. ASSUME Destination PROVE PinnedInPlace'
  BY <1>1, <1>5 DEF Destination, boot, storage
<1>6. CASE Restart
  <2>1. UNCHANGED <<entry, moved>>
    BY <1>6 DEF Restart, storage
  <2>2. CASE policy' = NoPolicy
    BY <2>2 DEF PinnedInPlace
  <2>3. ASSUME NEW doc \in Policies, MayServe(doc), policy' = doc, pinned' = Captured(doc),
               NEW r \in doc.resources
        PROVE  /\ entry[r] # Missing
               /\ entry[r] = Registry!Direct(pinned'[r])
               /\ Registry!IsFile(pinned'[r])
    <3>1. r \in Resources
      BY <2>3, BrokerConstants DEF Document
    <3>2. /\ entry[r] \in Registry!PathState /\ entry[r] # Missing
          /\ entry[r].route = "direct" /\ Registry!IsFile(entry[r].inode)
      BY <2>3, <3>1 DEF MayServe, Registrable, OwnTypes, Registry!OpenTypeOK
    <3> QED
      BY <2>3, <3>2 DEF Captured, Registry!Direct, Registry!PathState
  <2> QED
    BY <1>6, <2>1, <2>2, <2>3 DEF Restart, PinnedInPlace, Registry!Direct, Registry!IsFile
<1>7. CASE UNCHANGED vars
  BY <1>1, <1>7 DEF vars, boot, storage
<1> QED
  BY <1>2, <1>1, <1>3, <1>4, <1>5, <1>6, <1>7 DEF Next

\* A resource the policy grants is one of the document, and so pinned.
LEMMA GrantedIsDeclared ==
  ASSUME PolicySound, NEW r, MayRead(r)
  PROVE  policy # NoPolicy /\ r \in policy.resources /\ r \in DOMAIN pinned
<1>1. policy # NoPolicy /\ Granted(policy, subjectId, r)
  BY DEF MayRead
<1>2. PICK i \in DOMAIN policy.rules :
        policy.rules[i] = [subject |-> subjectId, resource |-> r, decision |-> "allow"]
  BY <1>1 DEF Granted
<1>3. policy.rules[i].resource = r
  BY <1>2
<1> QED
  BY <1>1, <1>3 DEF PolicySound, Accepts, RulesDeclared

LEMMA AuditTruthful ==
  ASSUME Functional, NEW q \in Requests, NEW r, NEW d, NEW reason,
         AppendAudit(q, r, d, reason), UNCHANGED <<mishaps, moved, want>>,
         NoIo => reason # "INTERNAL_ERROR",
         NoIo /\ reason = "RESOURCE_CHANGED" => want[q] \in moved
  PROVE  Truthful(q)'
<1>1. pc'[q] = "audit" /\ ev'[q].reason = reason
  BY DEF AppendAudit, Audit!Begin, EventOf, Functional
<1> QED
  BY <1>1 DEF Truthful, NoIo

LEMMA RequestStepTruthful ==
  ASSUME OwnTypes, Functional, PolicySound, PinnedInPlace, UNCHANGED environment,
         NEW q \in Requests, Place(q), Handle(q), Truthful(q),
         RequestStep(q) \/ \E r \in Resources : ReadResource(q, r),
         UNCHANGED <<pinned, entry, moved>>
  PROVE  Truthful(q)'
<1> USE DEF Functional, environment, opening, request, appending, log, NoIo
<1>1. CASE \E r \in Resources : ReadResource(q, r)
  <2>1. PICK r \in Resources : ReadResource(q, r)
    BY <1>1
  <2> DEFINE decided == Evaluate(policy, supported, subjectId, r, ACTION_READ)
  <2>2. CASE decided.decision = "deny"
    <3>1. decided.reason \in {"PLATFORM_UNSUPPORTED", "POLICY_UNAVAILABLE", "ACCESS_DENIED"}
      BY <2>2 DEF Evaluate, Decision
    <3>2. pc'[q] = "audit" /\ ev'[q].reason = decided.reason
      BY <2>1, <2>2 DEF ReadResource, AppendAudit, Audit!Begin, EventOf
    <3> QED
      BY <3>1, <3>2 DEF Truthful
  <2>3. CASE decided.decision # "deny"
    BY <2>1, <2>3 DEF ReadResource, Truthful
  <2> QED
    BY <2>2, <2>3
<1>2. CASE HookReturns(q)
  <2>1. CASE pc' = [pc EXCEPT ![q] = "open"] /\ Registry!BeginOpen(q, want[q])
    <3>1. want[q] \in DOMAIN pinned
      BY <1>2, GrantedIsDeclared DEF HookReturns, Handle
    <3>2. pc'[q] = "open" /\ oat'[q] = "open" /\ ores'[q] = "none"
      BY <1>2, <2>1, <3>1 DEF HookReturns, Registry!BeginOpen, Handle
    <3> QED
      BY <3>2 DEF Truthful
  <2>2. CASE policy = NoPolicy /\ AuditError(q, "POLICY_UNAVAILABLE")
    BY <1>2, <2>2, AuditTruthful DEF HookReturns, AuditError
  <2>3. CASE "io" \in mishaps
    BY <2>3 DEF Truthful
  <2> QED
    BY <1>2, <2>1, <2>2, <2>3 DEF HookReturns
<1>3. CASE OpenStep(q)
  <2> SUFFICES ASSUME NoIo, want[q] \notin moved PROVE Truthful(q)'
    BY <1>3 DEF Truthful, OpenStep
  <2>1. /\ pc'[q] = "open" /\ pc[q] = "open" /\ want'[q] = want[q] /\ Opening(q)
        /\ policy # NoPolicy /\ want[q] \in policy.resources /\ oid[q] = want[q]
    BY <1>3, GrantedIsDeclared DEF OpenStep, Handle, Opening
  <2>2. /\ entry[want[q]] # Missing
        /\ entry[want[q]] = Registry!Direct(pinned[want[q]])
        /\ Registry!IsFile(pinned[want[q]])
    BY <2>1 DEF PinnedInPlace
  <2>3. /\ oat[q] = "fstat" => oh[q] = pinned[want[q]]
        /\ oat[q] # "drop" /\ ores[q] # "changed"
    BY <2>1 DEF Truthful
  <2>4. CASE Registry!Open(q)
    <3>1. Registry!Opens(oid[q])
      BY <2>1, <2>2 DEF Registry!Opens, Registry!Direct, Registry!FollowedRoutes
    <3>2. Registry!AfterOpen(entry[oid[q]].inode) = "fstat"
      BY <2>1, <2>2, ComponentConstants
      DEF Registry!AfterOpen, Registry!Direct, Registry!IsFile, Registry!OpenConstants
    <3>3. oat'[q] = "fstat" /\ oh'[q] = pinned[want[q]] /\ ores' = ores
      BY <2>1, <2>2, <2>4, <3>1, <3>2 DEF Registry!Open, Registry!Direct
    <3> QED
      BY <1>3, <2>1, <2>3, <3>3 DEF Truthful, OpenStep
  <2>5. CASE Registry!Verify(q)
    <3>1. Registry!SameIdentity(q)
      BY <2>1, <2>2, <2>3, <2>5 DEF Registry!SameIdentity, Registry!Verify
    <3>2. oat'[q] = "done" /\ ores'[q] = "ok"
      BY <2>5, <3>1 DEF Registry!Verify
    <3> QED
      BY <2>1, <3>2 DEF Truthful
  <2>6. CASE Registry!Drop(q)
    BY <2>3, <2>6 DEF Registry!Drop
  <2> QED
    BY <1>3, <2>4, <2>5, <2>6 DEF OpenStep, Registry!OpenStep
<1>4. CASE Opened(q)
  <2>1. CASE pc' = [pc EXCEPT ![q] = "read"]
    BY <1>4, <2>1 DEF Opened, Truthful
  <2>2. CASE ores[q] = "changed" /\ AuditError(q, "RESOURCE_CHANGED")
    <3>1. NoIo => want[q] \in moved
      BY <1>4, <2>2 DEF Opened, Truthful
    <3> QED
      BY <1>4, <2>2, <3>1, AuditTruthful DEF Opened, AuditError
  <2> QED
    BY <1>4, <2>1, <2>2 DEF Opened
<1>5. CASE ReadChunk(q)
  <2>1. \/ pc' = pc
        \/ verdict' = [verdict EXCEPT ![q] = "RESOURCE_TOO_LARGE"]
           /\ pc' = [pc EXCEPT ![q] = "close"]
    BY <1>5 DEF ReadChunk
  <2> QED
    BY <1>5, <2>1 DEF ReadChunk, Truthful
<1>6. CASE ReadEnd(q)
  BY <1>6 DEF ReadEnd, Truthful
<1>7. CASE ReadFails(q)
  BY <1>7 DEF ReadFails, Truthful
<1>8. CASE CloseHandle(q)
  <2>1. UNCHANGED want /\ (NoIo => verdict[q] # "INTERNAL_ERROR")
    BY <1>8 DEF CloseHandle, Truthful
  <2>2. CASE AppendAudit(q, want[q], "allow", "ALLOWED")
    BY <2>1, <2>2, AuditTruthful
  <2>3. CASE verdict[q] # "content" /\ AuditError(q, verdict[q])
    <3>1. verdict[q] # "RESOURCE_CHANGED"
      BY DEF Verdicts
    <3> QED
      BY <2>1, <2>3, <3>1, AuditTruthful DEF AuditError
  <2>4. CASE "io" \in mishaps
    BY <2>4 DEF Truthful
  <2> QED
    BY <1>8, <2>2, <2>3, <2>4 DEF CloseHandle
<1>9. CASE AuditStep(q)
  <2>1. ev' = ev
    BY <1>9, AppendStep DEF AuditStep
  <2> QED
    BY <1>9, <2>1 DEF AuditStep, Truthful
<1>10. CASE Respond(q)
  BY <1>10 DEF Respond, Truthful
<1> QED
  BY <1>1, <1>2, <1>3, <1>4, <1>5, <1>6, <1>7, <1>8, <1>9, <1>10 DEF RequestStep,
                                                                     FileStep

LEMMA TruthfulNext ==
  /\ OwnTypes /\ Functional /\ PolicySound /\ PinnedInPlace
  /\ Places /\ Handles /\ AllTruthful
  /\ [Next]_vars
  => AllTruthful'
<1> SUFFICES ASSUME OwnTypes, Functional, PolicySound, PinnedInPlace, Places, Handles,
                    AllTruthful, [Next]_vars, NEW p \in Requests
             PROVE  Truthful(p)'
  BY DEF AllTruthful
<1>1. Truthful(p)
  BY DEF AllTruthful
<1>2. ASSUME UNCHANGED <<pc, want, verdict, oat, oh, ores, ev, pinned, mishaps>>,
             moved \subseteq moved'
      PROVE  Truthful(p)'
  BY <1>1, <1>2 DEF Truthful, NoIo
<1>3. ASSUME NEW q \in Requests, UNCHANGED environment,
             RequestStep(q) \/ \E r \in Resources : ReadResource(q, r)
      PROVE  Truthful(p)'
  <2>1. UNCHANGED <<pinned, entry, moved>>
    <3>1. CASE OpenStep(q)
      BY <3>1, OpeningStep DEF OpenStep
    <3>2. CASE HookReturns(q)
      BY <3>2 DEF HookReturns, boot, storage, Registry!BeginOpen, Registry!paths
    <3> QED
      BY <1>3, <3>1, <3>2 DEF RequestStep, FileStep, ReadResource, Opened, ReadChunk,
                              ReadEnd, ReadFails, CloseHandle, AuditStep, Respond,
                              storage, boot
  <2>2. CASE p = q
    BY <1>1, <1>3, <2>1, <2>2, RequestStepTruthful DEF Places, Handles
  <2>3. CASE p # q
    <3>1. Still(p) /\ UNCHANGED mishaps
      BY <1>3, <2>3, OthersStill DEF environment
    <3> QED
      BY <1>1, <2>1, <3>1 DEF Still, Truthful, NoIo
  <2> QED
    BY <2>2, <2>3
<1>4. ASSUME NEW r \in Resources, Repoint(r), UNCHANGED environment PROVE Truthful(p)'
  BY <1>2, <1>4, OwnerStill DEF Repoint, Registry!Repoint, boot, request, opening, environment
<1>5. ASSUME NEW i \in Inodes, NEW t \in Texts, Overwrite(i, t), UNCHANGED environment
      PROVE  Truthful(p)'
  BY <1>2, <1>5, OwnerStill DEF Overwrite, boot, request, opening, environment
<1>6. ASSUME Destination, UNCHANGED environment PROVE Truthful(p)'
  BY <1>2, <1>6, OwnerStill DEF Destination, boot, request, opening, storage, environment
<1>7. ASSUME Restart, UNCHANGED environment PROVE Truthful(p)'
  <2>1. /\ pc'[p] = IF InProgress(p) THEN "lost" ELSE pc[p]
        /\ UNCHANGED <<want, ev, moved, mishaps>>
    BY <1>7 DEF Restart, storage, environment, Audit!Kill, Audit!PowerLoss, Audit!ProcessDies
  <2>2. pc'[p] \in {"idle", "answered", "lost"} /\ (pc'[p] # "lost" => pc'[p] = pc[p])
    BY <2>1 DEF InProgress, Functional, Points
  <2> QED
    BY <1>1, <2>1, <2>2 DEF Truthful, NoIo
<1>8. CASE UNCHANGED vars
  BY <1>2, <1>8 DEF vars, boot, request, opening, appending, storage, environment
<1> QED
  BY <1>3, <1>4, <1>5, <1>6, <1>7, <1>8 DEF Next

\* Each error names what happened: no resource is reported changed that nobody
\* moved, size and encoding errors are about the bytes of the file, and without
\* I/O errors there is no internal one (broker.ts:255-301).
THEOREM ErrorsAreAboutTheFile == Spec => []ErrorsAreTruthful
<1> DEFINE IInv == Sound /\ Contents /\ PinnedInPlace /\ AllTruthful
<1>1. IInv /\ [Next]_vars => IInv'
  BY SoundNext, ContentsNext, PinnedNext, TruthfulNext, TypesAreFunctional DEF Sound
<1>2. IInv => ErrorsAreTruthful
  <2> SUFFICES ASSUME IInv, NEW q \in Requests, Answered(q), "io" \notin mishaps
               PROVE  LET reason == answer[q].reason
                      IN /\ reason = "RESOURCE_CHANGED" => want[q] \in moved
                         /\ reason = "RESOURCE_TOO_LARGE" =>
                              \E t \in buf[q].from : t.len > maxResourceBytes
                         /\ reason = "RESOURCE_ENCODING_INVALID" /\ overwritten = {} =>
                              \E t \in Texts : buf[q].from = {t} /\ ~t.utf8
                         /\ reason # "INTERNAL_ERROR"
    BY DEF ErrorsAreTruthful
  <2>1. /\ Place(q) /\ Content(q) /\ Truthful(q)
        /\ pc[q] = "answered" /\ answer[q] = Outcome(ev[q], res[q], buf[q])
    BY DEF Sound, Places, Place, Contents, AllTruthful, Answered
  <2>2. answer[q].reason \in {ev[q].reason, "AUDIT_FAILED"}
    BY <2>1 DEF Outcome
  <2>3. Justified(ev[q].reason, buf[q])
    BY <2>1 DEF Content
  <2>4. /\ ev[q].reason # "INTERNAL_ERROR"
        /\ ev[q].reason = "RESOURCE_CHANGED" => want[q] \in moved
    BY <2>1 DEF Truthful, NoIo
  <2> QED
    BY <2>2, <2>3, <2>4 DEF Justified
<1>3. Init => IInv
  BY SoundInit, ContentsInit, PinnedInit, TruthfulInit
<1> QED
  BY <1>1, <1>2, <1>3, PTL DEF Spec

-----------------------------------------------------------------------------
(***************************************************************************)
(* Sixth layer: nothing but what happened to its file, its path or the     *)
(* audit destination makes a granted read fail.  The verdict on an intact  *)
(* text that can be read is its content, and the event made from it allows.*)
(***************************************************************************)
Readable(q) == LET file == pinned[want[q]]
               IN /\ file \notin overwritten
                  /\ text[file].utf8 /\ text[file].len <= maxResourceBytes

Served(q) ==
  NoIo => /\ pc[q] = "close" /\ Readable(q) => verdict[q] = "content"
          /\ pc[q] = "audit" /\ MayRead(want[q]) /\ want[q] \notin moved /\ Readable(q) =>
               ev[q].decision = "allow"

AllServed == \A q \in Requests : Served(q)

LEMMA ServedInit == Init => AllServed
  BY DEF Init, AllServed, Served

\* A read that evaluate denies is not granted by the policy in force.
LEMMA DeniedIsNotGranted ==
  ASSUME PolicySound, NEW r,
         Evaluate(policy, supported, subjectId, r, ACTION_READ).decision = "deny"
  PROVE  ~MayRead(r)
<1> SUFFICES ASSUME supported, policy # NoPolicy, Granted(policy, subjectId, r) PROVE FALSE
  BY DEF MayRead
<1>1. Evaluate(policy, TRUE, subjectId, r, ACTION_READ).decision = "allow"
  BY EvaluateGranted DEF PolicySound
<1>2. Evaluate(policy, supported, subjectId, r, ACTION_READ).decision = "allow"
  BY <1>1 DEF Evaluate, Decision
<1> QED
  BY <1>2

LEMMA RequestStepServed ==
  ASSUME OwnTypes, Functional, PolicySound, UNCHANGED environment, UNCHANGED boot,
         UNCHANGED <<text, overwritten, moved>>,
         NEW q \in Requests, Handle(q), Content(q), Truthful(q), Served(q),
         RequestStep(q) \/ \E r \in Resources : ReadResource(q, r)
  PROVE  Served(q)'
<1> USE DEF Functional, environment, boot, request, appending, log, NoIo
<1>0. ASSUME UNCHANGED want
      PROVE  (MayRead(want[q])' <=> MayRead(want[q])) /\ (Readable(q)' <=> Readable(q))
  BY <1>0 DEF MayRead, Readable
<1>1. CASE \E r \in Resources : ReadResource(q, r)
  <2>1. PICK r \in Resources : ReadResource(q, r)
    BY <1>1
  <2>2. want'[q] = r
    BY <2>1 DEF ReadResource
  <2>3. CASE Evaluate(policy, supported, subjectId, r, ACTION_READ).decision = "deny"
    <3>1. ~MayRead(want[q])'
      BY <2>2, <2>3, DeniedIsNotGranted DEF MayRead
    <3>2. pc'[q] = "audit"
      BY <2>1, <2>3 DEF ReadResource, AppendAudit
    <3> QED
      BY <3>1, <3>2 DEF Served
  <2>4. CASE Evaluate(policy, supported, subjectId, r, ACTION_READ).decision # "deny"
    BY <2>1, <2>4 DEF ReadResource, Served
  <2> QED
    BY <2>3, <2>4
<1>2. CASE HookReturns(q)
  <2>1. CASE pc' = [pc EXCEPT ![q] = "open"]
    BY <1>2, <2>1 DEF HookReturns, Served
  <2>2. CASE policy = NoPolicy /\ AuditError(q, "POLICY_UNAVAILABLE")
    BY <2>2 DEF AuditError, AppendAudit, Served, MayRead
  <2>3. CASE "io" \in mishaps
    BY <2>3 DEF Served
  <2> QED
    BY <1>2, <2>1, <2>2, <2>3 DEF HookReturns
<1>3. CASE OpenStep(q)
  BY <1>3 DEF OpenStep, Served
<1>4. CASE Opened(q)
  <2>1. CASE pc' = [pc EXCEPT ![q] = "read"]
    BY <1>4, <2>1 DEF Opened, Served
  <2>2. CASE ores[q] = "changed" /\ AuditError(q, "RESOURCE_CHANGED")
    <3>1. (NoIo => want[q] \in moved) /\ want' = want /\ pc'[q] = "audit"
      BY <1>4, <2>2 DEF Opened, Truthful, AuditError, AppendAudit
    <3> QED
      BY <3>1 DEF Served
  <2> QED
    BY <1>4, <2>1, <2>2 DEF Opened
<1>5. CASE ReadChunk(q)
  <2>1. pc[q] = "read" /\ want' = want /\ want[q] \in DOMAIN pinned /\ oh[q] = pinned[want[q]]
    BY <1>5 DEF ReadChunk, Handle
  <2>2. oh[q] \in Inodes
    BY <2>1 DEF OwnTypes, Registry!OpenTypeOK
  <2>3. PICK n \in BytesRead(q) :
          IF TooLarge(buf[q].total + n)
          THEN /\ verdict' = [verdict EXCEPT ![q] = "RESOURCE_TOO_LARGE"]
               /\ pc' = [pc EXCEPT ![q] = "close"]
          ELSE UNCHANGED <<verdict, pc>>
    BY <1>5 DEF ReadChunk
  <2>4. ASSUME Readable(q) PROVE ~TooLarge(buf[q].total + n)
    <3>1. /\ n \in Nat /\ n <= Available(q) /\ text[oh[q]].len \in Nat
          /\ text[oh[q]].len <= maxResourceBytes
          /\ buf[q].total \in Nat /\ maxResourceBytes \in Nat
      BY <2>1, <2>2, <2>4, ChunkTyped, BrokerConstants DEF Readable, OwnTypes, Bytes
    <3> QED
      BY <3>1 DEF TooLarge, Available
  <2> QED
    BY <1>0, <2>1, <2>3, <2>4 DEF Served
<1>6. CASE ReadEnd(q)
  <2>1. /\ pc[q] = "read" /\ want' = want /\ pc'[q] = "close"
        /\ want[q] \in DOMAIN pinned /\ oh[q] = pinned[want[q]]
    BY <1>6 DEF ReadEnd, Handle
  <2>2. ASSUME Readable(q) PROVE verdict'[q] = "content"
    BY <1>6, <2>1, <2>2, EndOfText DEF Readable
  <2> QED
    BY <1>0, <2>1, <2>2 DEF Served
<1>7. CASE ReadFails(q)
  BY <1>7 DEF ReadFails, Served
<1>8. CASE CloseHandle(q)
  <2>1. pc[q] = "close" /\ want' = want /\ pc'[q] = "audit"
    BY <1>8 DEF CloseHandle, AuditError, AppendAudit
  <2>2. CASE AppendAudit(q, want[q], "allow", "ALLOWED")
    <3>1. ev'[q].decision = "allow"
      BY <2>2 DEF AppendAudit, Audit!Begin, EventOf
    <3> QED
      BY <2>1, <3>1 DEF Served
  <2>3. CASE verdict[q] # "content"
    <3>1. NoIo => ~Readable(q)
      BY <2>1, <2>3 DEF Served
    <3> QED
      BY <1>0, <2>1, <3>1 DEF Served
  <2>4. CASE "io" \in mishaps
    BY <2>4 DEF Served
  <2> QED
    BY <1>8, <2>2, <2>3, <2>4 DEF CloseHandle
<1>9. CASE AuditStep(q)
  <2>1. ev' = ev /\ UNCHANGED <<pc, want, verdict>>
    BY <1>9, AppendStep DEF AuditStep
  <2> QED
    BY <1>0, <2>1 DEF Served
<1>10. CASE Respond(q)
  BY <1>10 DEF Respond, Served
<1> QED
  BY <1>1, <1>2, <1>3, <1>4, <1>5, <1>6, <1>7, <1>8, <1>9, <1>10 DEF RequestStep,
                                                                     FileStep

LEMMA ServedNext ==
  /\ OwnTypes /\ Functional /\ PolicySound
  /\ Places /\ Handles /\ Contents /\ AllTruthful /\ AllServed
  /\ [Next]_vars
  => AllServed'
<1> SUFFICES ASSUME OwnTypes, Functional, PolicySound, Places, Handles, Contents,
                    AllTruthful, AllServed, [Next]_vars, NEW p \in Requests
             PROVE  Served(p)'
  BY DEF AllServed
<1>1. Served(p) /\ Handle(p)
  BY DEF AllServed, Handles
<1>2. ASSUME UNCHANGED <<pc, want, verdict, ev, supported, policy, pinned, mishaps>>,
             moved \subseteq moved',
             pc[p] = "close" \/ (pc[p] = "audit" /\ MayRead(want[p])) =>
               (Readable(p)' => Readable(p))
      PROVE  Served(p)'
  BY <1>1, <1>2 DEF Served, NoIo, MayRead
<1>3. ASSUME UNCHANGED <<pinned, want, text, overwritten>>
      PROVE  Readable(p)' => Readable(p)
  BY <1>3 DEF Readable
<1>4. ASSUME NEW q \in Requests, UNCHANGED environment,
             RequestStep(q) \/ \E r \in Resources : ReadResource(q, r)
      PROVE  Served(p)'
  <2>1. UNCHANGED boot
    BY <1>4 DEF RequestStep, FileStep, ReadResource, HookReturns, OpenStep, Opened,
                ReadChunk, ReadEnd, ReadFails, CloseHandle, AuditStep, Respond
  <2>2. UNCHANGED <<text, overwritten, moved>>
    <3>1. CASE OpenStep(q)
      BY <3>1, OpeningStep DEF OpenStep
    <3>2. CASE HookReturns(q)
      BY <3>2 DEF HookReturns, storage, Registry!BeginOpen, Registry!paths
    <3> QED
      BY <1>4, <3>1, <3>2 DEF RequestStep, FileStep, ReadResource, Opened, ReadChunk,
                              ReadEnd, ReadFails, CloseHandle, AuditStep, Respond,
                              storage
  <2>3. CASE p = q
    BY <1>1, <1>4, <2>1, <2>2, <2>3, RequestStepServed DEF Contents, AllTruthful
  <2>4. CASE p # q
    <3>1. Still(p) /\ UNCHANGED mishaps
      BY <1>4, <2>4, OthersStill DEF environment
    <3> QED
      BY <1>1, <2>1, <2>2, <3>1 DEF Still, Served, NoIo, MayRead, Readable, boot
  <2> QED
    BY <2>3, <2>4
<1>5. ASSUME NEW r \in Resources, Repoint(r), UNCHANGED environment PROVE Served(p)'
  BY <1>2, <1>3, <1>5, OwnerStill
  DEF Repoint, Registry!Repoint, boot, request, opening, environment
<1>6. ASSUME NEW i \in Inodes, NEW t \in Texts, Overwrite(i, t), UNCHANGED environment
      PROVE  Served(p)'
  <2>1. /\ UNCHANGED <<pc, want, verdict, ev, supported, policy, pinned, mishaps, moved>>
        /\ overwritten' = overwritten \cup {i} /\ text' = [text EXCEPT ![i] = t]
    BY <1>6, OwnerStill DEF Overwrite, boot, request, environment
  <2>2. ASSUME pc[p] = "close" \/ (pc[p] = "audit" /\ MayRead(want[p]))
        PROVE  pinned[want[p]] \in Inodes
    <3>1. want[p] \in DOMAIN pinned
      BY <1>1, <2>2, GrantedIsDeclared DEF Handle
    <3> QED
      BY <3>1 DEF OwnTypes, Registry!OpenTypeOK
  <2>3. ASSUME pinned[want[p]] \in Inodes PROVE Readable(p)' => Readable(p)
    BY <2>1, <2>3 DEF Readable, OwnTypes
  <2> QED
    BY <1>2, <2>1, <2>2, <2>3
<1>7. ASSUME Destination, UNCHANGED environment PROVE Served(p)'
  BY <1>2, <1>3, <1>7, OwnerStill
  DEF Destination, boot, request, opening, storage, environment
<1>8. CASE Restart
  <2>1. pc'[p] = IF InProgress(p) THEN "lost" ELSE pc[p]
    BY <1>8 DEF Restart
  <2>2. pc'[p] \in {"idle", "answered", "lost"}
    BY <2>1 DEF InProgress, Functional, Points
  <2> QED
    BY <2>2 DEF Served
<1>9. CASE UNCHANGED vars
  BY <1>2, <1>3, <1>9 DEF vars, boot, request, opening, appending, storage, environment
<1> QED
  BY <1>4, <1>5, <1>6, <1>7, <1>8, <1>9 DEF Next

\* A granted read of a file that can be read is answered with its content, if
\* nobody disturbed that file, its path or the audit destination, although other
\* files and paths change, requests race to create the audit file and earlier
\* processes were killed anywhere (broker.ts:206-301).
THEOREM UndisturbedReads == Spec => UndisturbedReadsSucceed
<1> DEFINE IInv == Sound /\ Contents /\ PinnedInPlace /\ AllTruthful /\ AllServed
           Calmed == Writer!Typed /\ Writer!Reported /\ Writer!QuietSound
           Succeeds ==
             \A q \in Requests :
               /\ ~Answered(q) /\ Answered(q)' /\ MayRead(want[q])
               /\ AuditUndisturbed /\ "io" \notin mishaps
               /\ want[q] \notin moved /\ pinned[want[q]] \notin overwritten
               => LET t == text[pinned[want[q]]]
                  IN t.utf8 /\ t.len <= maxResourceBytes => Released(q)'
<1>1. Init => IInv
  BY SoundInit, ContentsInit, PinnedInit, TruthfulInit, ServedInit
<1>2. IInv /\ [Next]_vars => IInv'
  BY SoundNext, ContentsNext, PinnedNext, TruthfulNext, ServedNext, TypesAreFunctional
  DEF Sound
<1>3. Spec => []Calmed
  BY WriterInside, WriterConstants, Writer!QuietAppends, PTL
<1>4. IInv /\ Calmed /\ [Next]_vars => [Succeeds]_vars
  <2> SUFFICES ASSUME IInv, Calmed, [Next]_vars, NEW q \in Requests,
                      ~Answered(q), Answered(q)', MayRead(want[q]),
                      AuditUndisturbed, "io" \notin mishaps,
                      want[q] \notin moved, Readable(q)
               PROVE  Released(q)'
    BY DEF Readable
  <2>1. Functional /\ Served(q) /\ Respond(q)
    <3>1. Functional
      BY TypesAreFunctional DEF Sound
    <3>2. Respond(q)
      BY <3>1, OnlyRespondAnswers DEF Answered
    <3> QED
      BY <3>1, <3>2 DEF AllServed
  <2>2. /\ pc[q] = "audit" /\ at[q] = "done" /\ pc'[q] = "answered"
        /\ answer'[q] = Outcome(ev[q], res[q], buf[q])
    BY <2>1 DEF Respond, Functional
  <2>3. ev[q].decision = "allow"
    BY <2>1, <2>2 DEF Served, NoIo
  <2>4. res[q] = "ok"
    <3>1. res[q] # "none"
      BY <2>2 DEF Writer!Reported, Writer!ResultsAreLate, Writer!Settled
    <3>2. Writer!Quiet /\ Writer!UsableDestination
      BY DEF AuditUndisturbed, Writer!Quiet, Writer!UsableDestination, Audit!UsableDestination,
             Writer!Absent, Audit!Absent
    <3> QED
      BY <3>1, <3>2 DEF Writer!QuietSound
  <2> QED
    BY <2>2, <2>3, <2>4 DEF Released, Answered, Outcome
<1> QED
  BY <1>1, <1>2, <1>3, <1>4, PTL DEF Spec, UndisturbedReadsSucceed

-----------------------------------------------------------------------------
(***************************************************************************)
(* The refinement.  The ledger of ReadGate is what fsync has put on the    *)
(* disk; a step of the broker asks, replies, renews the broker, enters an  *)
(* event into the ledger, or is none of the gate's business.               *)
(***************************************************************************)
LedgerMeaning ==
  \A q \in Requests : \A e :
    e \in DurableEvents(q) <=>
      \E f \in named : \E i \in 1 .. disk[f] :
        body[f][i].by = q /\ Writer!EndsLine(body[f][i]) /\ body[f][i].event = e

LEMMA LedgerMeans == LedgerMeaning
<1> SUFFICES ASSUME NEW q \in Requests, NEW e
             PROVE  e \in DurableEvents(q) <=>
                      \E f \in named : \E i \in 1 .. disk[f] :
                        /\ body[f][i].by = q /\ Writer!EndsLine(body[f][i])
                        /\ body[f][i].event = e
  BY DEF LedgerMeaning
<1> DEFINE Ended(f) == {j \in 1 .. disk[f] : body[f][j].by = q /\ Audit!EndsLine(body[f][j])}
           In(f) == {body[f][i].event : i \in Ended(f)}
<1>1. DurableEvents(q) = UNION {In(f) : f \in named}
  BY DEF DurableEvents
<1>2. ASSUME NEW f \in named
      PROVE  e \in In(f) <=> \E i \in 1 .. disk[f] :
                               /\ body[f][i].by = q /\ Writer!EndsLine(body[f][i])
                               /\ body[f][i].event = e
  BY DEF Audit!EndsLine, Writer!EndsLine
<1>3. e \in DurableEvents(q) <=> \E f \in named : e \in In(f)
  BY <1>1
<1> QED
  BY <1>2, <1>3

LEMMA LedgerMeansNext == LedgerMeaning'
  BY LedgerMeans, PTL

\* What is in the ledger for a request is the event of its append, about the
\* resource it asked for.
GateSound == Sound /\ Writer!Strong /\ Writer!Single

LedgerIsOwn ==
  \A q \in Requests : \A e \in DurableEvents(q) :
    /\ e = ev[q] /\ e \in Event /\ e.resource = want[q]
    /\ want[q] \in Resources /\ pc[q] \in {"audit", "answered", "lost"}

LEMMA LedgerOwn == GateSound => LedgerIsOwn
<1> SUFFICES ASSUME GateSound, NEW q \in Requests, NEW e \in DurableEvents(q)
             PROVE  /\ e = ev[q] /\ e \in Event /\ e.resource = want[q]
                    /\ want[q] \in Resources /\ pc[q] \in {"audit", "answered", "lost"}
  BY DEF LedgerIsOwn
<1>1. PICK f \in named : \E i \in 1 .. disk[f] :
        body[f][i].by = q /\ Writer!EndsLine(body[f][i]) /\ body[f][i].event = e
  BY LedgerMeans DEF LedgerMeaning
<1>2. PICK i \in 1 .. disk[f] :
        body[f][i].by = q /\ Writer!EndsLine(body[f][i]) /\ body[f][i].event = e
  BY <1>1
<1>3. f \in Files /\ disk[f] \in Nat /\ disk[f] <= Len(body[f]) /\ Len(body[f]) \in Nat
  <2>1. f \in Files /\ disk[f] \in Nat /\ body[f] \in Seq(Writer!Fragment)
    BY DEF GateSound, Sound, Writer!Typed, Writer!TypeOK
  <2>2. disk[f] <= Len(body[f])
    BY <2>1 DEF GateSound, Writer!Strong, Writer!FilesSound, Writer!DiskWithin
  <2> QED
    BY <2>1, <2>2
<1>4. i \in 1 .. Len(body[f])
  BY <1>3
<1>5. e = ev[q]
  BY <1>2, <1>3, <1>4 DEF GateSound, Writer!Single, Writer!FragmentsAreOwn
<1>6. ~Writer!Silent(q)
  BY <1>2, <1>3, <1>4 DEF Writer!Silent
<1>7. at[q] # "idle"
  BY <1>6 DEF GateSound, Writer!Strong, Writer!Reported, Writer!SilentBeforeWrite,
              Writer!BeforeWrite
<1>8. Place(q) /\ pc[q] \in Points
  BY DEF GateSound, Sound, Places, OwnTypes
<1>9. pc[q] \in {"audit", "answered", "lost"}
  BY <1>7, <1>8 DEF Place, BeforeAudit, Points
<1>10. ev[q] \in Event /\ ev[q].resource = want[q] /\ want[q] \in Resources
  BY <1>7, <1>8, <1>9 DEF Place
<1> QED
  BY <1>5, <1>9, <1>10

LEMMA LedgerOwnNext == GateSound' => LedgerIsOwn'
  BY LedgerOwn, PTL

LEMMA GateSoundInit == Init => GateSound
<1>1. Init => Writer!Init
  BY SameInit DEF Init
<1>2. Writer!Init => Writer!Strong /\ Writer!Single
  BY WriterConstants, Writer!TypedInit, Writer!FilesSoundInit, Writer!RecordedInit,
     Writer!ReportedInit, Writer!SingleInit DEF Writer!Strong
<1> QED
  BY <1>1, <1>2, SoundInit DEF GateSound

LEMMA GateSoundNext == DirEntrySync /\ GateSound /\ [Next]_vars => GateSound'
<1> SUFFICES ASSUME DirEntrySync, GateSound, [Next]_vars PROVE GateSound'
  OBVIOUS
<1>1. [Writer!Next]_(Writer!vars)
  BY SoundSteps DEF GateSound
<1>2. Writer!Strong'
  BY <1>1, WriterConstants, Writer!StrongNext DEF GateSound
<1>3. Writer!Single'
  BY <1>1, WriterConstants, Writer!SingleNext DEF GateSound, Writer!Strong
<1> QED
  BY <1>2, <1>3, SoundNext DEF GateSound

\* The ledger only grows.
LEMMA LedgerGrows ==
  ASSUME GateSound, GateSound', [Next]_vars, NEW q \in Requests
  PROVE  DurableEvents(q) \subseteq DurableEvents(q)'
<1>1. Writer!DiskKeeps
  <2>1. [Writer!Next]_(Writer!vars)
    BY SoundSteps DEF GateSound
  <2> QED
    BY <2>1, WriterConstants, Writer!NextDiskKeeps DEF GateSound, Writer!Strong
<1> SUFFICES ASSUME NEW e \in DurableEvents(q) PROVE e \in DurableEvents(q)'
  OBVIOUS
<1>2. PICK f \in named : \E i \in 1 .. disk[f] :
        body[f][i].by = q /\ Writer!EndsLine(body[f][i]) /\ body[f][i].event = e
  BY LedgerMeans DEF LedgerMeaning
<1>3. PICK i \in 1 .. disk[f] :
        body[f][i].by = q /\ Writer!EndsLine(body[f][i]) /\ body[f][i].event = e
  BY <1>2
<1>4. /\ f \in named' /\ disk[f] \in Nat /\ disk'[f] \in Nat /\ disk[f] <= disk'[f]
      /\ body'[f][i] = body[f][i]
  BY <1>1 DEF Writer!DiskKeeps, GateSound, Sound, Writer!Typed, Writer!TypeOK
<1>5. i \in 1 .. disk'[f]
  BY <1>4
<1>6. body'[f][i].by = q /\ Writer!EndsLine(body[f][i])' /\ body'[f][i].event = e
  BY <1>3, <1>4 DEF Writer!EndsLine
<1> QED
  BY <1>4, <1>5, <1>6, LedgerMeansNext DEF LedgerMeaning

\* A step in which no request is asked or answered enters events, if any, as
\* the gate wants them.
LEMMA EntersLedger ==
  ASSUME GateSound, GateSound', [Next]_vars, want' = want
  PROVE  Gate!Enters
<1> SUFFICES ASSUME NEW q \in Requests
             PROVE  \/ DurableEvents(q)' = DurableEvents(q)
                    \/ /\ DurableEvents(q) = {} /\ want[q] # NoResource
                       /\ \E e \in Event : e.resource = want[q]
                                           /\ DurableEvents(q)' = {e}
  BY DEF Gate!Enters
<1>1. DurableEvents(q) \subseteq DurableEvents(q)'
  BY LedgerGrows
<1>2. \A e \in DurableEvents(q)' : /\ e = ev'[q] /\ e \in Event /\ e.resource = want[q]
                                   /\ want[q] \in Resources
  BY LedgerOwnNext DEF LedgerIsOwn
<1>3. CASE DurableEvents(q)' = {}
  BY <1>1, <1>3
<1>4. CASE DurableEvents(q)' # {}
  <2>1. DurableEvents(q)' = {ev'[q]}
    BY <1>2, <1>4
  <2>2. CASE DurableEvents(q) = {}
    <3>1. want[q] # NoResource
      BY <1>2, <1>4, ComponentConstants DEF Registry!OpenConstants
    <3> QED
      BY <1>2, <2>1, <2>2, <3>1
  <2>3. CASE DurableEvents(q) # {}
    BY <1>1, <2>1, <2>3
  <2> QED
    BY <2>2, <2>3
<1> QED
  BY <1>3, <1>4

LEMMA LedgerStill ==
  ASSUME UNCHANGED <<body, disk, named>>, NEW q \in Requests
  PROVE  DurableEvents(q)' = DurableEvents(q)
  BY DEF DurableEvents, Audit!EndsLine

Lost == {q \in Requests : pc[q] = "lost"}
Grantable == {r \in Resources : MayRead(r)}

LEMMA GrantableStill ==
  ASSUME UNCHANGED boot
  PROVE  Grantable' = Grantable
  BY DEF Grantable, MayRead, boot

\* What a request has been answered tells whether it is in progress.
LEMMA InProgressIsPending ==
  ASSUME Sound, NEW q \in Requests
  PROVE  InProgress(q) <=> /\ want[q] # NoResource /\ answer[q] = NoAnswer
                           /\ q \notin Lost
<1>1. Place(q) /\ pc[q] \in Points /\ buf[q] \in Bytes
  BY DEF Sound, Places, OwnTypes
<1>2. NoResource \notin Resources
  BY ComponentConstants DEF Registry!OpenConstants
<1>3. CASE pc[q] = "answered"
  <2>1. ev[q] \in Event /\ answer[q] = Outcome(ev[q], res[q], buf[q])
    BY <1>1, <1>3 DEF Place
  <2>2. answer[q] \in Answer
    <3>1. Empty \in Bytes
      BY DEF Bytes, Empty
    <3>2. /\ ev[q].reason \in {e.reason : e \in Event}
          /\ ev[q].decision \in {"allow", "deny", "error"}
      BY <2>1 DEF Event
    <3> QED
      BY <1>1, <2>1, <3>1, <3>2 DEF Outcome, Answer, NoContent
  <2> QED
    BY <1>3, <2>2, NoAnswerIsNone DEF InProgress
<1>4. CASE pc[q] # "answered"
  BY <1>1, <1>2, <1>4 DEF Place, InProgress, Lost
<1> QED
  BY <1>3, <1>4

LEMMA GateInitial == Init => Gate!GateInit
<1> SUFFICES ASSUME Init PROVE Gate!GateInit
  OBVIOUS
<1>1. ASSUME NEW q \in Requests PROVE DurableEvents(q) = {}
  <2>1. \A f \in named : disk[f] = 0
    BY DEF Init, Audit!Init
  <2>2. \A e : e \notin DurableEvents(q)
    BY <2>1, LedgerMeans DEF LedgerMeaning
  <2> QED
    BY <2>2
<1>2. {q \in Requests : pc[q] = "lost"} = {}
  BY DEF Init
<1> QED
  BY <1>1, <1>2 DEF Init, Gate!GateInit

\* The steps that ask, reply and renew the broker.
LEMMA AskStep ==
  ASSUME Sound, NEW q \in Requests, NEW r \in Resources, ReadResource(q, r)
  PROVE  Gate!Ask(q, r)
<1>1. /\ pc[q] = "idle" /\ want[q] = NoResource /\ want' = [want EXCEPT ![q] = r]
      /\ UNCHANGED <<boot, answer, body, disk, named>>
  <2>1. Place(q)
    BY DEF Sound, Places
  <2> QED
    BY <2>1 DEF ReadResource, AppendAudit, Audit!Begin, Audit!world, log, Place
<1>2. \E p \in {"hook", "audit"} : pc' = [pc EXCEPT ![q] = p]
  BY DEF ReadResource, AppendAudit
<1>3. Lost' = Lost
  BY <1>1, <1>2 DEF Lost, Sound, OwnTypes
<1>4. Grantable' = Grantable
  BY <1>1, GrantableStill
<1>5. \A p \in Requests : DurableEvents(p)' = DurableEvents(p)
  BY <1>1, LedgerStill
<1> QED
  BY <1>1, <1>3, <1>4, <1>5 DEF Gate!Ask, Lost, Grantable

\* The frame of a reply, apart from what it says.
LEMMA ReplyFrame ==
  ASSUME Sound, NEW q \in Requests,
         pc' = [pc EXCEPT ![q] = "answered"],
         \E a : answer' = [answer EXCEPT ![q] = a],
         UNCHANGED <<boot, want, body, disk, named>>,
         want[q] # NoResource, answer[q] = NoAnswer, q \notin Lost, answer'[q] # NoAnswer,
         \/ answer'[q].decision = "error" /\ answer'[q].reason = "AUDIT_FAILED"
         \/ \E e \in DurableEvents(q) : /\ answer'[q].decision = e.decision
                                        /\ answer'[q].reason = e.reason,
         IF answer'[q].decision = "allow" THEN want[q] \in Grantable
                                         ELSE answer'[q].content = NoContent
  PROVE  Gate!Reply(q)
<1>1. Lost' = Lost
  BY DEF Lost, Sound, OwnTypes
<1>2. Grantable' = Grantable
  BY GrantableStill
<1>3. \A p \in Requests : DurableEvents(p)' = DurableEvents(p)
  BY LedgerStill
<1>4. \A p \in Requests \ {q} : answer'[p] = answer[p]
  BY DEF Sound, OwnTypes
<1>5. Gate!Pending(q)
  BY DEF Gate!Pending, Lost
<1>6. \/ answer'[q].decision = "error" /\ answer'[q].reason = "AUDIT_FAILED"
      \/ Gate!Told(q)
  BY DEF Gate!Told
<1>7. IF answer'[q].decision = "allow" THEN want[q] \in {r \in Resources : MayRead(r)}
                                      ELSE answer'[q].content = NoContent
  BY DEF Grantable
<1>8. UNCHANGED <<{r \in Resources : MayRead(r)}, want,
                  [p \in Requests |-> DurableEvents(p)], {p \in Requests : pc[p] = "lost"}>>
  BY <1>1, <1>2, <1>3 DEF Lost, Grantable
<1> QED
  BY <1>4, <1>5, <1>6, <1>7, <1>8 DEF Gate!Reply

LEMMA ReplyStep ==
  ASSUME GateSound, NEW q \in Requests, Respond(q)
  PROVE  Gate!Reply(q)
<1>1. /\ Sound /\ Functional /\ Place(q) /\ Handle(q) /\ pc[q] = "audit"
  BY TypesAreFunctional DEF GateSound, Sound, Places, Handles, Respond
<1>2. /\ pc' = [pc EXCEPT ![q] = "answered"]
      /\ answer' = [answer EXCEPT ![q] = Outcome(ev[q], res[q], buf[q])]
      /\ UNCHANGED <<boot, want, ev, res, buf, body, disk, named>>
  BY DEF Respond, log, appending
<1>3. want[q] # NoResource /\ answer[q] = NoAnswer /\ q \notin Lost
  BY <1>1, InProgressIsPending DEF InProgress
<1>4. answer'[q] = Outcome(ev[q], res[q], buf[q])
  BY <1>1, <1>2 DEF Functional
<1>5. ev[q] \in Event /\ ev[q].resource = want[q]
  BY <1>1 DEF Place
<1>6. answer'[q] # NoAnswer
  <2>1. buf[q] \in Bytes /\ Empty \in Bytes
    BY <1>1 DEF Functional, Bytes, Empty
  <2>2. /\ ev[q].reason \in {e.reason : e \in Event}
        /\ ev[q].decision \in {"allow", "deny", "error"}
    BY <1>5 DEF Event
  <2>3. Outcome(ev[q], res[q], buf[q]) \in Answer
    BY <2>1, <2>2 DEF Outcome, Answer, NoContent
  <2> QED
    BY <1>4, <2>3, NoAnswerIsNone
<1>7. CASE res[q] # "ok"
  <2>1. /\ answer'[q].decision = "error" /\ answer'[q].reason = "AUDIT_FAILED"
        /\ answer'[q].content = NoContent
    BY <1>4, <1>7 DEF Outcome
  <2> QED
    BY <2>1, <1>1, <1>2, <1>3, <1>6, ReplyFrame
<1>8. CASE res[q] = "ok"
  <2>1. /\ answer'[q].decision = ev[q].decision /\ answer'[q].reason = ev[q].reason
        /\ ev[q].decision # "allow" => answer'[q].content = NoContent
    BY <1>4, <1>8 DEF Outcome
  <2>2. ev[q] \in DurableEvents(q)
    <3>1. Writer!Durable(q)
      BY <1>5, <1>8, WriterConstants
      DEF GateSound, Writer!Strong, Writer!Recorded, Writer!AcknowledgedIsDurable,
          Writer!Acknowledged, Writer!AuditConstants
    <3> QED
      BY <3>1, DurableIsLedger
  <2>3. ev[q].decision = "allow" => want[q] \in Grantable
    <3>1. want[q] \in Resources
      BY <1>1 DEF Place
    <3> QED
      BY <1>1, <3>1 DEF Handle, Grantable
  <2> QED
    <3>1. \E e \in DurableEvents(q) : /\ answer'[q].decision = e.decision
                                      /\ answer'[q].reason = e.reason
      BY <2>1, <2>2
    <3>2. IF answer'[q].decision = "allow" THEN want[q] \in Grantable
                                          ELSE answer'[q].content = NoContent
      BY <2>1, <2>3
    <3> QED
      BY <1>1, <1>2, <1>3, <1>6, <3>1, <3>2, ReplyFrame
<1> QED
  BY <1>7, <1>8

LEMMA RenewStep ==
  ASSUME GateSound, GateSound', [Next]_vars, Restart
  PROVE  Gate!Renew
<1>1. /\ pc' = [q \in Requests |-> IF InProgress(q) THEN "lost" ELSE pc[q]]
      /\ UNCHANGED <<want, answer>>
  BY DEF Restart
<1>2. \A q \in Requests : InProgress(q) <=> want[q] # NoResource /\ answer[q] = NoAnswer
                                            /\ q \notin Lost
  BY InProgressIsPending DEF GateSound
<1>3. Lost' = Lost \cup {q \in Requests : InProgress(q)}
  BY <1>1 DEF Lost, InProgress
<1>4. Lost' = Lost \cup {q \in Requests : Gate!Pending(q)}
  BY <1>2, <1>3 DEF Gate!Pending, Lost
<1>5. Gate!Enters
  BY <1>1, EntersLedger
<1> QED
  BY <1>1, <1>4, <1>5 DEF Gate!Renew, Lost

LEMMA GateStep ==
  ASSUME GateSound, GateSound', [Next]_vars
  PROVE  [Gate!GateNext]_(Gate!gateVars)
<1> USE DEF opening, storage, request, appending, log, boot
<1>1. ASSUME UNCHANGED <<boot, want, answer>>, Lost' = Lost
      PROVE  Gate!Record
  <2>1. Gate!Enters
    BY <1>1, EntersLedger
  <2>2. Grantable' = Grantable
    BY <1>1, GrantableStill
  <2> QED
    BY <1>1, <2>1, <2>2 DEF Gate!Record, Lost, Grantable
<1>2. ASSUME NEW q \in Requests, NEW r \in Resources, ReadResource(q, r)
      PROVE  Gate!GateNext
  BY <1>2, AskStep DEF GateSound, Gate!GateNext
<1>3. ASSUME NEW q \in Requests, RequestStep(q) PROVE Gate!GateNext
  <2>1. CASE Respond(q)
    BY <2>1, ReplyStep DEF Gate!GateNext
  <2>2. CASE ~Respond(q)
    <3>1. UNCHANGED <<boot, want, answer>>
      BY <1>3, <2>2
      DEF RequestStep, FileStep, HookReturns, OpenStep, Opened, ReadChunk, ReadEnd,
          ReadFails, CloseHandle, AuditStep
    <3>2. \/ pc' = pc
          \/ /\ pc[q] \in {"hook", "open", "read", "close"}
             /\ \E p \in Points \ {"lost"} : pc' = [pc EXCEPT ![q] = p]
      BY <1>3, <2>2
      DEF RequestStep, FileStep, HookReturns, OpenStep, Opened, ReadChunk, ReadEnd,
          ReadFails, CloseHandle, AuditStep, AuditError, AppendAudit, Points
    <3>3. pc \in [Requests -> Points]
      BY DEF GateSound, Sound, OwnTypes
    <3>4. Lost' = Lost
      BY <3>2, <3>3 DEF Lost
    <3> QED
      BY <1>1, <3>1, <3>4 DEF Gate!GateNext
  <2> QED
    BY <2>1, <2>2
<1>4. ASSUME \/ \E r \in Resources : Repoint(r)
             \/ \E i \in Inodes, t \in Texts : Overwrite(i, t)
             \/ Destination
      PROVE  Gate!GateNext
  BY <1>1, <1>4, OwnerStill DEF Lost, Gate!GateNext
<1>5. CASE Restart
  BY <1>5, RenewStep DEF Gate!GateNext
<1>6. CASE UNCHANGED vars
  BY <1>1, <1>6 DEF vars, Lost, Gate!GateNext
<1> QED
  BY <1>2, <1>3, <1>4, <1>5, <1>6 DEF Next

\* Where fsync makes the directory entry durable, the broker implements the
\* gate: requests are asked once, entered once, answered as entered, and content
\* is released for what the running policy grants only (ADR-006, ADR-012).
THEOREM Refinement == DirEntrySync /\ Spec => ImplementsGate
<1> SUFFICES ASSUME DirEntrySync PROVE Spec => ImplementsGate
  OBVIOUS
<1>1. GateSound /\ [Next]_vars => GateSound'
  BY GateSoundNext
<1>2. GateSound /\ GateSound' /\ [Next]_vars => [Gate!GateNext]_(Gate!gateVars)
  BY GateStep
<1> QED
  BY <1>1, <1>2, GateSoundInit, GateInitial, PTL DEF Spec, ImplementsGate, Gate!GateSpec
=============================================================================
