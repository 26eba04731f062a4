--------------------------- MODULE SubjectBroker ----------------------------
(***************************************************************************)
(* src/broker.ts: SubjectBroker.readResource with everything it calls, and *)
(* the (re)start of the broker.  Requests of one session run concurrently; *)
(* each is an asynchronous call that yields at every await.                *)
(*                                                                         *)
(* The module composes the policy (evaluate), the resource registry        *)
(* (openVerified) and the audit writer (append).  The storage owner may    *)
(* re-point resource paths and overwrite files in place, the destination's *)
(* owner may rotate it, and the broker may be killed and started again     *)
(* with another policy, all between any two awaits.                        *)
(***************************************************************************)
EXTENDS Policy

CONSTANTS subjectId,      \* the subject the broker is bound to at startup
          Policies,       \* documents the owner may start the broker with
          Requests,       \* read_resource calls
          Inodes, Directories, Fifos, Missing, NoHandle, NoResource,
          NoFollowAny,    \* see OpenVerified
          Texts,          \* what a file may hold: [id, len, utf8] records
          maxResourceBytes,
          chunkBytes,     \* 64 KiB in the code
          poolSize,       \* libuv's worker threads, see ResourceRegistry
          Files, NoFile, NoEvent, DirEntrySync,   \* see AuditWriter
          Settings,       \* what may happen to the audit destination
          Mishaps,        \* what may happen to the storage
          Environments,   \* the pairs of the two that are considered
          NoAnswer

ASSUME BrokerConstants ==
  /\ subjectId \in Subjects
  /\ Policies \subseteq Document
  /\ maxResourceBytes \in Nat \ {0} /\ chunkBytes \in Nat \ {0}
  /\ poolSize \in Nat \ {0}
  /\ \A t \in Texts : t.len \in Nat /\ t.utf8 \in BOOLEAN /\ (t.len = 0 => t.utf8)
  /\ Mishaps \subseteq SUBSET {"repoint", "overwrite", "io"}
  /\ Environments \subseteq Settings \X Mishaps

VARIABLES supported,    \* #platform is darwin
          policy,       \* #policy
          mishaps,      \* what may happen to the storage
          entry, moved, pinned, oat, oid, oh, ores,    \* OpenVerified
          text,         \* what each inode holds
          overwritten,  \* history: the inodes ever overwritten in place
          pc,           \* where each request is parked
          want,         \* the resource it asks for
          buf,          \* the chunks read so far
          verdict,      \* what readUtf8Text returned or threw
          answer,       \* the BrokerResult, once the promise has settled
          setting, dest, mode, body, disk, named, at, fh, made, ev, res  \* AuditWriter

-----------------------------------------------------------------------------
\* The reason codes an append may carry with each decision (src/model.ts).
Event == [resource : Resources, decision : {"allow", "deny", "error"},
          reason : {"ALLOWED", "ACCESS_DENIED", "POLICY_UNAVAILABLE",
                    "PLATFORM_UNSUPPORTED", "RESOURCE_CHANGED",
                    "RESOURCE_TOO_LARGE", "RESOURCE_ENCODING_INVALID",
                    "INTERNAL_ERROR"}]

Audit == INSTANCE AuditWriter WITH Calls <- Requests, Events <- Event

Registry == INSTANCE OpenVerified WITH Readers <- Requests

ASSUME ComponentConstants == Audit!AuditConstants /\ Registry!OpenConstants

boot == <<supported, policy, pinned>>
storage == <<entry, moved, text, overwritten>>
opening == <<oat, oid, oh, ores>>
request == <<pc, want, buf, verdict, answer>>
log == <<dest, mode, body, disk, named>>
appending == <<at, fh, made, ev, res>>
environment == <<setting, mishaps>>
vars == <<environment, boot, storage, opening, request, log, appending>>

Points == {"idle",     \* not called
           "hook",     \* awaiting beforeResourceOpen                 :260
           "open",     \* awaiting registry.openVerified              :264
           "read",     \* awaiting handle.read in readUtf8Text        :131
           "close",    \* awaiting handle.close in the finally clause :269
           "audit",    \* awaiting append                             :315
           "answered", "lost"}

Verdicts == {"none", "content", "RESOURCE_TOO_LARGE",
             "RESOURCE_ENCODING_INVALID", "INTERNAL_ERROR"}

\* The bytes read: how many, and of which texts.
Empty == [total |-> 0, from |-> {}]
Bytes == [total : Nat, from : SUBSET Texts]

Answer == [decision : {"allow", "deny", "error"},
           reason : {e.reason : e \in Event} \cup {"AUDIT_FAILED"},
           content : Bytes]

ASSUME NoAnswerIsNone == NoAnswer \notin Answer

TypeOK == /\ supported \in BOOLEAN
          /\ policy \in Policies \cup {NoPolicy}
          /\ mishaps \in Mishaps
          /\ text \in [Inodes -> Texts]
          /\ overwritten \in SUBSET Inodes
          /\ pc \in [Requests -> Points]
          /\ want \in [Requests -> Resources \cup {NoResource}]
          /\ buf \in [Requests -> Bytes]
          /\ verdict \in [Requests -> Verdicts]
          /\ answer \in [Requests -> Answer \cup {NoAnswer}]
          /\ Registry!OpenTypeOK
          /\ Audit!TypeOK

-----------------------------------------------------------------------------
(***************************************************************************)
(* create: the new broker of the subject, without failOnStartupError.  A   *)
(* policy that cannot be loaded, or whose resources cannot be registered   *)
(* (ResourceRegistry has the steps), leaves a broker with no policy.       *)
(***************************************************************************)
Registrable(doc) ==
  \A r \in doc.resources : /\ entry[r] # Missing
                           /\ entry[r].route = "direct"
                           /\ Registry!IsFile(entry[r].inode)

Captured(doc) == [r \in doc.resources |-> entry[r].inode]

MayServe(doc) == Accepts(doc) /\ Registrable(doc)

\* Init: a broker that has just been created.
Init == /\ supported \in BOOLEAN
        /\ entry \in [Resources -> {Registry!Direct(i) : i \in Inodes}]
        /\ mishaps \in Mishaps
        /\ moved = {} /\ overwritten = {}
        /\ text \in [Inodes -> Texts]
        /\ policy \in {NoPolicy} \cup Policies
        /\ pinned = IF policy = NoPolicy THEN Registry!NoPins ELSE Captured(policy)
        /\ policy # NoPolicy => MayServe(policy)
        /\ Registry!OpenInit
        /\ pc = [q \in Requests |-> "idle"]
        /\ want = [q \in Requests |-> NoResource]
        /\ buf = [q \in Requests |-> Empty]
        /\ verdict = [q \in Requests |-> "none"]
        /\ answer = [q \in Requests |-> NoAnswer]
        /\ Audit!Init
        /\ environment \in Environments

-----------------------------------------------------------------------------
(***************************************************************************)
(* readResource up to its first await.                                     *)
(***************************************************************************)
EventOf(r, decision, reason) ==
  [resource |-> r, decision |-> decision, reason |-> reason]

\* #appendAudit: build the event, call append.
AppendAudit(q, r, decision, reason) ==
  /\ pc' = [pc EXCEPT ![q] = "audit"]
  /\ Audit!Begin(q, EventOf(r, decision, reason))

\* #auditAndReturn with the decision "error".
AuditError(q, reason) == AppendAudit(q, want[q], "error", reason)

ReadResource(q, r) ==
  LET decided == Evaluate(policy, supported, subjectId, r, ACTION_READ)
  IN /\ pc[q] = "idle"
     /\ want' = [want EXCEPT ![q] = r]
     /\ IF decided.decision = "deny"
        THEN AppendAudit(q, r, "deny", decided.reason)
        ELSE pc' = [pc EXCEPT ![q] = "hook"] /\ UNCHANGED <<log, appending>>
     /\ UNCHANGED <<boot, storage, opening, buf, verdict, answer>>

\* The hook has returned, or has thrown, which the catch reports like any error.
HookReturns(q) ==
  /\ pc[q] = "hook"
  /\ UNCHANGED <<boot, text, overwritten, want, buf, verdict, answer>>
  /\ \/ /\ policy # NoPolicy
        /\ pc' = [pc EXCEPT ![q] = "open"]
        /\ Registry!BeginOpen(q, want[q])
        /\ UNCHANGED <<log, appending>>
     \/ /\ policy = NoPolicy
        /\ AuditError(q, "POLICY_UNAVAILABLE") /\ UNCHANGED <<storage, opening>>
     \/ /\ "io" \in mishaps
        /\ AuditError(q, "INTERNAL_ERROR") /\ UNCHANGED <<storage, opening>>

OpenStep(q) == /\ pc[q] = "open"
               /\ UNCHANGED <<boot, text, overwritten, request, log, appending>>
               /\ Registry!OpenStep(q)

Opened(q) ==
  /\ pc[q] = "open" /\ oat[q] = "done"
  /\ \/ /\ ores[q] = "ok"
        /\ pc' = [pc EXCEPT ![q] = "read"]
        /\ UNCHANGED <<log, appending>>
     \/ ores[q] = "changed" /\ AuditError(q, "RESOURCE_CHANGED")
  /\ UNCHANGED <<boot, storage, opening, want, buf, verdict, answer>>

-----------------------------------------------------------------------------
(***************************************************************************)
(* readUtf8Text: chunks until end of file or until one byte too many.  The *)
(* file may be overwritten between two chunks.                             *)
(***************************************************************************)
remaining_NoExtra(q) == maxResourceBytes - buf[q].total    \* mutant: no extra byte
remaining(q) == maxResourceBytes + 1 - buf[q].total
Smaller(m, n) == IF m <= n THEN m ELSE n

\* What handle.read may return now; a read(2) may return less than it could.
Available(q) == text[oh[q]].len - buf[q].total
BytesRead(q) == 1 .. Smaller(Smaller(chunkBytes, remaining(q)), Available(q))

TooLarge_AtLimit(total) == total >= maxResourceBytes       \* mutant: off by one
TooLarge(total) == total > maxResourceBytes

ReadChunk(q) ==
  /\ pc[q] = "read"
  /\ \E n \in BytesRead(q) :
       LET total == buf[q].total + n
       IN /\ buf' = [buf EXCEPT ![q] = [total |-> total,
                                       from |-> @.from \cup {text[oh[q]]}]]
          /\ IF TooLarge(total)
             THEN /\ verdict' = [verdict EXCEPT ![q] = "RESOURCE_TOO_LARGE"]
                  /\ pc' = [pc EXCEPT ![q] = "close"]
             ELSE UNCHANGED <<verdict, pc>>
  /\ UNCHANGED <<boot, storage, opening, want, answer, log, appending>>

\* The fatal decoder on the bytes: known for the whole of one text, and open for
\* part of one or a mixture of several.
Decodes(b) ==
  IF b.total = 0 THEN {TRUE}
  ELSE {t.utf8 : t \in {u \in Texts : b = [total |-> u.len, from |-> {u}]}}
         \cup (IF \E u \in Texts : b = [total |-> u.len, from |-> {u}]
               THEN {} ELSE BOOLEAN)

ReadEnd(q) ==
  /\ pc[q] = "read"
  /\ BytesRead(q) = {}
  /\ \E decodes \in Decodes(buf[q]) :
       verdict' = [verdict EXCEPT ![q] =
                     IF decodes THEN "content" ELSE "RESOURCE_ENCODING_INVALID"]
  /\ pc' = [pc EXCEPT ![q] = "close"]
  /\ UNCHANGED <<boot, storage, opening, want, buf, answer, log, appending>>

ReadFails(q) ==
  /\ pc[q] = "read" /\ "io" \in mishaps
  /\ verdict' = [verdict EXCEPT ![q] = "INTERNAL_ERROR"]
  /\ pc' = [pc EXCEPT ![q] = "close"]
  /\ UNCHANGED <<boot, storage, opening, want, buf, answer, log, appending>>

ClosesHandle_OnSuccess(q) ==           \* mutant: no finally
  IF verdict[q] = "content" THEN oh' = [oh EXCEPT ![q] = NoHandle] ELSE UNCHANGED oh
ClosesHandle(q) == oh' = [oh EXCEPT ![q] = NoHandle]

\* The finally clause; a rejected close displaces whatever was thrown before.
CloseHandle(q) ==
  /\ pc[q] = "close"
  /\ ClosesHandle(q)
  /\ \/ /\ verdict[q] = "content"
        /\ AppendAudit(q, want[q], "allow", "ALLOWED")
     \/ verdict[q] # "content" /\ AuditError(q, verdict[q])
     \/ "io" \in mishaps /\ AuditError(q, "INTERNAL_ERROR")
  /\ UNCHANGED <<boot, storage, oat, oid, ores, want, buf, verdict, answer>>

-----------------------------------------------------------------------------
(***************************************************************************)
(* append, and what the request returns after it.                          *)
(***************************************************************************)
AuditStep(q) == /\ pc[q] = "audit"
                /\ Audit!Step(q)
                /\ UNCHANGED <<boot, storage, opening, request>>

NoContent == Empty

\* The BrokerResult for the event e whose append has settled with outcome.
Outcome_IgnoresFailure(e, outcome, bytes) ==               \* mutant
  [decision |-> e.decision, reason |-> e.reason,
   content |-> IF e.decision = "allow" THEN bytes ELSE NoContent]
Outcome_KeepsContent(e, outcome, bytes) ==                 \* mutant: content anyway
  [decision |-> IF outcome = "ok" THEN e.decision ELSE "error",
   reason |-> IF outcome = "ok" THEN e.reason ELSE "AUDIT_FAILED",
   content |-> bytes]
Outcome(e, outcome, bytes) ==
  IF outcome # "ok"
  THEN [decision |-> "error", reason |-> "AUDIT_FAILED", content |-> NoContent]
  ELSE [decision |-> e.decision, reason |-> e.reason,
        content |-> IF e.decision = "allow" THEN bytes ELSE NoContent]

Respond_AuditsTwice(q) ==              \* mutant: a failed append is audited as an error
  /\ pc[q] = "audit" /\ at[q] = "done"
  /\ IF res[q] # "ok" /\ ev[q].decision = "allow"
     THEN AuditError(q, "INTERNAL_ERROR") /\ UNCHANGED answer
     ELSE /\ answer' = [answer EXCEPT ![q] = Outcome(ev[q], res[q], buf[q])]
          /\ pc' = [pc EXCEPT ![q] = "answered"]
          /\ UNCHANGED <<log, appending>>
  /\ UNCHANGED <<boot, storage, opening, want, buf, verdict>>
Respond(q) ==
  /\ pc[q] = "audit" /\ at[q] = "done"
  /\ answer' = [answer EXCEPT ![q] = Outcome(ev[q], res[q], buf[q])]
  /\ pc' = [pc EXCEPT ![q] = "answered"]
  /\ UNCHANGED <<boot, storage, opening, want, buf, verdict, log, appending>>

\* The requests inside an open that waits for the other end of a FIFO, of the
\* resource or of the audit destination: each holds a worker thread, and every
\* other file operation of the process needs one.
Waiting == {q \in Requests : \/ pc[q] = "open" /\ oat[q] = "blocked"
                             \/ pc[q] = "audit" /\ at[q] = "blocked"}
ThreadFree == Cardinality(Waiting) < poolSize

FileStep(q) == \/ OpenStep(q) \/ ReadChunk(q) \/ ReadEnd(q) \/ ReadFails(q)
               \/ CloseHandle(q) \/ AuditStep(q)

RequestStep(q) == \/ HookReturns(q) \/ Opened(q) \/ Respond(q)
                  \/ ThreadFree /\ FileStep(q)

-----------------------------------------------------------------------------
(***************************************************************************)
(* The owner, and the end of a process.                                    *)
(***************************************************************************)
Repoint(r) == /\ UNCHANGED <<boot, text, overwritten, request, log, appending>>
              /\ Registry!Repoint(r)

Overwrite(i, t) == /\ "overwrite" \in mishaps /\ t # text[i]
                   /\ text' = [text EXCEPT ![i] = t]
                   /\ overwritten' = overwritten \cup {i}
                   /\ UNCHANGED <<boot, entry, moved, opening, request, log, appending>>

Destination == /\ Audit!Rotate \/ Audit!Block \/ Audit!OwnerChmod
               /\ UNCHANGED <<boot, storage, opening, request>>

InProgress(q) == pc[q] \notin {"idle", "answered", "lost"}

\* The process dies, by itself or with the host, and a new broker is created.
Restart ==
  /\ Audit!Kill \/ Audit!PowerLoss
  /\ pc' = [q \in Requests |-> IF InProgress(q) THEN "lost" ELSE pc[q]]
  /\ oh' = [q \in Requests |-> NoHandle]
  /\ \/ policy' = NoPolicy /\ pinned' = Registry!NoPins
     \/ \E doc \in Policies : /\ MayServe(doc)
                              /\ policy' = doc /\ pinned' = Captured(doc)
  /\ UNCHANGED <<supported, storage, oat, oid, ores, want, buf, verdict, answer>>

Next == /\ \/ \E q \in Requests : \/ \E r \in Resources : ReadResource(q, r)
                                  \/ RequestStep(q)
           \/ \E r \in Resources : Repoint(r)
           \/ \E i \in Inodes, t \in Texts : Overwrite(i, t)
           \/ Destination
           \/ Restart
        /\ UNCHANGED environment

Spec == Init /\ [][Next]_vars

\* A request that has begun takes its next step: the hook returns, and libuv does
\* every file operation it has a thread for.
FairSpec == Spec /\ \A q \in Requests : WF_vars(RequestStep(q) /\ UNCHANGED environment)

-----------------------------------------------------------------------------
(***************************************************************************)
(* Correctness.                                                            *)
(***************************************************************************)
Answered(q) == pc[q] = "answered"
Released(q) == Answered(q) /\ answer[q].decision = "allow"
MayRead(r) == supported /\ policy # NoPolicy /\ Granted(policy, subjectId, r)

\* The events recorded for q whose last byte is on the disk.
DurableEvents(q) ==
  UNION {{body[f][i].event : i \in {j \in 1 .. disk[f] :
              body[f][j].by = q /\ Audit!EndsLine(body[f][j])}} : f \in named}

\* Where a record for q begins.
RecordsOf(q) ==
  UNION {{<<f, i>> : i \in {j \in DOMAIN body[f] :
              body[f][j].by = q /\ body[f][j].part # "tail"}} : f \in Files}

\* Every answer but AUDIT_FAILED is preceded by its event on the disk, with the
\* same decision and reason, and the event outlives crashes and rotation
\* (ADR-006: "A read is released only after its allow event is durably
\* appended", ADR-012).
AnswersAreAudited ==
  \A q \in Requests : Answered(q) /\ answer[q].reason # "AUDIT_FAILED" =>
     EventOf(want[q], answer[q].decision, answer[q].reason) \in DurableEvents(q)

\* No path through readResource appends twice: not the catch after a failed
\* append, not a close that fails, not a refusal (ADR-012: "exactly one").
NeverTwoEvents == \A q \in Requests : Cardinality(RecordsOf(q)) <= 1

\* While bytes are read, the handle is on the registered file of a resource the
\* policy grants, however often the path was re-pointed or the broker restarted.
ReadsOnlyGrantedFiles ==
  \A q \in Requests : pc[q] \in {"read", "close"} =>
     /\ MayRead(want[q])
     /\ want[q] \in DOMAIN pinned /\ oh[q] = pinned[want[q]]

\* Content leaves only under the policy in force when it leaves.
ReleasedUnderPolicy ==
  [][\A q \in Requests : ~Released(q) /\ Released(q)' => MayRead(want[q])]_vars

\* No file handle is held while an event is written, nor after the answer.
HandleClosedBeforeAudit ==
  \A q \in Requests : pc[q] \in {"idle", "hook", "audit", "answered", "lost"} =>
     oh[q] = NoHandle

\* Unless the file was overwritten meanwhile, what is released is the whole of
\* one text and within the limit: the loop neither stops a byte early nor late.
ReleasedWhole ==
  \A q \in Requests : Released(q) /\ overwritten = {} =>
      LET content == answer[q].content
      IN /\ content.total <= maxResourceBytes
         /\ \E t \in Texts : t.len = content.total /\ t.utf8
                           /\ content.from \subseteq {t}

\* Each error names what happened: a resource nobody moved is not reported
\* changed, and size and encoding errors are about the registered file.
ErrorsAreTruthful ==
  \A q \in Requests : Answered(q) /\ "io" \notin mishaps =>
    LET reason == answer[q].reason
    IN /\ reason = "RESOURCE_CHANGED" => want[q] \in moved
       /\ reason = "RESOURCE_TOO_LARGE" =>
            \E t \in buf[q].from : t.len > maxResourceBytes
       /\ reason = "RESOURCE_ENCODING_INVALID" /\ overwritten = {} =>
            \E t \in Texts : buf[q].from = {t} /\ ~t.utf8
       /\ reason # "INTERNAL_ERROR"

\* A granted read of a readable file is answered with its content when nobody
\* disturbed that file or the audit destination, although other paths and files
\* change and earlier processes may have been killed anywhere.
AuditUndisturbed == /\ setting.faults \subseteq {"kill"} /\ setting.created = "0600"
                    /\ Audit!UsableDestination
UndisturbedReadsSucceed ==
  [][\A q \in Requests :
       /\ ~Answered(q) /\ Answered(q)' /\ MayRead(want[q])
       /\ AuditUndisturbed /\ "io" \notin mishaps
       /\ want[q] \notin moved /\ pinned[want[q]] \notin overwritten
       => LET t == text[pinned[want[q]]]
          IN t.utf8 /\ t.len <= maxResourceBytes => Released(q)']_vars

\* Every request is answered unless its process dies, or the path it opens names
\* a FIFO with nobody at the other end; such a request holds up no other one, as
\* long as there are fewer of them than worker threads.
RequestsAreAnswered ==
  \A q \in Requests : InProgress(q) ~> ~InProgress(q) \/ q \in Waiting \/ ~ThreadFree

\* The broker implements the gate: its ledger is what is on the disk.
Gate == INSTANCE ReadGate WITH
          Events <- Event,
          granted <- {r \in Resources : MayRead(r)},
          asked <- want,
          ledger <- [q \in Requests |-> DurableEvents(q)],
          reply <- answer,
          gone <- {q \in Requests : pc[q] = "lost"}

ImplementsGate == Gate!GateSpec
=============================================================================
