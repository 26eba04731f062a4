---------------------------- MODULE AuditWriter -----------------------------
(***************************************************************************)
(* src/audit.ts: JsonlAuditWriter.append and validateAuditDestination.     *)
(*                                                                         *)
(* Calls run concurrently, each parked at its next await; every call opens *)
(* the audit path afresh, so between two awaits another call, or the owner *)
(* of the destination, may have changed what the path names.  A file is an *)
(* inode with a permission mode and a body; the body is the sequence of    *)
(* fragments that successful write(2) calls appended to it.                *)
(***************************************************************************)
EXTENDS Naturals, Sequences

CONSTANTS Calls,         \* slots for calls of append and validateAuditDestination
          Events,        \* the audit events that may be appended
          NoEvent,       \* what a validateAuditDestination call carries
          Files,         \* inodes an audit destination may be
          NoFile,
          Settings,      \* the environments considered: [faults, created]
          DirEntrySync   \* fsync of a file also makes its directory entry durable

FaultKinds == {"rotate",   \* the owner moves the file away or puts another there
               "chmod",    \* the owner changes a file's mode
               "block",    \* the path becomes a link or a directory
               "io",       \* open, fchmod, fstat, write or fsync fails
               "short",    \* a write(2) takes part of the line, the rest follows
               "kill",     \* the broker's process is killed
               "power"}    \* the host loses power

Absent  == "absent"    \* open says ENOENT
Blocked == "blocked"   \* open says EEXIST with O_EXCL and fails without it
PathStates == {Absent, Blocked} \cup Files

\* 0600 is what fstat accepts.  "masked" is 0600 less the owner's bits a
\* restrictive umask takes: such a file cannot be opened for writing.  "wide"
\* stands for every other mode, and for a device or a FIFO that somebody reads;
\* "fifo" is one that nobody reads, and nobody comes to.
Modes == {"none", "0600", "masked", "wide", "fifo"}
OwnerModes == {"0600", "wide"}           \* what the owner's chmod gives a file
OwnerFiles == OwnerModes \cup {"fifo"}    \* what the owner may put there

ASSUME AuditConstants ==
  /\ NoEvent \notin Events
  /\ NoFile \notin Files /\ Absent \notin Files /\ Blocked \notin Files
  /\ Settings \subseteq [faults : SUBSET FaultKinds, created : {"0600", "masked"}]
  /\ DirEntrySync \in BOOLEAN

VARIABLES setting, \* which faults there may be, and the mode that
                   \* open(..., O_CREAT, 0o600) gives under the umask
          dest,   \* what the audit path names
          mode,   \* each inode's mode; "none" while it has never been created
          body,   \* each inode's fragments, oldest first
          disk,   \* how many of them are on the disk
          named,  \* the inodes whose directory entry is on the disk
          at,     \* where each call is parked
          fh,     \* the inode its FileHandle is open on
          made,   \* whether it created the file (created)
          ev,     \* the event it is to append
          res     \* how its promise settles

vars == <<setting, dest, mode, body, disk, named, at, fh, made, ev, res>>
world == <<dest, mode, body, disk, named>>

Points == {"idle",     \* not called
           "create",   \* before open(O_CREAT | O_EXCL)       audit.ts:49
           "existing", \* before the second open              audit.ts:59
           "blocked",  \* inside it: a FIFO waits for a reader
           "chmod",    \* before handle.chmod(0o600)          audit.ts:62
           "stat",     \* before handle.stat()                audit.ts:64
           "write",    \* before handle.writeFile             audit.ts:94
           "rest",     \* inside writeFile, after a short write
           "sync",     \* before handle.sync()                audit.ts:95
           "close",    \* before handle.close(), result known audit.ts:103
           "done",     \* the promise has settled
           "lost"}     \* the process died under it

\* "EIO" stands for an error that is not one of the writer's own.
Results == {"none", "ok", "AUDIT_DESTINATION_INVALID", "AUDIT_WRITE_FAILED", "EIO"}

\* A record is one JSON line.  "line" is all of it, "head" a proper prefix
\* without the newline, "tail" what was missing of it, newline included.
Fragment == [by : Calls, event : Events, part : {"line", "head", "tail"}]

\* The variables have their types, and append rejects with its own codes only;
\* a raw error is what a validateAuditDestination call may reject with.
TypeOK == /\ setting \in Settings
          /\ dest \in PathStates
          /\ mode \in [Files -> Modes]
          /\ body \in [Files -> Seq(Fragment)]
          /\ disk \in [Files -> Nat]
          /\ named \in SUBSET Files
          /\ at \in [Calls -> Points]
          /\ fh \in [Calls -> Files \cup {NoFile}]
          /\ made \in [Calls -> BOOLEAN]
          /\ ev \in [Calls -> Events \cup {NoEvent}]
          /\ res \in [Calls -> Results]
          /\ \A c \in Calls : ev[c] # NoEvent => res[c] # "EIO"

\* Init: any destination the owner may have left; every other file is unborn.
Init == /\ setting \in Settings
        /\ \/ dest \in {Absent, Blocked} /\ mode = [f \in Files |-> "none"]
           \/ \E f \in Files, m \in OwnerFiles :
                /\ dest = f
                /\ mode = [g \in Files |-> IF g = f THEN m ELSE "none"]
        /\ body = [f \in Files |-> <<>>]
        /\ disk = [f \in Files |-> 0]
        /\ named = {f \in Files : mode[f] # "none"}
        /\ at = [c \in Calls |-> "idle"]
        /\ fh = [c \in Calls |-> NoFile]
        /\ made = [c \in Calls |-> FALSE]
        /\ ev = [c \in Calls |-> NoEvent]
        /\ res = [c \in Calls |-> "none"]

-----------------------------------------------------------------------------
(***************************************************************************)
(* openValidatedAudit.                                                     *)
(***************************************************************************)

\* A call begins.  A slot may be used again once its promise has settled.
Begin(c, e) == /\ at[c] \in {"idle", "done"}
               /\ at' = [at EXCEPT ![c] = "create"]
               /\ ev' = [ev EXCEPT ![c] = e]
               /\ made' = [made EXCEPT ![c] = FALSE]
               /\ res' = [res EXCEPT ![c] = "none"]
               /\ UNCHANGED <<world, fh>>

\* Every failure decides the result and leaves the handle, if any, to close.
Fail(c, code) == /\ res' = [res EXCEPT ![c] = code]
                 /\ at' = [at EXCEPT ![c] = IF fh[c] = NoFile THEN "done" ELSE "close"]
                 /\ UNCHANGED <<fh, made, ev>>

Invalid_RawCode(c) == Fail(c, "EEXIST")                    \* mutant: raw errno
Invalid(c) == Fail(c, "AUDIT_DESTINATION_INVALID")
WriteFailed_AsInvalid(c) == Fail(c, "AUDIT_DESTINATION_INVALID")       \* mutant
WriteFailed(c) == Fail(c, "AUDIT_WRITE_FAILED")

\* isAlreadyPresent: somebody else's file is opened instead.
AlreadyThere_Fails(c) == Invalid(c)                        \* mutant: EEXIST fatal
AlreadyThere(c) == /\ at' = [at EXCEPT ![c] = "existing"]
                   /\ UNCHANGED <<fh, made, ev, res>>

\* open(path, O_WRONLY | O_APPEND | O_NOFOLLOW | O_CREAT | O_EXCL, 0o600)
CreateExclusive(c) ==
  /\ at[c] = "create"
  /\ \/ /\ dest = Absent
        /\ \E f \in Files :
             /\ mode[f] = "none"
             /\ dest' = f
             /\ mode' = [mode EXCEPT ![f] = setting.created]
             /\ fh' = [fh EXCEPT ![c] = f]
        /\ made' = [made EXCEPT ![c] = TRUE]
        /\ at' = [at EXCEPT ![c] = "chmod"]
        /\ UNCHANGED <<body, disk, named, ev, res>>
     \/ /\ dest # Absent                  \* EEXIST
        /\ AlreadyThere(c) /\ UNCHANGED world
     \/ /\ "io" \in setting.faults                \* any other error
        /\ Invalid(c) /\ UNCHANGED world

\* What the second open opens: files their owner may write to.  There is no
\* O_NONBLOCK, so that a FIFO makes it wait for a reader.
Openable == {f \in Files : mode[f] \in {"0600", "wide"}}
Waitable == {f \in Files : mode[f] = "fifo"}

\* There is no second attempt: a path that is gone again by now is an error.
SecondOpenFails_Retries(c) == /\ at' = [at EXCEPT ![c] = "create"]    \* mutant
                              /\ UNCHANGED <<fh, made, ev, res>>
SecondOpenFails(c) == Invalid(c)

\* open(path, O_WRONLY | O_APPEND | O_NOFOLLOW)
OpenExisting(c) ==
  /\ at[c] = "existing"
  /\ \/ /\ dest \in Openable
        /\ fh' = [fh EXCEPT ![c] = dest]
        /\ at' = [at EXCEPT ![c] = "stat"]
        /\ UNCHANGED <<world, made, ev, res>>
     \/ /\ dest \in Waitable
        /\ at' = [at EXCEPT ![c] = "blocked"]
        /\ UNCHANGED <<world, fh, made, ev, res>>
     \/ /\ \/ dest \notin Openable \cup Waitable   \* moved away, a link, masked
           \/ "io" \in setting.faults
        /\ SecondOpenFails(c) /\ UNCHANGED world

\* handle.chmod(0o600), only by the call that created the file
Chmod_Skipped(c) == /\ at[c] = "chmod"                      \* mutant: umask wins
                    /\ at' = [at EXCEPT ![c] = "stat"]
                    /\ UNCHANGED <<world, fh, made, ev, res>>
Chmod(c) ==
  /\ at[c] = "chmod"
  /\ \/ /\ mode' = [mode EXCEPT ![fh[c]] = "0600"]
        /\ at' = [at EXCEPT ![c] = "stat"]
        /\ UNCHANGED <<dest, body, disk, named, fh, made, ev, res>>
     \/ "io" \in setting.faults /\ Invalid(c) /\ UNCHANGED world

\* What fstat must show: a regular file of mode 0600.
ModeAccepted_Any(m) == m # "none"                          \* mutant: mode not compared
ModeAccepted(m) == m = "0600"

\* handle.stat(); validateAuditDestination has what it wants after it.
Stat(c) ==
  /\ at[c] = "stat"
  /\ \/ /\ ModeAccepted(mode[fh[c]])
        /\ IF ev[c] = NoEvent
           THEN /\ at' = [at EXCEPT ![c] = "close"]
                /\ res' = [res EXCEPT ![c] = "ok"]
           ELSE /\ at' = [at EXCEPT ![c] = "write"]
                /\ UNCHANGED res
        /\ UNCHANGED <<world, fh, made, ev>>
     \/ /\ ~ModeAccepted(mode[fh[c]]) \/ "io" \in setting.faults
        /\ Invalid(c) /\ UNCHANGED world

-----------------------------------------------------------------------------
(***************************************************************************)
(* append: write the line, sync the file, close the handle.                *)
(***************************************************************************)
AppendPart(c, part) ==
  /\ body' = [body EXCEPT ![fh[c]] =
                Append(@, [by |-> c, event |-> ev[c], part |-> part])]
  /\ UNCHANGED <<dest, mode, disk, named>>

\* writeFile goes on after a short write.
NextAfter_OneWrite(part) == "sync"                         \* mutant: count ignored
NextAfter(part) == IF part = "head" THEN "rest" ELSE "sync"

\* handle.writeFile: writes until the whole line is out.  O_APPEND puts every
\* write(2) at the end of the file as it is then.
Write_NewlineApart(c) == /\ at[c] = "write"                 \* mutant: two writes
                         /\ AppendPart(c, "head")
                         /\ at' = [at EXCEPT ![c] = "rest"]
                         /\ UNCHANGED <<fh, made, ev, res>>
Write(c) ==
  /\ at[c] = "write"
  /\ \/ /\ AppendPart(c, "line")
        /\ at' = [at EXCEPT ![c] = NextAfter("line")]
        /\ UNCHANGED <<fh, made, ev, res>>
     \/ /\ "short" \in setting.faults
        /\ AppendPart(c, "head")
        /\ at' = [at EXCEPT ![c] = NextAfter("head")]
        /\ UNCHANGED <<fh, made, ev, res>>
     \/ "io" \in setting.faults /\ WriteFailed(c) /\ UNCHANGED world

WriteRest(c) ==
  /\ at[c] = "rest"
  /\ \/ /\ AppendPart(c, "tail")
        /\ at' = [at EXCEPT ![c] = NextAfter("tail")]
        /\ UNCHANGED <<fh, made, ev, res>>
     \/ "io" \in setting.faults /\ WriteFailed(c) /\ UNCHANGED world

\* fsync: everything the file holds is on the disk, whoever wrote it.
Flush(f) == /\ disk' = [disk EXCEPT ![f] = Len(body[f])]
            /\ named' = IF DirEntrySync THEN named \cup {f} ELSE named
            /\ UNCHANGED <<dest, mode, body>>

Sync(c) ==
  /\ at[c] = "sync"
  /\ \/ /\ Flush(fh[c])
        /\ res' = [res EXCEPT ![c] = "ok"]
        /\ at' = [at EXCEPT ![c] = "close"]
        /\ UNCHANGED <<fh, made, ev>>
     \/ "io" \in setting.faults /\ WriteFailed(c) /\ UNCHANGED world

\* A close that fails is swallowed, but for that of validateAuditDestination
\* after the file has passed.
CloseRejects_Always(c) == TRUE                             \* mutant: no catch
CloseRejects(c) == ev[c] = NoEvent /\ res[c] = "ok"

\* handle.close(), and the promise settles.
Close(c) == /\ at[c] = "close"
            /\ \/ UNCHANGED res
               \/ /\ "io" \in setting.faults /\ CloseRejects(c)
                  /\ res' = [res EXCEPT ![c] = "EIO"]
            /\ fh' = [fh EXCEPT ![c] = NoFile]
            /\ at' = [at EXCEPT ![c] = "done"]
            /\ UNCHANGED <<world, made, ev>>

Step(c) == \/ CreateExclusive(c) \/ OpenExisting(c) \/ Chmod(c) \/ Stat(c)
           \/ Write(c) \/ WriteRest(c) \/ Sync(c) \/ Close(c)

-----------------------------------------------------------------------------
(***************************************************************************)
(* The owner of the destination, and the machine.  None of it is promised  *)
(* to happen.                                                              *)
(***************************************************************************)
Rotate ==
  /\ "rotate" \in setting.faults
  /\ \/ dest' = Absent /\ UNCHANGED <<mode, named>>
     \/ \E f \in Files : /\ mode[f] # "none"
                         /\ dest' = f
                         /\ UNCHANGED <<mode, named>>
     \/ \E f \in Files, m \in OwnerFiles : /\ mode[f] = "none"
                                           /\ dest' = f
                                           /\ mode' = [mode EXCEPT ![f] = m]
                                           /\ named' = named \cup {f}
  /\ UNCHANGED <<body, disk, at, fh, made, ev, res>>

Block == /\ "block" \in setting.faults
         /\ dest' = Blocked
         /\ UNCHANGED <<mode, body, disk, named, at, fh, made, ev, res>>

OwnerChmod ==
  /\ "chmod" \in setting.faults
  /\ \E f \in Files, m \in OwnerModes : /\ mode[f] \notin {"none", "fifo"}
                                        /\ mode' = [mode EXCEPT ![f] = m]
  /\ UNCHANGED <<dest, body, disk, named, at, fh, made, ev, res>>

\* Every call still running dies with the process, and its handle with it.
ProcessDies ==
  /\ at' = [c \in Calls |-> IF at[c] \in {"idle", "done"} THEN at[c] ELSE "lost"]
  /\ fh' = [c \in Calls |-> NoFile]
  /\ UNCHANGED <<made, ev, res>>

Kill == "kill" \in setting.faults /\ ProcessDies /\ UNCHANGED world

\* What was not on the disk may be gone: the end of a file, also from the middle
\* of a line, or the name of a file created since.  What is left is on the disk.
\* A head or a tail cut short leaves the line as unfinished as without it.
Kept(f) == {SubSeq(body[f], 1, n) : n \in disk[f] .. Len(body[f])}
Torn(f) == {Append(SubSeq(body[f], 1, n - 1), [body[f][n] EXCEPT !.part = "head"]) :
              n \in {m \in (disk[f] + 1) .. Len(body[f]) : body[f][m].part = "line"}}

PowerLoss ==
  /\ "power" \in setting.faults
  /\ ProcessDies
  /\ \E gone \in SUBSET {f \in Files : mode[f] # "none" /\ f \notin named} :
       /\ dest' = IF dest \in gone THEN Absent ELSE dest
       /\ mode' = [f \in Files |-> IF f \in gone THEN "none" ELSE mode[f]]
       /\ named' = {f \in Files : mode'[f] # "none"}
       /\ body' \in [Files -> UNION {Kept(f) \cup Torn(f) : f \in Files} \cup {<<>>}]
       /\ \A f \in Files : body'[f] \in IF f \in gone THEN {<<>>} ELSE Kept(f) \cup Torn(f)
       /\ disk' = [f \in Files |-> Len(body'[f])]

Environment == Rotate \/ Block \/ OwnerChmod \/ Kill \/ PowerLoss

-----------------------------------------------------------------------------
\* Bound: in the component by itself each slot is used for one call.
Call(c) == at[c] = "idle" /\ \E e \in Events \cup {NoEvent} : Begin(c, e)

Next == /\ \/ \E c \in Calls : Call(c) \/ Step(c)
           \/ Environment
        /\ UNCHANGED setting

Spec == Init /\ [][Next]_vars

-----------------------------------------------------------------------------
\* A promise of append that has been, or is about to be, fulfilled.
Acknowledged(c) == res[c] = "ok" /\ ev[c] # NoEvent

EndsLine(frag) == frag.part \in {"line", "tail"}

\* The last byte of c's record is on the disk, in a file that keeps its name.
Durable(c) ==
  \E f \in named : \E i \in 1 .. disk[f] :
     /\ body[f][i].by = c /\ body[f][i].event = ev[c] /\ EndsLine(body[f][i])

\* c's record stands on a line of its own, as audit-check needs it.
StartsLine(f, i) == i = 1 \/ EndsLine(body[f][i - 1])
Intact(c) ==
  \E f \in Files : \E i \in DOMAIN body[f] :
     /\ body[f][i].by = c /\ body[f][i].event = ev[c]
     /\ \/ body[f][i].part = "line" /\ StartsLine(f, i)
        \/ /\ body[f][i].part = "tail"
           /\ i > 1 /\ body[f][i - 1].by = c /\ body[f][i - 1].part = "head"
           /\ StartsLine(f, i - 1)

InFlight(c) == at[c] \notin {"idle", "done", "lost"}

\* Once append has fulfilled its promise, its record is on the disk, and stays
\* there through rotation, permission changes, faults of other calls, the death
\* of the process and power loss (audit.ts:94-95: writeFile, then sync).
AcknowledgedIsDurable == \A c \in Calls : Acknowledged(c) => Durable(c)

\* An acknowledged record can be parsed: it stands on a line of its own, not
\* glued to another record's bytes (ADR-012: one JSONL event for every outcome).
AcknowledgedIsIntact == \A c \in Calls : Acknowledged(c) => Intact(c)

\* As long as every write(2) takes its whole line and the host keeps its power,
\* acknowledged records can be parsed, whatever else fails: each record is one
\* write to an O_APPEND handle.
WholeLinesStayIntact ==
  setting.faults \cap {"short", "power"} = {} => AcknowledgedIsIntact

\* A call that reports an invalid destination has written nothing anywhere, so
\* that diagnostic, unlike AUDIT_WRITE_FAILED, excludes a stray record.
InvalidWroteNothing ==
  \A c \in Calls : res[c] = "AUDIT_DESTINATION_INVALID" =>
     \A f \in Files : \A i \in DOMAIN body[f] : body[f][i].by # c

\* As long as nobody but the writer changes modes, records are only in files of
\* mode 0600, although the path may be re-pointed between open, fstat and write.
RecordsStayPrivate ==
  "chmod" \notin setting.faults => \A f \in Files : body[f] # <<>> => mode[f] = "0600"

\* A restrictive umask leaves no unusable file behind: when no call is running,
\* no file still has the mode the umask gave it (audit.ts:61-63).
NoUnusableFile ==
  (\A c \in Calls : ~InFlight(c)) => \A f \in Files : mode[f] # "masked"

\* The umask is overcome by every call that is not cut short.
UmaskOvercome == setting.faults \cap {"io", "kill", "power"} = {} => NoUnusableFile

\* With nothing to disturb them, calls racing to create the file do not make
\* each other fail: the loser of O_EXCL opens what the winner created.  Under a
\* restrictive umask a call may fail only because another one created the file
\* and has not come to its chmod; the creator never does.
UsableDestination == dest = Absent \/ (dest \in Files /\ mode[dest] = "0600")
UndisturbedAppendsSucceed ==
  setting.faults = {} /\ (UsableDestination \/ \E c \in Calls : made[c]) =>
    \A c \in Calls :
      res[c] \notin {"none", "ok"} =>
        setting.created = "masked" /\ ~made[c] /\ \E d \in Calls : made[d]

-----------------------------------------------------------------------------
\* What a caller has been told, and whose record is on the disk.
Told(c) == CASE at[c] = "idle" -> "none"
             [] at[c] = "done" -> res[c]
             [] at[c] = "lost" -> "lost"
             [] OTHER -> "pending"

Log == INSTANCE AuditLog WITH asked <- ev,
                              stored <- {c \in Calls : Durable(c)},
                              reported <- [c \in Calls |-> Told(c)]

\* The writer implements the log: records only ever join it, an acknowledged one
\* is in it, one reported invalid never is, and what another call's sync or a
\* crash brings to the disk belongs to a call that may have written
\* (audit.ts:91-107).
ImplementsLog == Log!LogSpec
=============================================================================
