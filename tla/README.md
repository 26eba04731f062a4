# Specifications of the subject broker

TLA+ modules of the subject broker's own logic, TLC runs that check them on
small instances, and proofs of what matters most for every instance. Paths are
relative to the repository; `audit.ts:94` means `src/audit.ts`, line 94.

## The system

The broker is started for one subject, loads a policy file, registers the
resources the policy declares, and serves three MCP tools. `read_resource`
releases the text of a registered file when the policy grants it to the subject,
and writes one event for every outcome to an audit file. The trust boundary is
the process: the agent reaches files only through the tools.

| Component | Source | State | Operations | Modelled by |
|---|---|---|---|---|
| policy | `policy.ts`, `model.ts` | the parsed document, for the broker's life | `parsePolicy`, `evaluate` | `Policy`, `PolicyLoading` |
| resource registry | `resource-registry.ts` | the identity (dev, ino) captured for each resource | `create`, `openVerified`, `ids` | `ResourceRegistry`, `OpenVerified` |
| audit writer | `audit.ts` | none; every call opens the audit path | `append`, `validateAuditDestination` | `AuditWriter`, `AuditLog` |
| subject broker | `broker.ts` | policy, registry; requests in progress | `create`, `readResource`, `listResources`, `explain` | `SubjectBroker`, `ReadGate`, `PolicyLoading` |
| capability report | `capability.ts` | none | a constant table | no |
| MCP surface | `mcp-server.ts` | none | tool calls to broker calls | `Conformance`; what the tools return, in `SubjectBroker` and `PolicyLoading` |
| stdio server | `server.ts` | none; bound to one broker | command line and variables, start | `OpenCodeAdapter` |
| socket broker, transport, relay | `socket-broker.ts`, `unix-socket-transport.ts`, `socket-relay.ts` | sessions, listening socket, receive buffer | start, accept, send, close; the relay's check | `SocketBroker` |
| isolated launcher | `isolated-opencode.ts` | a temporary directory, a broker, a child | boundary check, launch, clean-up | `Launcher` |
| audit checker | `audit-check.ts` | none | read, parse, correlate | `AuditCheck` |
| OpenCode adapter | `opencode-adapter.ts` | a temporary directory, a child | command line, profile, preflight, child, clean-up | `OpenCodeAdapter`; as the launcher calls it, in `Launcher` |
| conformance suites | `conformance.ts`, `host-conformance.ts` | a temporary directory, brokers, connections, answers | fixture, calls, checks, report, clean-up | `Conformance` |
| demo | `demo.ts` | none | prints what two brokers answer | no |

How they interact: a tool call becomes a method call of the broker. Requests of
one session, and of several sessions of a socket broker, run concurrently: each
is an `async` function and yields at every `await`. They share no locks. What
they share is the file system: the storage directory, which its owner may change
at any time, and the audit file, which other requests write and its owner may
rotate. Nothing is kept in memory about the audit file, so every append finds
the path as it is then. They also share libuv's four worker threads: an open of a
FIFO keeps its thread until the other end is opened, and four such opens hold up
every other file operation of the process.

The isolated launcher checks that one directory, the trust root, can be denied to
the agent, starts a broker behind a Unix socket outside the sandbox and the agent
inside it, and cleans up when the agent exits. Every MCP connection of the agent is
a relay process, which checks the mode of the socket and then copies bytes. The
audit checker is a command that reads the files of several brokers afterwards, or
while they run, and reports a denial that is followed by an allow for another
subject.

Without the launcher, the OpenCode adapter runs the agent: it writes a profile into
the environment, asks OpenCode what it resolves from it and all its other
configuration, compares the two, and runs OpenCode, which resolves again and starts
the stdio server with the command of the profile. Any other MCP host may start that
server as well. The conformance suites drive brokers, and a sandbox, through a fixed
script and judge what they see.

What is hard about it:

- every decision is taken before an await and used after it: the path that was
  checked and the file that is opened, the mode that was read and the file that
  is written, the policy's answer and the content that leaves;
- an append has six awaits, each of which may fail, and its caller must learn
  the right thing from each failure;
- the process may be killed, or the host lose power, anywhere, and a new broker
  starts from another policy file over the same files;
- several requests create the audit file at once, under any umask;
- an open of a FIFO waits, for a resource and for the audit file alike, and keeps a
  worker thread that other requests need;
- a read returns chunks of a file that somebody may be writing;
- the socket broker closes the sessions it knows while others connect, and then
  waits for all of them;
- the launcher's cleaning up runs after any step has failed, and the policy is read
  twice, by the launcher and by the broker;
- events of several processes are ordered by their time stamps, which are taken
  before the lines are written;
- flags, inherited variables and defaults compete for the subject, the policy and the
  audit file of a server, and relative paths are resolved in two directories;
- a clean-up in a finally clause that fails displaces what was returned or thrown.

What makes each part correct:

| Component | Properties |
|---|---|
| policy | a read is allowed exactly when the loaded document grants it; no order of rules matters; the two queries agree |
| registry | only files of a sound configuration are registered, no link is followed, a file nobody moved is not refused, an open waits only for a FIFO in its place or a worker thread |
| audit writer | an acknowledged record is durable and, but for a torn line, intact; a failure before the write wrote nothing; no record reaches a file others can read |
| broker | an answer has exactly one event on the disk; content leaves only after its allow event, and only under the policy in force; only registered bytes are read; the bound on size is exact; the handle is closed |
| socket broker | every connection that can speak is a session; close ends and leaves nothing; a line that has arrived is answered |
| launcher | what is denied to the agent covers policy, audit file and storage, and not the workspace; whatever fails, nothing is left behind silently |
| adapter, stdio server | a server is bound to the subject, policy and audit file that were named for it; the reported outcome is true of the session |
| conformance suites | a pass means that the boundary held in all that was seen, an honest installation passes, a report comes after the clean-up |
| audit checker | exactly the pairs of the definition are found; a clear verdict can be trusted |

## Modules

`Policy` (constants only) translates the checks of `parsePolicy` and `evaluate`.
A document is a sequence of subjects, a set of resource identifiers and a
sequence of rules; a text that YAML or the schema rejects is the single value
`Malformed`. `Granted` is the meaning of a document that does not depend on the
order of its rules, and everything else is compared with it.

`PolicyLoading` adds the file, the owner's edits of it and `Load`, which is
`create` -> `loadPolicyAndRegistry` -> `parsePolicy`. `ListResources` and
`Explain` are the two synchronous queries.

`AuditWriter` is `audit.ts`. One action per await: `CreateExclusive` (the open
with `O_CREAT | O_EXCL`), `OpenExisting`, `Chmod`, `Stat`, `Write`, `WriteRest`
(the loop inside `writeFile` after a short write), `Sync`, `Close`. A file is an
inode with a mode and a body of fragments: a whole line, the head of one, or
its tail. `disk` says how much of the body is on the disk, and `named` which
files have a directory entry there. The mode "fifo" is a FIFO that nobody reads: the
second open, which has no `O_NONBLOCK`, is then `blocked`. `Rotate`, `Block`,
`OwnerChmod`, `Kill` and `PowerLoss` are what the owner and the machine may do;
`PowerLoss` keeps of what was not synced any beginning, also one that ends inside a
line (`Kept`, `Torn`). `Close` swallows a close that fails in `append`; that of
`validateAuditDestination` is not caught (`audit.ts:80`), and it then settles with a raw
error, "EIO". The constant `Settings`
is the set of environments to consider, and the variable `setting` is the one of
the behaviour at hand: which faults there may be, and the mode that a created
file gets under the umask. `DirEntrySync` says whether fsync of a file makes its
name durable too, which POSIX leaves open; the code does not sync the directory.

`AuditLog` is what `AuditWriter` promises its callers, with no files and no awaits:
a set of stored records that only grows, and the report each call makes. "ok" means
stored, an invalid destination means stored neither now nor later, a raw error is what
only a validation may report and says nothing, and a record whose call failed or died
while writing may appear at any time. `ImplementsLog` maps
`stored` to the calls whose whole record is on the disk under a durable name.

`OpenVerified` is `openVerified`: open, fstat, and the close of a mismatch. What
a path resolves to is nothing, or an inode over a route with or without a link
in it. `Repoint` is the owner. Open of one of `Fifos` is `blocked` until somebody
writes to it, and nobody does. `ResourceRegistry` and `SubjectBroker` guard every other file
operation by `ThreadFree`: fewer than `poolSize` opens are blocked. `NoFollowAny` is TRUE
on darwin, the only platform on which `evaluate` lets a read get here.

`ResourceRegistry` extends it with `ResourceRegistry.create`: one action per
lstat, open, fstat and close, one definition after the other.

`SubjectBroker` is `readResource`, and it composes the others:
`INSTANCE AuditWriter` with the requests as its calls, `INSTANCE OpenVerified`
with the requests as its readers, and `Policy`. `pc` says at which await a
request is parked; while it is parked at `openVerified` or at `append` the steps
are those of the instance. `Environments` says which faults of the audit destination and
of the storage are considered together. `Restart` is the end of the process, by `Kill` or
`PowerLoss`, and `create` of the next broker with another policy. A text is a
record of its length and of whether it is UTF-8; what a buffer holds is how many
bytes, of which texts.

`ReadGate` is the contract of ADR-006 and ADR-012 with no files and no awaits:
requests, a ledger that only grows, replies. `SubjectBroker` is shown to
implement it, with the events on the disk as the ledger.

`OpenCodeAdapter` extends `PolicyLoading` with `runCli`, `runOpenCodeSubject` and
`runServer`. A command line is a sequence of words; a word is its text and the
directory it was resolved in, so that the user's directory and the agent's workspace
tell two files of one name apart. What a flag or a variable gives is a set with at most
one member. `ParseAdapter`, `ServerCommand`, `Setting` and `ArgumentError` are the two
parsers and the command between them. `sources` is the set of fields of the resolved
configuration that something else than the profile has altered, and `EditSources`
alters them between the preflight and the run. One action per await of the adapter,
each of which may fail (`broke` is that a system call failed with an error the adapter
has no code for: a file operation, or a `spawn` that throws); `Kill` leaves an orphaned
agent behind. Bounds of the module: one server start per session, and a policy that is edited between sessions and while a
server runs.

`Conformance` is the two suites, one action per step that may fail: `Platform`,
`MakeRoot`, `WriteFixture`, `Preflight`, `Connect`, `Call`, `Report`, `Close`,
`RemoveRoot`. A start of the host suite may fail with its broker listening (the phase
`leaked` of `SocketBroker`); it then stays in `started`, and nobody holds it. `Script` is
the order of the calls, `Promised` what the fixture's policy says of each (by `Evaluate` of `Policy`), and a call may be answered otherwise or leave
another, a second or no event, `MaxDeviations` times in a run. `BoundaryHeld` states
what a pass has to mean in terms of `Granted`, not of the checks. It leaves out what the
checks do not see: the decisions in the audit files of the two child subjects, a missing
and a doubled event of one subject that make up for each other, events of the host
suite beyond the first of each decision, and the reason in its answers.

`AuditCheck` is the checker over the files that several brokers write. `Stamp` and
`AppendLine` are the brokers: an event takes its time when it is built and its place
when its line is written. `ReadFile` is one `readFile` of the checker; what follows
in the code is synchronous and is the operators `Parses`, `Located`, `SortsBefore`,
`Sorted`, `Correlate` (one turn of the loop), `Correlated` (the loop), `FindingCount` and
`Verdict`. A line is known by its file and its number, so that two events with the same
contents are two; candidates and findings are sets of such lines and pairs, and the
number the report gives is counted beside them. The variable `earlier` is history: which
lines were on record when an event was stamped.

`SocketBroker` is `startSocketBroker`, its `close()`, the transport of each
connection, and the relay's check of the socket. One action per await of start and
close (`CheckAbsent` to `MakePrivate`, `CloseSessions` to `RemovePath`), one per
event of a socket (`Connect`, `Data`, `SocketCloses`), and the clients. A stream is
counted in half lines, so that every chunk boundary that matters occurs.
`Phases` holds where start and close are: `leaked` is a start whose chmod failed
after `listen`, `unclean` a close whose unlink failed.

`Launcher` extends it with `runIsolatedOpenCodeSubject`: the boundary check
(`ReadPolicy`, `CheckLinks`, `ResolveRoot`, with `overlaps` and `commonAncestor` over
paths as sequences of names), the steps of the try block, and the finally block
(`BeginClose`, `CloseReturns`, `RemoveDirectory`). The broker's steps are those of
`SocketBroker`; the launcher takes `BrokerStarts` and waits.

The `MC...` modules give the constants their small values; each `.cfg` picks
from them. Operators such as `Outcome_IgnoresFailure` next to a definition are
plausible slips of that code; they are used by no specification, and with one in
the place of the definition TLC refutes the property it is paired with.

## Runs

| Run | What it shows | Bounds, and why they are enough |
|---|---|---|
| `broker_audit` | `AnswersAreAudited`, `NeverTwoEvents`, `ReleasedUnderPolicy`, `ImplementsGate`, `RequestsAreAnswered` | two requests, one resource, one inode for the audit file, a policy that grants and one that denies. Two requests are all that can meet in one append. One file and one FIFO in the storage, an audit path that is absent, a FIFO or back, and two worker threads: a request that waits for a FIFO leaves a thread to the other, and two hold both. Three environments: rotation, failing audit I/O and power loss; failing I/O of both files; nothing but re-pointing |
| `broker_reads` | `ReadsOnlyGrantedFiles`, `HandleClosedBeforeAudit`, `ReleasedWhole`, `ErrorsAreTruthful`, `UndisturbedReadsSucceed` | one request, two resources and two files that may be swapped; a limit of two bytes and a chunk of two, with texts at the limit, more than a chunk beyond it, and not UTF-8. Requests meet only in the audit file, so one is enough here |
| `audit_faults` | `TypeOK`, `AcknowledgedIsDurable`, `WholeLinesStayIntact`, `InvalidWroteNothing`, `RecordsStayPrivate`, `UmaskOvercome`, `UndisturbedAppendsSucceed`, `ImplementsLog` | two calls, two inodes, five settings: every fault but a short write together; short writes under power loss, and under rotation with a restrictive umask; and no fault at all, under either umask. The path may name a FIFO |
| `registry` | `UnmovedIsNotRefused`, `VerdictMatchesConfiguration`, `NeverThroughALink`, `CreateEnds` | one reader, two resources, two files, a directory and a FIFO, every initial configuration; with two resources one can be right while the other is wrong |
| `opencode_sessions` | `DecisionIgnoresRuleOrder`, `AllowsExactlyGranted`, `ListedIsWhatExplainAllows`, `ServedAsNamed`, `OutcomeIsTruthful` | two subjects, two resources, two rules: a duplicate key with two decisions, an undeclared name, a repeated subject. Command lines with every error the parsers know, relative and absolute paths, variables that contradict the flags |
| `conformance` | `VerdictIsExact`, `ReportMeansCleaned` | the suites' own subjects, resources and calls; two deviations, so that one may make up for another |
| `audit_check` | `FindsExactlyThePairs`, `ClearIsTrustworthy` | two subjects, two resources, three events, three times and a window of one, so that events lie before, on and after its edge; one shared file, or two whose names sort either way; one damaged line |
| `socket_broker` | `SessionsAreConnections`, `ClosedIsQuiet`, `CloseEnds`, `WrittenIsAnswered` | three connections: a relay that writes a line which does not parse and then a request, a direct client with a request, and one that stays silent; four half lines make every cut of two lines |
| `launcher` | `TrustRootCovers`, `WorkspaceApart`, `RelaysAreServed`, `DoneIsClean`, `LaunchEnds` | one relay; workspaces above, beside, in and below the trust root, audit files in four places, three storage roots, and a name that begins with two dots |
| `audit_torn_line` | refutes `AcknowledgedIsIntact` | a full disk: one short write, then an error |
| `audit_umask_crash` | refutes `NoUnusableFile` | a restrictive umask and a process that may be killed |
| `launcher_dotted` | refutes `WorkspaceOutside` | as `launcher` |

The last three are disagreements between the code and its documents:

- A short write followed by an error leaves half a line; the next record is
  acknowledged and stands on the same line (`audit.ts:94`). ADR-012 promises
  exactly one JSONL event for each outcome; `audit-check.ts:50-66` rejects such a
  file. `WholeLinesStayIntact` states what does hold: lines are whole where neither a short
  write nor a power loss before the fsync tears one.
- Between the exclusive create and the chmod (`audit.ts:49-63`) a crash leaves
  the masked mode, and ADR-017's "cannot leave an unusable file behind" fails.
  `UmaskOvercome` states what does hold.
- `overlaps` (`isolated-opencode.ts:50`) takes a relative path that starts with two
  dots for a way up, so a workspace `<trust root>/..work` passes for one outside the
  trust root; ADR-027 (`DECISIONS.md:381-382`) excludes it. `WorkspaceApart` states
  what does hold.

Two events of one millisecond in two files are sorted by the names of the files
(`audit-check.ts:84-94`), so an allow that followed a denial within it may go unflagged.
ADR-019 speaks of time stamps only, which do not order such events;
`ClearIsTrustworthy` states the exception.

Deadlock is checked only where the system cannot stop. `AuditCheck` stops when every
file has been read and no broker writes, `SocketBroker` after its close or a failed
start, `Launcher` when it is done, and `Conformance` when a suite has ended;
`audit_faults` and `broker_audit` when what their calls and requests still wait for is a
FIFO. Their configurations say `CHECK_DEADLOCK FALSE`, and `RequestsAreAnswered`,
`CloseEnds` and `LaunchEnds` say that they do not stop before.

### Fairness

`FairSpec` of `SubjectBroker` says that a request which has begun takes its next step,
and `FairSpec` of `ResourceRegistry` that `create` does, as long as a worker thread is
free: libuv answers every system call the code awaits but the open of a FIFO, which the
model keeps blocked. No lock is waited for; what one request takes from another is its
thread, and `RequestsAreAnswered` names that case. The code runs with libuv's default of
four threads. The run has two for its two requests, since what matters is whether fewer
opens wait than there are threads: while one of them waits the other must be answered, and
only when both do is nothing promised. `create` has the pool to itself: the process serves
nobody before it has ended. Nothing is assumed of the owner, who may rotate or re-point
forever, of crashes, or of new requests, nor that somebody comes to the other end of a FIFO.

`FairSpec` of `SocketBroker` says that the event loop delivers what has happened:
start and close take their next await, a socket its data and its close event, a
request its answer. Nothing is assumed of the clients: they may connect and stay
silent forever, and `CloseEnds` names the one case in which that matters, a client
that connects after `close()` has listed the sessions. `LauncherFairSpec` adds the
launcher's own steps; the agent need not exit (`ChildExits` has no fairness), and the
owner need not do anything.

## Proofs

TLC checks a property on a small instance; the theorems below hold for every value of
the constants: any number of requests, calls, files, readers, clients or names, documents
and command lines of any length, any number of deviations. Every safety invariant and
action property of a passing run is proved.

| Module | About | Properties proved |
|---|---|---|
| `PolicyLemmas` | `Policy` | lemmas only, for the adapter's, the broker's and the suites' proofs |
| `OpenCodeAdapterProofs` | `PolicyLoading` | `AllowsExactlyGranted`, `ListedIsWhatExplainAllows`, `DecisionIgnoresRuleOrder` |
| `OpenCodeAdapterProofs` | `OpenCodeAdapter` | the same three in every session, `ServedAsNamed`, `OutcomeIsTruthful` |
| `AuditWriterProofs` | `AuditWriter` | `TypeOK`, `AcknowledgedIsDurable`\*, `InvalidWroteNothing`, `WholeLinesStayIntact`\*, `RecordsStayPrivate`, `UmaskOvercome`, `UndisturbedAppendsSucceed`, `ImplementsLog`\* |
| `ResourceRegistryProofs` | `ResourceRegistry`, `OpenVerified` | `NeverThroughALink`\*\*, `UnmovedIsNotRefused`, `VerdictMatchesConfiguration` |
| `SubjectBrokerProofs` | `SubjectBroker` | `ReadsOnlyGrantedFiles`, `HandleClosedBeforeAudit`, `ReleasedUnderPolicy`, `AnswersAreAudited`\*, `NeverTwoEvents`, `ReleasedWhole`, `ErrorsAreTruthful`, `UndisturbedReadsSucceed`, `ImplementsGate`\* |
| `LauncherProofs` | `SocketBroker` | `SessionsAreConnections`, `ClosedIsQuiet` |
| `LauncherProofs` | `Launcher` | those two again, `TrustRootCovers`, `WorkspaceApart`, `RelaysAreServed`, `DoneIsClean` |
| `ConformanceProofs` | `Conformance` | `VerdictIsExact`, `ReportMeansCleaned` |
| `AuditCheckProofs` | `AuditCheck` | `FindsExactlyThePairs`, `ClearIsTrustworthy` |

\* assuming `DirEntrySync`, \*\* assuming `NoFollowAny`. The type invariant of every module that
has one is proved with the rest; as an invariant of a run it is checked in `audit_faults`.

### What is assumed

- `DirEntrySync`: fsync of a file makes its directory entry durable. Without it
  `Durability` is false: TLC finds, with `DirEntrySync = FALSE`, an acknowledged record
  that is lost with the name of its newly created file. The code does not sync the
  directory. It is an assumption only of the theorems marked above; every run has it TRUE.
- `NoFollowAny`: open refuses a link anywhere in a path, as on darwin.
- The clock of the host is never set back: `broker.ts:170` stamps with `new Date()`, and
  `AuditCheck`'s `Tick` only goes forward. A clock that is set back can put an allow
  before the denial it followed, and nothing is said of such logs.
- In `AuditCheck` a broker has at most one event between its stamp and its line, although
  it serves requests concurrently. Lines out of the order of their stamps are then those
  of two brokers that share a file.
- The named assumptions of the modules say how constants relate to one another:
  placeholders are not values (`PolicyConstants`, `NoPolicyIsNoDocument`,
  `AuditConstants`, `OpenConstants`, `NoAnswerIsNone`); limits and window are positive,
  and a text's length is a number, with an empty text being UTF-8 (`BrokerConstants`,
  `CheckConstants`); scripts, paths and command lines are sequences
  (`SocketConstants`, `LauncherConstants`, `CommandLines`). `FixtureNames` fixes the
  suites' own subjects and resources. `ComponentConstants` passes them on to the
  components of the broker. TLC evaluates each of them in a run.

### The arguments

**Policy.** `evaluate` stops at the first rule for a subject and a resource. A document
that `parsePolicy` accepts has at most one rule for each pair (`OneRuleNames`), so the
first is the only one, under every permutation, and it allows exactly when the document
grants (`RuleAllowsGranted`). What has to be invariant is `Loaded`: a policy in force is
an accepted document, and its load left no diagnostic. The session theorems reuse the
same consequences of `Loaded` (`LoadedGrants`, `LoadedLists`, `LoadedIgnoresOrder`) and
prove again only that the adapter's starts and ends of servers keep it.

**Audit writer.** `AcknowledgedIsDurable` is not inductive: that the record is in the
file when `Sync` acknowledges it depends on what the call did before. Four layers:

1. `Typed`: the types, and what a call holds at each point: a file past its open,
   an event when it writes (`validateAuditDestination` stops at fstat).
2. `FilesSound`: a file that is open or has a durable name has been created, one that
   has not been created is empty, and no more is on the disk than was written. From
   these two, `NextDiskKeeps`: no step, not even power loss, removes or changes a
   fragment that is on the disk under a durable name (theorem `DiskIsKept`).
3. `Recorded`: a call about to sync has the end of its record in its file, and the
   acknowledged records are durable.
4. `Reported`: a call that has not come to its write, or was told that the destination
   is invalid, has no fragment in any file, and a result is there only once the call
   closes. `InvalidWroteNothing` follows.

`Refinement` takes the four together (`Strong`) and goes through the actions: `Begin`
is `Ask`, the step that ends a call is `Report`, `Kill` and `PowerLoss` are `Crash`, and
every other step is `Appear`, or stutters where it adds nothing to the disk.

The theorems about one kind of setting add a layer each: `OnlyLines` (without short
writes no call is ever inside its record), `Private` (fstat saw 0600 on the very file a
writing call holds, and only `OwnerChmod` takes it away), `MaskedIsAtChmod` (a file with
the umask's mode is open at a call about to chmod it) and `CalmSound` (who created the
destination, and what everybody else has of it). `QuietSound` and `Single` are stated
for the broker: no append over a usable destination fails when processes are only
killed, and no call leaves two copies of a piece of its record.

**Registry.** `CaptureSound` says what `create` has established about the resource it is
working on, await by await, and about those it has captured, as long as nobody
re-pointed their paths. `UnmovedServed` follows for readers that come later, and
`RefusalTrue` for the verdict of `create` itself.

**Subject broker.** `WriterInside` shows that a behaviour of the broker, seen through
the writer's variables, is one of `AuditWriter` with the requests as its calls: the
broker begins an append only for a call that is idle, with an event, and a restart is
the writer's kill or power loss. All theorems of `AuditWriterProofs` then hold in the
broker, where they are used through an instance of that module. On top stand six layers:
`Places` (an append begins when the request is parked at "audit", and the answer is what
that append came to), `PolicySound` and `Handles` (what is open was opened under the
policy in force, on the pinned file, and is closed before the event is written), the
types, `Contents` (what the buffer holds is of the text its file has, and what ends the
loop says what the bytes are), `AllTruthful` (`PinnedInPlace`: the path of an unmoved
resource leads to its pinned file, so an open of it cannot end as changed) and
`AllServed`. `Refinement` maps the ledger of `ReadGate` to the events on the disk: that
it only grows is `DiskIsKept`, that an answer's event is in it is
`AcknowledgedIsDurable`, and that it holds one event of each request is `Single`.

**Socket broker and launcher.** `Matched` adds to `SessionsAreConnections` that a
transport that has notified is gone; `Quiet` says what is left at each step of close.
The launcher has one step of its own on the broker's variables, `RemovesPath`, which
takes the socket's path away (`BrokerSteps`), so the broker's invariants hold inside it.
`Control` ties the launcher's control point to the broker's phase, the agent, the result
and the directory; it is what `DoneIsClean` needs when any step may have failed.
`Bounded` keeps the boundary after the check; `commonAncestor` is the longest of its
candidates, which exists because a bounded set of numbers has a greatest member, and
`OverlapsButDotted` says that `overlaps` misses nothing but paths with a name that
begins with two dots.

**Adapter and server.** `NamedIsServed` rests on what the two parsers do with a line of
any length: a line without an error gives no flag twice, and `ServerCommand` names all three
required values, each once, so that nothing is left to the variables. `Course` says where a session
is, that an agent has run only after a comparison that found no difference, and that the
result about to be reported is true already before the finally block.

**Conformance.** The fixture's policy grants four pairs; `DecidedByGrants` ties what
brokers promise to them, `BrokerBoundary` and `HostBoundary` show that the checks on
answers and on counts of events imply `BoundaryHeld`, and `BrokerKept` and `HostKept` that
an installation that keeps its promises passes them. That events are counted right needs
`Asking`: every call is made once, in the order of the script, so the number of events
is the number of reads. `HeldKnown` has which brokers run, what the finally clause holds
and what exists, at each step; what a start that failed leaves (`LeftRunning`) was there
before the first call, which is where `Asking` comes in, and `Judged` ties the report to the checks.

**Audit checker.** `Chronicle` says that the clock does not go back, that what is being
appended was stamped after what was on record then, and that a copy is the beginning of
its file. So whatever was on record when an event was stamped stands before it in the
order of the sort, but for a tie between two files (`RecordedIsSortedFirst`), however
stamping, writing and reading interleave.

The loop is a recursive function of the number of turns, on a sequence that the model
chooses among the sorted ones. There is one (`HasSorting`: in a finite set under a total
order, a line goes to the place that the number of lines before it gives), and it holds
every line (`SortingCovers`). `Turned` is the invariant of the loop: the candidates are
denials of earlier turns, one that is missing is too old for the event of any turn to
come, because times only grow, and the findings are the pairs of earlier turns.
`LoopRuns` and `LoopEnds` take the place of an induction by the first turn at which the
invariant would fail. `FindsExactlyThePairs` is `Turned` at the last turn; together with
`RecordedIsSortedFirst` it gives `ClearIsTrustworthy`.

### Only model-checked

- Liveness: `RequestsAreAnswered`, `CreateEnds`, `CloseEnds`, `WrittenIsAnswered`
  and `LaunchEnds`. They need fairness and ENABLED, which the prover does not reason about.

## Not modelled

The wording and layout of events, YAML and zod, the MCP protocol, timestamps
(no property of the broker depends on them), device numbers, hard links, and the
reuse of an inode number while the broker lives. Nobody comes to the other end of a FIFO
after an open has begun to wait for it; one that somebody reads already is a file of
another mode, which fstat refuses. The hook `beforeResourceOpen` is taken to return or
to throw. A read of a file that is being overwritten in place releases a mixture
of both texts: the model has it, and no property excludes it, because no document
promises a snapshot.

Of the socket broker: `UnixSocketClientTransport`, which only tests and the host
conformance use, and the relay's pipes, which copy bytes unread. A client that has ended
its half of the connection counts as gone, while Node keeps such a socket until the
answers written to it are flushed: `CloseEnds` and `LaunchEnds` are about late clients
that read what they are sent. Of the launcher: the
text of the sandbox profile (it denies the trust root), a launcher that is itself
killed, and, in its run,
connections that are cut (`Reset`), which `socket_broker` has. Of the audit checker:
its command line.

Of the adapter: the texts of the profile, and OpenCode itself, which is the set of
fields in which its configuration differs. Of the suites: the report's texts, the status
of each single check (a report passes when all do) and its enforcement levels, which are
constants. The capability report is a constant table, and the demo a script over sample
files.

## Plan

What would say most next:

1. The rest of the socket broker: `UnixSocketClientTransport` and the relay's two pipes.
2. Liveness of `SubjectBroker` reduced to the steps of one request, so that
   what is left to TLC is small.
