--------------------------- MODULE OpenCodeAdapter ---------------------------
(***************************************************************************)
(* src/opencode-adapter.ts and src/server.ts: one OpenCode session at a    *)
(* time, from the command a user types to the server OpenCode starts for   *)
(* the agent, and the policy this server loads (PolicyLoading).  Another   *)
(* host may start the server, too, with a command line of its own.         *)
(*                                                                         *)
(* A word of a command line is its text and, once it is an absolute path,  *)
(* the directory it was resolved in: the user's "home" or the "workspace"  *)
(* OpenCode runs in.  What OpenCode resolves is the adapter's profile and  *)
(* the set of fields that other configuration sources have altered.        *)
(***************************************************************************)
EXTENDS PolicyLoading, SequencesExt

CONSTANTS UserCommands,  \* what users type after the adapter's name
          HostCommands,  \* what other configurations pass to the server
          Environments,  \* the SUBJECT_BROKER_* variables a server may meet:
                         \* sets of [flag, word], named by the flag they stand for
          Sources        \* the sets of fields other sources may alter

ASSUME CommandLines == \A words \in UserCommands \cup HostCommands :
                         words \in Seq(Range(words))

VARIABLES at,       \* where the adapter is parked, or "hosted"
          typed,    \* the words the user, or the other host, gave
          sources,  \* the fields other sources alter now
          edited,   \* history: they were changed after the preflight
          root,     \* whether the temporary profile directory exists
          broke,    \* history: a system call failed with an error the adapter
                    \* has no code for
          ran,      \* history: OpenCode was spawned with the profile
          outcome,  \* how runOpenCodeSubject settles, as runCli reports it
          bound     \* what the running server is bound to, by flag, or <<>>

session == <<at, typed, sources, edited, root, broke, ran, outcome>>
adapterVars == <<vars, session, bound>>

PolicyFile == [text |-> "policy", dir |-> "home"]
W(t) == [text |-> t, dir |-> "none"]
Resolve(dir, word) == IF word.dir = "none" THEN [word EXCEPT !.dir = dir] ELSE word

-----------------------------------------------------------------------------
(***************************************************************************)
(* Command lines: pairs of a flag and a value.  What may be missing is a   *)
(* set with at most one member.                                            *)
(***************************************************************************)
AdapterFlags == {"--subject", "--policy", "--audit", "--workspace", "--opencode",
                 "--server-name"}
ServerFlags == {"--policy", "--subject", "--audit", "--max-bytes", "--server-name"}

Dashed(word) == /\ word.dir = "none"
                /\ word.text \in AdapterFlags \cup ServerFlags \cup {"--", "--other"}
IsIdentifier(word) == word.text \notin {"", "twoWords"}
PositiveSafe(word) == word.text \in {"1048576", "4"}

Flags(words) == {i \in DOMAIN words : i % 2 = 1}
Given(words, flag) == {words[i + 1] : i \in {j \in Flags(words) : words[j].text = flag}}
Or(values, others) == IF values # {} THEN values ELSE others

Repeated(words, i) == \E j \in Flags(words) : j < i /\ words[j].text = words[i].text
NoValue(words, i) == i + 1 \notin DOMAIN words \/ Dashed(words[i + 1])

\* What is before "--" is the adapter's, the rest is passed on to OpenCode.
AdapterPart(words) ==
  LET separator == SelectInSeq(words, LAMBDA word : word = W("--"))
  IN IF separator = 0 THEN words ELSE SubSeq(words, 1, separator - 1)

WellFormed(words) == \A i \in Flags(words) : /\ words[i].text \in AdapterFlags
                                             /\ ~Repeated(words, i) /\ ~NoValue(words, i)

\* parseOpenCodeAdapterArguments: paths are resolved where the user is.
Arguments(words) ==
  {[subject |-> s, policy |-> Resolve("home", p), audit |-> Resolve("home", a), name |-> n] :
     s \in Given(words, "--subject"), p \in Given(words, "--policy"),
     a \in Given(words, "--audit"), n \in Or(Given(words, "--server-name"), {W("sb")})}

ParseAdapter(words) ==
  LET part == AdapterPart(words)
  IN IF WellFormed(part) /\ Given(part, "--workspace") # {}
     THEN {a \in Arguments(part) : IsIdentifier(a.subject) /\ IsIdentifier(a.name)}
     ELSE {}

\* The command of the profile's only server: nothing is left to its defaults.
ServerCommand(a) ==
  <<W("--policy"), a.policy, W("--subject"), a.subject, W("--audit"), a.audit,
    W("--server-name"), a.name, W("--max-bytes"), W("1048576")>>

\* parseServerArguments: a flag before its variable; an empty word is missing.
Setting_EnvironmentFirst(words, env, flag) ==  \* mutant: the variable wins
  Or({v.word : v \in {e \in env : e.flag = flag}}, Given(words, flag))
Setting(words, env, flag) ==
  Or(Given(words, flag), {v.word : v \in {e \in env : e.flag = flag}})

PairError(words, i) ==
  CASE words[i].text \notin ServerFlags -> "UNKNOWN_ARGUMENT"
    [] Repeated(words, i) -> "DUPLICATE_ARGUMENT"
    [] NoValue(words, i) -> "MISSING_ARGUMENT_VALUE"
    [] OTHER -> "none"
FirstPairError(words) ==
  LET bad == {i \in Flags(words) : PairError(words, i) # "none"}
  IN IF bad = {} THEN "none" ELSE PairError(words, CHOOSE i \in bad : \A j \in bad : i <= j)

Required == {"--policy", "--subject", "--audit"}
ArgumentError(words, env) ==
  LET missing == {f \in Required : Setting(words, env, f) \subseteq {W("")}}
  IN CASE FirstPairError(words) # "none" -> FirstPairError(words)
       [] missing # {} -> "MISSING_REQUIRED_ARGUMENT"
       [] \E w \in Setting(words, env, "--max-bytes") : ~PositiveSafe(w) ->
            "INVALID_MAX_RESOURCE_BYTES"
       [] OTHER -> "none"

-----------------------------------------------------------------------------
(***************************************************************************)
(* The server's start: the arguments, the policy, the audit destination,   *)
(* any of which ends the process (failOnStartupError).                     *)
(***************************************************************************)
StartFails(code) == LoadFails(code) /\ UNCHANGED <<text, bound>>

TheSetting(words, env, flag) == CHOOSE w \in Setting(words, env, flag) : TRUE

StartServer(words, env) ==
  \/ /\ ArgumentError(words, env) # "none"
     /\ StartFails(ArgumentError(words, env))
  \/ /\ ArgumentError(words, env) = "none"
     /\ LET binding == [f \in Required |-> TheSetting(words, env, f)]
        IN \/ /\ Resolve("workspace", binding["--policy"]) = PolicyFile
              /\ Load
              /\ bound' = IF startup' = "none" THEN binding ELSE <<>>
           \/ /\ Resolve("workspace", binding["--policy"]) # PolicyFile
              /\ StartFails("POLICY_FILE_UNAVAILABLE")
           \/ StartFails("AUDIT_DESTINATION_INVALID")
           \/ StartFails("INVALID_STARTUP_CONFIGURATION")  \* the close is not caught

ServerIsUp == bound # <<>>

\* The server ends with its standard input, when its host does.
ServerEnds == policy' = NoPolicy /\ startup' = "none" /\ bound' = <<>> /\ UNCHANGED text

-----------------------------------------------------------------------------
(***************************************************************************)
(* runCli and runOpenCodeSubject.                                          *)
(***************************************************************************)
NotIsolated == "OPENCODE_PROFILE_NOT_ISOLATED"
Compared == {"share", "default_agent", "permission", "agentPermission", "plugin",
             "servers", "type", "enabled", "command"}

SessionInit ==
  /\ Init
  /\ at = "idle" /\ typed = <<>> /\ sources = {} /\ edited = FALSE
  /\ root = FALSE /\ broke = FALSE /\ ran = FALSE /\ outcome = "none"
  /\ bound = <<>>

Go(point) == at' = point /\ UNCHANGED <<typed, sources, edited, ran, outcome>>
Throw(code) == outcome' = code /\ UNCHANGED <<typed, sources, edited, ran>>

\* The user types a command; the parse is synchronous.
Type ==
  /\ at = "idle"
  /\ \E words \in UserCommands, s \in Sources :
       /\ typed' = words /\ sources' = s
       /\ IF ParseAdapter(words) = {}
          THEN at' = "done" /\ outcome' = "INVALID_ARGUMENTS"
          ELSE at' = "workspace" /\ UNCHANGED outcome
  /\ UNCHANGED <<vars, bound, edited, root, broke, ran>>

\* assertWorkspace
AssertWorkspace ==
  /\ at = "workspace"
  /\ \/ Go("mkdtemp")
     \/ Throw("WORKSPACE_UNAVAILABLE") /\ at' = "done"
  /\ UNCHANGED <<vars, bound, root, broke>>

\* A raw error of the system is none of the adapter's: runCli calls it arguments.
MakeRoot ==
  /\ at = "mkdtemp"
  /\ \/ Go("mkdir") /\ root' = TRUE /\ UNCHANGED broke
     \/ Throw("INVALID_ARGUMENTS") /\ at' = "done" /\ broke' = TRUE /\ UNCHANGED root
  /\ UNCHANGED <<vars, bound>>

MakeConfigHome ==
  /\ at = "mkdir"
  /\ \/ Go("preflight") /\ UNCHANGED broke
     \/ Throw("INVALID_ARGUMENTS") /\ at' = "rm" /\ broke' = TRUE
  /\ UNCHANGED <<vars, bound, root>>

\* resolvedProfileIsIsolated: every field compared is as the adapter wrote it.
Isolated == sources \cap Compared = {}

\* preflightOpenCodeSubject: the executable is missing, or fails, or prints
\* something that is not JSON, or prints what it resolved.
Preflight ==
  /\ at = "preflight"
  /\ \/ Throw("OPENCODE_EXECUTABLE_UNAVAILABLE") /\ at' = "rm"
     \/ Throw(NotIsolated) /\ at' = "rm"
     \/ Isolated /\ Go("spawn")
  /\ UNCHANGED <<vars, bound, root, broke>>

\* Nothing holds the other sources still between the two runs of OpenCode.
EditSources == /\ at = "spawn" /\ ~edited
               /\ \E s \in Sources \ {sources} : sources' = s
               /\ edited' = TRUE
               /\ UNCHANGED <<vars, bound, at, typed, root, broke, ran, outcome>>

\* runChild: spawn reports that the executable is missing, not allowed or that
\* the system is short of processes or files in an event; it throws any other
\* error (a command line too long, no memory, the executable being written).
Spawn ==
  /\ at = "spawn"
  /\ \/ Throw("OPENCODE_EXECUTABLE_UNAVAILABLE") /\ at' = "rm" /\ UNCHANGED broke
     \/ Throw("INVALID_ARGUMENTS") /\ at' = "rm" /\ broke' = TRUE
     \/ /\ at' = "running" /\ ran' = TRUE
        /\ UNCHANGED <<typed, sources, edited, outcome, broke>>
  /\ UNCHANGED <<vars, bound, root>>

\* The agent's only server is started, once.
AgentStartsServer ==
  /\ at \in {"running", "orphan"} /\ ~ServerIsUp /\ startup = "none"
  /\ \E env \in Environments, a \in ParseAdapter(typed) :
       \E words \in IF "command" \in sources THEN HostCommands ELSE {ServerCommand(a)} :
          StartServer(words, env)
  /\ UNCHANGED session

\* The agent exits: with code 0, or with another or by a signal.
AgentExits ==
  /\ at = "running"
  /\ \/ Throw("ok") \/ Throw("OPENCODE_EXIT_FAILED")
  /\ at' = "rm" /\ ServerEnds
  /\ UNCHANGED <<root, broke>>

\* finally: an rm that fails displaces what was thrown or returned.
RmFails_Swallowed == UNCHANGED outcome          \* mutant: its failure not reported
RmFails == outcome' = "INVALID_ARGUMENTS"

RemoveRoot ==
  /\ at = "rm"
  /\ at' = "done"
  /\ \/ root' = FALSE /\ UNCHANGED <<broke, outcome>>
     \/ broke' = TRUE /\ RmFails /\ UNCHANGED root
  /\ UNCHANGED <<vars, bound, typed, sources, edited, ran>>

\* The adapter is killed; an agent that runs goes on until it ends by itself.
Kill == /\ at \in {"workspace", "mkdtemp", "mkdir", "preflight", "spawn", "running", "rm"}
        /\ at' = IF at = "running" THEN "orphan" ELSE "killed"
        /\ UNCHANGED <<vars, bound, typed, sources, edited, root, broke, ran, outcome>>

\* Another host starts the server in the workspace.
HostStartsServer ==
  /\ at = "idle"
  /\ \E env \in Environments, words \in HostCommands :
       typed' = words /\ StartServer(words, env)
  /\ at' = "hosted"
  /\ UNCHANGED <<sources, edited, root, broke, ran, outcome>>

\* The session, the orphan or the other host is over; the next may begin.
Again == /\ at \in {"done", "killed", "orphan", "hosted"}
         /\ at' = "idle" /\ typed' = <<>> /\ sources' = {} /\ edited' = FALSE
         /\ root' = FALSE /\ broke' = FALSE /\ ran' = FALSE /\ outcome' = "none"
         /\ ServerEnds

\* Bound: the owner edits the policy between sessions, and while a server runs.
EditPolicy == /\ at = "idle" \/ ServerIsUp
              /\ \/ \E s \in Subjects : AddSubject(s)
                 \/ \E r \in Resources : DeclareResource(r)
                 \/ \E rule \in Rule : AddRule(rule)
                 \/ Spoil
              /\ UNCHANGED <<session, bound>>

SessionNext ==
  \/ Type \/ AssertWorkspace \/ MakeRoot \/ MakeConfigHome \/ Preflight \/ Spawn
  \/ AgentStartsServer \/ AgentExits \/ RemoveRoot \/ Again
  \/ EditSources \/ Kill \/ HostStartsServer \/ EditPolicy

SessionSpec == SessionInit /\ [][SessionNext]_adapterVars

-----------------------------------------------------------------------------
\* A server serves the subject, policy file and audit file that were named for
\* it: by the user, wherever OpenCode runs and whatever variables it passes on,
\* unless somebody alters the configuration after the preflight; or by the other
\* host's flags, whatever the variables say.
ServedAsNamed ==
  ServerIsUp =>
    /\ at = "hosted" =>
         \A f \in Required : \A w \in Given(typed, f) : bound[f] = w
    /\ at \in {"running", "orphan"} /\ ~edited =>
         \A f \in Required : \A w \in Given(AdapterPart(typed), f) :
            bound[f] = IF f = "--subject" THEN w ELSE Resolve("home", w)

\* What runCli reports is true of the session: which codes exclude that an agent
\* ran, that success means it ran isolated, that arguments are blamed only where
\* they were at fault or the system failed in a way the adapter has no code for
\* (in the file system, or in starting the agent), and that a directory that is
\* left behind is never passed over in silence.
OutcomeIsTruthful ==
  at = "done" =>
    /\ outcome \in {"WORKSPACE_UNAVAILABLE", NotIsolated,
                    "OPENCODE_EXECUTABLE_UNAVAILABLE"} => ~ran
    /\ outcome \in {"ok", "OPENCODE_EXIT_FAILED"} => ran
    /\ ran /\ ~edited => sources \cap Compared = {}
    /\ outcome = "INVALID_ARGUMENTS" => ParseAdapter(typed) = {} \/ broke
    /\ ParseAdapter(typed) = {} => ~ran
    /\ root => outcome = "INVALID_ARGUMENTS"
=============================================================================
