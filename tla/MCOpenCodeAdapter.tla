-------------------------- MODULE MCOpenCodeAdapter -------------------------
(* Two subjects, two resources, two rules: room for a duplicate key with    *)
(* two decisions, an undeclared subject or resource, a repeated subject.    *)
(* The command lines hold every way a line can be wrong, and the defaults.  *)
EXTENDS OpenCodeAdapter, TLC

CONSTANTS alice, bob, notes, keys

MCSubjects == {alice, bob}
MCResources == {notes, keys}

Symmetry == Permutations(MCSubjects) \cup Permutations(MCResources)

Line(texts) == [i \in DOMAIN texts |-> W(texts[i])]

Absolute == <<W("--policy"), PolicyFile>>

MCUserCommands ==
  UNION {{Line(<<"--subject", s, "--policy", "policy", "--audit", "log",
                 "--workspace", "workspace">>),
          \* a name for the server, and words for OpenCode, among them a flag
          Absolute \o Line(<<"--workspace", "workspace", "--server-name", "name",
                 "--audit", "log", "--subject", s, "--", "--subject", "other">>),
          \* a flag twice, a flag for a value, no audit file
          Line(<<"--subject", s, "--policy", "policy", "--subject", s, "--audit", "log",
                 "--workspace", "workspace">>),
          Line(<<"--subject", s, "--policy", "--audit", "log", "--workspace",
                 "workspace">>),
          Line(<<"--subject", s, "--policy", "policy", "--workspace", "workspace">>)} :
           s \in Subjects}
    \cup {Line(<<"--subject", "twoWords", "--policy", "policy", "--audit", "log",
                 "--workspace", "workspace">>)}

MCHostCommands ==
  UNION {{Absolute \o Line(<<"--subject", s>>),
          Absolute \o Line(<<"--subject", s, "--audit", "log", "--max-bytes", "0">>),
          Absolute \o Line(<<"--audit", "log", "--audit", s>>)} : s \in Subjects}
    \cup {Line(<<"--policy", "policy", "--audit", "">>), Line(<<"--other">>), <<>>,
          Absolute \o Line(<<"--audit", "--subject">>)}

Variable(f, word) == [flag |-> f, word |-> word]
MCEnvironments ==
  {{}} \cup {{Variable("--policy", PolicyFile), Variable("--subject", W(s)),
              Variable("--audit", W("other log"))} : s \in Subjects}

MCSources == {{}, {"command"}, {"plugin"}, {"prompt"}}
=============================================================================
