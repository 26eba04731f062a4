----------------------------- MODULE MCLauncher -----------------------------
(* One relay, and workspaces above, beside and below the directories that   *)
(* hold the policy, the audit file and the storage.                         *)
EXTENDS Launcher

CONSTANTS relay, home, safe, logs, dots

MCClients == {relay}
MCScript == [c \in MCClients |-> <<"request">>]

MCDotted == {dots}
MCNames == {home, safe, logs, dots}
PathsBelow(dir) == {dir} \cup {dir \o <<n>> : n \in MCNames \ {logs}}
Trust == <<home, safe>>
Workspaces == PathsBelow(<<>>) \cup PathsBelow(<<home>>) \cup PathsBelow(Trust)

MCSites == [workspace : Workspaces,
            policyDir : {Trust},
            auditDir  : {Trust, <<home, safe, logs>>, <<home, logs>>, <<logs>>}]
MCStorages == {<<home, safe, dots>>, <<home, safe, logs>>, <<home>>}
=============================================================================
