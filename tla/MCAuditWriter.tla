---------------------------- MODULE MCAuditWriter ---------------------------
(* Small instances of AuditWriter: two calls race for one path, and a second *)
(* inode gives rotation somewhere to go.                                     *)
EXTENDS AuditWriter, TLC

CONSTANTS c1, c2, e1, f1, f2

TwoCalls == {c1, c2}
OneEvent == {e1}
OneFile == {f1}
TwoFiles == {f1, f2}

Under(created, faults) == [created |-> created, faults |-> faults]

\* Every fault but short writes and power loss; these two with and without rotation;
\* a restrictive umask with nothing that cuts a call short; and nothing at all,
\* under either umask.
AllSettings ==
  {Under("masked", {"rotate", "chmod", "block", "io", "kill"}),
   Under("0600", {"rotate", "io", "short", "power"}),
   Under("masked", {"rotate", "block", "short"}),
   Under("0600", {}), Under("masked", {})}

\* A full disk: one write(2) is short, the next one fails.
DiskFull == {Under("0600", {"io", "short"})}

\* A restrictive umask, and the process may be killed.
KilledUnderUmask == {Under("masked", {"kill"})}

Symmetry == Permutations(Calls) \cup Permutations(Files)
=============================================================================
