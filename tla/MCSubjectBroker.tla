-------------------------- MODULE MCSubjectBroker ---------------------------
(* Small instances of SubjectBroker.  The limit is two bytes and a chunk two *)
(* bytes, so a file may end before, at, or after the limit and the byte that *)
(* proves it too large is asked for alone, as with 1 MiB and 64 KiB chunks.  *)
EXTENDS SubjectBroker, TLC

CONSTANTS alice, bob, notes, keys, q1, q2, i1, i2, pipe, f1

MCSubjects == {alice, bob}
OneResource == {notes}
TwoResources == {notes, keys}
OneRequest == {q1}
TwoRequests == {q1, q2}
OneInode == {i1}
TwoInodes == {i1, i2}
FileAndPipe == {i1, pipe}
Pipes == {pipe}
OneFile == {f1}

Text(id, len, utf8) == [id |-> id, len |-> len, utf8 |-> utf8]
AtLimit == Text("at limit", 2, TRUE)
OneText == {AtLimit}
\* Texts at the limit, more than a chunk beyond it, and not UTF-8.
SomeTexts == {AtLimit, Text("far over", 5, TRUE), Text("latin1", 1, FALSE)}

\* Alice may read the notes, or her grant was revoked.
Solo(decision) ==
  [subjects |-> <<alice, bob>>, resources |-> {notes},
   rules |-> <<[subject |-> alice, resource |-> notes, decision |-> decision]>>]
SoloPolicies == {Solo("allow"), Solo("deny")}

\* The notes are alice's and the keys are bob's.
Allow(s, r) == [subject |-> s, resource |-> r, decision |-> "allow"]
DuoPolicies ==
  {[subjects |-> <<alice, bob>>, resources |-> TwoResources,
    rules |-> <<Allow(alice, notes), Allow(bob, keys)>>]}

Under(created, faults) == [created |-> created, faults |-> faults]

\* The audit file may be rotated, also to a FIFO, while its I/O fails and the host
\* loses power; the I/O of both files may fail; or nobody touches the audit file,
\* a FIFO or not, while the resource is re-pointed, also to a FIFO.
Stormy == Under("0600", {"rotate", "io", "power"})
Failing == Under("0600", {"io"})
Quiet == Under("0600", {})
AuditSettings == {Stormy, Failing, Quiet}
AuditMishaps == {{}, {"io"}, {"repoint"}}
AuditEnvironments == {<<Stormy, {}>>, <<Failing, {"io"}>>, <<Quiet, {"repoint"}>>}

\* The process may be killed while the storage's owner re-points paths, or
\* overwrites files whose I/O fails.
Killed == Under("0600", {"kill"})
ReadSettings == {Killed}
ReadMishaps == {{"repoint"}, {"overwrite", "io"}}
ReadEnvironments == ReadSettings \X ReadMishaps

Symmetry == Permutations(Requests) \cup Permutations(Inodes) \cup Permutations(Files)
=============================================================================
