---------------------------- MODULE MCAuditCheck ----------------------------
(* Two subjects' brokers, with one audit file or with one each.             *)
EXTENDS AuditCheck

CONSTANTS worker, lead, notes, keys

MCSubjects == {worker, lead}
MCResources == {notes, keys}

Shared == [s \in MCSubjects |-> 1]
WorkerFirst == [s \in MCSubjects |-> IF s = worker THEN 1 ELSE 2]
LeadFirst == [s \in MCSubjects |-> IF s = worker THEN 2 ELSE 1]

\* The lead may read the notes; the worker is denied everything.
MCDeployments ==
  [file  : {Shared, WorkerFirst, LeadFirst},
   grant : {{<<lead, notes>>}}]
=============================================================================
