----------------------------- MODULE AuditCheck -----------------------------
(***************************************************************************)
(* The offline audit checker, src/audit-check.ts, over the files that      *)
(* several subjects' brokers write while agents use them.                  *)
(*                                                                         *)
(* An event is stamped with the clock when appendAudit builds it, and its  *)
(* line reaches the file later, so the lines of a file shared by two       *)
(* brokers need not be in the order of their time stamps.  Files are       *)
(* numbered in the order localeCompare gives their names.  The checker     *)
(* reads one file after the other while the brokers go on writing.         *)
(*                                                                         *)
(* Assumed: the clock of the host is never set back.  Bounds: a broker     *)
(* has one event between its stamp and its line, though its requests run   *)
(* concurrently, and at most one line is damaged.                          *)
(***************************************************************************)
EXTENDS Naturals, FiniteSets, Sequences

CONSTANTS Subjects,      \* one broker each
          Resources,
          NFiles,        \* the audit files, 1 .. NFiles
          Deployments,   \* which file each broker writes, and what its policy grants
          Window,        \* windowMilliseconds
          MaxTime,       \* bound: the clock
          MaxEvents,     \* bound: events stamped
          None           \* no event, or a file not read yet

Files == 1 .. NFiles
Decisions == {"allow", "deny", "error"}

ASSUME CheckConstants == /\ NFiles \in Nat \ {0}
                         /\ Deployments \subseteq [file  : [Subjects -> Files],
                                                  grant : SUBSET (Subjects \X Resources)]
                         /\ Window \in Nat \ {0}

VARIABLES deployed, \* the deployment at hand
          now,      \* the clock of the host, in milliseconds
          log,      \* each file's lines; one that was torn, or glued to one, is not
                    \* whole and does not parse (AuditWriter says how)
          stamped,  \* each broker: the event being appended, or None
          copy,     \* what readFile returned of each file, or None
          earlier   \* history: <<e, f>> if the line e was written before f was stamped

vars == <<deployed, now, log, stamped, copy, earlier>>

\* A line is known by its place: its file, and its number in it.
Written == UNION {{f} \X DOMAIN log[f] : f \in Files}

Init == /\ deployed \in Deployments
        /\ now = 0
        /\ log = [f \in Files |-> <<>>]
        /\ stamped = [s \in Subjects |-> None]
        /\ copy = [f \in Files |-> None]
        /\ earlier = {}

AllRead == \A f \in Files : copy[f] # None

-----------------------------------------------------------------------------
\* The brokers.  The model ends when the checker has read everything.
InFlight == {s \in Subjects : stamped[s] # None}

Tick == /\ ~AllRead
        /\ now < MaxTime
        /\ now' = now + 1
        /\ UNCHANGED <<deployed, log, stamped, copy, earlier>>

\* appendAudit builds the event; what is in a file by now has happened before.
\* A granted read ends in an allow or an error.
Outcomes(s, r) == IF <<s, r>> \in deployed.grant THEN {"allow", "error"} ELSE {"deny"}

Stamp(s, r, d) ==
  /\ d \in Outcomes(s, r)
  /\ ~AllRead /\ stamped[s] = None
  /\ Cardinality(Written) + Cardinality(InFlight) < MaxEvents
  /\ stamped' = [stamped EXCEPT ![s] =
       [event |-> [subject |-> s, resource |-> r, decision |-> d, time |-> now],
        before |-> Written]]
  /\ UNCHANGED <<deployed, now, log, copy, earlier>>

\* The line is written, whole or not.
AllWhole == \A p \in Written : log[p[1]][p[2]].whole

AppendLine(s, whole) ==
  LET file == deployed.file[s]
      line == [subject |-> s, resource |-> stamped[s].event.resource,
               decision |-> stamped[s].event.decision,
               time |-> stamped[s].event.time, whole |-> whole]
  IN /\ ~AllRead /\ stamped[s] # None
     /\ whole \/ AllWhole
     /\ log' = [log EXCEPT ![file] = Append(@, line)]
     /\ earlier' = earlier \cup (stamped[s].before \X {<<file, Len(log[file]) + 1>>})
     /\ stamped' = [stamped EXCEPT ![s] = None]
     /\ UNCHANGED <<deployed, now, copy>>

\* append throws before it writes, or the broker dies.
AppendFails(s) ==
  /\ ~AllRead /\ stamped[s] # None
  /\ stamped' = [stamped EXCEPT ![s] = None]
  /\ UNCHANGED <<deployed, now, log, copy, earlier>>

-----------------------------------------------------------------------------
(***************************************************************************)
(* The checker: run reads every file, parses every line, and correlates.   *)
(***************************************************************************)
ReadFile(f) ==
  /\ copy[f] = None
  /\ copy' = [copy EXCEPT ![f] = log[f]]
  /\ UNCHANGED <<deployed, now, log, stamped, earlier>>

\* What has been read.
Read == UNION {{f} \X DOMAIN copy[f] : f \in Files}
At(p) == copy[p[1]][p[2]]

\* parseAuditJsonl: the events with their places; it throws at the first line that
\* is not an event.
Parses_SkipsDamage == TRUE            \* mutant: a damaged line is skipped
Parses == \A f \in Files : \A i \in DOMAIN copy[f] : copy[f][i].whole
Located == {p \in Read : At(p).whole}

\* The order of the sort: time, then file, then line.
SortsBefore(p, q) ==
  \/ At(p).time < At(q).time
  \/ /\ At(p).time = At(q).time
     /\ \/ p[1] < q[1]
        \/ p[1] = q[1] /\ p[2] < q[2]

Sorted == CHOOSE events \in [1 .. Cardinality(Located) -> Located] :
            \A i, j \in DOMAIN events : i < j => SortsBefore(events[i], events[j])

\* A denial stays a candidate while it is within the window.
Recent_Strictly(denial, p) == At(p).time < At(denial).time + Window  \* mutant
Recent(denial, p) == At(p).time <= At(denial).time + Window

\* One turn of the loop: the candidates of the event's resource are pruned, a
\* denial joins them, an allow is matched with those of other subjects.
Correlate(acc, p) ==
  LET r == At(p).resource
      candidates == {d \in acc.recent[r] : Recent(d, p)}
      kept == IF At(p).decision = "deny" THEN candidates \cup {p} ELSE candidates
      found == IF At(p).decision = "allow"
               THEN {d \in candidates : At(d).subject # At(p).subject} ELSE {}
  IN [recent   |-> [acc.recent EXCEPT ![r] = kept],
      findings |-> acc.findings \cup found \X {p},
      count    |-> acc.count + Cardinality(found)]

\* The loop of findCrossSubjectFindings, over all events in their order.
Fresh == [recent |-> [r \in Resources |-> {}], findings |-> {}, count |-> 0]
Correlated(events) ==
  LET after[k \in 0 .. Len(events)] ==
        IF k = 0 THEN Fresh ELSE Correlate(after[k - 1], events[k])
  IN after[Len(events)]

Findings == Correlated(Sorted).findings
FindingCount == Correlated(Sorted).count

\* The status printed, and with it the exit code.
Verdict == IF ~Parses THEN "invalid"
           ELSE IF FindingCount = 0 THEN "clear"
           ELSE "suspicious"

Next == \/ Tick
        \/ \E s \in Subjects :
             \/ \E r \in Resources, d \in Decisions : Stamp(s, r, d)
             \/ \E whole \in BOOLEAN : AppendLine(s, whole)
             \/ AppendFails(s)
        \/ \E f \in Files : ReadFile(f)

Spec == Init /\ [][Next]_vars

-----------------------------------------------------------------------------
\* What ADR-019 describes: two subjects, one denied and one allowed the same
\* resource, no more than the window apart.
Suspicious(d, a) ==
  /\ At(d).decision = "deny" /\ At(a).decision = "allow"
  /\ At(d).subject # At(a).subject
  /\ At(d).resource = At(a).resource
  /\ At(a).time <= At(d).time + Window

\* Two events of one millisecond in two files: their order is lost.
Tied(p, q) == At(p).time = At(q).time /\ p[1] # q[1]

\* p stands before q, by time and then by place.
StandsBefore(p, q) ==
  \/ At(p).time < At(q).time
  \/ /\ At(p).time = At(q).time
     /\ p[1] < q[1] \/ (p[1] = q[1] /\ p[2] < q[2])

\* The loop with its pruned candidates finds exactly the pairs of a denial and a later
\* allow within the window, by time and then by place, and counts each pair once.
FindsExactlyThePairs ==
  AllRead /\ Parses =>
    /\ Findings = {pair \in Read \X Read : /\ Suspicious(pair[1], pair[2])
                                           /\ StandsBefore(pair[1], pair[2])}
    /\ FindingCount = Cardinality(Findings)

\* A log that is called clear holds no allow that was decided after a denial was
\* on record, although brokers interleave their lines, the files are read at
\* different moments, and lines may be damaged.  A tie between two files,
\* which the sort by names cannot put in order, is the exception.
ClearIsTrustworthy ==
  AllRead /\ Verdict = "clear" =>
    \A d, a \in Read :
      Suspicious(d, a) /\ ~Tied(d, a) => <<d, a>> \notin earlier
=============================================================================
