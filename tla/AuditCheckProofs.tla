-------------------------- MODULE AuditCheckProofs --------------------------
(***************************************************************************)
(* Proofs about the audit checker, for any subjects, brokers, files,       *)
(* events, times and window.                                               *)
(*                                                                         *)
(* Chronicle is the invariant: the clock does not go back, an event is     *)
(* stamped after what was on record then, a copy is the beginning of its   *)
(* file.  So whatever was on record when an event was stamped precedes it  *)
(* in the order of the sort, unless their times tie between two files      *)
(* (RecordedSortsFirst).                                                   *)
(*                                                                         *)
(* The lines that were read have a sorted sequence, and the loop over it   *)
(* is judged turn by turn (Turned): what is recent are the denials before  *)
(* this turn but for some that no later event can match, as times only     *)
(* grow, and what is found are the pairs before this turn.  At the end the *)
(* findings are the pairs of the definition (FindsExactlyThePairs), and    *)
(* with both results a clear verdict can be trusted (ClearIsTrustworthy).  *)
(***************************************************************************)
EXTENDS AuditCheck, FiniteSetTheorems, TLAPS

\* A line in the log, and the time it bears.
OnRecord(p) == p[1] \in Files /\ p[2] \in DOMAIN log[p[1]]
Time(p) == log[p[1]][p[2]].time

\* p comes before q in time, and in one file.
Precedes(p, q) == /\ OnRecord(p) /\ OnRecord(q) /\ Time(p) <= Time(q)
                  /\ p[1] = q[1] => p[2] < q[2]

Line == [subject : Subjects, resource : Resources, decision : Decisions, time : Nat,
         whole : {TRUE, FALSE}]

\* The clock never goes back, so that nothing bears a time to come.
Clocked ==
  /\ deployed.file \in [Subjects -> Files] /\ now \in Nat
  /\ log \in [Files -> Seq(Line)]
  /\ \A f \in Files : \A i \in DOMAIN log[f] : log[f][i].time <= now

\* What is being appended has been stamped after what was on record then.
StampedAfter ==
  \A s \in Subjects : stamped[s] # None =>
    /\ stamped[s].event.resource \in Resources /\ stamped[s].event.decision \in Decisions
    /\ stamped[s].event.time \in Nat /\ stamped[s].event.time <= now
    /\ \A p \in stamped[s].before : OnRecord(p) /\ Time(p) <= stamped[s].event.time

EarlierPrecedes == \A e \in earlier : e = <<e[1], e[2]>> /\ Precedes(e[1], e[2])

\* A file only grows, so that a copy of it is its beginning.
CopiedIsRecorded ==
  \A f \in Files : copy[f] # None =>
    \A i \in DOMAIN copy[f] : i \in DOMAIN log[f] /\ copy[f][i] = log[f][i]

Chronicle == /\ DOMAIN stamped = Subjects /\ DOMAIN copy = Files
             /\ Clocked /\ StampedAfter /\ EarlierPrecedes /\ CopiedIsRecorded

-----------------------------------------------------------------------------
LEMMA ChronicleInit == Init => Chronicle
<1> SUFFICES ASSUME Init PROVE Chronicle
  OBVIOUS
<1>1. <<>> \in Seq(Line) /\ DOMAIN <<>> = {}
  OBVIOUS
<1>2. deployed.file \in [Subjects -> Files]
  BY CheckConstants DEF Init
<1>3. Clocked
  BY <1>1, <1>2 DEF Init, Clocked
<1>4. StampedAfter /\ EarlierPrecedes /\ CopiedIsRecorded
  BY DEF Init, StampedAfter, EarlierPrecedes, CopiedIsRecorded
<1> QED
  BY <1>3, <1>4 DEF Init, Chronicle

\* The steps that leave the files as they are.
LEMMA ChronicleQuiet ==
  ASSUME Chronicle, UNCHANGED <<deployed, log, earlier>>,
         now' \in Nat, now <= now', StampedAfter', CopiedIsRecorded',
         DOMAIN stamped' = Subjects, DOMAIN copy' = Files
  PROVE  Chronicle'
<1>1. Clocked'
  <2>1. ASSUME NEW f \in Files, NEW i \in DOMAIN log[f] PROVE log[f][i].time <= now'
    <3>1. log[f] \in Seq(Line)
      BY DEF Chronicle, Clocked
    <3>2. log[f][i] \in Line
      BY <3>1
    <3>3. log[f][i].time \in Nat
      BY <3>2 DEF Line
    <3> QED
      BY <3>3 DEF Chronicle, Clocked
  <2> QED
    BY <2>1 DEF Chronicle, Clocked
<1>2. EarlierPrecedes'
  BY DEF Chronicle, EarlierPrecedes, Precedes, OnRecord, Time
<1> QED
  BY <1>1, <1>2 DEF Chronicle

\* A line goes to the end of its file, and was stamped after what precedes it.
LEMMA ChronicleAppend ==
  ASSUME Chronicle, NEW s \in Subjects, NEW whole \in BOOLEAN, AppendLine(s, whole)
  PROVE  Chronicle'
<1>1. PICK file, line, q :
        /\ file = deployed.file[s] /\ q = <<file, Len(log[file]) + 1>>
        /\ line = [subject |-> s, resource |-> stamped[s].event.resource,
                   decision |-> stamped[s].event.decision,
                   time |-> stamped[s].event.time, whole |-> whole]
        /\ stamped[s] # None /\ UNCHANGED <<deployed, now, copy>>
        /\ log' = [log EXCEPT ![file] = Append(@, line)]
        /\ earlier' = earlier \cup (stamped[s].before \X {q})
        /\ stamped' = [stamped EXCEPT ![s] = None]
  BY DEF AppendLine
<1>2. file \in Files /\ log[file] \in Seq(Line) /\ Len(log[file]) \in Nat
  BY <1>1 DEF Chronicle, Clocked
<1>3. line \in Line /\ line.time <= now /\ line.time = stamped[s].event.time
  <2>1. whole \in {TRUE, FALSE}
    OBVIOUS
  <2> QED
    BY <1>1, <2>1 DEF Chronicle, StampedAfter, Line
<1>4. /\ Append(log[file], line) \in Seq(Line)
      /\ DOMAIN Append(log[file], line) = 1 .. (Len(log[file]) + 1)
      /\ DOMAIN log[file] = 1 .. Len(log[file])
      /\ \A i \in DOMAIN log[file] : Append(log[file], line)[i] = log[file][i]
      /\ Append(log[file], line)[Len(log[file]) + 1] = line
  BY <1>2, <1>3
<1>5. /\ log' \in [Files -> Seq(Line)]
      /\ log'[file] = Append(log[file], line)
      /\ \A f \in Files : f # file => log'[f] = log[f]
  BY <1>1, <1>2, <1>4 DEF Chronicle, Clocked
<1>6. Clocked'
  <2>1. ASSUME NEW f \in Files, NEW i \in DOMAIN log'[f] PROVE log'[f][i].time <= now
    <3>1. CASE f # file
      BY <1>5, <3>1 DEF Chronicle, Clocked
    <3>2. CASE f = file /\ i = Len(log[file]) + 1
      BY <1>3, <1>4, <1>5, <3>2
    <3>3. CASE f = file /\ i # Len(log[file]) + 1
      <4>1. i \in DOMAIN log[file]
        BY <1>2, <1>4, <1>5, <3>3
      <4> QED
        BY <1>4, <1>5, <3>3, <4>1 DEF Chronicle, Clocked
    <3> QED
      BY <3>1, <3>2, <3>3
  <2> QED
    BY <1>1, <1>5, <2>1 DEF Chronicle, Clocked
\* What was on record still is, with its time.
<1>7. ASSUME NEW p, OnRecord(p) PROVE OnRecord(p)' /\ Time(p)' = Time(p)
  <2>1. CASE p[1] = file
    <3>1. p[2] \in DOMAIN log[file] /\ p[2] \in 1 .. (Len(log[file]) + 1)
      BY <1>2, <1>4, <1>7, <2>1 DEF OnRecord
    <3> QED
      BY <1>4, <1>5, <1>7, <2>1, <3>1 DEF OnRecord, Time
  <2>2. CASE p[1] # file
    BY <1>5, <1>7, <2>2 DEF OnRecord, Time
  <2> QED
    BY <2>1, <2>2
<1>8. OnRecord(q)' /\ Time(q)' = stamped[s].event.time
  BY <1>1, <1>2, <1>3, <1>4, <1>5 DEF OnRecord, Time
<1>9. ASSUME NEW p \in stamped[s].before PROVE Precedes(p, q)'
  <2>1. OnRecord(p) /\ Time(p) <= stamped[s].event.time
    BY <1>1 DEF Chronicle, StampedAfter
  <2>2. OnRecord(p)' /\ Time(p)' <= Time(q)'
    BY <1>7, <1>8, <2>1
  <2>3. p[1] = q[1] => p[2] < q[2]
    BY <1>1, <1>2, <1>4, <2>1 DEF OnRecord
  <2> QED
    BY <1>8, <2>2, <2>3 DEF Precedes
<1>10. EarlierPrecedes'
  <2>1. ASSUME NEW e \in earlier PROVE e = <<e[1], e[2]>> /\ Precedes(e[1], e[2])'
    BY <1>7 DEF Chronicle, EarlierPrecedes, Precedes
  <2>2. ASSUME NEW e \in stamped[s].before \X {q}
        PROVE  e = <<e[1], e[2]>> /\ e[1] \in stamped[s].before /\ e[2] = q
    OBVIOUS
  <2>3. ASSUME NEW e \in stamped[s].before \X {q} PROVE Precedes(e[1], e[2])'
    BY <1>9, <2>2
  <2> QED
    BY <1>1, <2>1, <2>2, <2>3 DEF EarlierPrecedes
<1>11. StampedAfter'
  BY <1>1, <1>7 DEF Chronicle, StampedAfter
<1>12. CopiedIsRecorded'
  <2>1. ASSUME NEW f \in Files, copy[f] # None, NEW i \in DOMAIN copy[f]
        PROVE  i \in DOMAIN log'[f] /\ copy[f][i] = log'[f][i]
    <3>1. OnRecord(<<f, i>>) /\ copy[f][i] = log[f][i]
      BY <2>1 DEF Chronicle, CopiedIsRecorded, OnRecord
    <3>2. CASE f = file
      BY <1>2, <1>4, <1>5, <3>1, <3>2 DEF OnRecord
    <3>3. CASE f # file
      BY <1>5, <3>1, <3>3 DEF OnRecord
    <3> QED
      BY <3>2, <3>3
  <2> QED
    BY <1>1, <2>1 DEF CopiedIsRecorded
<1> QED
  BY <1>1, <1>6, <1>10, <1>11, <1>12 DEF Chronicle

LEMMA ChronicleStamp ==
  ASSUME Chronicle, NEW s \in Subjects, NEW r \in Resources, NEW d \in Decisions,
         Stamp(s, r, d)
  PROVE  Chronicle'
<1>1. PICK stamp :
        /\ stamp = [event |-> [subject |-> s, resource |-> r, decision |-> d, time |-> now],
                    before |-> Written]
        /\ stamped' = [stamped EXCEPT ![s] = stamp]
        /\ UNCHANGED <<deployed, now, log, copy, earlier>>
  BY DEF Stamp
<1>2. /\ stamp.event.resource \in Resources /\ stamp.event.decision \in Decisions
      /\ stamp.event.time = now /\ stamp.before = Written
  BY <1>1
<1>3. now \in Nat /\ now <= now
  BY DEF Chronicle, Clocked
<1>4. \A p \in Written : OnRecord(p) /\ Time(p) <= now
  BY DEF Written, OnRecord, Time, Chronicle, Clocked
<1>5. StampedAfter'
  <2>1. ASSUME NEW t \in Subjects, stamped'[t] # None
        PROVE  /\ stamped'[t].event.resource \in Resources
               /\ stamped'[t].event.decision \in Decisions
               /\ stamped'[t].event.time \in Nat /\ stamped'[t].event.time <= now
               /\ \A p \in stamped'[t].before :
                    OnRecord(p) /\ Time(p) <= stamped'[t].event.time
    <3>1. CASE t = s
      <4>1. stamped'[t] = stamp
        BY <1>1, <3>1 DEF Chronicle
      <4> QED
        BY <1>2, <1>3, <1>4, <4>1
    <3>2. CASE t # s
      <4>1. stamped'[t] = stamped[t]
        BY <1>1, <3>2 DEF Chronicle
      <4> QED
        BY <2>1, <4>1 DEF Chronicle, StampedAfter
    <3> QED
      BY <3>1, <3>2
  <2> QED
    BY <1>1, <2>1 DEF StampedAfter, OnRecord, Time
<1>6. CopiedIsRecorded' /\ DOMAIN stamped' = Subjects /\ DOMAIN copy' = Files
  BY <1>1 DEF Chronicle, CopiedIsRecorded
<1> QED
  BY <1>1, <1>3, <1>5, <1>6, ChronicleQuiet

LEMMA ChronicleNext == Chronicle /\ [Next]_vars => Chronicle'
<1> SUFFICES ASSUME Chronicle, [Next]_vars PROVE Chronicle'
  OBVIOUS
<1>0. now \in Nat
  BY DEF Chronicle, Clocked
<1>1. CASE UNCHANGED vars
  <2>1. StampedAfter' /\ CopiedIsRecorded'
    BY <1>1 DEF vars, Chronicle, StampedAfter, CopiedIsRecorded, OnRecord, Time
  <2> QED
    BY <1>0, <1>1, <2>1, ChronicleQuiet DEF vars, Chronicle
<1>2. CASE Tick
  <2>1. now' = now + 1 /\ UNCHANGED <<deployed, log, stamped, copy, earlier>>
    BY <1>2 DEF Tick
  <2>2. StampedAfter' /\ CopiedIsRecorded'
    BY <1>0, <2>1 DEF Chronicle, StampedAfter, CopiedIsRecorded, OnRecord, Time
  <2> QED
    BY <1>0, <2>1, <2>2, ChronicleQuiet DEF Chronicle
<1>3. ASSUME NEW s \in Subjects, NEW r \in Resources, NEW d \in Decisions, Stamp(s, r, d)
      PROVE  Chronicle'
  BY <1>3, ChronicleStamp
<1>4. ASSUME NEW s \in Subjects, NEW whole \in BOOLEAN, AppendLine(s, whole)
      PROVE  Chronicle'
  BY <1>4, ChronicleAppend
<1>5. ASSUME NEW s \in Subjects, AppendFails(s) PROVE Chronicle'
  <2>1. /\ stamped' = [stamped EXCEPT ![s] = None]
        /\ UNCHANGED <<deployed, now, log, copy, earlier>>
    BY <1>5 DEF AppendFails
  <2>2. StampedAfter' /\ CopiedIsRecorded'
    BY <2>1 DEF Chronicle, StampedAfter, CopiedIsRecorded, OnRecord, Time
  <2> QED
    BY <1>0, <2>1, <2>2, ChronicleQuiet DEF Chronicle
<1>6. ASSUME NEW f \in Files, ReadFile(f) PROVE Chronicle'
  <2>1. /\ copy' = [copy EXCEPT ![f] = log[f]]
        /\ UNCHANGED <<deployed, now, log, stamped, earlier>>
    BY <1>6 DEF ReadFile
  <2>2. StampedAfter' /\ CopiedIsRecorded'
    BY <2>1 DEF Chronicle, StampedAfter, CopiedIsRecorded, OnRecord, Time
  <2> QED
    BY <1>0, <2>1, <2>2, ChronicleQuiet DEF Chronicle
<1> QED
  BY <1>1, <1>2, <1>3, <1>4, <1>5, <1>6 DEF Next

LEMMA ChronicleAlways == Spec => []Chronicle
  BY ChronicleInit, ChronicleNext, PTL DEF Spec

-----------------------------------------------------------------------------
(***************************************************************************)
(* Sorting.  A finite set under a total order has a sorted sequence: an    *)
(* element goes to the place that the number of those before it gives.     *)
(***************************************************************************)
IsTotal(R, L) ==
  /\ \A p \in L : <<p, p>> \notin R
  /\ \A p, q \in L : p # q => <<p, q>> \in R \/ <<q, p>> \in R
  /\ \A p, q, o \in L : <<p, q>> \in R /\ <<q, o>> \in R => <<p, o>> \in R

LEMMA HasSorting ==
  ASSUME NEW L, IsFiniteSet(L), NEW R, IsTotal(R, L)
  PROVE  \E s \in [1 .. Cardinality(L) -> L] :
           \A i, j \in 1 .. Cardinality(L) : i < j => <<s[i], s[j]>> \in R
<1>1. PICK n : n = Cardinality(L) /\ n \in Nat
  BY FS_CardinalityType
<1>2. PICK below : below = [p \in L |-> {q \in L : <<q, p>> \in R}]
  OBVIOUS
<1>3. PICK rank : rank = [p \in L |-> Cardinality(below[p]) + 1]
  OBVIOUS
<1>4. ASSUME NEW p \in L
      PROVE  /\ IsFiniteSet(below[p]) /\ Cardinality(below[p]) \in Nat
             /\ rank[p] = Cardinality(below[p]) + 1 /\ rank[p] \in 1 .. n
  <2>1. below[p] \in SUBSET (L \ {p})
    BY <1>2 DEF IsTotal
  <2>2. IsFiniteSet(L \ {p}) /\ Cardinality(L \ {p}) = n - 1
    BY <1>1, FS_RemoveElement
  <2>3. IsFiniteSet(below[p]) /\ Cardinality(below[p]) <= n - 1
    BY <2>1, <2>2, FS_Subset
  <2>4. Cardinality(below[p]) \in Nat
    BY <2>3, FS_CardinalityType
  <2> QED
    BY <1>1, <1>3, <2>3, <2>4
<1>5. ASSUME NEW p \in L, NEW q \in L, <<p, q>> \in R PROVE rank[p] < rank[q]
  <2>1. below[p] \cup {p} \in SUBSET below[q] /\ p \notin below[p]
    BY <1>2, <1>5 DEF IsTotal
  <2>2. Cardinality(below[p] \cup {p}) = Cardinality(below[p]) + 1
    BY <1>4, <2>1, FS_AddElement
  <2>3. IsFiniteSet(below[q])
    BY <1>4
  <2>4. Cardinality(below[p] \cup {p}) <= Cardinality(below[q])
    BY <2>1, <2>3, FS_Subset
  <2> QED
    BY <1>4, <2>2, <2>4
<1>6. rank \in Injection(L, 1 .. n)
  <2>1. rank \in [L -> 1 .. n]
    BY <1>3, <1>4
  <2>2. ASSUME NEW p \in L, NEW q \in L, rank[p] = rank[q] PROVE p = q
    <3>1. rank[p] \in Int /\ rank[q] \in Int
      BY <1>4
    <3>2. <<p, q>> \notin R /\ <<q, p>> \notin R
      BY <1>5, <2>2, <3>1
    <3> QED
      BY <3>2 DEF IsTotal
  <2> QED
    BY <2>1, <2>2 DEF Injection, IsInjective
<1>7. rank \in Surjection(L, 1 .. n)
  <2>1. IsFiniteSet(1 .. n) /\ Cardinality(1 .. n) = n
    BY <1>1, FS_Interval
  <2> QED
    BY <1>1, <1>6, <2>1, FS_Injection
<1>8. PICK s : s = [k \in 1 .. n |-> CHOOSE p \in L : rank[p] = k]
  OBVIOUS
<1>9. ASSUME NEW k \in 1 .. n PROVE s[k] \in L /\ rank[s[k]] = k
  <2>1. \E p \in L : rank[p] = k
    BY <1>7 DEF Surjection
  <2> QED
    BY <1>8, <2>1
<1>10. s \in [1 .. n -> L]
  BY <1>8, <1>9
<1>11. ASSUME NEW i \in 1 .. n, NEW j \in 1 .. n, i < j PROVE <<s[i], s[j]>> \in R
  <2>1. s[i] # s[j]
    BY <1>9, <1>11
  <2>2. <<s[j], s[i]>> \in R => rank[s[j]] < rank[s[i]]
    BY <1>5, <1>9
  <2>3. <<s[j], s[i]>> \notin R
    BY <1>9, <1>11, <2>2
  <2> QED
    BY <1>9, <2>1, <2>3 DEF IsTotal
<1> QED
  BY <1>1, <1>10, <1>11

\* Nothing is missing in it.
LEMMA SortingCovers ==
  ASSUME NEW L, IsFiniteSet(L), NEW R, IsTotal(R, L),
         NEW s \in [1 .. Cardinality(L) -> L],
         \A i, j \in 1 .. Cardinality(L) : i < j => <<s[i], s[j]>> \in R
  PROVE  \A p \in L : \E i \in 1 .. Cardinality(L) : s[i] = p
<1>1. PICK n : n = Cardinality(L) /\ n \in Nat
  BY FS_CardinalityType
<1>2. s \in Injection(1 .. n, L)
  <2>1. ASSUME NEW i \in 1 .. n, NEW j \in 1 .. n, s[i] = s[j] PROVE i = j
    <3>1. ~(i < j) /\ ~(j < i)
      BY <1>1, <2>1 DEF IsTotal
    <3> QED
      BY <1>1, <3>1
  <2> QED
    BY <1>1, <2>1 DEF Injection, IsInjective
<1>3. Cardinality(1 .. n) = n
  BY <1>1, FS_Interval
<1>4. s \in Surjection(1 .. n, L)
  BY <1>1, <1>2, <1>3, FS_Injection
<1> QED
  BY <1>1, <1>4 DEF Surjection

-----------------------------------------------------------------------------
(***************************************************************************)
(* What has been read, and its order.                                      *)
(***************************************************************************)
LEMMA ReadKnown ==
  ASSUME Chronicle, AllRead, NEW p \in Read
  PROVE  /\ p = <<p[1], p[2]>> /\ p[1] \in Files /\ p[2] \in Nat
         /\ At(p) = log[p[1]][p[2]] /\ At(p) \in Line
<1>1. /\ p = <<p[1], p[2]>> /\ p[1] \in Files
      /\ p[2] \in DOMAIN copy[p[1]] /\ copy[p[1]] # None
  BY DEF Read, AllRead
<1>2. At(p) = log[p[1]][p[2]] /\ p[2] \in DOMAIN log[p[1]]
  BY <1>1 DEF Chronicle, CopiedIsRecorded, At
<1>3. log[p[1]] \in Seq(Line)
  BY <1>1 DEF Chronicle, Clocked
<1>4. log[p[1]][p[2]] \in Line /\ p[2] \in Nat
  BY <1>2, <1>3
<1> QED
  BY <1>1, <1>2, <1>4

LEMMA HasLeast ==
  ASSUME NEW S, S \subseteq Nat, S # {}
  PROVE  \E k \in S : \A j \in S : k <= j
<1> DEFINE R == {ss \in Nat \X Nat : ss[1] < ss[2]}
<1>1. IsWellFoundedOn(R, Nat)
  BY NatLessThanWellFounded DEF OpToRel
<1>2. ASSUME NEW j \in Nat, NEW k \in Nat, <<j, k>> \notin R PROVE k <= j
  BY <1>2
<1> HIDE DEF R
<1>3. PICK k \in S : \A j \in S : <<j, k>> \notin R
  BY <1>1, WFMin
<1> QED
  BY <1>2, <1>3

LEMMA ReadFinite ==
  ASSUME Chronicle, AllRead
  PROVE  IsFiniteSet(Read)
<1>1. ASSUME NEW f \in Files PROVE IsFiniteSet({f} \X DOMAIN copy[f])
  <2>1. log[f] \in Seq(Line) /\ copy[f] # None
    BY DEF Chronicle, Clocked, AllRead
  <2>2. DOMAIN copy[f] \in SUBSET (1 .. Len(log[f])) /\ Len(log[f]) \in Nat
    BY <2>1 DEF Chronicle, CopiedIsRecorded
  <2>3. IsFiniteSet(1 .. Len(log[f]))
    BY <2>2, FS_Interval
  <2>4. IsFiniteSet(DOMAIN copy[f])
    BY <2>2, <2>3, FS_Subset
  <2>5. IsFiniteSet({f})
    BY FS_Singleton
  <2> QED
    BY <2>4, <2>5, FS_Product
<1>2. PICK upTo : upTo = [n \in 0 .. NFiles |-> UNION {{f} \X DOMAIN copy[f] : f \in 1 .. n}]
  OBVIOUS
<1>3. NFiles \in Nat
  BY CheckConstants
<1>4. upTo[0] = {} /\ upTo[NFiles] = Read
  BY <1>2, <1>3 DEF Read, Files
<1>5. ASSUME NEW n \in 1 .. NFiles PROVE upTo[n] = upTo[n - 1] \cup ({n} \X DOMAIN copy[n])
  <2>1. 1 .. n = (1 .. n - 1) \cup {n} /\ n \in 0 .. NFiles /\ n - 1 \in 0 .. NFiles
    BY <1>3
  <2> QED
    BY <1>2, <2>1
<1>6. ASSUME NEW n \in 0 .. NFiles, ~IsFiniteSet(upTo[n]) PROVE FALSE
  <2>0. PICK bad : bad = {m \in 0 .. NFiles : ~IsFiniteSet(upTo[m])}
    OBVIOUS
  <2>1. PICK k \in bad : \A j \in bad : k <= j
    <3>1. bad \subseteq Nat /\ bad # {}
      BY <1>6, <2>0
    <3> QED
      BY <3>1, HasLeast
  <2>2. k # 0
    BY <1>4, <2>0, <2>1, FS_EmptySet
  <2>3. k \in 1 .. NFiles /\ k - 1 \in 0 .. NFiles
    BY <1>3, <2>0, <2>1, <2>2
  <2>4. IsFiniteSet(upTo[k - 1])
    BY <2>0, <2>1, <2>3
  <2>5. IsFiniteSet({k} \X DOMAIN copy[k])
    BY <1>1, <2>3 DEF Files
  <2>6. IsFiniteSet(upTo[k - 1] \cup ({k} \X DOMAIN copy[k]))
    BY <2>4, <2>5, FS_Union
  <2> QED
    BY <1>5, <2>0, <2>1, <2>3, <2>6
<1> QED
  BY <1>3, <1>4, <1>6

Order == {pair \in Located \X Located : SortsBefore(pair[1], pair[2])}

LEMMA OrderIsTotal ==
  ASSUME Chronicle, AllRead
  PROVE  IsTotal(Order, Located)
<1>1. ASSUME NEW p \in Located
      PROVE  /\ p = <<p[1], p[2]>> /\ p[1] \in Nat /\ p[2] \in Nat
             /\ At(p).time \in Nat
  <2>1. /\ p = <<p[1], p[2]>> /\ p[1] \in Files /\ p[2] \in Nat
        /\ At(p) \in Line
    BY ReadKnown DEF Located
  <2> QED
    BY <2>1, CheckConstants DEF Files, Line
<1>2. ASSUME NEW p \in Located, NEW q \in Located
      PROVE  <<p, q>> \in Order <=> SortsBefore(p, q)
  BY DEF Order
<1>3. \A p \in Located : ~SortsBefore(p, p)
  BY <1>1 DEF SortsBefore
<1>4. ASSUME NEW p \in Located, NEW q \in Located, p # q
      PROVE  SortsBefore(p, q) \/ SortsBefore(q, p)
  <2>1. p[1] # q[1] \/ p[2] # q[2]
    BY <1>1, <1>4
  <2> QED
    BY <1>1, <2>1 DEF SortsBefore
<1>5. ASSUME NEW p \in Located, NEW q \in Located, NEW o \in Located,
             SortsBefore(p, q), SortsBefore(q, o)
      PROVE  SortsBefore(p, o)
  <2>1. /\ p[1] \in Nat /\ p[2] \in Nat /\ At(p).time \in Nat
        /\ q[1] \in Nat /\ q[2] \in Nat /\ At(q).time \in Nat
        /\ o[1] \in Nat /\ o[2] \in Nat /\ At(o).time \in Nat
    BY <1>1
  <2> QED
    BY <1>5, <2>1 DEF SortsBefore
<1> QED
  BY <1>2, <1>3, <1>4, <1>5 DEF IsTotal

\* The sorted events are all there, each in its place.
SortedSound(events) ==
  /\ events \in [1 .. Cardinality(Located) -> Located]
  /\ \A i, j \in 1 .. Cardinality(Located) : i < j => SortsBefore(events[i], events[j])
  /\ \A p \in Located : \E i \in 1 .. Cardinality(Located) : events[i] = p

LEMMA SortedIsSound ==
  ASSUME Chronicle, AllRead
  PROVE  /\ IsFiniteSet(Located) /\ Cardinality(Located) \in Nat
         /\ SortedSound(Sorted)
<1>1. Located \in SUBSET Read
  BY DEF Located
<1>2. IsFiniteSet(Located) /\ Cardinality(Located) \in Nat
  BY <1>1, ReadFinite, FS_Subset, FS_CardinalityType
<1>3. PICK n : n = Cardinality(Located)
  OBVIOUS
<1>4. PICK s \in [1 .. n -> Located] :
        \A i, j \in 1 .. n : i < j => <<s[i], s[j]>> \in Order
  BY <1>2, <1>3, OrderIsTotal, HasSorting
<1>5. \A i, j \in 1 .. n : i < j => SortsBefore(s[i], s[j])
  BY <1>4 DEF Order
<1>6. /\ Sorted \in [1 .. n -> Located]
      /\ \A i, j \in DOMAIN Sorted : i < j => SortsBefore(Sorted[i], Sorted[j])
  BY <1>3, <1>4, <1>5 DEF Sorted
<1>7. \A i, j \in 1 .. n : i < j => <<Sorted[i], Sorted[j]>> \in Order
  BY <1>6 DEF Order
<1>8. \A p \in Located : \E i \in 1 .. n : Sorted[i] = p
  BY <1>2, <1>3, <1>6, <1>7, OrderIsTotal, SortingCovers
<1> QED
  BY <1>2, <1>3, <1>6, <1>8 DEF SortedSound

-----------------------------------------------------------------------------
(***************************************************************************)
(* The loop.                                                               *)
(***************************************************************************)
\* The turns of the loop, as far as the k-th.
Turns(after, events, k) ==
  /\ DOMAIN after = 0 .. k /\ after[0] = Fresh
  /\ \A i \in 1 .. k : after[i] = Correlate(after[i - 1], events[i])

LEMMA LoopRuns ==
  ASSUME NEW events, NEW n \in Nat, Len(events) = n
  PROVE  \E after : Turns(after, events, n) /\ Correlated(events) = after[n]
<1> DEFINE Runs(k) == \E after : Turns(after, events, k)
           body(after) == [k \in 0 .. n |->
                             IF k = 0 THEN Fresh ELSE Correlate(after[k - 1], events[k])]
<1>1. ASSUME ~Runs(n) PROVE FALSE
  <2>0. PICK bad : bad = {m \in 0 .. n : ~Runs(m)}
    OBVIOUS
  <2>1. PICK k \in bad : \A j \in bad : k <= j
    <3>1. bad \subseteq Nat /\ bad # {}
      BY <1>1, <2>0
    <3> QED
      BY <3>1, HasLeast
  <2>2. CASE k = 0
    <3>1. Turns([i \in 0 .. 0 |-> Fresh], events, 0)
      BY DEF Turns
    <3> QED
      BY <2>0, <2>1, <2>2, <3>1
  <2>3. CASE k # 0
    <3>1. k \in 1 .. n /\ k - 1 \in 0 .. n /\ k \in Nat
      BY <2>0, <2>1, <2>3
    <3>2. PICK after : Turns(after, events, k - 1)
      BY <2>0, <2>1, <3>1
    <3>3. PICK next : next = [i \in 0 .. k |-> IF i = k THEN Correlate(after[k - 1], events[k])
                                              ELSE after[i]]
      OBVIOUS
    <3>4. Turns(next, events, k)
      BY <3>1, <3>2, <3>3 DEF Turns
    <3> QED
      BY <2>0, <2>1, <3>4
  <2> QED
    BY <2>2, <2>3
<1>2. PICK g : Turns(g, events, n)
  BY <1>1
<1>3. PICK f : f = [k \in 0 .. n |-> g[k]]
  OBVIOUS
<1>4. f = body(f)
  BY <1>2, <1>3 DEF Turns
<1>5. PICK after : after = body(after) /\ Correlated(events) = after[n]
  BY <1>4 DEF Correlated
<1>6. Turns(after, events, n)
  BY <1>5 DEF Turns
<1> QED
  BY <1>5, <1>6

\* After k turns a denial is a candidate until some event was too late for it, and
\* the findings are the pairs among the first k events.
Turned(acc, events, k) ==
  /\ acc.recent \in [Resources -> SUBSET Located]
  /\ \A r \in Resources : \A d \in acc.recent[r] :
       At(d).decision = "deny" /\ At(d).resource = r /\ \E i \in 1 .. k : events[i] = d
  /\ \A i \in 1 .. k : At(events[i]).decision = "deny" =>
       \/ events[i] \in acc.recent[At(events[i]).resource]
       \/ \E j \in 1 .. k : ~Recent(events[i], events[j])
  /\ \A pair : pair \in acc.findings <=>
       \E i, j \in 1 .. k : /\ i < j /\ pair = <<events[i], events[j]>>
                            /\ Suspicious(events[i], events[j])
  /\ IsFiniteSet(acc.findings) /\ acc.count = Cardinality(acc.findings)

LEMMA FirstTurn ==
  ASSUME NEW events
  PROVE  Turned(Fresh, events, 0)
<1>1. IsFiniteSet({}) /\ Cardinality({}) = 0
  BY FS_EmptySet
<1> QED
  BY <1>1 DEF Turned, Fresh

LEMMA OneTurn ==
  ASSUME Chronicle, AllRead, NEW events, SortedSound(events),
         NEW k \in 1 .. Cardinality(Located), NEW acc, Turned(acc, events, k - 1)
  PROVE  Turned(Correlate(acc, events[k]), events, k)
<1>1. PICK p : p = events[k]
  OBVIOUS
<1>2. PICK r, candidates, kept, found, next :
        /\ r = At(p).resource
        /\ candidates = {d \in acc.recent[r] : Recent(d, p)}
        /\ kept = IF At(p).decision = "deny" THEN candidates \cup {p} ELSE candidates
        /\ found = IF At(p).decision = "allow"
                   THEN {d \in candidates : At(d).subject # At(p).subject} ELSE {}
        /\ next = [recent |-> [acc.recent EXCEPT ![r] = kept],
                   findings |-> acc.findings \cup (found \X {p}),
                   count |-> acc.count + Cardinality(found)]
        /\ next = Correlate(acc, p)
  BY DEF Correlate
<1>3. IsFiniteSet(Located) /\ Cardinality(Located) \in Nat
  BY SortedIsSound
<1>4. ASSUME NEW q \in Located
      PROVE  At(q) \in Line /\ At(q).time \in Nat /\ At(q).resource \in Resources
  BY ReadKnown DEF Located, Line
<1>5. /\ k \in Nat /\ 1 .. k = (1 .. k - 1) \cup {k} /\ k \notin 1 .. k - 1
      /\ p \in Located /\ r \in Resources /\ events[k] = p
      /\ \A i \in 1 .. k - 1 : events[i] \in Located
  <2>1. \A i \in 1 .. k : events[i] \in Located
    BY <1>3 DEF SortedSound
  <2> QED
    BY <1>1, <1>2, <1>3, <1>4, <2>1
<1>6. ASSUME NEW i \in 1 .. k - 1
      PROVE  events[i] # p /\ At(events[i]).time <= At(p).time
  <2>1. SortsBefore(events[i], p)
    BY <1>1, <1>3 DEF SortedSound
  <2>2. events[i] \in Located /\ At(events[i]).time \in Nat
    BY <1>4, <1>5
  <2>3. At(p).time \in Nat
    BY <1>4, <1>5
  <2>4. p[1] \in Nat /\ p[2] \in Nat
    BY <1>5, ReadKnown, CheckConstants DEF Located, Files
  <2> QED
    BY <2>1, <2>2, <2>3, <2>4 DEF SortsBefore
<1>7. ASSUME NEW i \in 1 .. k - 1, NEW j \in 1 .. k - 1, ~Recent(events[i], events[j])
      PROVE  ~Recent(events[i], p)
  <2>1. /\ At(events[i]).time \in Nat /\ At(events[j]).time \in Nat /\ At(p).time \in Nat
        /\ At(events[j]).time <= At(p).time /\ Window \in Nat
    BY <1>4, <1>5, <1>6, CheckConstants
  <2> QED
    BY <1>7, <2>1 DEF Recent
\* The candidates, and what is found among them.
<1>8. ASSUME NEW d \in candidates
      PROVE  /\ At(d).decision = "deny" /\ At(d).resource = r /\ Recent(d, p)
             /\ d \in Located /\ \E i \in 1 .. k - 1 : events[i] = d
  BY <1>2, <1>5 DEF Turned
<1>9. ASSUME NEW i \in 1 .. k - 1, At(events[i]).decision = "deny",
             At(events[i]).resource = r, Recent(events[i], p)
      PROVE  events[i] \in candidates
  BY <1>2, <1>7, <1>9 DEF Turned
<1>10. ASSUME NEW d
       PROVE  d \in found <=> \E i \in 1 .. k - 1 : d = events[i] /\ Suspicious(events[i], p)
  <2>1. ASSUME d \in found PROVE \E i \in 1 .. k - 1 : d = events[i] /\ Suspicious(d, p)
    <3>1. d \in candidates /\ At(p).decision = "allow" /\ At(d).subject # At(p).subject
      BY <1>2, <2>1
    <3> QED
      BY <1>2, <1>8, <3>1 DEF Suspicious, Recent
  <2>2. ASSUME NEW i \in 1 .. k - 1, Suspicious(events[i], p) PROVE events[i] \in found
    <3>1. events[i] \in candidates
      BY <1>2, <1>9, <2>2 DEF Suspicious, Recent
    <3> QED
      BY <1>2, <2>2, <3>1 DEF Suspicious
  <2> QED
    BY <2>1, <2>2
<1>11. ASSUME NEW pair
       PROVE  pair \in next.findings <=>
                \E i, j \in 1 .. k : /\ i < j /\ pair = <<events[i], events[j]>>
                                     /\ Suspicious(events[i], events[j])
  <2>1. pair \in next.findings <=>
          \/ pair \in acc.findings
          \/ \E d \in found : pair = <<d, p>>
    BY <1>2
  <2>2. pair \in acc.findings <=>
          \E i, j \in 1 .. k - 1 : /\ i < j /\ pair = <<events[i], events[j]>>
                                   /\ Suspicious(events[i], events[j])
    BY DEF Turned
  <2>3. (\E d \in found : pair = <<d, p>>) <=>
          \E i \in 1 .. k - 1 : pair = <<events[i], p>> /\ Suspicious(events[i], p)
    BY <1>10
  <2>4. ASSUME NEW i \in 1 .. k, NEW j \in 1 .. k, i < j
        PROVE  i \in 1 .. k - 1 /\ (j \in 1 .. k - 1 \/ j = k)
    BY <1>5, <2>4
  <2>5. \A i \in 1 .. k - 1 : i \in 1 .. k /\ k \in 1 .. k /\ i < k
    BY <1>5
  <2> QED
    BY <1>5, <2>1, <2>2, <2>3, <2>4, <2>5
<1>12. IsFiniteSet(next.findings) /\ next.count = Cardinality(next.findings)
  <2>1. found \in SUBSET Located
    BY <1>2, <1>8
  <2>2. IsFiniteSet(found) /\ Cardinality(found) \in Nat
    BY <1>3, <2>1, FS_Subset, FS_CardinalityType
  <2>3. IsFiniteSet({p}) /\ Cardinality({p}) = 1
    BY FS_Singleton
  <2>4. IsFiniteSet(found \X {p}) /\ Cardinality(found \X {p}) = Cardinality(found) * 1
    BY <2>2, <2>3, FS_Product
  <2>5. acc.findings \cap (found \X {p}) = {}
    <3>1. ASSUME NEW pair \in acc.findings, pair \in found \X {p} PROVE FALSE
      <4>1. PICK j \in 1 .. k - 1 : pair[2] = events[j]
        BY <3>1 DEF Turned
      <4> QED
        BY <1>6, <3>1, <4>1
    <3> QED
      BY <3>1
  <2>6. /\ IsFiniteSet(acc.findings) /\ acc.count = Cardinality(acc.findings)
        /\ Cardinality(acc.findings) \in Nat
    BY FS_CardinalityType DEF Turned
  <2>7. /\ IsFiniteSet(acc.findings \cup (found \X {p}))
        /\ Cardinality(acc.findings \cup (found \X {p})) =
             Cardinality(acc.findings) + Cardinality(found) * 1 - Cardinality({})
    BY <2>4, <2>5, <2>6, FS_Union
  <2>8. Cardinality({}) = 0
    BY FS_EmptySet
  <2>9. next.findings = acc.findings \cup (found \X {p})
        /\ next.count = acc.count + Cardinality(found)
    BY <1>2
  <2> QED
    BY <2>2, <2>6, <2>7, <2>8, <2>9
\* The denials that are kept.
<1>13. /\ next.recent \in [Resources -> SUBSET Located]
       /\ next.recent[r] = kept
       /\ \A s \in Resources : s # r => next.recent[s] = acc.recent[s]
  <2>1. kept \in SUBSET Located
    BY <1>2, <1>5, <1>8
  <2>2. next.recent = [acc.recent EXCEPT ![r] = kept]
    BY <1>2
  <2>3. acc.recent \in [Resources -> SUBSET Located]
    BY DEF Turned
  <2> QED
    BY <1>5, <2>1, <2>2, <2>3
<1>14. ASSUME NEW s \in Resources, NEW d \in next.recent[s]
       PROVE  /\ At(d).decision = "deny" /\ At(d).resource = s
              /\ \E i \in 1 .. k : events[i] = d
  <2>1. CASE s # r
    BY <1>5, <1>13, <1>14, <2>1 DEF Turned
  <2>2. CASE s = r /\ d \in candidates
    BY <1>5, <1>8, <2>2
  <2>3. CASE s = r /\ d \notin candidates
    <3>1. d = p /\ At(p).decision = "deny"
      BY <1>2, <1>13, <1>14, <2>3
    <3> QED
      BY <1>2, <1>5, <2>3, <3>1
  <2> QED
    BY <2>1, <2>2, <2>3
<1>15. ASSUME NEW i \in 1 .. k, At(events[i]).decision = "deny",
              \A j \in 1 .. k : Recent(events[i], events[j])
       PROVE  events[i] \in next.recent[At(events[i]).resource]
  <2>1. CASE i = k
    BY <1>1, <1>2, <1>13, <1>15, <2>1
  <2>2. CASE i # k
    <3>1. i \in 1 .. k - 1 /\ k \in 1 .. k /\ \A j \in 1 .. k - 1 : j \in 1 .. k
      BY <1>5, <2>2
    <3>2. /\ Recent(events[i], p) /\ At(events[i]).resource \in Resources
          /\ events[i] \in acc.recent[At(events[i]).resource]
      BY <1>4, <1>5, <1>15, <3>1 DEF Turned
    <3> QED
      BY <1>2, <1>9, <1>13, <1>15, <3>1, <3>2
  <2> QED
    BY <2>1, <2>2
<1>16. \A i \in 1 .. k : At(events[i]).decision = "deny" =>
         \/ events[i] \in next.recent[At(events[i]).resource]
         \/ \E j \in 1 .. k : ~Recent(events[i], events[j])
  BY <1>15
<1>17. Turned(next, events, k)
  BY <1>11, <1>12, <1>13, <1>14, <1>16 DEF Turned
<1> QED
  BY <1>1, <1>2, <1>17

\* The loop comes to its end with what Turned says of all events.
LEMMA LoopEnds ==
  ASSUME Chronicle, AllRead
  PROVE  Turned(Correlated(Sorted), Sorted, Cardinality(Located))
<1>1. PICK n, events : n = Cardinality(Located) /\ events = Sorted
  OBVIOUS
<1>2. n \in Nat /\ SortedSound(events) /\ Len(events) = n
  BY <1>1, SortedIsSound DEF SortedSound
<1>3. PICK after : Turns(after, events, n) /\ Correlated(events) = after[n]
  BY <1>2, LoopRuns
<1>4. ASSUME ~Turned(after[n], events, n) PROVE FALSE
  <2>1. PICK bad : bad = {k \in 0 .. n : ~Turned(after[k], events, k)}
    OBVIOUS
  <2>2. PICK k \in bad : \A j \in bad : k <= j
    <3>1. bad \subseteq Nat /\ bad # {}
      BY <1>2, <1>4, <2>1
    <3> QED
      BY <3>1, HasLeast
  <2>3. k # 0
    BY <1>3, <2>1, <2>2, FirstTurn DEF Turns
  <2>4. k \in 1 .. n /\ k - 1 \in 0 .. n /\ ~(k <= k - 1)
    BY <1>2, <2>1, <2>2, <2>3
  <2>5. Turned(after[k - 1], events, k - 1)
    BY <2>1, <2>2, <2>4
  <2>6. after[k] = Correlate(after[k - 1], events[k])
    BY <1>3, <2>4 DEF Turns
  <2>7. Turned(after[k], events, k)
    BY <1>1, <1>2, <2>4, <2>5, <2>6, OneTurn
  <2> QED
    BY <2>1, <2>2, <2>7
<1> QED
  BY <1>1, <1>3, <1>4

-----------------------------------------------------------------------------
(***************************************************************************)
(* The properties.                                                         *)
(***************************************************************************)
\* In the order of the sort, an event comes after all that was on record when it
\* was stamped, although brokers write their lines later and files are read at
\* different moments; only a tie between two files may turn them round.
RecordedSortsFirst ==
  AllRead => \A p, q \in Read : <<p, q>> \in earlier /\ ~Tied(p, q) => StandsBefore(p, q)

LEMMA ChronicleSorts == Chronicle => RecordedSortsFirst
<1> SUFFICES ASSUME Chronicle, AllRead, NEW p \in Read, NEW q \in Read,
                    <<p, q>> \in earlier, ~Tied(p, q)
             PROVE  StandsBefore(p, q)
  BY DEF RecordedSortsFirst
<1>1. Precedes(p, q)
  <2>1. Precedes(<<p, q>>[1], <<p, q>>[2])
    BY DEF Chronicle, EarlierPrecedes
  <2> QED
    BY <2>1
<1>2. ASSUME NEW o \in Read PROVE At(o) = log[o[1]][o[2]] /\ At(o).time \in Nat
  BY ReadKnown DEF Line
<1>3. At(p).time <= At(q).time
  BY <1>1, <1>2 DEF Precedes, Time
<1>4. At(p).time = At(q).time => p[1] = q[1] /\ p[2] < q[2]
  BY <1>1 DEF Tied, Precedes
<1> QED
  BY <1>2, <1>3, <1>4 DEF StandsBefore

\* However the brokers' stamps and writes and the checker's reads interleave, what was
\* on record when an event was stamped is sorted before it, but for a tie.
THEOREM RecordedIsSortedFirst == Spec => []RecordedSortsFirst
  BY ChronicleSorts, ChronicleAlways, PTL

LEMMA PairsFound == Chronicle => FindsExactlyThePairs
<1> SUFFICES ASSUME Chronicle, AllRead, Parses PROVE FindsExactlyThePairs
  BY DEF FindsExactlyThePairs
<1>1. PICK n, events : n = Cardinality(Located) /\ events = Sorted
  OBVIOUS
<1>2. n \in Nat /\ SortedSound(events) /\ Turned(Correlated(Sorted), events, n)
  BY <1>1, SortedIsSound, LoopEnds
<1>3. Located = Read
  BY DEF Located, Parses, Read, At
<1>4. \A p, q \in Read : SortsBefore(p, q) <=> StandsBefore(p, q)
  BY DEF SortsBefore, StandsBefore
<1>5. ASSUME NEW i \in 1 .. n, NEW j \in 1 .. n
      PROVE  /\ events[i] \in Read /\ events[j] \in Read
             /\ i < j <=> SortsBefore(events[i], events[j])
  <2>1. events[i] \in Located /\ events[j] \in Located
    BY <1>1, <1>2 DEF SortedSound
  <2>2. i < j => SortsBefore(events[i], events[j])
    BY <1>1, <1>2 DEF SortedSound
  <2>3. ASSUME ~(i < j) PROVE ~SortsBefore(events[i], events[j])
    <3>1. i = j \/ SortsBefore(events[j], events[i])
      BY <1>1, <1>2, <2>3 DEF SortedSound
    <3>2. /\ <<events[i], events[j]>> \in Order <=> SortsBefore(events[i], events[j])
          /\ <<events[j], events[i]>> \in Order <=> SortsBefore(events[j], events[i])
      BY <2>1 DEF Order
    <3> QED
      BY <2>1, <3>1, <3>2, OrderIsTotal DEF IsTotal
  <2> QED
    BY <1>3, <2>1, <2>2, <2>3
<1>6. ASSUME NEW pair
      PROVE  pair \in Findings <=> /\ pair \in Read \X Read
                                  /\ Suspicious(pair[1], pair[2])
                                  /\ StandsBefore(pair[1], pair[2])
  <2>1. pair \in Findings <=>
          \E i, j \in 1 .. n : /\ i < j /\ pair = <<events[i], events[j]>>
                               /\ Suspicious(events[i], events[j])
    BY <1>2 DEF Turned, Findings
  <2>2. ASSUME NEW i \in 1 .. n, NEW j \in 1 .. n, i < j,
               pair = <<events[i], events[j]>>, Suspicious(events[i], events[j])
        PROVE  /\ pair \in Read \X Read /\ Suspicious(pair[1], pair[2])
               /\ StandsBefore(pair[1], pair[2])
    BY <1>4, <1>5, <2>2
  <2>3. ASSUME NEW d \in Read, NEW a \in Read, pair = <<d, a>>, Suspicious(d, a),
               StandsBefore(d, a)
        PROVE  pair \in Findings
    <3>1. PICK i \in 1 .. n, j \in 1 .. n : events[i] = d /\ events[j] = a
      BY <1>1, <1>2, <1>3 DEF SortedSound
    <3> QED
      BY <1>4, <1>5, <2>1, <2>3, <3>1
  <2> QED
    BY <2>1, <2>2, <2>3
<1>7. FindingCount = Cardinality(Findings)
  BY <1>2 DEF Turned, Findings, FindingCount
<1> QED
  BY <1>6, <1>7 DEF FindsExactlyThePairs

\* For any number of files, brokers and events, however their times lie, the checker's
\* loop over the sorted lines, which keeps only the denials still within the window,
\* finds the pairs of the definition, all of them, and counts each once.
THEOREM PairsAreFound == Spec => []FindsExactlyThePairs
  BY PairsFound, ChronicleAlways, PTL

\* A log that is called clear holds no allow that was decided after a denial was on
\* record, but for a tie between two files, however brokers and checker interleave.
THEOREM ClearCanBeTrusted == Spec => []ClearIsTrustworthy
<1>1. Chronicle => ClearIsTrustworthy
  <2> SUFFICES ASSUME Chronicle, AllRead, Verdict = "clear",
                      NEW d \in Read, NEW a \in Read, Suspicious(d, a), ~Tied(d, a),
                      <<d, a>> \in earlier
               PROVE  FALSE
    BY DEF ClearIsTrustworthy
  <2>1. Parses /\ FindingCount = 0
    BY DEF Verdict
  <2>2. StandsBefore(d, a)
    BY ChronicleSorts DEF RecordedSortsFirst
  <2>3. <<d, a>> \in Findings /\ FindingCount = Cardinality(Findings)
    BY <2>1, <2>2, PairsFound DEF FindsExactlyThePairs
  <2>4. IsFiniteSet(Findings)
    BY LoopEnds DEF Turned, Findings
  <2> QED
    BY <2>1, <2>3, <2>4, FS_EmptySet
<1> QED
  BY <1>1, ChronicleAlways, PTL
=============================================================================
