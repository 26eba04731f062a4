------------------------- MODULE AuditWriterProofs --------------------------
(***************************************************************************)
(* Proofs about AuditWriter, for any number of calls, events and files and *)
(* every setting.  The inductive invariants are built in layers: the types *)
(* with what a call holds at each point, the files with what is on the     *)
(* disk, and the records of calls that wrote one; on these stand what is   *)
(* true under some settings only, and what users of the writer rely on.    *)
(***************************************************************************)
EXTENDS AuditWriter, SequenceTheorems, TLAPS

-----------------------------------------------------------------------------
(***************************************************************************)
(* First layer: types.  A call past its open holds a file, and a call that *)
(* writes has an event: append sets it, and validateAuditDestination stops *)
(* at fstat.                                                               *)
(***************************************************************************)
Writing == {"write", "rest", "sync"}
Holding == Writing \cup {"chmod", "stat"}

EventAtHand == \A c \in Calls : at[c] \in Writing => ev[c] \in Events
HandleOpen == \A c \in Calls : at[c] \in Holding => fh[c] \in Files

Typed == TypeOK /\ EventAtHand /\ HandleOpen

LEMMA TypedInit == Init => Typed
  BY AuditConstants
  DEF Init, Typed, TypeOK, EventAtHand, HandleOpen, Writing, Holding,
      PathStates, Modes, OwnerModes, OwnerFiles, Points, Results, Fragment

\* AppendPart leaves a typed body: one more fragment in one file.
LEMMA AppendPartTyped ==
  ASSUME Typed, NEW c \in Calls, at[c] \in {"write", "rest"},
         NEW part \in {"line", "head", "tail"}, AppendPart(c, part)
  PROVE  body' \in [Files -> Seq(Fragment)]
<1>1. [by |-> c, event |-> ev[c], part |-> part] \in Fragment
  BY DEF Typed, EventAtHand, Writing, Fragment
<1>2. \A s \in Seq(Fragment), x \in Fragment : Append(s, x) \in Seq(Fragment)
  BY AppendProperties
<1> QED
  BY <1>1, <1>2 DEF Typed, TypeOK, AppendPart

\* What power loss leaves of a body is typed.
LEMMA SubSeqTyped ==
  ASSUME NEW S, NEW s \in Seq(S), NEW k \in 0 .. Len(s)
  PROVE  /\ SubSeq(s, 1, k) \in Seq(S)
         /\ Len(SubSeq(s, 1, k)) = k
         /\ \A i \in 1 .. k : SubSeq(s, 1, k)[i] = s[i]
  BY SubSeqProperties

LEMMA LeftTyped ==
  ASSUME NEW f \in Files, body[f] \in Seq(Fragment), disk[f] \in Nat,
         NEW s \in Kept(f) \cup Torn(f)
  PROVE  /\ s \in Seq(Fragment) /\ Len(body[f]) \in Nat /\ Len(s) \in Nat
         /\ disk[f] <= Len(s) /\ Len(s) <= Len(body[f])
         /\ \A i \in 1 .. Len(s) :
              \/ s[i] = body[f][i]
              \/ /\ disk[f] < i /\ body[f][i].part = "line"
                 /\ s[i] = [body[f][i] EXCEPT !.part = "head"]
<1>0. Len(body[f]) \in Nat
  BY LenProperties
<1>1. CASE s \in Kept(f)
  <2>1. PICK n \in disk[f] .. Len(body[f]) : s = SubSeq(body[f], 1, n)
    BY <1>1 DEF Kept
  <2>2. n \in 0 .. Len(body[f])
    BY <1>0, <2>1
  <2>3. /\ s \in Seq(Fragment) /\ Len(s) = n
        /\ \A i \in 1 .. n : s[i] = body[f][i]
    BY <2>1, <2>2, SubSeqTyped
  <2> QED
    BY <1>0, <2>1, <2>3
<1>2. CASE s \in Torn(f)
  <2> DEFINE frag(n) == [body[f][n] EXCEPT !.part = "head"]
             left(n) == SubSeq(body[f], 1, n - 1)
  <2>1. PICK n \in (disk[f] + 1) .. Len(body[f]) :
           body[f][n].part = "line" /\ s = Append(left(n), frag(n))
    BY <1>2 DEF Torn
  <2>2. n - 1 \in 0 .. Len(body[f]) /\ n \in 1 .. Len(body[f])
    BY <1>0, <2>1
  <2>3. /\ left(n) \in Seq(Fragment) /\ Len(left(n)) = n - 1
        /\ \A i \in 1 .. (n - 1) : left(n)[i] = body[f][i]
    BY <2>2, SubSeqTyped
  <2>4. frag(n) \in Fragment
    <3>1. body[f][n] \in Fragment
      BY <2>2, ElementOfSeq
    <3> QED
      BY <3>1 DEF Fragment
  <2> HIDE DEF frag, left
  <2>5. /\ s \in Seq(Fragment) /\ Len(s) = n
        /\ \A i \in 1 .. (n - 1) : s[i] = left(n)[i]
        /\ s[n] = frag(n)
    BY <2>1, <2>2, <2>3, <2>4, AppendProperties
  <2>6. \A i \in 1 .. Len(s) : i = n \/ i \in 1 .. (n - 1)
    BY <1>0, <2>1, <2>5
  <2>7. ASSUME NEW i \in 1 .. Len(s)
        PROVE  \/ s[i] = body[f][i]
               \/ /\ disk[f] < i /\ body[f][i].part = "line"
                  /\ s[i] = [body[f][i] EXCEPT !.part = "head"]
    <3>1. CASE i = n
      <4>1. disk[f] < i /\ body[f][i].part = "line" /\ s[i] = frag(i)
        BY <1>0, <2>1, <2>5, <3>1
      <4> QED
        BY <4>1, Zenon DEF frag
    <3>2. CASE i \in 1 .. (n - 1)
      BY <2>3, <2>5, <3>2
    <3> QED
      BY <2>6, <3>1, <3>2
  <2>8. Len(s) \in Nat /\ disk[f] <= Len(s) /\ Len(s) <= Len(body[f])
    BY <1>0, <2>1, <2>5
  <2> QED
    BY <1>0, <2>5, <2>7, <2>8, Zenon
<1> QED
  BY <1>1, <1>2, Zenon

\* A failing step only decides the result and where the call goes next.
LEMMA FailTyped ==
  ASSUME Typed, NEW c \in Calls, UNCHANGED <<setting, world>>,
         Invalid(c) \/ WriteFailed(c)
  PROVE  Typed'
<1>1. PICK code \in Results \ {"EIO"} : Fail(c, code)
  BY DEF Invalid, WriteFailed, Results
<1>2. /\ UNCHANGED <<setting, dest, mode, body, disk, named, fh, made, ev>>
      /\ res' = [res EXCEPT ![c] = code]
      /\ \E next \in {"done", "close"} : at' = [at EXCEPT ![c] = next]
  BY <1>1 DEF Fail, world
<1> QED
  BY <1>2 DEF Typed, TypeOK, EventAtHand, HandleOpen, Writing, Holding, Points

LEMMA TypedNext == Typed /\ [Next]_vars => Typed'
<1> SUFFICES ASSUME Typed, [Next]_vars PROVE Typed'
  OBVIOUS
<1> USE DEF Typed, EventAtHand, HandleOpen, Writing, Holding
<1>1. CASE UNCHANGED vars
  BY <1>1 DEF vars, TypeOK
<1>2. ASSUME Next PROVE setting' = setting
  BY <1>2 DEF Next
<1>3. ASSUME NEW c \in Calls, Call(c), UNCHANGED setting PROVE Typed'
  BY <1>3 DEF Call, Begin, TypeOK, Points, Results, world
<1>4. ASSUME NEW c \in Calls, CreateExclusive(c), UNCHANGED setting PROVE Typed'
  <2>1. CASE \E f \in Files : /\ dest' = f
                              /\ mode' = [mode EXCEPT ![f] = setting.created]
                              /\ fh' = [fh EXCEPT ![c] = f]
                              /\ made' = [made EXCEPT ![c] = TRUE]
                              /\ at' = [at EXCEPT ![c] = "chmod"]
                              /\ UNCHANGED <<body, disk, named, ev, res>>
    <3>1. setting.created \in Modes
      BY AuditConstants DEF TypeOK, Modes
    <3> QED
      BY <1>4, <2>1, <3>1 DEF TypeOK, Points, PathStates
  <2>2. CASE AlreadyThere(c) /\ UNCHANGED world
    BY <1>4, <2>2 DEF AlreadyThere, TypeOK, Points, world
  <2>3. CASE Invalid(c) /\ UNCHANGED world
    BY <1>4, <2>3, FailTyped
  <2> QED
    BY <1>4, <2>1, <2>2, <2>3 DEF CreateExclusive
<1>5. ASSUME NEW c \in Calls, OpenExisting(c), UNCHANGED setting PROVE Typed'
  <2>1. CASE /\ dest \in Openable
             /\ fh' = [fh EXCEPT ![c] = dest]
             /\ at' = [at EXCEPT ![c] = "stat"]
             /\ UNCHANGED <<world, made, ev, res>>
    BY <1>5, <2>1 DEF Openable, TypeOK, Points, world
  <2>2. CASE Invalid(c) /\ UNCHANGED world
    BY <1>5, <2>2, FailTyped
  <2>3. CASE /\ at' = [at EXCEPT ![c] = "blocked"]
             /\ UNCHANGED <<world, fh, made, ev, res>>
    BY <1>5, <2>3 DEF TypeOK, Points, world
  <2> QED
    BY <1>5, <2>1, <2>2, <2>3 DEF OpenExisting, SecondOpenFails
<1>6. ASSUME NEW c \in Calls, Chmod(c), UNCHANGED setting PROVE Typed'
  <2>1. CASE Invalid(c) /\ UNCHANGED world
    BY <1>6, <2>1, FailTyped
  <2> QED
    BY <1>6, <2>1 DEF Chmod, TypeOK, Points, Modes
<1>7. ASSUME NEW c \in Calls, Stat(c), UNCHANGED setting PROVE Typed'
  <2>1. CASE Invalid(c) /\ UNCHANGED world
    BY <1>7, <2>1, FailTyped
  <2>2. CASE /\ IF ev[c] = NoEvent
                THEN /\ at' = [at EXCEPT ![c] = "close"]
                     /\ res' = [res EXCEPT ![c] = "ok"]
                ELSE /\ at' = [at EXCEPT ![c] = "write"]
                     /\ UNCHANGED res
             /\ UNCHANGED <<world, fh, made, ev>>
    BY <1>7, <2>2 DEF Stat, TypeOK, Points, Results, world
  <2> QED
    BY <1>7, <2>1, <2>2 DEF Stat
<1>8. ASSUME NEW c \in Calls, Write(c), UNCHANGED setting PROVE Typed'
  <2>1. CASE \E part \in {"line", "head"} :
               /\ AppendPart(c, part)
               /\ at' = [at EXCEPT ![c] = NextAfter(part)]
               /\ UNCHANGED <<fh, made, ev, res>>
    <3>1. body' \in [Files -> Seq(Fragment)]
      BY <1>8, <2>1, AppendPartTyped DEF Write
    <3> QED
      BY <1>8, <2>1, <3>1 DEF Write, AppendPart, NextAfter, TypeOK, Points
  <2>2. CASE WriteFailed(c) /\ UNCHANGED world
    BY <1>8, <2>2, FailTyped
  <2> QED
    BY <1>8, <2>1, <2>2 DEF Write
<1>9. ASSUME NEW c \in Calls, WriteRest(c), UNCHANGED setting PROVE Typed'
  <2>1. CASE /\ AppendPart(c, "tail")
             /\ at' = [at EXCEPT ![c] = NextAfter("tail")]
             /\ UNCHANGED <<fh, made, ev, res>>
    <3>1. body' \in [Files -> Seq(Fragment)]
      BY <1>9, <2>1, AppendPartTyped DEF WriteRest
    <3> QED
      BY <1>9, <2>1, <3>1 DEF WriteRest, AppendPart, NextAfter, TypeOK, Points
  <2>2. CASE WriteFailed(c) /\ UNCHANGED world
    BY <1>9, <2>2, FailTyped
  <2> QED
    BY <1>9, <2>1, <2>2 DEF WriteRest
<1>10. ASSUME NEW c \in Calls, Sync(c), UNCHANGED setting PROVE Typed'
  <2>1. CASE /\ Flush(fh[c])
             /\ res' = [res EXCEPT ![c] = "ok"]
             /\ at' = [at EXCEPT ![c] = "close"]
             /\ UNCHANGED <<fh, made, ev>>
    <3>1. fh[c] \in Files /\ Len(body[fh[c]]) \in Nat
      BY <1>10, LenProperties DEF Sync, TypeOK
    <3>2. disk' \in [Files -> Nat] /\ named' \in SUBSET Files
      BY <2>1, <3>1 DEF Flush, TypeOK
    <3> QED
      BY <1>10, <2>1, <3>2 DEF Flush, TypeOK, Points, Results
  <2>2. CASE WriteFailed(c) /\ UNCHANGED world
    BY <1>10, <2>2, FailTyped
  <2> QED
    BY <1>10, <2>1, <2>2 DEF Sync
<1>11. ASSUME NEW c \in Calls, Close(c), UNCHANGED setting PROVE Typed'
  BY <1>11 DEF Close, CloseRejects, TypeOK, Points, Results, world
<1>12. ASSUME Rotate \/ Block \/ OwnerChmod, UNCHANGED setting PROVE Typed'
  BY <1>12
  DEF Rotate, Block, OwnerChmod, TypeOK, PathStates, Modes, OwnerModes, OwnerFiles
<1>13. ASSUME Kill, UNCHANGED setting PROVE Typed'
  BY <1>13 DEF Kill, ProcessDies, TypeOK, Points, world
<1>14. ASSUME PowerLoss, UNCHANGED setting PROVE Typed'
  <2>1. PICK gone \in SUBSET Files :
          /\ \E all : body' \in [Files -> all]
          /\ \A f \in Files : body'[f] \in IF f \in gone THEN {<<>>} ELSE Kept(f) \cup Torn(f)
          /\ disk' = [f \in Files |-> Len(body'[f])]
    BY <1>14, Zenon DEF PowerLoss
  <2>2. /\ body' \in [Files -> Seq(Fragment)]
        /\ disk' \in [Files -> Nat]
    <3>1. ASSUME NEW f \in Files PROVE body'[f] \in Seq(Fragment)
      <4>1. CASE f \in gone
        BY <2>1, <4>1, EmptySeq
      <4>2. CASE f \notin gone
        <5>1. body'[f] \in Kept(f) \cup Torn(f)
          BY <2>1, <4>2
        <5>2. body[f] \in Seq(Fragment) /\ disk[f] \in Nat
          BY DEF TypeOK
        <5> QED
          BY <5>1, <5>2, LeftTyped
      <4> QED
        BY <4>1, <4>2
    <3>2. \A f \in Files : Len(body'[f]) \in Nat
      BY <3>1, LenProperties
    <3> QED
      BY <2>1, <3>1, <3>2
  <2>3. /\ dest' \in PathStates
        /\ mode' \in [Files -> Modes]
        /\ named' \in SUBSET Files
    BY <1>14 DEF PowerLoss, TypeOK, PathStates, Modes
  <2>4. /\ at' \in [Calls -> Points] /\ fh' \in [Calls -> Files \cup {NoFile}]
        /\ \A c \in Calls : at'[c] \notin Holding
        /\ UNCHANGED <<made, ev, res>>
    BY <1>14 DEF PowerLoss, ProcessDies, TypeOK, Points
  <2> QED
    BY <1>14, <2>2, <2>3, <2>4 DEF TypeOK
<1> QED
  BY <1>1, <1>2, <1>3, <1>4, <1>5, <1>6, <1>7, <1>8, <1>9, <1>10, <1>11, <1>12, <1>13, <1>14
  DEF Next, Step, Environment

\* Type correctness, whatever the environment does and however calls interleave:
\* append settles with its own codes only, and a raw error comes only out of the
\* close of validateAuditDestination.
THEOREM TypeCorrect == Spec => []TypeOK
<1>1. Typed => TypeOK
  BY DEF Typed
<1> QED
  BY <1>1, TypedInit, TypedNext, PTL DEF Spec

-----------------------------------------------------------------------------
(***************************************************************************)
(* Second layer: files.  A file that is open or has a name on the disk has *)
(* been created, one that has not been created holds nothing, and no more  *)
(* is on the disk than was written.                                        *)
(***************************************************************************)
OpenIsBorn == \A c \in Calls : fh[c] \in Files => mode[fh[c]] # "none"
NamedIsBorn == \A f \in named : mode[f] # "none"
UnbornIsEmpty == \A f \in Files : mode[f] = "none" => body[f] = <<>>
DiskWithin == \A f \in Files : disk[f] <= Len(body[f])

FilesSound == OpenIsBorn /\ NamedIsBorn /\ UnbornIsEmpty /\ DiskWithin

LEMMA FilesSoundInit == Init => FilesSound
<1>1. Len(<<>>) = 0
  OBVIOUS
<1> QED
  BY <1>1, AuditConstants
  DEF Init, FilesSound, OpenIsBorn, NamedIsBorn, UnbornIsEmpty, DiskWithin, OwnerModes,
      OwnerFiles

\* What AppendPart does to each file: it keeps every fragment in its place.
LEMMA AppendPartExtends ==
  ASSUME Typed, NEW c \in Calls, at[c] \in {"write", "rest"},
         NEW part \in {"line", "head", "tail"}, AppendPart(c, part)
  PROVE  /\ fh[c] \in Files
         /\ \A f \in Files : /\ Len(body[f]) \in Nat
                             /\ Len(body[f]) <= Len(body'[f])
                             /\ \A i \in 1 .. Len(body[f]) : body'[f][i] = body[f][i]
                             /\ f # fh[c] => body'[f] = body[f]
         /\ Len(body'[fh[c]]) = Len(body[fh[c]]) + 1
         /\ body'[fh[c]][Len(body[fh[c]]) + 1] = [by |-> c, event |-> ev[c], part |-> part]
<1> DEFINE frag == [by |-> c, event |-> ev[c], part |-> part]
<1>1. frag \in Fragment
  BY DEF Typed, EventAtHand, Writing, Fragment
<1>2. /\ fh[c] \in Files /\ body \in [Files -> Seq(Fragment)]
  BY DEF Typed, TypeOK, HandleOpen, Writing, Holding
<1>3. body' = [body EXCEPT ![fh[c]] = Append(@, frag)]
  BY DEF AppendPart
<1> HIDE DEF frag
<1>4. \A f \in Files : Len(body[f]) \in Nat
  BY <1>2, LenProperties
<1>5. /\ body'[fh[c]] = Append(body[fh[c]], frag)
      /\ \A f \in Files : f # fh[c] => body'[f] = body[f]
  BY <1>2, <1>3
<1>6. /\ Len(body'[fh[c]]) = Len(body[fh[c]]) + 1
      /\ \A i \in 1 .. Len(body[fh[c]]) : body'[fh[c]][i] = body[fh[c]][i]
      /\ body'[fh[c]][Len(body[fh[c]]) + 1] = frag
  BY <1>1, <1>2, <1>5, AppendProperties
<1>7. \A f \in Files : /\ Len(body[f]) <= Len(body'[f])
                       /\ \A i \in 1 .. Len(body[f]) : body'[f][i] = body[f][i]
  BY <1>4, <1>5, <1>6
<1> QED
  BY <1>2, <1>4, <1>5, <1>6, <1>7 DEF frag

\* What PowerLoss does to each file: it keeps what was on the disk.
LEMMA PowerLossKeeps ==
  ASSUME Typed, FilesSound, PowerLoss
  PROVE  /\ \A f \in Files : disk'[f] = Len(body'[f])
         /\ \A f \in named : /\ f \in named'
                             /\ disk[f] <= disk'[f]
                             /\ \A i \in 1 .. disk[f] : body'[f][i] = body[f][i]
         /\ \A f \in Files : mode'[f] = "none" => body'[f] = <<>>
         /\ \A f \in named' : mode'[f] # "none"
<1>0. /\ body \in [Files -> Seq(Fragment)] /\ disk \in [Files -> Nat]
      /\ named \subseteq Files /\ mode \in [Files -> Modes]
  BY DEF Typed, TypeOK
<1>1. PICK gone \in SUBSET {f \in Files : mode[f] # "none" /\ f \notin named} :
        /\ mode' = [f \in Files |-> IF f \in gone THEN "none" ELSE mode[f]]
        /\ named' = {f \in Files : mode'[f] # "none"}
        /\ \A f \in Files : body'[f] \in IF f \in gone THEN {<<>>} ELSE Kept(f) \cup Torn(f)
        /\ disk' = [f \in Files |-> Len(body'[f])]
  BY Zenon DEF PowerLoss
<1>2. ASSUME NEW f \in Files
      PROVE  /\ disk'[f] = Len(body'[f])
             /\ mode'[f] = "none" => body'[f] = <<>>
  <2>1. disk'[f] = Len(body'[f])
    BY <1>1
  <2>2. CASE f \in gone
    BY <1>1, <2>1, <2>2
  <2>3. CASE f \notin gone
    <3> SUFFICES ASSUME mode'[f] = "none" PROVE body'[f] = <<>>
      BY <2>1
    <3>1. body[f] = <<>> /\ Len(body[f]) = 0
      BY <1>1, <2>3 DEF UnbornIsEmpty, FilesSound
    <3>2. body'[f] \in Kept(f) \cup Torn(f) /\ body[f] \in Seq(Fragment) /\ disk[f] \in Nat
      BY <1>0, <1>1, <2>3
    <3>3. /\ body'[f] \in Seq(Fragment) /\ Len(body'[f]) \in Nat
          /\ Len(body'[f]) <= Len(body[f])
      BY <3>2, LeftTyped, Zenon
    <3>4. Len(body'[f]) = 0
      BY <3>1, <3>3
    <3> QED
      BY <3>3, <3>4, EmptySeq
  <2> QED
    BY <2>2, <2>3
<1>3. \A f \in named : f \notin gone /\ mode'[f] # "none"
  BY <1>0, <1>1 DEF NamedIsBorn, FilesSound
<1>4. ASSUME NEW f \in named
      PROVE  /\ f \in named'
             /\ disk[f] <= disk'[f]
             /\ \A i \in 1 .. disk[f] : body'[f][i] = body[f][i]
  <2>1. /\ f \in Files /\ disk[f] \in Nat /\ body[f] \in Seq(Fragment)
        /\ body'[f] \in Kept(f) \cup Torn(f)
    BY <1>0, <1>1, <1>3
  <2>2. /\ disk[f] <= Len(body'[f]) /\ Len(body'[f]) \in Nat
        /\ \A i \in 1 .. Len(body'[f]) : body'[f][i] = body[f][i] \/ disk[f] < i
    BY <2>1, LeftTyped
  <2>3. \A i \in 1 .. disk[f] : i \in 1 .. Len(body'[f]) /\ ~(disk[f] < i)
    BY <2>1, <2>2
  <2>4. f \in named'
    BY <1>1, <1>3, <2>1, Zenon
  <2> QED
    BY <1>2, <2>1, <2>2, <2>3, <2>4
<1>5. \A f \in named' : mode'[f] # "none"
  BY <1>1, Zenon
<1> QED
  BY <1>2, <1>4, <1>5, Zenon

\* A line that power loss has torn: the end of it never came to the disk.
Tears(f, i) == /\ "power" \in setting.faults
               /\ body[f][i].part = "line"
               /\ body'[f][i] = [body[f][i] EXCEPT !.part = "head"]

\* What PowerLoss leaves of each file stood there before, or is a torn line.
LEMMA PowerLossLeaves ==
  ASSUME Typed, PowerLoss, NEW f \in Files, NEW i \in 1 .. Len(body'[f])
  PROVE  /\ i \in 1 .. Len(body[f])
         /\ body'[f][i] = body[f][i] \/ Tears(f, i)
<1>0. body[f] \in Seq(Fragment) /\ disk[f] \in Nat /\ "power" \in setting.faults
  BY DEF Typed, TypeOK, PowerLoss
<1>1. body'[f] = <<>> \/ body'[f] \in Kept(f) \cup Torn(f)
  <2>1. PICK gone : \A g \in Files :
                      body'[g] \in IF g \in gone THEN {<<>>} ELSE Kept(g) \cup Torn(g)
    BY Zenon DEF PowerLoss
  <2> QED
    BY <2>1
<1>2. body'[f] # <<>>
  BY EmptySeq
<1> QED
  BY <1>0, <1>1, <1>2, LeftTyped DEF Tears

LEMMA FilesSoundNext == Typed /\ FilesSound /\ [Next]_vars => FilesSound'
<1> SUFFICES ASSUME Typed, FilesSound, [Next]_vars PROVE FilesSound'
  OBVIOUS
<1> USE DEF FilesSound, OpenIsBorn, NamedIsBorn, UnbornIsEmpty, DiskWithin
<1>0. /\ body \in [Files -> Seq(Fragment)] /\ disk \in [Files -> Nat]
      /\ named \subseteq Files /\ mode \in [Files -> Modes]
      /\ fh \in [Calls -> Files \cup {NoFile}] /\ NoFile \notin Files
  BY AuditConstants DEF Typed, TypeOK
<1>a. \A f \in Files : Len(body[f]) \in Nat
  BY <1>0, LenProperties
<1>1. CASE UNCHANGED <<mode, body, disk, named>> /\ \A c \in Calls : fh'[c] \in {fh[c], NoFile}
  BY <1>0, <1>1
<1>2. CASE UNCHANGED vars
  BY <1>1, <1>2 DEF vars
<1>3. ASSUME NEW c \in Calls, Call(c) PROVE FilesSound'
  BY <1>1, <1>3 DEF Call, Begin, world
<1>4. ASSUME NEW c \in Calls, CreateExclusive(c) PROVE FilesSound'
  <2>1. CASE \E f \in Files : /\ mode[f] = "none"
                              /\ mode' = [mode EXCEPT ![f] = setting.created]
                              /\ fh' = [fh EXCEPT ![c] = f]
                              /\ UNCHANGED <<body, disk, named>>
    <3>1. setting.created # "none"
      BY AuditConstants DEF Typed, TypeOK
    <3> QED
      BY <1>0, <2>1, <3>1
  <2>2. CASE (AlreadyThere(c) \/ Invalid(c)) /\ UNCHANGED world
    BY <1>1, <2>2 DEF AlreadyThere, Invalid, Fail, world
  <2> QED
    BY <1>4, <2>1, <2>2 DEF CreateExclusive
<1>5. ASSUME NEW c \in Calls, OpenExisting(c) PROVE FilesSound'
  <2>1. CASE dest \in Openable /\ fh' = [fh EXCEPT ![c] = dest] /\ UNCHANGED world
    BY <1>0, <2>1 DEF Openable, world
  <2>2. CASE (Invalid(c) \/ UNCHANGED fh) /\ UNCHANGED world
    BY <1>1, <2>2 DEF Invalid, Fail, world
  <2> QED
    BY <1>5, <2>1, <2>2 DEF OpenExisting, SecondOpenFails
<1>6. ASSUME NEW c \in Calls, Chmod(c) PROVE FilesSound'
  <2>1. CASE /\ mode' = [mode EXCEPT ![fh[c]] = "0600"]
             /\ UNCHANGED <<body, disk, named, fh>>
    BY <1>0, <2>1
  <2>2. CASE Invalid(c) /\ UNCHANGED world
    BY <1>1, <2>2 DEF Invalid, Fail, world
  <2> QED
    BY <1>6, <2>1, <2>2 DEF Chmod
<1>7. ASSUME NEW c \in Calls, Stat(c) PROVE FilesSound'
  BY <1>1, <1>7 DEF Stat, Invalid, Fail, world
<1>8. ASSUME NEW c \in Calls, Write(c) \/ WriteRest(c) PROVE FilesSound'
  <2>1. CASE \E part \in {"line", "head", "tail"} : AppendPart(c, part) /\ UNCHANGED fh
    <3>1. PICK part \in {"line", "head", "tail"} : AppendPart(c, part)
      BY <2>1
    <3>2. at[c] \in {"write", "rest"}
      BY <1>8 DEF Write, WriteRest
    <3>3. ASSUME NEW f \in Files
          PROVE  /\ Len(body[f]) <= Len(body'[f])
                 /\ f # fh[c] => body'[f] = body[f]
      BY <3>1, <3>2, AppendPartExtends
    <3>4. body' \in [Files -> Seq(Fragment)]
      BY <3>1, <3>2, AppendPartTyped
    <3>5. \A f \in Files : Len(body'[f]) \in Nat
      BY <3>4, LenProperties
    <3>6. UNCHANGED <<mode, disk, named>>
      BY <3>1 DEF AppendPart
    <3>7. UnbornIsEmpty'
      BY <3>3, <3>6
    <3>8. ASSUME NEW f \in Files PROVE disk'[f] <= Len(body'[f])
      BY <1>0, <1>a, <3>3, <3>5, <3>6
    <3> QED
      BY <2>1, <3>6, <3>7, <3>8
  <2>2. CASE WriteFailed(c) /\ UNCHANGED world
    BY <1>1, <2>2 DEF WriteFailed, Fail, world
  <2> QED
    BY <1>8, <2>1, <2>2 DEF Write, WriteRest
<1>9. ASSUME NEW c \in Calls, Sync(c) PROVE FilesSound'
  <2>1. CASE Flush(fh[c]) /\ UNCHANGED fh
    <3>1. fh[c] \in Files
      BY <1>9 DEF Typed, HandleOpen, Holding, Writing, Sync
    <3> QED
      BY <1>0, <1>a, <2>1, <3>1 DEF Flush
  <2>2. CASE WriteFailed(c) /\ UNCHANGED world
    BY <1>1, <2>2 DEF WriteFailed, Fail, world
  <2> QED
    BY <1>9, <2>1, <2>2 DEF Sync
<1>10. ASSUME NEW c \in Calls, Close(c) PROVE FilesSound'
  BY <1>0, <1>1, <1>10 DEF Close, world
<1>11. ASSUME Rotate \/ Block \/ OwnerChmod PROVE FilesSound'
  BY <1>0, <1>11 DEF Rotate, Block, OwnerChmod, OwnerModes, OwnerFiles
<1>12. ASSUME Kill PROVE FilesSound'
  BY <1>1, <1>12 DEF Kill, ProcessDies, world
<1>13. ASSUME PowerLoss PROVE FilesSound'
  <2>1. \A c \in Calls : fh'[c] = NoFile
    BY <1>13 DEF PowerLoss, ProcessDies
  <2>2. /\ \A f \in Files : disk'[f] = Len(body'[f])
        /\ \A f \in Files : mode'[f] = "none" => body'[f] = <<>>
        /\ \A f \in named' : mode'[f] # "none"
    BY <1>13, PowerLossKeeps
  <2>3. \A f \in Files : disk'[f] \in Nat
    BY TypedNext DEF Typed, TypeOK
  <2> QED
    BY <1>0, <2>1, <2>2, <2>3
<1> QED
  BY <1>2, <1>3, <1>4, <1>5, <1>6, <1>7, <1>8, <1>9, <1>10, <1>11, <1>12, <1>13
  DEF Next, Step, Environment
-----------------------------------------------------------------------------
(***************************************************************************)
(* Third layer: records.  A call about to sync has the end of its record   *)
(* in the file it holds, and whatever a step does, the fragments on the    *)
(* disk of a file with a durable name stay where they are.                 *)
(***************************************************************************)
RecordEndsAt(c, f, i) ==
  body[f][i].by = c /\ body[f][i].event = ev[c] /\ EndsLine(body[f][i])

RecordWritten ==
  \A c \in Calls : at[c] = "sync" =>
    \E i \in 1 .. Len(body[fh[c]]) : RecordEndsAt(c, fh[c], i)

\* What is on the disk stays on the disk: neither a fault nor a call removes or
\* changes a fragment that fsync has put into a file with a durable name.
DiskKeeps == \A f \in named : /\ f \in named'
                              /\ disk[f] <= disk'[f]
                              /\ \A i \in 1 .. disk[f] : body'[f][i] = body[f][i]

LEMMA NextDiskKeeps == Typed /\ FilesSound /\ [Next]_vars => DiskKeeps
<1> SUFFICES ASSUME Typed, FilesSound, [Next]_vars, NEW f \in named
             PROVE  /\ f \in named'
                    /\ disk[f] <= disk'[f]
                    /\ \A i \in 1 .. disk[f] : body'[f][i] = body[f][i]
  BY DEF DiskKeeps
<1>1. /\ f \in Files /\ disk \in [Files -> Nat] /\ body \in [Files -> Seq(Fragment)]
      /\ named \subseteq Files
  BY DEF Typed, TypeOK
<1>2. Len(body[f]) \in Nat /\ disk[f] <= Len(body[f])
  BY <1>1, LenProperties DEF FilesSound, DiskWithin
<1>3. CASE UNCHANGED <<body, disk>> /\ named \subseteq named'
  BY <1>1, <1>3
<1>4. ASSUME NEW c \in Calls, Write(c) \/ WriteRest(c), ~ UNCHANGED world
      PROVE  /\ f \in named'
             /\ disk[f] <= disk'[f]
             /\ \A i \in 1 .. disk[f] : body'[f][i] = body[f][i]
  <2>1. PICK part \in {"line", "head", "tail"} : AppendPart(c, part)
    BY <1>4 DEF Write, WriteRest
  <2>2. at[c] \in {"write", "rest"}
    BY <1>4 DEF Write, WriteRest
  <2>3. \A i \in 1 .. Len(body[f]) : body'[f][i] = body[f][i]
    BY <1>1, <2>1, <2>2, AppendPartExtends
  <2>4. UNCHANGED <<disk, named>>
    BY <2>1 DEF AppendPart
  <2> QED
    BY <1>1, <1>2, <2>3, <2>4
<1>5. ASSUME NEW c \in Calls, Sync(c), ~ UNCHANGED world
      PROVE  /\ f \in named'
             /\ disk[f] <= disk'[f]
             /\ \A i \in 1 .. disk[f] : body'[f][i] = body[f][i]
  <2>1. Flush(fh[c]) /\ fh[c] \in Files
    BY <1>5 DEF Sync, Typed, HandleOpen, Holding, Writing
  <2> QED
    BY <1>1, <1>2, <2>1 DEF Flush
<1>6. CASE PowerLoss
  BY <1>6, PowerLossKeeps
<1>7. CASE UNCHANGED vars
  BY <1>3, <1>7 DEF vars
<1>8. CASE UNCHANGED world
  BY <1>3, <1>8 DEF world
<1>9. ASSUME NEW c \in Calls,
             \/ Call(c) \/ CreateExclusive(c) \/ OpenExisting(c) \/ Chmod(c)
             \/ Stat(c) \/ Close(c)
      PROVE  UNCHANGED <<body, disk, named>>
  BY <1>9 DEF Call, Begin, CreateExclusive, AlreadyThere, OpenExisting, SecondOpenFails,
              Chmod, Stat, Close, Invalid, Fail, world
<1>10. CASE Rotate \/ Block \/ OwnerChmod \/ Kill
  BY <1>3, <1>10 DEF Rotate, Block, OwnerChmod, Kill, world
<1> QED
  BY <1>3, <1>4, <1>5, <1>6, <1>7, <1>8, <1>9, <1>10 DEF Next, Step, Environment

\* A record on the disk is there after the step, too.
LEMMA DurableKept ==
  ASSUME DiskKeeps, NEW c \in Calls, ev'[c] = ev[c], Durable(c),
         Typed, Typed'
  PROVE  Durable(c)'
<1>0. PICK f \in named : \E i \in 1 .. disk[f] : RecordEndsAt(c, f, i)
  BY DEF Durable, RecordEndsAt
<1>1. PICK i \in 1 .. disk[f] : RecordEndsAt(c, f, i)
  BY <1>0
<1>2. disk[f] \in Nat /\ disk'[f] \in Nat
  BY DEF Typed, TypeOK, DiskKeeps
<1>3. f \in named' /\ i \in 1 .. disk'[f] /\ body'[f][i] = body[f][i]
  BY <1>1, <1>2 DEF DiskKeeps
<1> QED
  BY <1>1, <1>3 DEF Durable, RecordEndsAt, EndsLine

Recorded == RecordWritten /\ AcknowledgedIsDurable

LEMMA RecordedInit == Init => Recorded
  BY DEF Init, Recorded, RecordWritten, AcknowledgedIsDurable, Acknowledged
LEMMA RecordWrittenNext ==
  Typed /\ FilesSound /\ RecordWritten /\ [Next]_vars => RecordWritten'
<1> DEFINE EndsIn(c) == \E i \in 1 .. Len(body'[fh'[c]]) :
                           /\ body'[fh'[c]][i].by = c
                           /\ body'[fh'[c]][i].event = ev'[c]
                           /\ EndsLine(body'[fh'[c]][i])
<1> SUFFICES ASSUME Typed, FilesSound, RecordWritten, [Next]_vars,
                    NEW c \in Calls, at'[c] = "sync"
             PROVE  EndsIn(c)
  BY DEF RecordWritten, RecordEndsAt
<1>0. /\ at \in [Calls -> Points] /\ fh \in [Calls -> Files \cup {NoFile}]
      /\ ev \in [Calls -> Events \cup {NoEvent}]
  BY DEF Typed, TypeOK
<1>1. CASE at[c] = "sync" /\ UNCHANGED <<body, ev, fh>>
  <2>1. PICK i \in 1 .. Len(body[fh[c]]) : RecordEndsAt(c, fh[c], i)
    BY <1>1 DEF RecordWritten
  <2> QED
    BY <1>1, <2>1 DEF RecordEndsAt
<1>2. ASSUME NEW d \in Calls, Write(d) \/ WriteRest(d), ~ UNCHANGED world
      PROVE  EndsIn(c)
  <2>1. PICK part \in {"line", "head", "tail"} :
           /\ AppendPart(d, part)
           /\ at' = [at EXCEPT ![d] = NextAfter(part)]
           /\ UNCHANGED <<fh, ev>>
    BY <1>2 DEF Write, WriteRest
  <2>2. at[d] \in {"write", "rest"}
    BY <1>2 DEF Write, WriteRest
  <2>3. CASE d = c
    <3>1. EndsLine([by |-> c, event |-> ev[c], part |-> part])
      BY <1>0, <2>1, <2>3 DEF NextAfter, EndsLine
    <3>2. /\ Len(body[fh[c]]) \in Nat
          /\ Len(body'[fh[c]]) = Len(body[fh[c]]) + 1
          /\ body'[fh[c]][Len(body[fh[c]]) + 1] = [by |-> c, event |-> ev[c], part |-> part]
      BY <2>1, <2>2, <2>3, AppendPartExtends
    <3>3. Len(body[fh[c]]) + 1 \in 1 .. Len(body'[fh[c]])
      BY <3>2
    <3> QED
      BY <2>1, <3>1, <3>2, <3>3
  <2>4. CASE d # c
    <3>1. at[c] = "sync" /\ fh[c] \in Files
      BY <1>0, <2>1, <2>4 DEF Typed, HandleOpen, Holding, Writing
    <3>2. PICK i \in 1 .. Len(body[fh[c]]) : RecordEndsAt(c, fh[c], i)
      BY <3>1 DEF RecordWritten
    <3>3. /\ Len(body[fh[c]]) \in Nat
          /\ Len(body[fh[c]]) <= Len(body'[fh[c]])
          /\ body'[fh[c]][i] = body[fh[c]][i]
      BY <2>1, <2>2, <3>1, AppendPartExtends
    <3>4. body' \in [Files -> Seq(Fragment)]
      BY <2>1, <2>2, AppendPartTyped
    <3>5. Len(body'[fh[c]]) \in Nat
      BY <3>1, <3>4, LenProperties
    <3> QED
      BY <2>1, <3>2, <3>3, <3>5 DEF RecordEndsAt, EndsLine
  <2> QED
    BY <2>3, <2>4
<1>3. CASE Kill \/ PowerLoss
  BY <1>0, <1>3 DEF Kill, PowerLoss, ProcessDies
<1>4. CASE UNCHANGED vars
  BY <1>1, <1>4 DEF vars
<1>5. ASSUME NEW d \in Calls, Call(d) \/ CreateExclusive(d)
      PROVE  EndsIn(c)
  <2>1. d # c /\ at[c] = "sync"
    BY <1>0, <1>5
    DEF Call, Begin, CreateExclusive, AlreadyThere, Invalid, Fail
  <2>2. body' = body /\ fh'[c] = fh[c] /\ ev'[c] = ev[c]
    BY <1>0, <1>5, <2>1
    DEF Call, Begin, CreateExclusive, AlreadyThere, Invalid, Fail, world
  <2>3. PICK i \in 1 .. Len(body[fh[c]]) : RecordEndsAt(c, fh[c], i)
    BY <2>1 DEF RecordWritten
  <2> QED
    BY <2>2, <2>3 DEF RecordEndsAt
<1>6. ASSUME NEW d \in Calls, OpenExisting(d) \/ Close(d)
      PROVE  EndsIn(c)
  <2>1. d # c /\ at[c] = "sync"
    BY <1>0, <1>6 DEF OpenExisting, SecondOpenFails, Invalid, Fail, Close
  <2>2. body' = body /\ fh'[c] = fh[c] /\ ev'[c] = ev[c]
    BY <1>0, <1>6, <2>1 DEF OpenExisting, SecondOpenFails, Invalid, Fail, Close, world
  <2>3. PICK i \in 1 .. Len(body[fh[c]]) : RecordEndsAt(c, fh[c], i)
    BY <2>1 DEF RecordWritten
  <2> QED
    BY <2>2, <2>3 DEF RecordEndsAt
<1>7. ASSUME NEW d \in Calls,
             \/ Chmod(d) \/ Stat(d) \/ Sync(d)
             \/ (Write(d) \/ WriteRest(d)) /\ UNCHANGED world
      PROVE  at[c] = "sync" /\ UNCHANGED <<body, ev, fh>>
  <2>1. CASE Chmod(d) \/ Stat(d) \/ Sync(d)
    BY <1>0, <2>1 DEF Chmod, Stat, Sync, Flush, Invalid, WriteFailed, Fail, world
  <2>2. CASE (Write(d) \/ WriteRest(d)) /\ UNCHANGED world
    <3>1. ~ \E part \in {"line", "head", "tail"} : AppendPart(d, part)
      <4> SUFFICES ASSUME NEW part \in {"line", "head", "tail"}, AppendPart(d, part)
                   PROVE  FALSE
        OBVIOUS
      <4>1. at[d] \in {"write", "rest"}
        BY <2>2 DEF Write, WriteRest
      <4>2. Len(body[fh[d]]) \in Nat /\ Len(body'[fh[d]]) = Len(body[fh[d]]) + 1
        BY <4>1, AppendPartExtends
      <4> QED
        BY <2>2, <4>2 DEF world
    <3> QED
      BY <1>0, <2>2, <3>1 DEF Write, WriteRest, WriteFailed, Fail, world
  <2> QED
    BY <1>7, <2>1, <2>2
<1>8. CASE Rotate \/ Block \/ OwnerChmod
  BY <1>1, <1>8 DEF Rotate, Block, OwnerChmod
<1> QED
  BY <1>1, <1>2, <1>3, <1>4, <1>5, <1>6, <1>7, <1>8 DEF Next, Step, Environment

LEMMA AcknowledgedNext ==
  ASSUME DirEntrySync, Typed, FilesSound, Recorded, [Next]_vars
  PROVE  AcknowledgedIsDurable'
<1> SUFFICES ASSUME NEW c \in Calls, Acknowledged(c)' PROVE Durable(c)'
  BY DEF AcknowledgedIsDurable
<1>0. /\ at \in [Calls -> Points] /\ fh \in [Calls -> Files \cup {NoFile}]
      /\ ev \in [Calls -> Events \cup {NoEvent}] /\ res \in [Calls -> Results]
      /\ NoEvent \notin Events
  BY AuditConstants DEF Typed, TypeOK
<1>1. CASE res'[c] = res[c] /\ ev'[c] = ev[c]
  <2>1. Durable(c)
    BY <1>1 DEF Acknowledged, Recorded, AcknowledgedIsDurable
  <2> QED
    BY <1>1, <2>1, TypedNext, NextDiskKeeps, DurableKept
<1>2. CASE Sync(c) /\ ~ UNCHANGED <<res, ev>> /\ res'[c] = "ok"
  <2>1. Flush(fh[c]) /\ UNCHANGED ev /\ at[c] = "sync" /\ fh[c] \in Files
    BY <1>0, <1>2 DEF Sync, WriteFailed, Fail, Typed, HandleOpen, Holding, Writing
  <2>2. PICK i \in 1 .. Len(body[fh[c]]) : RecordEndsAt(c, fh[c], i)
    BY <2>1 DEF Recorded, RecordWritten
  <2>3. disk'[fh[c]] = Len(body[fh[c]]) /\ fh[c] \in named' /\ body' = body
    BY <2>1 DEF Flush, Typed, TypeOK
  <2> QED
    BY <2>1, <2>2, <2>3 DEF Durable, RecordEndsAt
<1>3. ASSUME NEW d \in Calls, Call(d)
      PROVE  res'[c] = res[c] /\ ev'[c] = ev[c]
  BY <1>0, <1>3 DEF Call, Begin, Acknowledged
<1>4. ASSUME NEW d \in Calls,
             \/ CreateExclusive(d) \/ OpenExisting(d) \/ Chmod(d) \/ Write(d)
             \/ WriteRest(d) \/ Close(d)
      PROVE  res'[c] = res[c] /\ ev'[c] = ev[c]
  BY <1>0, <1>4
  DEF CreateExclusive, AlreadyThere, OpenExisting, SecondOpenFails, Chmod, Write,
      WriteRest, Close, Invalid, WriteFailed, Fail, Acknowledged
<1>5. ASSUME NEW d \in Calls, Stat(d)
      PROVE  res'[c] = res[c] /\ ev'[c] = ev[c]
  BY <1>0, <1>5 DEF Stat, Invalid, Fail, Acknowledged
<1>6. ASSUME NEW d \in Calls, Sync(d)
      PROVE  \/ res'[c] = res[c] /\ ev'[c] = ev[c]
             \/ d = c /\ ~ UNCHANGED <<res, ev>> /\ res'[c] = "ok"
  BY <1>0, <1>6 DEF Sync, WriteFailed, Fail, Acknowledged
<1>7. CASE Rotate \/ Block \/ OwnerChmod \/ Kill \/ PowerLoss \/ UNCHANGED vars
  BY <1>1, <1>7 DEF Rotate, Block, OwnerChmod, Kill, PowerLoss, ProcessDies, vars
<1> QED
  BY <1>1, <1>2, <1>3, <1>4, <1>5, <1>6, <1>7 DEF Next, Step, Environment

\* The promise of append: where fsync of a file also persists its name, a record
\* whose append was fulfilled is on the disk from then on.
THEOREM Durability == DirEntrySync /\ Spec => []AcknowledgedIsDurable
<1> SUFFICES ASSUME DirEntrySync PROVE Spec => []AcknowledgedIsDurable
  OBVIOUS
<1> DEFINE IInv == Typed /\ FilesSound /\ Recorded
<1>1. Init => IInv
  BY TypedInit, FilesSoundInit, RecordedInit
<1>2. IInv /\ [Next]_vars => IInv'
  BY TypedNext, FilesSoundNext, RecordWrittenNext, AcknowledgedNext DEF Recorded
<1>3. IInv => AcknowledgedIsDurable
  BY DEF Recorded
<1> QED
  BY <1>1, <1>2, <1>3, PTL DEF Spec

-----------------------------------------------------------------------------
(***************************************************************************)
(* Fourth layer: what a call's result says about the fragments it wrote.   *)
(* A call that has not come to its write, or that was told the destination *)
(* is invalid, has written nothing anywhere.                               *)
(***************************************************************************)
Silent(c) == \A f \in Files : \A i \in 1 .. Len(body[f]) : body[f][i].by # c

BeforeWrite == {"idle", "create", "existing", "blocked", "chmod", "stat", "write"}
Settled == {"close", "done"}

SilentBeforeWrite ==
  \A c \in Calls :
    at[c] \in BeforeWrite \/ res[c] = "AUDIT_DESTINATION_INVALID" => Silent(c)

ResultsAreLate ==
  \A c \in Calls : /\ at[c] \in Settled => res[c] # "none"
                   /\ at[c] \notin Settled \cup {"lost"} => res[c] = "none"
                   /\ res[c] = "AUDIT_WRITE_FAILED" => ev[c] \in Events

Reported == ResultsAreLate /\ SilentBeforeWrite

LEMMA ReportedInit == Init => Reported
<1> SUFFICES ASSUME Init, NEW c \in Calls
             PROVE  at[c] = "idle" /\ res[c] = "none" /\ Silent(c)
  BY DEF Reported, ResultsAreLate, SilentBeforeWrite, Settled
<1> QED
  BY DEF Init, Silent

\* Only a call that goes on from its write adds a fragment of its own to a file.
LEMMA SilentKept ==
  ASSUME Typed, FilesSound, [Next]_vars, NEW c \in Calls, Silent(c),
         at[c] \notin {"write", "rest"} \/ at'[c] \notin {"rest", "sync"}
  PROVE  Silent(c)'
<1> SUFFICES ASSUME NEW f \in Files, NEW i \in 1 .. Len(body'[f])
             PROVE  body'[f][i].by # c
  BY DEF Silent
<1>0. body \in [Files -> Seq(Fragment)] /\ Len(body[f]) \in Nat
  BY LenProperties DEF Typed, TypeOK
<1>1. CASE body' = body
  BY <1>1 DEF Silent
<1>2. ASSUME NEW d \in Calls, NEW part \in {"line", "head", "tail"},
             at[d] \in {"write", "rest"}, AppendPart(d, part),
             at' = [at EXCEPT ![d] = NextAfter(part)]
      PROVE  body'[f][i].by # c
  <2>1. d # c /\ at[d] \in {"write", "rest"}
    BY <1>2 DEF NextAfter, Typed, TypeOK
  <2>2. CASE f # fh[d]
    <3>1. body'[f] = body[f]
      BY <1>2, <2>1, <2>2, AppendPartExtends
    <3> QED
      BY <3>1 DEF Silent
  <2>3. CASE f = fh[d]
    <3>1. /\ Len(body'[f]) = Len(body[f]) + 1
          /\ \A j \in 1 .. Len(body[f]) : body'[f][j] = body[f][j]
          /\ body'[f][Len(body[f]) + 1] = [by |-> d, event |-> ev[d], part |-> part]
      BY <1>2, <2>1, <2>3, AppendPartExtends
    <3>2. CASE i = Len(body[f]) + 1
      BY <2>1, <3>1, <3>2
    <3>3. CASE i \in 1 .. Len(body[f])
      BY <3>1, <3>3 DEF Silent
    <3> QED
      BY <1>0, <3>1, <3>2, <3>3
  <2> QED
    BY <2>2, <2>3
<1>3. CASE PowerLoss
  <2>1. i \in 1 .. Len(body[f]) /\ (body'[f][i] = body[f][i] \/ Tears(f, i))
    BY <1>3, PowerLossLeaves
  <2>2. body[f][i] \in Fragment
    BY <1>0, <2>1, ElementOfSeq
  <2>3. body'[f][i].by = body[f][i].by
    BY <2>1, <2>2 DEF Tears, Fragment
  <2> QED
    BY <2>1, <2>3 DEF Silent
<1>4. ASSUME NEW d \in Calls, Write(d) \/ WriteRest(d)
      PROVE  body'[f][i].by # c
  BY <1>1, <1>2, <1>4 DEF Write, WriteRest, world
<1>5. ASSUME NEW d \in Calls,
             \/ Call(d) \/ CreateExclusive(d) \/ OpenExisting(d) \/ Chmod(d)
             \/ Stat(d) \/ Sync(d) \/ Close(d)
      PROVE  body' = body
  BY <1>5 DEF Call, Begin, CreateExclusive, AlreadyThere, OpenExisting, SecondOpenFails,
              Chmod, Stat, Sync, Flush, Close, Invalid, WriteFailed, Fail, world
<1>6. CASE Rotate \/ Block \/ OwnerChmod \/ Kill \/ UNCHANGED vars
  BY <1>1, <1>6 DEF Rotate, Block, OwnerChmod, Kill, world, vars
<1> QED
  BY <1>1, <1>3, <1>4, <1>5, <1>6 DEF Next, Step, Environment

\* What a step does to one call's place, event and result.
LEMMA ResultSteps ==
  ASSUME Typed, ResultsAreLate, [Next]_vars, NEW c \in Calls
  PROVE  \/ at'[c] = at[c] /\ ev'[c] = ev[c] /\ res'[c] = res[c]
         \/ at[c] = "idle" /\ at'[c] = "create" /\ res'[c] = "none"
         \/ /\ at[c] \in BeforeWrite \ {"idle"} /\ ev'[c] = ev[c]
            /\ \/ /\ at'[c] \in {"existing", "blocked", "chmod", "stat", "write"}
                  /\ res'[c] = res[c]
               \/ at[c] = "write" /\ at'[c] \in {"rest", "sync"} /\ res'[c] = res[c]
               \/ at'[c] \in Settled /\ res'[c] = "AUDIT_DESTINATION_INVALID"
               \/ at'[c] \in Settled /\ res'[c] = "ok"
               \/ /\ at[c] = "write" /\ at'[c] \in Settled
                  /\ res'[c] = "AUDIT_WRITE_FAILED"
         \/ /\ at[c] \in {"rest", "sync"} /\ ev'[c] = ev[c]
            /\ \/ at'[c] \in {"rest", "sync"} /\ res'[c] = res[c]
               \/ at'[c] \in Settled /\ res'[c] \in {"ok", "AUDIT_WRITE_FAILED"}
         \/ /\ at[c] = "close" /\ at'[c] = "done" /\ ev'[c] = ev[c]
            /\ \/ res'[c] = res[c]
               \/ CloseRejects(c) /\ res'[c] = "EIO"
         \/ /\ at[c] \notin {"idle", "done"} /\ at'[c] = "lost"
            /\ ev'[c] = ev[c] /\ res'[c] = res[c]
<1>0. at \in [Calls -> Points] /\ res \in [Calls -> Results]
      /\ ev \in [Calls -> Events \cup {NoEvent}]
  BY DEF Typed, TypeOK
<1> USE <1>0 DEF BeforeWrite, Settled
<1>1. ASSUME NEW d \in Calls, d # c, Call(d) \/ Step(d)
      PROVE  at'[c] = at[c] /\ ev'[c] = ev[c] /\ res'[c] = res[c]
  BY <1>1 DEF Call, Begin, Step, CreateExclusive, AlreadyThere, OpenExisting,
              SecondOpenFails, Chmod, Stat, Write, WriteRest, Sync, Close, Invalid,
              WriteFailed, Fail
<1>2. CASE Call(c)
  BY <1>2 DEF Call, Begin
<1>3. CASE CreateExclusive(c) \/ OpenExisting(c) \/ Chmod(c)
  BY <1>3 DEF CreateExclusive, AlreadyThere, OpenExisting, SecondOpenFails, Chmod,
              Invalid, Fail
<1>4. CASE Stat(c)
  BY <1>4 DEF Stat, Invalid, Fail
<1>5. CASE Write(c)
  BY <1>5 DEF Write, NextAfter, WriteFailed, Fail
<1>6. CASE WriteRest(c) \/ Sync(c)
  BY <1>6 DEF WriteRest, Sync, NextAfter, WriteFailed, Fail
<1>7. CASE Close(c)
  BY <1>7 DEF Close
<1>8. CASE Rotate \/ Block \/ OwnerChmod \/ UNCHANGED vars
  BY <1>8 DEF Rotate, Block, OwnerChmod, vars
<1>9. CASE Kill \/ PowerLoss
  BY <1>9 DEF Kill, PowerLoss, ProcessDies
<1> QED
  BY <1>1, <1>2, <1>3, <1>4, <1>5, <1>6, <1>7, <1>8, <1>9
  DEF Next, Step, Environment

LEMMA ReportedNext ==
  Typed /\ FilesSound /\ Reported /\ [Next]_vars => Reported'
<1> SUFFICES ASSUME Typed, FilesSound, Reported, [Next]_vars, Typed', NEW c \in Calls
             PROVE  /\ at'[c] \in Settled => res'[c] # "none"
                    /\ at'[c] \notin Settled \cup {"lost"} => res'[c] = "none"
                    /\ res'[c] = "AUDIT_WRITE_FAILED" => ev'[c] \in Events
                    /\ at'[c] \in BeforeWrite \/ res'[c] = "AUDIT_DESTINATION_INVALID"
                         => Silent(c)'
  BY TypedNext DEF Reported, ResultsAreLate, SilentBeforeWrite
<1>1. /\ at[c] \in Settled => res[c] # "none"
      /\ at[c] \notin Settled \cup {"lost"} => res[c] = "none"
      /\ res[c] = "AUDIT_WRITE_FAILED" => ev[c] \in Events
      /\ at[c] \in BeforeWrite \/ res[c] = "AUDIT_DESTINATION_INVALID" => Silent(c)
  BY DEF Reported, ResultsAreLate, SilentBeforeWrite
<1>2. at[c] \in {"write", "rest", "sync"} => ev[c] \in Events
  BY DEF Typed, EventAtHand, Writing
<1>3. Silent(c) /\ at'[c] \notin {"rest", "sync"} => Silent(c)'
  BY SilentKept
<1>4. ResultsAreLate
  BY DEF Reported
<1>5. /\ at'[c] \in Settled => res'[c] # "none"
      /\ at'[c] \notin Settled \cup {"lost"} => res'[c] = "none"
      /\ res'[c] = "AUDIT_WRITE_FAILED" => ev'[c] \in Events
  BY <1>1, <1>2, <1>4, ResultSteps DEF BeforeWrite, Settled
<1>6. ASSUME at'[c] \in BeforeWrite \/ res'[c] = "AUDIT_DESTINATION_INVALID"
      PROVE  Silent(c) /\ at'[c] \notin {"rest", "sync"}
  BY <1>1, <1>4, <1>5, <1>6, ResultSteps DEF BeforeWrite, Settled
<1> QED
  BY <1>3, <1>5, <1>6

\* A caller that is told its destination is invalid can rely on it that nothing
\* of its record was written anywhere.
THEOREM InvalidIsSilent == Spec => []InvalidWroteNothing
<1> DEFINE IInv == Typed /\ FilesSound /\ Reported
<1>1. Init => IInv
  BY TypedInit, FilesSoundInit, ReportedInit
<1>2. IInv /\ [Next]_vars => IInv'
  BY TypedNext, FilesSoundNext, ReportedNext
<1>3. IInv => InvalidWroteNothing
  <2> SUFFICES ASSUME IInv, NEW c \in Calls, res[c] = "AUDIT_DESTINATION_INVALID",
                      NEW f \in Files, NEW i \in DOMAIN body[f]
               PROVE  body[f][i].by # c
    BY DEF InvalidWroteNothing
  <2>1. Silent(c)
    BY DEF Reported, SilentBeforeWrite
  <2>2. i \in 1 .. Len(body[f])
    BY LenProperties DEF Typed, TypeOK
  <2> QED
    BY <2>1, <2>2 DEF Silent
<1> QED
  BY <1>1, <1>2, <1>3, PTL DEF Spec

-----------------------------------------------------------------------------
(***************************************************************************)
(* The refinement.  Every step of the writer is a step of AuditLog or      *)
(* leaves what the log sees alone: a call is asked, records come to the    *)
(* disk, a promise settles, or the process ends.                           *)
(***************************************************************************)
Stored == {c \in Calls : Durable(c)}
Strong == Typed /\ FilesSound /\ Recorded /\ Reported

LEMMA StrongNext == DirEntrySync /\ Strong /\ [Next]_vars => Strong'
  BY TypedNext, FilesSoundNext, RecordWrittenNext, AcknowledgedNext, ReportedNext
  DEF Strong, Recorded

\* A record on the disk is a record somebody wrote, before a step and after it.
WrittenIfDurable == \A c \in Calls : Durable(c) => ~Silent(c) /\ ev[c] \in Events

LEMMA DurableIsWritten == Typed /\ FilesSound => WrittenIfDurable
<1> SUFFICES ASSUME Typed, FilesSound, NEW c \in Calls, Durable(c)
             PROVE  ~Silent(c) /\ ev[c] \in Events
  BY DEF WrittenIfDurable
<1>0. PICK f \in named : \E i \in 1 .. disk[f] : RecordEndsAt(c, f, i)
  BY DEF Durable, RecordEndsAt
<1>1. PICK i \in 1 .. disk[f] : RecordEndsAt(c, f, i)
  BY <1>0
<1>2. /\ f \in Files /\ disk[f] \in Nat /\ disk[f] <= Len(body[f])
      /\ body[f] \in Seq(Fragment) /\ Len(body[f]) \in Nat
  BY LenProperties DEF Typed, TypeOK, FilesSound, DiskWithin
<1>3. i \in 1 .. Len(body[f])
  BY <1>2
<1>4. body[f][i] \in Fragment
  BY <1>2, <1>3, ElementOfSeq
<1>5. body[f][i].event \in Events /\ body[f][i].by = c /\ body[f][i].event = ev[c]
  BY <1>1, <1>4 DEF Fragment, RecordEndsAt
<1> QED
  BY <1>2, <1>3, <1>5 DEF Silent

LEMMA DurableIsWrittenNext == Typed' /\ FilesSound' => WrittenIfDurable'
  BY DurableIsWritten, PTL

\* What a caller has been told, by the place of its call.
LEMMA ToldByPlace ==
  ASSUME NEW c \in Calls
  PROVE  /\ at[c] = "idle" => Told(c) = "none"
         /\ at[c] = "done" => Told(c) = res[c]
         /\ at[c] = "lost" => Told(c) = "lost"
         /\ at[c] \notin {"idle", "done", "lost"} => Told(c) = "pending"
  BY DEF Told

\* The records on the disk only grow, by those of calls that may have written.
LEMMA StoredGrows ==
  ASSUME DirEntrySync, Strong, [Next]_vars
  PROVE  /\ Stored \subseteq Stored'
         /\ \A c \in Stored' \ Stored :
              /\ ev[c] \in Events
              /\ Told(c) \in {"pending", "AUDIT_WRITE_FAILED", "lost"}
<1>0. /\ Strong' /\ Typed /\ FilesSound /\ Typed' /\ FilesSound' /\ DiskKeeps
      /\ ResultsAreLate
  BY StrongNext, NextDiskKeeps DEF Strong, Reported
<1>1. ASSUME NEW c \in Stored PROVE c \in Stored'
  <2>1. c \in Calls /\ Durable(c)
    BY DEF Stored
  <2>2. at[c] \notin BeforeWrite
    BY <1>0, <2>1, DurableIsWritten
    DEF WrittenIfDurable, Strong, Reported, SilentBeforeWrite
  <2>3. ev'[c] = ev[c]
    BY <1>0, <2>1, <2>2, ResultSteps DEF BeforeWrite
  <2>4. Durable(c)'
    BY <1>0, <2>1, <2>3, DurableKept
  <2> QED
    BY <2>1, <2>4 DEF Stored
<1>2. ASSUME NEW c \in Stored', c \notin Stored
      PROVE  /\ ev[c] \in Events
             /\ Told(c) \in {"pending", "AUDIT_WRITE_FAILED", "lost"}
  <2>1. c \in Calls /\ Durable(c)' /\ ~Durable(c)
    BY <1>2 DEF Stored
  <2>2. ~Silent(c)' /\ ev'[c] \in Events
    BY <1>0, <2>1, DurableIsWrittenNext DEF WrittenIfDurable
  <2>3. ~Silent(c) \/ at[c] \in {"write", "rest"}
    BY <1>0, <2>1, <2>2, SilentKept
  <2>4. at[c] # "idle"
    BY <2>1, <2>3 DEF Strong, Reported, SilentBeforeWrite, BeforeWrite
  <2>5. ev[c] \in Events
    BY <1>0, <2>1, <2>2, <2>4, ResultSteps DEF BeforeWrite
  <2>6. at[c] \notin {"idle", "done", "lost"} => Told(c) = "pending"
    BY <2>1, ToldByPlace
  <2>7. ASSUME at[c] = "done" PROVE res[c] = "AUDIT_WRITE_FAILED"
    <3>1. res[c] \in Results /\ res[c] # "none"
      BY <1>0, <2>1, <2>7 DEF Typed, TypeOK, ResultsAreLate, Settled
    <3>2. res[c] # "AUDIT_DESTINATION_INVALID"
      BY <2>1, <2>3, <2>7 DEF Strong, Reported, SilentBeforeWrite
    <3>3. res[c] # "ok"
      BY <2>1, <2>5, AuditConstants
      DEF Strong, Recorded, AcknowledgedIsDurable, Acknowledged
    <3>4. res[c] # "EIO"
      BY <1>0, <2>1, <2>5, AuditConstants DEF Typed, TypeOK
    <3> QED
      BY <3>1, <3>2, <3>3, <3>4 DEF Results
  <2> QED
    BY <2>1, <2>4, <2>5, <2>6, <2>7, ToldByPlace
<1> QED
  BY <1>1, <1>2

\* A step is a step of the log.
LEMMA StepImplements ==
  ASSUME DirEntrySync, Strong, [Next]_vars
  PROVE  [Log!LogNext]_(Log!logVars)
<1> DEFINE told == [c \in Calls |-> Told(c)]
<1>0. /\ Strong' /\ Typed /\ FilesSound /\ Typed' /\ FilesSound' /\ ResultsAreLate
      /\ at \in [Calls -> Points] /\ res \in [Calls -> Results]
      /\ ev \in [Calls -> Events \cup {NoEvent}]
  BY StrongNext DEF Strong, Reported, Typed, TypeOK
<1>1. Log!Grows
  <2>1. /\ Stored \subseteq Stored'
        /\ \A c \in Stored' \ Stored :
             /\ ev[c] \in Events
             /\ Told(c) \in {"pending", "AUDIT_WRITE_FAILED", "lost"}
    BY StoredGrows
  <2>2. Stored' \ Stored \subseteq Log!MayAppear
    BY <2>1, AuditConstants DEF Log!MayAppear, Stored
  <2> QED
    BY <2>1, <2>2 DEF Log!Grows, Stored
<1>2. CASE UNCHANGED <<ev, told>>
  BY <1>1, <1>2 DEF Log!LogNext, Log!Appear
<1>3. ASSUME NEW c \in Calls, Call(c)
      PROVE  \E e \in Events \cup {NoEvent} : Log!Ask(c, e)
  <2>1. PICK e \in Events \cup {NoEvent} : Begin(c, e)
    BY <1>3 DEF Call
  <2>2. at[c] = "idle" /\ at' = [at EXCEPT ![c] = "create"] /\ ev' = [ev EXCEPT ![c] = e]
        /\ \A d \in Calls \ {c} : res'[d] = res[d]
    BY <1>0, <1>3, <2>1 DEF Call, Begin
  <2>3. told' = [told EXCEPT ![c] = "pending"] /\ told[c] = "none"
    BY <1>0, <2>2 DEF Told
  <2>4. Stored' = Stored
    <3>1. Stored' \subseteq Stored \cup {c}
      BY <1>0, <1>3, <2>1, <2>2 DEF Stored, Durable, EndsLine, Begin, world
    <3>2. Silent(c)
      BY <2>2 DEF Strong, Reported, SilentBeforeWrite, BeforeWrite
    <3>3. Silent(c)'
      BY <1>0, <2>2, <3>2, SilentKept
    <3>4. c \notin Stored'
      BY <1>0, <3>3, DurableIsWrittenNext DEF WrittenIfDurable, Stored
    <3> QED
      BY <3>1, <3>4, StoredGrows
  <2> QED
    BY <2>2, <2>3, <2>4 DEF Log!Ask, Stored
<1>4. ASSUME NEW c \in Calls, at[c] \notin {"idle", "done", "lost"},
             at' = [at EXCEPT ![c] = "done"], ev' = ev, UNCHANGED world,
             \A d \in Calls \ {c} : res'[d] = res[d]
      PROVE  \E code \in Results \ {"none"} : Log!Report(c, code)
  <2>1. told[c] = "pending" /\ told' = [told EXCEPT ![c] = res'[c]]
    BY <1>0, <1>4 DEF Told
  <2>2. Stored' = Stored
    BY <1>4 DEF Stored, Durable, EndsLine, world
  <2>3. res'[c] \in Results \ {"none"}
    BY <1>0, <1>4 DEF Typed, TypeOK, Strong, Reported, ResultsAreLate, Settled
  <2>4. res'[c] = "ok" => ev[c] = NoEvent \/ c \in Stored
    BY <1>0, <1>4, <2>2
    DEF Strong, Recorded, AcknowledgedIsDurable, Acknowledged, Stored
  <2>5. res'[c] = "AUDIT_DESTINATION_INVALID" => c \notin Stored
    BY <1>0, <2>2, DurableIsWrittenNext
    DEF Strong, Reported, SilentBeforeWrite, WrittenIfDurable, Stored
  <2>6. res'[c] = "AUDIT_WRITE_FAILED" => ev[c] # NoEvent
    BY <1>0, <1>4, AuditConstants DEF Strong, Reported, ResultsAreLate
  <2>7. res'[c] = "EIO" => ev[c] = NoEvent
    BY <1>0, <1>4 DEF Typed, TypeOK
  <2>8. Log!Report(c, res'[c])
    BY <1>4, <2>1, <2>2, <2>4, <2>5, <2>6, <2>7 DEF Log!Report, Stored
  <2> QED
    BY <2>3, <2>8 DEF Results
<1>5. CASE Kill \/ PowerLoss
  <2>1. ProcessDies
    BY <1>5 DEF Kill, PowerLoss
  <2>2. told' = [c \in Calls |-> IF told[c] = "pending" THEN "lost" ELSE told[c]]
    BY <1>0, <2>1 DEF Told, ProcessDies, Results
  <2> QED
    BY <1>1, <2>1, <2>2 DEF Log!LogNext, Log!Crash, ProcessDies
<1>6. ASSUME NEW c \in Calls, Step(c)
      PROVE  \/ UNCHANGED <<ev, told>>
             \/ /\ at[c] \notin {"idle", "done", "lost"}
                /\ at' = [at EXCEPT ![c] = "done"] /\ ev' = ev /\ UNCHANGED world
                /\ \A d \in Calls \ {c} : res'[d] = res[d]
  <2>1. ASSUME at[c] \notin {"idle", "done", "lost"}, ev' = ev,
               NEW p \in Points \ {"idle", "done", "lost"}, at' = [at EXCEPT ![c] = p],
               \A d \in Calls \ {c} : res'[d] = res[d]
        PROVE  UNCHANGED <<ev, told>>
    BY <1>0, <2>1 DEF Told
  <2>2. ev' = ev /\ at[c] \notin {"idle", "done", "lost"}
        /\ \A d \in Calls \ {c} : res'[d] = res[d]
    BY <1>0, <1>6
    DEF Step, CreateExclusive, AlreadyThere, OpenExisting, SecondOpenFails, Chmod, Stat,
        Write, WriteRest, Sync, Close, Invalid, WriteFailed, Fail
  <2>3. \/ \E p \in Points \ {"idle", "done", "lost"} : at' = [at EXCEPT ![c] = p]
        \/ at' = [at EXCEPT ![c] = "done"] /\ UNCHANGED world
    BY <1>6
    DEF Step, CreateExclusive, AlreadyThere, OpenExisting, SecondOpenFails, Chmod, Stat,
        Write, WriteRest, Sync, Close, Invalid, WriteFailed, Fail, NextAfter, Points
  <2> QED
    BY <2>1, <2>2, <2>3
<1>7. CASE Rotate \/ Block \/ OwnerChmod \/ UNCHANGED vars
  BY <1>2, <1>7 DEF Rotate, Block, OwnerChmod, vars, Told
<1>8. ASSUME NEW c \in Calls, Call(c) \/ Step(c)
      PROVE  [Log!LogNext]_(Log!logVars)
  BY <1>2, <1>3, <1>4, <1>6, <1>8 DEF Log!LogNext, Results
<1> QED
  BY <1>5, <1>7, <1>8, <1>2 DEF Next, Environment, Log!LogNext

\* Where fsync makes the directory entry durable, the writer implements the log:
\* what append and validateAuditDestination report is true for good, the raw
\* error of a validation included, which says nothing.
THEOREM Refinement == DirEntrySync /\ Spec => ImplementsLog
<1> SUFFICES ASSUME DirEntrySync PROVE Spec => ImplementsLog
  OBVIOUS
<1>1. Init => Strong
  BY TypedInit, FilesSoundInit, RecordedInit, ReportedInit DEF Strong
<1>2. Strong /\ [Next]_vars => Strong'
  BY StrongNext
<1>3. Init => Log!LogInit
  BY DEF Init, Log!LogInit, Durable, Told
<1>4. Strong /\ [Next]_vars => [Log!LogNext]_(Log!logVars)
  BY StepImplements
<1> QED
  BY <1>1, <1>2, <1>3, <1>4, PTL DEF Spec, ImplementsLog, Log!LogSpec

-----------------------------------------------------------------------------
(***************************************************************************)
(* Fragments.  What stands in a file after a step stood there before, is   *)
(* what a power cut left of a line, or has just been added at the end.     *)
(***************************************************************************)
Written(c, part) == [by |-> c, event |-> ev[c], part |-> part]

Adds(c, f, part) == /\ \/ at[c] = "write" /\ part = "line"
                       \/ at[c] = "write" /\ part = "head" /\ "short" \in setting.faults
                       \/ at[c] = "rest" /\ part = "tail"
                    /\ fh[c] = f
                    /\ at' = [at EXCEPT ![c] = NextAfter(part)]
                    /\ UNCHANGED <<setting, mode, ev, res, fh>>

LEMMA FragmentStep ==
  ASSUME Typed, FilesSound, [Next]_vars, NEW f \in Files, NEW i \in 1 .. Len(body'[f])
  PROVE  \/ i \in 1 .. Len(body[f]) /\ (body'[f][i] = body[f][i] \/ Tears(f, i))
         \/ \E c \in Calls, part \in {"line", "head", "tail"} :
               /\ Adds(c, f, part) /\ i = Len(body[f]) + 1
               /\ body'[f][i] = Written(c, part)
<1>0. body \in [Files -> Seq(Fragment)] /\ Len(body[f]) \in Nat
  BY LenProperties DEF Typed, TypeOK
<1>1. CASE body' = body
  BY <1>1
<1>2. ASSUME NEW c \in Calls, NEW part \in {"line", "head", "tail"},
             at[c] \in {"write", "rest"}, AppendPart(c, part), fh[c] = f => Adds(c, f, part)
      PROVE  \/ i \in 1 .. Len(body[f]) /\ body'[f][i] = body[f][i]
             \/ /\ Adds(c, f, part) /\ i = Len(body[f]) + 1
                /\ body'[f][i] = Written(c, part)
  <2>1. CASE f # fh[c]
    <3>1. body'[f] = body[f]
      BY <1>2, <2>1, AppendPartExtends
    <3> QED
      BY <3>1
  <2>2. CASE f = fh[c]
    <3>1. /\ Len(body'[f]) = Len(body[f]) + 1
          /\ \A j \in 1 .. Len(body[f]) : body'[f][j] = body[f][j]
          /\ body'[f][Len(body[f]) + 1] = Written(c, part)
      BY <1>2, <2>2, AppendPartExtends DEF Written
    <3> QED
      BY <1>0, <1>2, <2>2, <3>1
  <2> QED
    BY <2>1, <2>2
<1>3. CASE PowerLoss
  BY <1>3, PowerLossLeaves
<1>4. ASSUME NEW c \in Calls, Write(c) \/ WriteRest(c), Next
      PROVE  \/ body' = body
             \/ \E part \in {"line", "head", "tail"} :
                   /\ at[c] \in {"write", "rest"} /\ AppendPart(c, part)
                   /\ fh[c] = f => Adds(c, f, part)
  <2>1. setting' = setting
    BY <1>4 DEF Next
  <2>2. ASSUME NEW part \in {"line", "head", "tail"}, AppendPart(c, part),
               \/ at[c] = "write" /\ part = "line"
               \/ at[c] = "write" /\ part = "head" /\ "short" \in setting.faults
               \/ at[c] = "rest" /\ part = "tail",
               at' = [at EXCEPT ![c] = NextAfter(part)], UNCHANGED <<fh, made, ev, res>>
        PROVE  /\ at[c] \in {"write", "rest"} /\ AppendPart(c, part)
               /\ fh[c] = f => Adds(c, f, part)
    <3>1. mode' = mode
      BY <2>2 DEF AppendPart
    <3> QED
      BY <2>1, <2>2, <3>1 DEF Adds
  <2>3. CASE (WriteFailed(c) \/ UNCHANGED body) /\ UNCHANGED world
    BY <2>3 DEF world
  <2>4. CASE Write(c)
    <3>1. CASE AppendPart(c, "line") /\ at' = [at EXCEPT ![c] = NextAfter("line")]
               /\ UNCHANGED <<fh, made, ev, res>>
      BY <2>2, <2>4, <3>1 DEF Write
    <3>2. CASE /\ "short" \in setting.faults
               /\ AppendPart(c, "head") /\ at' = [at EXCEPT ![c] = NextAfter("head")]
               /\ UNCHANGED <<fh, made, ev, res>>
      BY <2>2, <2>4, <3>2 DEF Write
    <3> QED
      BY <2>3, <2>4, <3>1, <3>2 DEF Write
  <2>5. CASE WriteRest(c)
    <3>1. CASE AppendPart(c, "tail") /\ at' = [at EXCEPT ![c] = NextAfter("tail")]
               /\ UNCHANGED <<fh, made, ev, res>>
      BY <2>2, <2>5, <3>1 DEF WriteRest
    <3> QED
      BY <2>3, <2>5, <3>1 DEF WriteRest
  <2> QED
    BY <1>4, <2>4, <2>5
<1>5. ASSUME NEW c \in Calls,
             \/ Call(c) \/ CreateExclusive(c) \/ OpenExisting(c) \/ Chmod(c)
             \/ Stat(c) \/ Sync(c) \/ Close(c)
      PROVE  body' = body
  BY <1>5 DEF Call, Begin, CreateExclusive, AlreadyThere, OpenExisting, SecondOpenFails,
              Chmod, Stat, Sync, Flush, Close, Invalid, WriteFailed, Fail, world
<1>6. CASE Rotate \/ Block \/ OwnerChmod \/ Kill \/ UNCHANGED vars
  BY <1>1, <1>6 DEF Rotate, Block, OwnerChmod, Kill, world, vars
<1> QED
  BY <1>1, <1>2, <1>3, <1>4, <1>5, <1>6 DEF Next, Step, Environment

-----------------------------------------------------------------------------
(***************************************************************************)
(* Places and modes: what a step does to one call's place and handle, and  *)
(* to one file's mode.                                                     *)
(***************************************************************************)
LEMMA PlaceStep ==
  ASSUME Typed, [Next]_vars, NEW c \in Calls
  PROVE  \/ at'[c] = at[c] /\ (at[c] \in {"idle", "done"} \/ fh'[c] = fh[c])
         \/ at[c] = "idle" /\ at'[c] = "create" /\ fh'[c] = fh[c]
         \/ at[c] = "create" /\ at'[c] = "existing" /\ fh'[c] = fh[c]
         \/ at[c] = "create" /\ at'[c] = "chmod"
         \/ at[c] = "existing" /\ at'[c] = "stat"
         \/ at[c] = "existing" /\ at'[c] = "blocked"
         \/ /\ at[c] = "chmod" /\ at'[c] = "stat" /\ fh'[c] = fh[c]
            /\ mode'[fh[c]] = "0600"
         \/ /\ at[c] = "stat" /\ at'[c] \in {"write", "close"} /\ fh'[c] = fh[c]
            /\ mode[fh[c]] = "0600" /\ mode' = mode
         \/ /\ at[c] \in Writing /\ at'[c] \in {"rest", "sync"} /\ fh'[c] = fh[c]
            /\ at'[c] = "rest" => at[c] = "write" /\ "short" \in setting.faults
         \/ at'[c] \in {"close", "done"}
         \/ at'[c] = "lost" /\ ~(setting.faults \cap {"kill", "power"} = {})
<1>0. /\ at \in [Calls -> Points] /\ fh \in [Calls -> Files \cup {NoFile}]
      /\ mode \in [Files -> Modes]
      /\ at[c] \in Holding => fh[c] \in Files
  BY DEF Typed, TypeOK, HandleOpen
<1> USE <1>0 DEF Writing, Holding
<1>1. ASSUME NEW d \in Calls, d # c, Call(d) \/ Step(d)
      PROVE  at'[c] = at[c] /\ fh'[c] = fh[c]
  BY <1>1 DEF Call, Begin, Step, CreateExclusive, AlreadyThere, OpenExisting,
              SecondOpenFails, Chmod, Stat, Write, WriteRest, Sync, Close, Invalid,
              WriteFailed, Fail
<1>2. CASE Call(c)
  BY <1>2 DEF Call, Begin
<1>3. CASE CreateExclusive(c) \/ OpenExisting(c)
  BY <1>3 DEF CreateExclusive, AlreadyThere, OpenExisting, SecondOpenFails, Invalid, Fail
<1>4. CASE Chmod(c)
  BY <1>4 DEF Chmod, Invalid, Fail
<1>5. CASE Stat(c)
  BY <1>5 DEF Stat, ModeAccepted, Invalid, Fail, world
<1>6. CASE Write(c)
  BY <1>6 DEF Write, NextAfter, WriteFailed, Fail
<1>7. CASE WriteRest(c) \/ Sync(c) \/ Close(c)
  BY <1>7 DEF WriteRest, Sync, Close, NextAfter, WriteFailed, Fail
<1>8. CASE Rotate \/ Block \/ OwnerChmod \/ UNCHANGED vars
  BY <1>8 DEF Rotate, Block, OwnerChmod, vars
<1>9. CASE Kill \/ PowerLoss
  <2>1. setting.faults \cap {"kill", "power"} # {} /\ ProcessDies
    BY <1>9 DEF Kill, PowerLoss
  <2> QED
    BY <2>1 DEF ProcessDies
<1> QED
  BY <1>1, <1>2, <1>3, <1>4, <1>5, <1>6, <1>7, <1>8, <1>9
  DEF Next, Step, Environment

LEMMA ModeStep ==
  ASSUME Typed, [Next]_vars, NEW f \in Files
  PROVE  \/ mode'[f] = mode[f]
         \/ /\ mode[f] = "none" /\ mode'[f] = setting.created
            /\ \E c \in Calls : /\ at[c] = "create" /\ dest = Absent
                               /\ at'[c] = "chmod" /\ fh'[c] = f
         \/ mode[f] = "none" /\ mode'[f] \in OwnerFiles /\ "rotate" \in setting.faults
         \/ /\ mode'[f] = "0600"
            /\ \E c \in Calls : at[c] = "chmod" /\ fh[c] = f
         \/ mode'[f] \in OwnerModes /\ "chmod" \in setting.faults
         \/ mode'[f] = "none" /\ "power" \in setting.faults
<1>0. /\ at \in [Calls -> Points] /\ fh \in [Calls -> Files \cup {NoFile}]
      /\ mode \in [Files -> Modes]
  BY DEF Typed, TypeOK
<1>1. ASSUME NEW c \in Calls, CreateExclusive(c), mode'[f] # mode[f]
      PROVE  /\ mode[f] = "none" /\ mode'[f] = setting.created
             /\ at[c] = "create" /\ dest = Absent /\ at'[c] = "chmod" /\ fh'[c] = f
  BY <1>0, <1>1 DEF CreateExclusive, AlreadyThere, Invalid, Fail, world
<1>2. ASSUME NEW c \in Calls, Chmod(c)
      PROVE  \/ mode'[f] = mode[f]
             \/ mode'[f] = "0600" /\ at[c] = "chmod" /\ fh[c] = f
  <2>1. CASE mode' = [mode EXCEPT ![fh[c]] = "0600"]
    BY <1>0, <1>2, <2>1 DEF Chmod
  <2> QED
    BY <1>2, <2>1 DEF Chmod, world
<1>3. ASSUME NEW c \in Calls,
             \/ Call(c) \/ OpenExisting(c) \/ Stat(c) \/ Write(c)
             \/ WriteRest(c) \/ Sync(c) \/ Close(c)
      PROVE  mode'[f] = mode[f]
  BY <1>3 DEF Call, Begin, OpenExisting, SecondOpenFails, Stat, Write, WriteRest, AppendPart,
              Sync, Flush, Close, Invalid, WriteFailed, Fail, world
<1>4. CASE Rotate
  BY <1>0, <1>4 DEF Rotate
<1>5. CASE OwnerChmod
  BY <1>0, <1>5 DEF OwnerChmod
<1>6. CASE PowerLoss
  BY <1>0, <1>6 DEF PowerLoss
<1>7. CASE Block \/ Kill \/ UNCHANGED vars
  BY <1>7 DEF Block, Kill, world, vars
<1> QED
  BY <1>1, <1>2, <1>3, <1>4, <1>5, <1>6, <1>7 DEF Next, Step, Environment

-----------------------------------------------------------------------------
(***************************************************************************)
(* Whole lines.  Without short writes no call is ever inside its record,   *)
(* and without power loss none is torn later: every fragment is a line, and *)
(* every line starts where one ended.                                      *)
(***************************************************************************)
OnlyLines ==
  setting.faults \cap {"short", "power"} = {} =>
    /\ \A c \in Calls : at[c] # "rest"
    /\ \A f \in Files : \A i \in 1 .. Len(body[f]) : body[f][i].part = "line"

LEMMA OnlyLinesInit == Init => OnlyLines
<1>1. Len(<<>>) = 0
  OBVIOUS
<1> QED
  BY <1>1 DEF Init, OnlyLines

LEMMA OnlyLinesNext == Typed /\ FilesSound /\ OnlyLines /\ [Next]_vars => OnlyLines'
<1> SUFFICES ASSUME Typed, FilesSound, OnlyLines, [Next]_vars,
                    setting'.faults \cap {"short", "power"} = {}
             PROVE  /\ \A c \in Calls : at'[c] # "rest"
                    /\ \A f \in Files : \A i \in 1 .. Len(body'[f]) :
                          body'[f][i].part = "line"
  BY DEF OnlyLines
<1>1. setting' = setting
  BY DEF Next, vars
<1>2. /\ \A c \in Calls : at[c] # "rest"
      /\ \A f \in Files : \A i \in 1 .. Len(body[f]) : body[f][i].part = "line"
  BY <1>1 DEF OnlyLines
<1>3. ASSUME NEW c \in Calls PROVE at'[c] # "rest"
  BY <1>1, <1>2, PlaceStep
<1>4. ASSUME NEW f \in Files, NEW i \in 1 .. Len(body'[f])
      PROVE  body'[f][i].part = "line"
  <2>1. CASE i \in 1 .. Len(body[f]) /\ body'[f][i] = body[f][i]
    BY <1>2, <2>1
  <2>2. ASSUME NEW c \in Calls, NEW part \in {"line", "head", "tail"},
               Adds(c, f, part), body'[f][i] = Written(c, part)
        PROVE  body'[f][i].part = "line"
    BY <1>1, <1>2, <2>2 DEF Adds, Written
  <2>3. ~Tears(f, i)
    BY <1>1 DEF Tears
  <2> QED
    BY <2>1, <2>2, <2>3, FragmentStep
<1> QED
  BY <1>3, <1>4

\* Where write(2) takes whole lines and the host keeps its power, the record of
\* every fulfilled append can be parsed: no other fault, rotation or call leaves
\* bytes in front of it.
THEOREM WholeLinesAreParsed == DirEntrySync /\ Spec => []WholeLinesStayIntact
<1> SUFFICES ASSUME DirEntrySync PROVE Spec => []WholeLinesStayIntact
  OBVIOUS
<1> DEFINE IInv == Typed /\ FilesSound /\ Recorded /\ OnlyLines
<1>1. Init => IInv
  BY TypedInit, FilesSoundInit, RecordedInit, OnlyLinesInit
<1>2. IInv /\ [Next]_vars => IInv'
  BY TypedNext, FilesSoundNext, RecordWrittenNext, AcknowledgedNext, OnlyLinesNext
  DEF Recorded
<1>3. IInv => WholeLinesStayIntact
  <2> SUFFICES ASSUME IInv, setting.faults \cap {"short", "power"} = {},
                      NEW c \in Calls, Acknowledged(c)
               PROVE  Intact(c)
    BY DEF WholeLinesStayIntact, AcknowledgedIsIntact
  <2>0. PICK f \in named : \E i \in 1 .. disk[f] : RecordEndsAt(c, f, i)
    BY DEF Recorded, AcknowledgedIsDurable, Durable, RecordEndsAt
  <2>1. PICK i \in 1 .. disk[f] : RecordEndsAt(c, f, i)
    BY <2>0
  <2>2. /\ f \in Files /\ disk[f] \in Nat /\ disk[f] <= Len(body[f])
        /\ Len(body[f]) \in Nat /\ DOMAIN body[f] = 1 .. Len(body[f])
    BY LenProperties DEF Typed, TypeOK, FilesSound, DiskWithin
  <2>3. i \in DOMAIN body[f] /\ (i # 1 => i - 1 \in 1 .. Len(body[f]))
    BY <2>2
  <2>4. body[f][i].part = "line" /\ StartsLine(f, i)
    BY <2>2, <2>3 DEF OnlyLines, StartsLine, EndsLine
  <2> QED
    BY <2>1, <2>2, <2>3, <2>4 DEF Intact, RecordEndsAt
<1> QED
  BY <1>1, <1>2, <1>3, PTL DEF Spec
-----------------------------------------------------------------------------
(***************************************************************************)
(* Privacy.  fstat saw mode 0600 on the very file a writing call holds     *)
(* open; without OwnerChmod nothing takes a born file away from that mode. *)
(***************************************************************************)
Private ==
  "chmod" \notin setting.faults =>
    /\ \A f \in Files : body[f] # <<>> => mode[f] = "0600"
    /\ \A c \in Calls : at[c] \in Writing => mode[fh[c]] = "0600"

LEMMA PrivateInit == Init => Private
  BY DEF Init, Private, Writing

LEMMA PrivateNext ==
  Typed /\ FilesSound /\ Private /\ [Next]_vars => Private'
<1> SUFFICES ASSUME Typed, FilesSound, Private, [Next]_vars,
                    "chmod" \notin setting'.faults
             PROVE  /\ \A f \in Files : body'[f] # <<>> => mode'[f] = "0600"
                    /\ \A c \in Calls : at'[c] \in Writing => mode'[fh'[c]] = "0600"
  BY DEF Private
<1>1. setting' = setting
  BY DEF Next, vars
<1>2. /\ \A f \in Files : body[f] # <<>> => mode[f] = "0600"
      /\ \A c \in Calls : at[c] \in Writing => mode[fh[c]] = "0600"
  BY <1>1 DEF Private
<1>3. /\ Typed' /\ FilesSound'
      /\ \A c \in Calls : at[c] \in Holding => fh[c] \in Files
      /\ \A c \in Calls : fh[c] \in Files => mode[fh[c]] # "none"
  BY TypedNext, FilesSoundNext DEF Typed, HandleOpen, FilesSound, OpenIsBorn
\* A file of mode 0600 keeps it, unless its name was not on the disk.
<1>4. ASSUME NEW f \in Files, mode[f] = "0600"
      PROVE  mode'[f] \in {"0600", "none"}
  BY <1>1, <1>4, ModeStep
<1>5. ASSUME NEW f \in Files, body'[f] # <<>> PROVE mode'[f] = "0600"
  <2>1. mode'[f] # "none"
    BY <1>3, <1>5 DEF FilesSound, UnbornIsEmpty
  <2>2. 1 \in 1 .. Len(body'[f])
    <3>1. body'[f] \in Seq(Fragment)
      BY <1>3 DEF Typed, TypeOK
    <3> QED
      BY <1>5, <3>1, EmptySeq, LenProperties
  <2>3. CASE 1 \in 1 .. Len(body[f])
    <3>1. body[f] # <<>>
      BY <2>3, EmptySeq
    <3> QED
      BY <1>2, <1>4, <2>1, <3>1
  <2>4. ASSUME NEW c \in Calls, NEW part \in {"line", "head", "tail"}, Adds(c, f, part)
        PROVE  mode'[f] = "0600"
    BY <1>2, <2>4 DEF Adds, Writing
  <2> QED
    BY <2>2, <2>3, <2>4, FragmentStep
<1>6. ASSUME NEW c \in Calls, at'[c] \in Writing PROVE mode'[fh'[c]] = "0600"
  <2>1. /\ fh'[c] = fh[c] /\ mode[fh[c]] = "0600"
        /\ at[c] \in Holding
    BY <1>2, <1>6, PlaceStep DEF Writing, Holding
  <2>2. fh[c] \in Files /\ mode'[fh[c]] # "none"
    BY <1>3, <1>6, <2>1 DEF FilesSound, OpenIsBorn
  <2> QED
    BY <1>4, <2>1, <2>2
<1> QED
  BY <1>5, <1>6

\* As long as the owner changes no modes, records are only in files of mode 0600,
\* whatever the path names between a call's open, its fstat and its write.
THEOREM RecordsArePrivate == Spec => []RecordsStayPrivate
<1> DEFINE IInv == Typed /\ FilesSound /\ Private
<1>1. Init => IInv
  BY TypedInit, FilesSoundInit, PrivateInit
<1>2. IInv /\ [Next]_vars => IInv'
  BY TypedNext, FilesSoundNext, PrivateNext
<1>3. IInv => RecordsStayPrivate
  BY DEF Private, RecordsStayPrivate
<1> QED
  BY <1>1, <1>2, <1>3, PTL DEF Spec

-----------------------------------------------------------------------------
(***************************************************************************)
(* The umask.  A file with the mode a restrictive umask gave it is open at *)
(* a call that is about to change that mode.                               *)
(***************************************************************************)
Uncut == setting.faults \cap {"io", "kill", "power"} = {}

MaskedIsAtChmod ==
  Uncut => \A f \in Files : mode[f] = "masked" =>
             \E c \in Calls : at[c] = "chmod" /\ fh[c] = f

LEMMA MaskedInit == Init => MaskedIsAtChmod
  BY DEF Init, MaskedIsAtChmod, OwnerModes, OwnerFiles

LEMMA MaskedNext ==
  Typed /\ MaskedIsAtChmod /\ [Next]_vars => MaskedIsAtChmod'
<1> SUFFICES ASSUME Typed, MaskedIsAtChmod, [Next]_vars, Uncut',
                    NEW f \in Files, mode'[f] = "masked"
             PROVE  \E c \in Calls : at'[c] = "chmod" /\ fh'[c] = f
  BY DEF MaskedIsAtChmod
<1>1. setting' = setting /\ Uncut
  BY DEF Next, vars, Uncut
<1>2. CASE mode'[f] # mode[f]
  BY <1>2, ModeStep DEF OwnerModes, OwnerFiles
<1>3. CASE mode'[f] = mode[f]
  <2>1. PICK c \in Calls : at[c] = "chmod" /\ fh[c] = f
    BY <1>1, <1>3 DEF MaskedIsAtChmod
  <2>2. at'[c] \notin {"close", "done"}
    <3>1. ASSUME NEW d \in Calls, d # c, Call(d) \/ Step(d) PROVE at'[c] = at[c]
      BY <3>1 DEF Typed, TypeOK, Call, Begin, Step, CreateExclusive, AlreadyThere,
                  OpenExisting, SecondOpenFails, Chmod, Stat, Write, WriteRest, Sync,
                  Close, Invalid, WriteFailed, Fail
    <3>2. ASSUME Call(c) \/ Step(c) PROVE at'[c] = "stat"
      BY <1>1, <2>1, <3>2
      DEF Typed, TypeOK, Uncut, Call, Step, CreateExclusive, OpenExisting, Chmod, Stat,
          Write, WriteRest, Sync, Close
    <3>3. CASE Environment \/ UNCHANGED vars
      BY <1>1, <2>1, <3>3
      DEF Uncut, Environment, Rotate, Block, OwnerChmod, Kill, PowerLoss, vars
    <3> QED
      BY <2>1, <3>1, <3>2, <3>3 DEF Next
  <2>3. setting.faults \cap {"kill", "power"} = {}
    BY <1>1 DEF Uncut
  <2> QED
    BY <1>3, <2>1, <2>2, <2>3, PlaceStep DEF Writing
<1> QED
  BY <1>2, <1>3

\* Unless a call is cut short by a failure or a crash, no unusable file is left
\* behind under a restrictive umask once no call is running.
THEOREM UmaskIsOvercome == Spec => []UmaskOvercome
<1> DEFINE IInv == Typed /\ MaskedIsAtChmod
<1>1. Init => IInv
  BY TypedInit, MaskedInit
<1>2. IInv /\ [Next]_vars => IInv'
  BY TypedNext, MaskedNext
<1>3. IInv => UmaskOvercome
  BY DEF MaskedIsAtChmod, Uncut, UmaskOvercome, NoUnusableFile, InFlight
<1> QED
  BY <1>1, <1>2, <1>3, PTL DEF Spec
-----------------------------------------------------------------------------
(***************************************************************************)
(* Calm.  Without faults only calls act.  Whoever creates the destination  *)
(* finds every other call before its open; from then on the path names the *)
(* creator's file, whose mode is what open gave it until the creator's     *)
(* chmod, and 0600 after it.                                               *)
(***************************************************************************)
PathIsFree == dest = Absent => \A c \in Calls : at[c] \in {"idle", "create"}
CreatorKnown == \A c \in Calls : /\ at[c] = "chmod" => made[c]
                                 /\ at[c] \in {"idle", "create", "existing"} => ~made[c]
OnDestination == \A c \in Calls : /\ at[c] \in {"chmod", "stat"} => fh[c] = dest
                                  /\ at[c] = "stat" => mode[dest] # "masked"
CreatedModes == (\E c \in Calls : made[c]) =>
                  /\ dest \in Files
                  /\ mode[dest] \in {"0600", setting.created}
                  /\ mode[dest] = "0600" \/ setting.created = "masked"

Calm == setting.faults = {}
CalmSound == Calm => PathIsFree /\ CreatorKnown /\ OnDestination /\ CreatedModes

LEMMA CalmInit == Init => CalmSound
  BY AuditConstants
  DEF Init, CalmSound, PathIsFree, CreatorKnown, OnDestination, CreatedModes

\* Without faults a step is one of a call, and a failing step is a refusal of
\* the destination: it cannot be opened for writing, or fstat rejects its mode.
CalmStep(c) ==
  \/ /\ at[c] = "idle" /\ at' = [at EXCEPT ![c] = "create"]
     /\ made' = [made EXCEPT ![c] = FALSE] /\ res' = [res EXCEPT ![c] = "none"]
     /\ UNCHANGED <<dest, mode, fh>>
  \/ /\ at[c] = "create" /\ dest = Absent
     /\ \E f \in Files : /\ dest' = f /\ mode[f] = "none"
                         /\ mode' = [mode EXCEPT ![f] = setting.created]
                         /\ fh' = [fh EXCEPT ![c] = f]
     /\ made' = [made EXCEPT ![c] = TRUE] /\ at' = [at EXCEPT ![c] = "chmod"] /\ res' = res
  \/ /\ at[c] = "create" /\ dest # Absent /\ at' = [at EXCEPT ![c] = "existing"]
     /\ UNCHANGED <<dest, mode, fh, made, res>>
  \/ /\ at[c] = "existing" /\ dest \in Openable
     /\ fh' = [fh EXCEPT ![c] = dest] /\ at' = [at EXCEPT ![c] = "stat"]
     /\ UNCHANGED <<dest, mode, made, res>>
  \/ /\ at[c] = "existing" /\ dest \in Waitable /\ at' = [at EXCEPT ![c] = "blocked"]
     /\ UNCHANGED <<dest, mode, fh, made, res>>
  \/ /\ at[c] = "chmod" /\ at' = [at EXCEPT ![c] = "stat"]
     /\ mode' = [mode EXCEPT ![fh[c]] = "0600"]
     /\ UNCHANGED <<dest, fh, made, res>>
  \/ /\ \/ at[c] = "existing" /\ dest \notin Openable
        \/ at[c] = "stat" /\ mode[fh[c]] # "0600"
     /\ res' = [res EXCEPT ![c] = "AUDIT_DESTINATION_INVALID"]
     /\ \E p \in Settled : at' = [at EXCEPT ![c] = p]
     /\ UNCHANGED <<dest, mode, fh, made>>
  \/ /\ at[c] \in {"stat", "write", "rest", "sync", "close"}
     /\ \E p \in Writing \cup Settled : at' = [at EXCEPT ![c] = p]
     /\ \E r \in {res[c], "ok"} : res' = [res EXCEPT ![c] = r]
     /\ at[c] = "close" => res' = res
     /\ \A d \in Calls \ {c} : fh'[d] = fh[d]
     /\ UNCHANGED <<dest, mode, made>>

LEMMA QuietSteps ==
  ASSUME Typed, setting.faults \subseteq {"kill"}, Next
  PROVE  Kill \/ \E c \in Calls : CalmStep(c)
<1>0. /\ at \in [Calls -> Points] /\ res \in [Calls -> Results]
      /\ fh \in [Calls -> Files \cup {NoFile}]
  BY DEF Typed, TypeOK
<1> USE <1>0 DEF CalmStep, Writing, Settled
<1>1. Environment => Kill
  BY DEF Environment, Rotate, Block, OwnerChmod, PowerLoss
<1>2. ASSUME NEW c \in Calls, Call(c) PROVE CalmStep(c)
  BY <1>2 DEF Call, Begin, world
<1>3. ASSUME NEW c \in Calls, CreateExclusive(c) PROVE CalmStep(c)
  BY <1>3 DEF CreateExclusive, AlreadyThere, world
<1>4. ASSUME NEW c \in Calls, OpenExisting(c) PROVE CalmStep(c)
  BY <1>4 DEF OpenExisting, SecondOpenFails, Invalid, Fail, world
<1>5. ASSUME NEW c \in Calls, Chmod(c) PROVE CalmStep(c)
  BY <1>5 DEF Chmod
<1>6. ASSUME NEW c \in Calls, Stat(c) PROVE CalmStep(c)
  BY <1>6 DEF Stat, ModeAccepted, Invalid, Fail, world
<1>7. ASSUME NEW c \in Calls, Write(c) \/ WriteRest(c) PROVE CalmStep(c)
  BY <1>7 DEF Write, WriteRest, AppendPart, NextAfter
<1>8. ASSUME NEW c \in Calls, Sync(c) \/ Close(c) PROVE CalmStep(c)
  BY <1>8 DEF Sync, Flush, Close, world
<1> QED
  BY <1>1, <1>2, <1>3, <1>4, <1>5, <1>6, <1>7, <1>8 DEF Next, Step

LEMMA CalmSteps ==
  ASSUME Typed, Calm, Next
  PROVE  \E c \in Calls : CalmStep(c)
  BY QuietSteps DEF Calm, Kill

LEMMA CalmNext == Typed /\ CalmSound /\ [Next]_vars => CalmSound'
<1> SUFFICES ASSUME Typed, CalmSound, Next, Calm'
             PROVE  PathIsFree' /\ CreatorKnown' /\ OnDestination' /\ CreatedModes'
  BY DEF CalmSound, Calm, PathIsFree, CreatorKnown, OnDestination, CreatedModes, vars
<1>0. /\ at \in [Calls -> Points] /\ made \in [Calls -> BOOLEAN]
      /\ fh \in [Calls -> Files \cup {NoFile}] /\ mode \in [Files -> Modes]
      /\ dest \in PathStates /\ setting.created \in {"0600", "masked"}
      /\ setting' = setting
  BY AuditConstants DEF Typed, TypeOK, Next
<1>1. Calm /\ PathIsFree /\ CreatorKnown /\ OnDestination /\ CreatedModes
  BY <1>0 DEF CalmSound, Calm
<1>2. PICK c \in Calls : CalmStep(c)
  BY <1>1, CalmSteps
<1>3. PathIsFree'
  BY <1>0, <1>1, <1>2, AuditConstants DEF CalmStep, PathIsFree, Openable
<1>4. CreatorKnown'
  BY <1>0, <1>1, <1>2 DEF CalmStep, CreatorKnown, Writing, Settled
<1>5. OnDestination'
  <2> SUFFICES ASSUME NEW d \in Calls
               PROVE  /\ at'[d] \in {"chmod", "stat"} => fh'[d] = dest'
                      /\ at'[d] = "stat" => mode'[dest'] # "masked"
    BY DEF OnDestination
  <2>0. at[c] = "chmod" => fh[c] \in Files /\ fh[c] = dest
    BY <1>1 DEF Typed, HandleOpen, Holding, OnDestination
  <2>1. CASE at[c] = "create" /\ dest = Absent
    BY <1>0, <1>1, <1>2, <2>1 DEF CalmStep, PathIsFree
  <2>2. CASE at[c] = "chmod"
    BY <1>0, <1>1, <1>2, <2>0, <2>2 DEF CalmStep, OnDestination
  <2>3. CASE at[c] # "chmod" /\ ~(at[c] = "create" /\ dest = Absent)
    <3>1. UNCHANGED <<dest, mode>>
      BY <1>2, <2>3 DEF CalmStep
    <3> QED
      BY <1>0, <1>1, <1>2, <2>3, <3>1
      DEF CalmStep, OnDestination, Openable, Writing, Settled
  <2> QED
    BY <2>1, <2>2, <2>3
<1>6. CreatedModes'
  BY <1>0, <1>1, <1>2 DEF CalmStep, CreatedModes, CreatorKnown, OnDestination
<1> QED
  BY <1>3, <1>4, <1>5, <1>6

\* A destination that refuses a call for good was never usable.
LEMMA UndisturbedNext ==
  Typed /\ Reported /\ CalmSound /\ UndisturbedAppendsSucceed /\ [Next]_vars
    => UndisturbedAppendsSucceed'
<1> DEFINE Usable == UsableDestination \/ \E c \in Calls : made[c]
           Excused(c) == setting.created = "masked" /\ ~made[c] /\ \E d \in Calls : made[d]
<1> SUFFICES ASSUME Typed, Reported, CalmSound, UndisturbedAppendsSucceed, Next,
                    Calm', Usable', NEW c \in Calls, res'[c] \notin {"none", "ok"}
             PROVE  Excused(c)'
  BY DEF UndisturbedAppendsSucceed, UsableDestination, Calm, vars
<1>0. /\ at \in [Calls -> Points] /\ made \in [Calls -> BOOLEAN]
      /\ res \in [Calls -> Results]
      /\ fh \in [Calls -> Files \cup {NoFile}] /\ mode \in [Files -> Modes]
      /\ dest \in PathStates /\ setting.created \in {"0600", "masked"}
      /\ setting' = setting
      /\ \A d \in Calls : at[d] \notin Settled \cup {"lost"} => res[d] = "none"
  BY AuditConstants DEF Typed, TypeOK, Next, Reported, ResultsAreLate
<1>1. Calm /\ PathIsFree /\ CreatorKnown /\ OnDestination /\ CreatedModes
  BY <1>0 DEF CalmSound, Calm
<1>2. PICK d \in Calls : CalmStep(d)
  BY <1>1, CalmSteps
<1>3. Usable
  BY <1>0, <1>1, <1>2 DEF CalmStep, UsableDestination, CreatorKnown, OnDestination
<1>4. ASSUME res[c] \notin {"none", "ok"} PROVE Excused(c)'
  <2>1. Excused(c) /\ at[c] \in Settled \cup {"lost"}
    BY <1>0, <1>1, <1>3, <1>4 DEF UndisturbedAppendsSucceed, Calm
  <2>2. \A e \in Calls : made[e] => made'[e]
    BY <1>0, <1>1, <1>2 DEF CalmStep, CreatorKnown
  <2>3. made'[c] = made[c]
    BY <1>0, <1>2, <2>1 DEF CalmStep, Settled
  <2> QED
    BY <1>0, <2>1, <2>2, <2>3
<1>5. ASSUME res[c] \in {"none", "ok"} PROVE Excused(c)'
  <2>1. /\ \/ at[c] = "existing" /\ dest \notin Openable
           \/ at[c] = "stat" /\ mode[fh[c]] # "0600"
        /\ made' = made
    BY <1>0, <1>2, <1>5 DEF CalmStep
  <2>2. dest \in Files /\ mode[dest] # "0600"
    <3>1. dest # Absent
      BY <1>1, <2>1 DEF PathIsFree
    <3>2. dest \in Files
      BY <1>1, <1>3, <3>1 DEF CreatedModes, UsableDestination
    <3> QED
      BY <1>1, <2>1, <3>2 DEF OnDestination, Openable
  <2>3. (\E e \in Calls : made[e]) /\ mode[dest] = "masked" /\ setting.created = "masked"
    BY <1>0, <1>1, <1>3, <2>2, AuditConstants DEF CreatedModes, UsableDestination
  <2>4. ~made[c]
    BY <1>1, <2>1, <2>3 DEF OnDestination, CreatorKnown
  <2> QED
    BY <1>0, <2>1, <2>3, <2>4
<1> QED
  BY <1>0, <1>4, <1>5

\* With nothing to disturb them, calls racing to create the destination do not
\* make each other fail, except for the umask's mode before the creator's chmod.
THEOREM UndisturbedAppends == Spec => []UndisturbedAppendsSucceed
<1> DEFINE IInv == /\ Typed /\ FilesSound /\ Reported /\ CalmSound
                   /\ UndisturbedAppendsSucceed
<1>1. Init => IInv
  BY TypedInit, FilesSoundInit, ReportedInit, CalmInit
  DEF Init, UndisturbedAppendsSucceed
<1>2. IInv /\ [Next]_vars => IInv'
  BY TypedNext, FilesSoundNext, ReportedNext, CalmNext, UndisturbedNext
<1>3. IInv => UndisturbedAppendsSucceed
  OBVIOUS
<1> QED
  BY <1>1, <1>2, <1>3, PTL DEF Spec
\* With no restrictive umask either, and with calls cut short by the death of
\* their process at worst: every mode that comes to be is 0600, and a call goes
\* on to the second open only where there is something to open.
Quiet == setting.faults \subseteq {"kill"} /\ setting.created = "0600"

QuietSound ==
  Quiet => /\ \A c \in Calls : /\ at[c] = "chmod" => mode[fh[c]] = "0600"
                               /\ at[c] = "existing" => dest # Absent
           /\ UsableDestination =>
                \A c \in Calls : /\ res[c] \in {"none", "ok"}
                                 /\ at[c] = "stat" => mode[fh[c]] = "0600"

LEMMA QuietInit == Init => QuietSound
  BY DEF Init, QuietSound

LEMMA QuietNext == Typed /\ QuietSound /\ [Next]_vars => QuietSound'
<1> SUFFICES ASSUME Typed, QuietSound, Next, Quiet' PROVE QuietSound'
  BY DEF QuietSound, Quiet, UsableDestination, vars
<1>0. /\ at \in [Calls -> Points] /\ res \in [Calls -> Results]
      /\ fh \in [Calls -> Files \cup {NoFile}] /\ mode \in [Files -> Modes]
      /\ dest \in PathStates /\ setting' = setting /\ Quiet
      /\ \A c \in Calls : at[c] \in {"chmod", "stat"} => fh[c] \in Files
  BY DEF Typed, TypeOK, Next, Quiet, HandleOpen, Holding
<1>1. CASE Kill
  BY <1>0, <1>1 DEF QuietSound, UsableDestination, Kill, ProcessDies, world
<1>2. ASSUME NEW d \in Calls, CalmStep(d) PROVE QuietSound'
  <2> USE <1>0, <1>2
  <2>1. ASSUME NEW c \in Calls
        PROVE  /\ at'[c] = "chmod" => mode'[fh'[c]] = "0600"
               /\ at'[c] = "existing" => dest' # Absent
    BY <2>1, AuditConstants DEF CalmStep, QuietSound, Quiet, Writing, Settled, Openable
  <2>2. ASSUME UsableDestination'
        PROVE  UsableDestination
    <3>1. CASE dest = Absent
      BY <3>1 DEF UsableDestination
    <3>2. CASE dest # Absent
      <4>1. dest' = dest
        BY <3>2 DEF CalmStep
      <4>2. \A f \in Files : f = dest /\ mode'[f] # mode[f] => mode[f] = "0600"
        BY <3>2 DEF CalmStep, QuietSound
      <4> QED
        BY <2>2, <3>2, <4>1, <4>2 DEF UsableDestination
    <3> QED
      BY <3>1, <3>2
  <2>3. ASSUME UsableDestination, NEW c \in Calls
        PROVE  /\ res'[c] \in {"none", "ok"}
               /\ at'[c] = "stat" => mode'[fh'[c]] = "0600"
    <3>1. /\ res[c] \in {"none", "ok"}
          /\ at[c] = "stat" => mode[fh[c]] = "0600"
          /\ at[c] = "chmod" => mode[fh[c]] = "0600"
          /\ at[c] = "existing" => dest # Absent
      BY <2>3 DEF QuietSound
    <3>2. res'[c] \in {"none", "ok"}
      BY <2>3, <3>1 DEF CalmStep, UsableDestination, Openable
    <3>3. at'[c] = "stat" => mode'[fh'[c]] = "0600"
      BY <2>3, <3>1 DEF CalmStep, UsableDestination, Openable, Quiet, Writing, Settled
    <3> QED
      BY <3>2, <3>3
  <2> QED
    BY <2>1, <2>2, <2>3 DEF QuietSound
<1> QED
  BY <1>0, <1>1, <1>2, QuietSteps DEF Quiet

\* A usable destination, an ordinary umask and no fault but kills: no append
\* fails, whatever races there are to create the file.
THEOREM QuietAppends == Spec => [](Typed /\ Reported /\ QuietSound)
<1> DEFINE IInv == Typed /\ FilesSound /\ Reported /\ QuietSound
<1>1. Init => IInv
  BY TypedInit, FilesSoundInit, ReportedInit, QuietInit
<1>2. IInv /\ [Next]_vars => IInv'
  BY TypedNext, FilesSoundNext, ReportedNext, QuietNext
<1> QED
  BY <1>1, <1>2, PTL DEF Spec

-----------------------------------------------------------------------------
(***************************************************************************)
(* Records.  A fragment carries the event of its call, and a call begins   *)
(* at most one record, wherever the path led it.                           *)
(***************************************************************************)
FragmentsAreOwn ==
  \A f \in Files : \A i \in 1 .. Len(body[f]) : body[f][i].event = ev[body[f][i].by]

BeginsRecord(c, f, i) == body[f][i].by = c /\ body[f][i].part # "tail"

OneRecord ==
  \A c \in Calls : \A f, g \in Files :
    \A i \in 1 .. Len(body[f]), j \in 1 .. Len(body[g]) :
      BeginsRecord(c, f, i) /\ BeginsRecord(c, g, j) => f = g /\ i = j

Single == FragmentsAreOwn /\ OneRecord

LEMMA SingleInit == Init => Single
<1>1. Len(<<>>) = 0
  OBVIOUS
<1> QED
  BY <1>1 DEF Init, Single, FragmentsAreOwn, OneRecord

LEMMA SingleNext ==
  Typed /\ FilesSound /\ Reported /\ Single /\ [Next]_vars => Single'
<1> SUFFICES ASSUME Typed, FilesSound, Reported, Single, [Next]_vars PROVE Single'
  OBVIOUS
<1>0. body \in [Files -> Seq(Fragment)] /\ \A f \in Files : Len(body[f]) \in Nat
  BY LenProperties DEF Typed, TypeOK
<1>1. FragmentsAreOwn'
  <2> SUFFICES ASSUME NEW f \in Files, NEW i \in 1 .. Len(body'[f])
               PROVE  body'[f][i].event = ev'[body'[f][i].by]
    BY DEF FragmentsAreOwn
  <2>1. CASE i \in 1 .. Len(body[f]) /\ (body'[f][i] = body[f][i] \/ Tears(f, i))
    <3>1. body[f][i] \in Fragment
      BY <1>0, <2>1, ElementOfSeq
    <3>0. body'[f][i].by = body[f][i].by /\ body'[f][i].event = body[f][i].event
      BY <2>1, <3>1 DEF Tears, Fragment
    <3>2. body[f][i].by \in Calls /\ ~Silent(body[f][i].by)
      BY <2>1, <3>1 DEF Fragment, Silent
    <3>3. at[body[f][i].by] # "idle"
      BY <3>2 DEF Reported, SilentBeforeWrite, BeforeWrite
    <3>4. ev'[body[f][i].by] = ev[body[f][i].by]
      BY <3>2, <3>3, ResultSteps DEF Reported
    <3> QED
      BY <2>1, <3>0, <3>4 DEF Single, FragmentsAreOwn
  <2>2. ASSUME NEW c \in Calls, NEW part \in {"line", "head", "tail"},
               Adds(c, f, part), body'[f][i] = Written(c, part)
        PROVE  body'[f][i].event = ev'[body'[f][i].by]
    BY <2>2 DEF Adds, Written
  <2> QED
    BY <2>1, <2>2, FragmentStep
<1>2. OneRecord'
  <2> SUFFICES ASSUME NEW c \in Calls, NEW f \in Files, NEW g \in Files,
                      NEW i \in 1 .. Len(body'[f]), NEW j \in 1 .. Len(body'[g]),
                      BeginsRecord(c, f, i)', BeginsRecord(c, g, j)'
               PROVE  f = g /\ i = j
    BY DEF OneRecord
  <2> DEFINE Stood(h, k) == k \in 1 .. Len(body[h]) /\ BeginsRecord(c, h, k)
             Added(h, k) == /\ Silent(c) /\ fh[c] = h /\ k = Len(body[h]) + 1
  <2>1. ASSUME NEW h \in Files, NEW k \in 1 .. Len(body'[h]), BeginsRecord(c, h, k)'
        PROVE  Stood(h, k) \/ Added(h, k)
    <3>1. CASE k \in 1 .. Len(body[h]) /\ (body'[h][k] = body[h][k] \/ Tears(h, k))
      <4>1. body[h][k] \in Fragment
        BY <1>0, <3>1, ElementOfSeq
      <4> QED
        BY <2>1, <3>1, <4>1 DEF BeginsRecord, Tears, Fragment
    <3>2. ASSUME NEW d \in Calls, NEW part \in {"line", "head", "tail"},
                 Adds(d, h, part), k = Len(body[h]) + 1, body'[h][k] = Written(d, part)
          PROVE  Added(h, k)
      <4>1. d = c /\ part # "tail"
        BY <2>1, <3>2 DEF BeginsRecord, Written
      <4>2. Silent(c)
        BY <3>2, <4>1 DEF Adds, Reported, SilentBeforeWrite, BeforeWrite
      <4> QED
        BY <3>2, <4>1, <4>2 DEF Adds
    <3> QED
      BY <3>1, <3>2, FragmentStep
  <2>2. ASSUME NEW h \in Files, NEW k \in 1 .. Len(body[h]), BeginsRecord(c, h, k)
        PROVE  ~Silent(c)
    BY <2>2 DEF BeginsRecord, Silent
  <2>3. CASE Stood(f, i) /\ Stood(g, j)
    BY <2>3 DEF Single, OneRecord
  <2>4. CASE Added(f, i) /\ Added(g, j)
    BY <2>4
  <2> QED
    BY <2>1, <2>2, <2>3, <2>4
<1> QED
  BY <1>1, <1>2 DEF Single

\* A call begins at most one record, of its own event, whatever fails.
THEOREM OneRecordPerCall == Spec => []Single
<1> DEFINE IInv == Typed /\ FilesSound /\ Reported /\ Single
<1>1. Init => IInv
  BY TypedInit, FilesSoundInit, ReportedInit, SingleInit
<1>2. IInv /\ [Next]_vars => IInv'
  BY TypedNext, FilesSoundNext, ReportedNext, SingleNext
<1> QED
  BY <1>1, <1>2, PTL DEF Spec

\* No step of anybody takes a record off the disk again, or changes it there.
THEOREM DiskIsKept == Spec => [][DiskKeeps]_vars
<1> DEFINE IInv == Typed /\ FilesSound
<1>1. Init => IInv
  BY TypedInit, FilesSoundInit
<1>2. IInv /\ [Next]_vars => IInv'
  BY TypedNext, FilesSoundNext
<1>3. IInv /\ [Next]_vars => [DiskKeeps]_vars
  BY NextDiskKeeps
<1> QED
  BY <1>1, <1>2, <1>3, PTL DEF Spec
=============================================================================
