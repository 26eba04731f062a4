----------------------- MODULE ResourceRegistryProofs -----------------------
(***************************************************************************)
(* Proofs about ResourceRegistry, for any number of resources, inodes and  *)
(* readers and every configuration.  The inductive invariant says what     *)
(* create has established about the resource it is working on and about    *)
(* those it has captured, as long as their paths have not been re-pointed. *)
(***************************************************************************)
EXTENDS ResourceRegistry, TLAPS

-----------------------------------------------------------------------------
(***************************************************************************)
(* Types, and what a parked call holds.                                    *)
(***************************************************************************)
CaptureHolds == cat \in {"fstat", "close"} => ch \in Inodes

OpenKnows == \A q \in Readers : /\ oat[q] = "idle" => ores[q] = "none"
                                /\ oat[q] # "idle" => oid[q] \in Resources /\ cat = "done"
                                /\ oat[q] \in {"open", "fstat"} => oid[q] \in DOMAIN pinned

CreateOnce == cres = "ok" => cat = "done" /\ DOMAIN pinned = Resources

Typed == TypeOK /\ CaptureHolds /\ OpenKnows /\ CreateOnce

LEMMA TypedInit == Init => Typed
<1> SUFFICES ASSUME Init PROVE Typed
  OBVIOUS
<1>1. NoPins \in [{} -> Inodes] /\ {} \in SUBSET Resources
  BY DEF NoPins
<1>2. NoPins \in UNION {[S -> Inodes] : S \in SUBSET Resources}
  BY <1>1
<1> QED
  BY <1>2
  DEF Init, OpenInit, Typed, TypeOK, OpenTypeOK, CaptureHolds, OpenKnows, CreateOnce,
      CreatePoints, OpenPoints

\* What create does in a step, by the variables it may change.
CreateFrame == UNCHANGED <<defs, root, entry, moved, openVars>>

LEMMA CreateKeepsOpens == Create => CreateFrame /\ cat # "done"
  BY DEF Create, CreateFrame, CheckRootPath, WalkRoot, StatRoot, NextDefinition, Walk,
         WalkParent, WalkLeaf, CaptureOpen, CaptureStat, CaptureClose

\* The captured identities stay a function from resources to inodes.
LEMMA RecordedTyped ==
  ASSUME Typed, cat = "close"
  PROVE  Recorded \in UNION {[S -> Inodes] : S \in SUBSET Resources}
<1>1. PICK S \in SUBSET Resources : records \in [S -> Inodes]
  BY DEF Typed, TypeOK
<1>2. Recorded \in [S \cup cur -> Inodes]
  BY <1>1 DEF Typed, TypeOK, CaptureHolds, Recorded
<1>3. S \cup cur \in SUBSET Resources
  BY <1>1 DEF Typed, TypeOK
<1> QED
  BY <1>2, <1>3

LEMMA CreateTyped ==
  ASSUME Typed, Create, UNCHANGED mishaps
  PROVE  Typed'
<1>0. CreateFrame /\ cat # "done"
  BY CreateKeepsOpens
<1>1. \/ pinned' = pinned
      \/ pinned' = records /\ cat = "next" /\ cat' = "done" /\ DOMAIN records = Resources
  BY DEF Create, CheckRootPath, WalkRoot, StatRoot, NextDefinition, Walk, WalkParent,
         WalkLeaf, CaptureOpen, CaptureStat, CaptureClose, Go, Ends
<1>2. OpenTypeOK' /\ OpenKnows'
  BY <1>0, <1>1
  DEF CreateFrame, openVars, Typed, TypeOK, OpenTypeOK, OpenKnows
<1>3. \/ records' = records
      \/ cat = "close" /\ records' = Recorded
  BY DEF Create, CheckRootPath, WalkRoot, StatRoot, NextDefinition, Walk, WalkParent,
         WalkLeaf, CaptureOpen, CaptureStat, CaptureClose, Go, Ends
<1>4. records' \in UNION {[S -> Inodes] : S \in SUBSET Resources}
  BY <1>3, RecordedTyped DEF Typed, TypeOK
<1>5. /\ cat' \in CreatePoints /\ cres' \in {"none", "ok"} \cup RegistryErrorCode
      /\ cur' \in SUBSET Resources /\ \A r, s \in cur' : r = s
      /\ ch' \in Inodes \cup {NoHandle} /\ CaptureHolds' /\ CreateOnce'
  <2> USE DEF Typed, TypeOK, OpenTypeOK, CaptureHolds, CreateOnce, CreatePoints,
              RegistryErrorCode, Go, Ends
  <2>1. CASE CheckRootPath \/ WalkRoot \/ StatRoot
    BY <2>1 DEF CheckRootPath, WalkRoot, StatRoot
  <2>2. CASE NextDefinition
    BY <2>2 DEF NextDefinition, Unregistered
  <2>3. CASE WalkParent \/ WalkLeaf
    BY <2>3 DEF WalkParent, WalkLeaf, Walk
  <2>4. CASE CaptureOpen
    BY <2>4 DEF CaptureOpen, Opens, AfterOpen, PathState
  <2>5. CASE CaptureStat
    BY <2>5 DEF CaptureStat
  <2>6. CASE CaptureClose
    BY <2>6 DEF CaptureClose
  <2> QED
    BY <2>1, <2>2, <2>3, <2>4, <2>5, <2>6 DEF Create
<1> QED
  BY <1>0, <1>2, <1>4, <1>5 DEF CreateFrame, Typed, TypeOK

LEMMA TypedNext == Typed /\ [Next]_regVars => Typed'
<1> SUFFICES ASSUME Typed, [Next]_regVars PROVE Typed'
  OBVIOUS
<1>1. CASE UNCHANGED regVars
  BY <1>1
  DEF regVars, paths, openVars, createVars, Typed, TypeOK, OpenTypeOK, CaptureHolds,
      OpenKnows, CreateOnce
<1>2. ASSUME UNCHANGED <<mishaps, pinned>>, UNCHANGED createVars, OpenTypeOK', OpenKnows'
      PROVE  Typed'
  BY <1>2 DEF createVars, Typed, TypeOK, CaptureHolds, CreateOnce
<1>3. ASSUME NEW q \in Readers, Use(q), UNCHANGED <<mishaps, createVars>> PROVE Typed'
  <2> USE DEF Typed, TypeOK, OpenTypeOK, OpenKnows, CreateOnce, OpenPoints, paths, createVars
  <2>1. CASE \E r \in Resources : cres = "ok" /\ BeginOpen(q, r)
    BY <1>2, <1>3, <2>1 DEF BeginOpen
  <2>2. CASE Open(q)
    BY <1>2, <1>3, <2>2 DEF Open, Opens, AfterOpen, PathState
  <2>3. CASE Verify(q) \/ Drop(q)
    BY <1>2, <1>3, <2>3 DEF Verify, Mismatch, Drop
  <2> QED
    BY <1>3, <2>1, <2>2, <2>3 DEF Use, OpenStep
<1>4. ASSUME NEW r \in Resources, Repoint(r), UNCHANGED <<mishaps, createVars>> PROVE Typed'
  BY <1>2, <1>4
  DEF Repoint, openVars, createVars, Typed, TypeOK, OpenTypeOK, OpenKnows
<1> QED
  BY <1>1, <1>3, <1>4, CreateTyped DEF Next

\* Type correctness, whatever the owner does to the paths meanwhile.
THEOREM TypeCorrect == Spec => []TypeOK
<1>1. Typed => TypeOK
  BY DEF Typed
<1> QED
  BY <1>1, TypedInit, TypedNext, PTL DEF Spec

-----------------------------------------------------------------------------
\* Where open refuses links on the whole path, neither create nor openVerified
\* follows one, although the owner may race the checks before the open.
THEOREM NoLinkFollowed == NoFollowAny /\ Spec => NeverThroughALink
<1> SUFFICES ASSUME NoFollowAny PROVE Spec => NeverThroughALink
  OBVIOUS
<1> DEFINE Step ==
      \A q \in Readers :
        /\ (oh[q] = NoHandle /\ oh'[q] # NoHandle) => entry[oid[q]].route = "direct"
        /\ (ch = NoHandle /\ ch' # NoHandle) =>
             \A r \in cur : entry[r].route = "direct"
<1>1. ASSUME NEW r, Opens(r) PROVE entry[r].route = "direct"
  BY <1>1 DEF Opens, FollowedRoutes
<1>2. Typed /\ [Next]_regVars => [Step]_regVars
  <2> SUFFICES ASSUME Typed, Next PROVE Step
    OBVIOUS
  <2>1. CASE Create
    <3>1. oh' = oh
      BY <2>1, CreateKeepsOpens DEF CreateFrame, openVars
    <3>2. ASSUME ch' # ch, ch' # NoHandle PROVE \A r \in cur : entry[r].route = "direct"
      <4>1. CaptureOpen
        BY <2>1, <3>2 DEF Create, CheckRootPath, WalkRoot, StatRoot, NextDefinition, Walk,
           WalkParent, WalkLeaf, CaptureStat, CaptureClose, Go, Ends
      <4>2. PICK r \in cur : Opens(r)
        BY <3>2, <4>1 DEF CaptureOpen, Ends
      <4> QED
        BY <1>1, <4>2 DEF Typed, TypeOK
    <3> QED
      BY <3>1, <3>2
  <2>2. ASSUME NEW q \in Readers, Use(q), UNCHANGED createVars PROVE Step
    <3>1. ch' = ch
      BY <2>2 DEF createVars
    <3>2. ASSUME NEW p \in Readers, oh'[p] # oh[p], oh'[p] # NoHandle
          PROVE  entry[oid[p]].route = "direct"
      <4>1. Open(q)
        BY <2>2, <3>2 DEF Use, BeginOpen, OpenStep, Verify, Drop, Typed, TypeOK,
                          OpenTypeOK
      <4>2. Opens(oid[p])
        BY <3>2, <4>1 DEF Open, Typed, TypeOK, OpenTypeOK
      <4> QED
        BY <1>1, <4>2
    <3> QED
      BY <3>1, <3>2
  <2>3. ASSUME NEW r \in Resources, Repoint(r), UNCHANGED createVars PROVE Step
    BY <2>3 DEF Repoint, createVars, openVars
  <2> QED
    BY <2>1, <2>2, <2>3 DEF Next
<1> QED
  BY <1>2, TypedInit, TypedNext, PTL DEF Spec, NeverThroughALink

-----------------------------------------------------------------------------
(***************************************************************************)
(* What create and openVerified have established about a path is true of   *)
(* it as long as nobody re-points it.                                      *)
(***************************************************************************)
NamesFile(r, i) == /\ r \in defs.inside /\ entry[r] # Missing
                   /\ entry[r].route = "direct" /\ entry[r].inode = i /\ IsFile(i)

Captured(pins) == \A r \in DOMAIN pins : r \in moved \/ NamesFile(r, pins[r])

Walked == \A r \in cur :
  /\ r \in defs.inside
  /\ r \notin moved =>
       /\ cat \in {"leaf", "open", "fstat", "close"} =>
            entry[r] # Missing /\ entry[r].route # "parentLink"
       /\ cat \in {"open", "fstat", "close"} => entry[r].route = "direct"
       /\ cat \in {"fstat", "close"} => ch = entry[r].inode
       /\ cat = "close" /\ cres = "none" => IsFile(ch)

Walking == cat \in {"parent", "leaf", "open", "fstat"} => cur # {}

CaptureSound == Captured(records) /\ Captured(pinned) /\ Walked /\ Walking

LEMMA CaptureInit == Init => CaptureSound
  BY DEF Init, NoPins, CaptureSound, Captured, Walked, Walking

LEMMA CaptureNext == Typed /\ CaptureSound /\ [Next]_regVars => CaptureSound'
<1> SUFFICES ASSUME Typed, CaptureSound, [Next]_regVars PROVE CaptureSound'
  OBVIOUS
<1> USE DEF NamesFile
<1>1. CASE UNCHANGED <<paths, createVars>>
  BY <1>1 DEF paths, createVars, CaptureSound, Captured, Walked, Walking
<1>2. ASSUME NEW q \in Readers, Use(q), UNCHANGED createVars PROVE CaptureSound'
  BY <1>1, <1>2 DEF Use, BeginOpen, OpenStep, Open, Verify, Drop
<1>3. ASSUME NEW r \in Resources, Repoint(r), UNCHANGED createVars PROVE CaptureSound'
  <2>1. /\ moved' = moved \cup {r} /\ UNCHANGED <<defs, cur, cat, ch, cres, records, pinned>>
        /\ \A s \in Resources : s # r => entry'[s] = entry[s]
    BY <1>3 DEF Repoint, createVars, Typed, TypeOK, OpenTypeOK
  <2>2. DOMAIN records \subseteq Resources /\ DOMAIN pinned \subseteq Resources
        /\ cur \subseteq Resources
    BY DEF Typed, TypeOK, OpenTypeOK
  <2> QED
    BY <2>1, <2>2 DEF CaptureSound, Captured, Walked, Walking
<1>4. CASE Create
  <2>0. CreateFrame
    BY <1>4, CreateKeepsOpens
  <2> USE <2>0 DEF CreateFrame, CaptureSound, Captured, Walked, Walking, Go, Ends
  <2>1. CASE CheckRootPath \/ WalkRoot \/ StatRoot
    BY <2>1 DEF CheckRootPath, WalkRoot, StatRoot
  <2>2. CASE NextDefinition
    BY <2>2 DEF NextDefinition
  <2>3. CASE WalkParent
    BY <2>3 DEF WalkParent, Walk, Typed, TypeOK
  <2>4. CASE WalkLeaf
    <3>1. ASSUME NEW r \in cur, r \notin moved, entry[r] # Missing,
                 entry[r].route # "leafLink"
          PROVE  entry[r].route = "direct"
      BY <2>4, <3>1 DEF WalkLeaf, Walk, Typed, TypeOK, OpenTypeOK, PathState, Routes
    <3> QED
      BY <2>4, <3>1 DEF WalkLeaf, Walk, Typed, TypeOK
  <2>5. CASE CaptureOpen
    BY <2>5 DEF CaptureOpen, AfterOpen, Typed, TypeOK
  <2>6. CASE CaptureStat
    BY <2>6 DEF CaptureStat
  <2>7. CASE CaptureClose
    <3>1. Captured(records)'
      BY <2>7 DEF CaptureClose, Recorded
    <3> QED
      BY <2>7, <3>1 DEF CaptureClose
  <2> QED
    BY <1>4, <2>1, <2>2, <2>3, <2>4, <2>5, <2>6, <2>7 DEF Create
<1> QED
  BY <1>1, <1>2, <1>3, <1>4 DEF Next, regVars

-----------------------------------------------------------------------------
(***************************************************************************)
(* openVerified of a resource whose path was never re-pointed, without     *)
(* I/O errors: the open succeeds and finds the captured file.              *)
(***************************************************************************)
Served(q) == /\ oat[q] \notin {"drop", "blocked"} /\ ores[q] # "changed"
             /\ oat[q] = "fstat" => oh[q] = pinned[oid[q]]

UnmovedServed == "io" \notin mishaps => \A q \in Readers : oid[q] \in moved \/ Served(q)

LEMMA ServedInit == Init => UnmovedServed
  BY OpenConstants DEF Init, OpenInit, UnmovedServed, Served

\* An unmoved path with a captured identity opens, and does not hang.
LEMMA CapturedOpens ==
  ASSUME Typed, CaptureSound, NEW r \in DOMAIN pinned, r \notin moved
  PROVE  /\ Opens(r) /\ entry[r].inode = pinned[r] /\ IsFile(pinned[r])
         /\ AfterOpen(entry[r].inode) = "fstat"
<1>1. NamesFile(r, pinned[r])
  BY DEF CaptureSound, Captured
<1> QED
  BY <1>1, OpenConstants DEF NamesFile, Opens, FollowedRoutes, AfterOpen, IsFile

LEMMA ServedNext ==
  Typed /\ CaptureSound /\ UnmovedServed /\ [Next]_regVars => UnmovedServed'
<1> SUFFICES ASSUME Typed, CaptureSound, UnmovedServed, [Next]_regVars,
                    "io" \notin mishaps', NEW p \in Readers, oid'[p] \notin moved'
             PROVE  Served(p)'
  BY DEF UnmovedServed
<1>0. /\ mishaps' = mishaps /\ oat \in [Readers -> OpenPoints]
      /\ oid \in [Readers -> Resources \cup {NoResource}]
      /\ oh \in [Readers -> Inodes \cup {NoHandle}]
      /\ ores \in [Readers -> {"none", "ok", "changed"}]
      /\ moved \subseteq Resources
      /\ oat[p] = "idle" => ores[p] = "none"
      /\ oat[p] \in {"open", "fstat"} => oid[p] \in DOMAIN pinned
      /\ cres = "ok" => DOMAIN pinned = Resources
  BY DEF Next, regVars, Typed, TypeOK, OpenTypeOK, OpenKnows, CreateOnce
<1>1. CASE UNCHANGED <<paths, openVars>>
  BY <1>0, <1>1 DEF paths, openVars, UnmovedServed, Served
<1>2. CASE Create
  <2>1. oid[p] \notin moved /\ Served(p) /\ UNCHANGED <<oat, oid, oh, ores>>
    BY <1>0, <1>2, CreateKeepsOpens DEF CreateFrame, openVars, UnmovedServed
  <2>2. oat[p] = "idle"
    BY <1>2, CreateKeepsOpens DEF Typed, OpenKnows
  <2> QED
    BY <2>1, <2>2 DEF Served
<1>3. ASSUME NEW q \in Readers, Use(q), q # p PROVE Served(p)'
  <2>1. /\ oid'[p] = oid[p] /\ oat'[p] = oat[p] /\ ores'[p] = ores[p] /\ oh'[p] = oh[p]
        /\ UNCHANGED paths
    BY <1>0, <1>3 DEF Use, BeginOpen, OpenStep, Open, Verify, Mismatch, Drop
  <2> QED
    BY <1>0, <2>1 DEF paths, UnmovedServed, Served
<1>4. CASE Use(p)
  <2>1. UNCHANGED paths
    BY <1>4 DEF Use, BeginOpen, OpenStep, Open, Verify, Drop
  <2>2. CASE \E r \in Resources : cres = "ok" /\ BeginOpen(p, r)
    BY <1>0, <2>1, <2>2 DEF BeginOpen, paths, UnmovedServed, Served
  <2>3. CASE OpenStep(p)
    <3>1. oid'[p] = oid[p] /\ oid[p] \notin moved /\ Served(p)
      BY <1>0, <2>1, <2>3 DEF OpenStep, Open, Verify, Drop, paths, UnmovedServed
    <3>2. CASE Open(p)
      <4>1. /\ Opens(oid[p]) /\ entry[oid[p]].inode = pinned[oid[p]]
            /\ AfterOpen(entry[oid[p]].inode) = "fstat"
        BY <1>0, <3>1, <3>2, CapturedOpens DEF Open
      <4> QED
        BY <1>0, <2>1, <3>1, <3>2, <4>1 DEF Open, paths, Served
    <3>3. CASE Verify(p)
      <4>1. IsFile(pinned[oid[p]])
        BY <1>0, <3>1, <3>3, CapturedOpens DEF Verify
      <4> QED
        BY <1>0, <2>1, <3>1, <3>3, <4>1 DEF Verify, SameIdentity, paths, Served
    <3> QED
      BY <2>3, <3>1, <3>2, <3>3 DEF OpenStep, Drop, Served
  <2> QED
    BY <1>4, <2>2, <2>3 DEF Use
<1>5. ASSUME NEW r \in Resources, Repoint(r) PROVE Served(p)'
  BY <1>0, <1>5 DEF Repoint, openVars, UnmovedServed, Served
<1> QED
  BY <1>1, <1>2, <1>3, <1>4, <1>5 DEF Next, regVars

\* A registered file nobody moved is never refused, however other paths are
\* replaced and other readers wait; whether its open has a thread is for the runs.
THEOREM UnmovedNeverRefused == Spec => []UnmovedIsNotRefused
<1> DEFINE IInv == Typed /\ CaptureSound /\ UnmovedServed
<1>1. Init => IInv
  BY TypedInit, CaptureInit, ServedInit
<1>2. IInv /\ [Next]_regVars => IInv'
  BY TypedNext, CaptureNext, ServedNext
<1>3. IInv => UnmovedIsNotRefused
  BY DEF UnmovedServed, Served, UnmovedIsNotRefused
<1> QED
  BY <1>1, <1>2, <1>3, PTL DEF Spec

-----------------------------------------------------------------------------
(***************************************************************************)
(* The verdict of create on an undisturbed storage.                        *)
(***************************************************************************)
RootPassed ==
  /\ cat \notin {"paths", "done"} => defs.rootPlaced
  /\ cat \notin {"paths", "walkRoot", "statRoot", "done"} => root = "private"
  /\ cres = "ok" => defs.rootPlaced /\ root = "private"

Undisturbed == moved = {} /\ "io" \notin mishaps

RefusalTrue ==
  Undisturbed =>
    /\ cres \in RegistryErrorCode \/ cat = "blocked" => ~SoundConfiguration
    /\ cres = "PATH_CONTAINS_SYMLINK" =>
         \/ root = "link"
         \/ \E r \in Resources : entry[r] # Missing /\ entry[r].route # "direct"
    /\ cres = "RESOURCE_MISSING" =>
         root = "missing" \/ \E r \in Resources : entry[r] = Missing

LEMMA RootPassedNext == Typed /\ RootPassed /\ [Next]_regVars => RootPassed'
<1> SUFFICES ASSUME Typed, RootPassed, [Next]_regVars PROVE RootPassed'
  OBVIOUS
<1> USE DEF RootPassed
<1>1. CASE UNCHANGED createVars
  BY <1>1 DEF createVars
<1>2. CASE Create
  <2> USE DEF Go, Ends
  <2>1. CASE CheckRootPath \/ WalkRoot \/ StatRoot
    BY <2>1 DEF CheckRootPath, WalkRoot, StatRoot, RootAccepted
  <2>2. CASE NextDefinition
    BY <2>2 DEF NextDefinition
  <2>3. CASE WalkParent \/ WalkLeaf
    BY <2>3 DEF WalkParent, WalkLeaf, Walk
  <2>4. CASE CaptureOpen
    BY <2>4 DEF CaptureOpen
  <2>5. CASE CaptureStat \/ CaptureClose
    BY <2>5 DEF CaptureStat, CaptureClose
  <2> QED
    BY <1>2, <2>1, <2>2, <2>3, <2>4, <2>5 DEF Create
<1> QED
  BY <1>1, <1>2 DEF Next, regVars

LEMMA RefusalNext ==
  Typed /\ CaptureSound /\ RootPassed /\ RefusalTrue /\ [Next]_regVars => RefusalTrue'
<1> SUFFICES ASSUME Typed, CaptureSound, RootPassed, RefusalTrue, [Next]_regVars,
                    Undisturbed'
             PROVE  RefusalTrue'
  BY DEF RefusalTrue
<1>0. mishaps' = mishaps
  BY DEF Next, regVars
<1>1. CASE UNCHANGED <<entry, moved>> /\ UNCHANGED createVars
  BY <1>0, <1>1
  DEF createVars, RefusalTrue, Undisturbed, SoundConfiguration, SoundResource
<1>2. ASSUME NEW q \in Readers, Use(q), UNCHANGED createVars PROVE RefusalTrue'
  BY <1>1, <1>2 DEF Use, BeginOpen, OpenStep, Open, Verify, Drop, paths
<1>3. ASSUME NEW r \in Resources, Repoint(r) PROVE FALSE
  BY <1>3 DEF Repoint, Undisturbed
<1>4. CASE Create
  <2>0. UNCHANGED <<defs, root, entry, moved>> /\ Undisturbed
    BY <1>0, <1>4, CreateKeepsOpens DEF CreateFrame, Undisturbed
  <2>1. SoundConfiguration' <=> SoundConfiguration
    BY <2>0 DEF SoundConfiguration, SoundResource
  <2>2. cur \subseteq Resources /\ moved = {} /\ "io" \notin mishaps
    BY <2>0 DEF Typed, TypeOK, Undisturbed
  <2>3. ASSUME NEW r \in cur, ~SoundResource(r) PROVE ~SoundConfiguration
    BY <2>2, <2>3 DEF SoundConfiguration
  <2> USE <2>0, <2>2 DEF Go, Ends, RegistryErrorCode
  <2>4. CASE CheckRootPath \/ WalkRoot \/ StatRoot
    BY <2>1, <2>4
    DEF CheckRootPath, WalkRoot, StatRoot, RootAccepted, RefusalTrue, SoundConfiguration
  <2>5. CASE NextDefinition
    BY <2>1, <2>5
    DEF NextDefinition, Unregistered, RefusalTrue, SoundConfiguration, SoundResource
  <2>6. CASE WalkParent \/ WalkLeaf
    BY <2>1, <2>3, <2>6 DEF WalkParent, WalkLeaf, Walk, RefusalTrue, SoundResource
  <2>7. CASE CaptureOpen
    <3>1. ASSUME NEW r \in cur PROVE Opens(r) /\ entry[r] # Missing
      BY <2>7, <3>1 DEF CaptureOpen, CaptureSound, Walked, Opens, FollowedRoutes
    <3>2. PICK r \in cur : cat' = AfterOpen(entry[r].inode) /\ cres' = cres
      BY <2>7, <3>1 DEF CaptureOpen
    <3>3. cat' = "blocked" => ~SoundConfiguration
      BY <2>3, <3>2, OpenConstants DEF AfterOpen, SoundResource, IsFile
    <3> QED
      BY <2>1, <3>2, <3>3 DEF RefusalTrue
  <2>8. CASE CaptureStat
    <3>1. PICK r \in cur : TRUE
      BY <2>8 DEF CaptureStat, CaptureSound, Walking
    <3>2. ~IsFile(ch) => ~SoundConfiguration
      BY <2>3, <2>8, <3>1 DEF CaptureStat, CaptureSound, Walked, SoundResource
    <3> QED
      BY <2>1, <2>8, <3>2 DEF CaptureStat, RefusalTrue
  <2>9. CASE CaptureClose
    <3>1. cres # "ok"
      BY <2>9 DEF CaptureClose, Typed, CreateOnce
    <3> QED
      BY <2>1, <2>9, <3>1 DEF CaptureClose, RefusalTrue, Typed, TypeOK
  <2> QED
    BY <1>4, <2>4, <2>5, <2>6, <2>7, <2>8, <2>9 DEF Create
<1> QED
  BY <1>1, <1>2, <1>3, <1>4 DEF Next, regVars, paths

\* If nobody moves anything meanwhile, the awaits of create add up to one test of
\* the whole configuration, and its code names something really wrong.
THEOREM VerdictIsOfConfiguration == Spec => []VerdictMatchesConfiguration
<1> DEFINE IInv == Typed /\ CaptureSound /\ RootPassed /\ RefusalTrue
<1>1. Init => IInv
  BY TypedInit, CaptureInit DEF Init, RootPassed, RefusalTrue, RegistryErrorCode
<1>2. IInv /\ [Next]_regVars => IInv'
  BY TypedNext, CaptureNext, RootPassedNext, RefusalNext
<1>3. IInv => VerdictMatchesConfiguration
  <2> SUFFICES ASSUME IInv, moved = {}, cres = "ok" PROVE SoundConfiguration
    BY DEF RefusalTrue, Undisturbed, VerdictMatchesConfiguration
  <2>1. ASSUME NEW r \in Resources PROVE SoundResource(r)
    BY <2>1 DEF Typed, CreateOnce, CaptureSound, Captured, NamesFile, SoundResource
  <2> QED
    BY <2>1 DEF RootPassed, SoundConfiguration
<1> QED
  BY <1>1, <1>2, <1>3, PTL DEF Spec
=============================================================================
