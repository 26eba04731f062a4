-------------------------- MODULE ResourceRegistry --------------------------
(***************************************************************************)
(* src/resource-registry.ts, ResourceRegistry.create: registration of the  *)
(* declared resources when the broker starts, and then the life of the     *)
(* registry, which is OpenVerified.  Every lstat, open, fstat and close is *)
(* an await, and the owner may re-point a path between any two.  The       *)
(* storage root itself does not change while create runs.                  *)
(***************************************************************************)
EXTENDS OpenVerified

RootStates == {"private",   \* a directory of mode 0700
               "wide",      \* a directory of another mode, or not a directory
               "link", "missing"}

CONSTANTS Mishaps,   \* the sets of mishaps considered
          poolSize   \* libuv's worker threads, which do the file operations: 4 in
                     \* Node, unless UV_THREADPOOL_SIZE says otherwise

ASSUME PoolConstants == poolSize \in Nat \ {0}

VARIABLES defs,     \* the policy's paths: whether the root is absolute and outside
                    \* the working directory, which resources lie inside the root
          root,     \* what the storage root is
          records,  \* the identities captured so far
          cat,      \* where create is parked
          cur,      \* the resource it is working on, if any
          ch,       \* the handle captureIdentity holds
          cres      \* how create ends

createVars == <<defs, root, records, cat, cur, ch, cres>>
regVars == <<mishaps, paths, openVars, createVars>>

RegistryErrorCode == {"STORAGE_MODE_INVALID", "PATH_CONTAINS_SYMLINK",
                      "RESOURCE_MISSING", "RESOURCE_CONFIGURATION_INVALID"}

CreatePoints == {"paths",    \* absolute, outside the working directory  :109
                 "walkRoot", \* assertNoSymlink(storageRoot)             :118
                 "statRoot", \* stat(storageRoot)                        :119
                 "next",     \* next iteration over the definitions      :125
                 "parent",   \* lstat of the parent component            :68
                 "leaf",     \* lstat of the last component              :68
                 "open",     \* captureIdentity: open                    :81
                 "blocked",  \* inside that open, of a FIFO
                 "fstat",    \* captureIdentity: handle.stat             :86
                 "close",    \* captureIdentity: finally handle.close    :92
                 "done"}

\* The variables have their types, create works on one resource at a time.
TypeOK == /\ mishaps \in Mishaps
          /\ OpenTypeOK
          /\ defs \in [rootPlaced : BOOLEAN, inside : SUBSET Resources]
          /\ root \in RootStates
          /\ records \in UNION {[S -> Inodes] : S \in SUBSET Resources}
          /\ cat \in CreatePoints
          /\ cur \in SUBSET Resources /\ \A r, s \in cur : r = s
          /\ ch \in Inodes \cup {NoHandle}
          /\ cres \in {"none", "ok"} \cup RegistryErrorCode

\* Init: any configuration an owner may have left behind.
Init == /\ mishaps \in Mishaps
        /\ defs \in [rootPlaced : BOOLEAN, inside : SUBSET Resources]
        /\ root \in RootStates
        /\ entry \in [Resources -> PathState]
        /\ moved = {} /\ pinned = NoPins /\ records = NoPins
        /\ cat = "paths" /\ cur = {} /\ ch = NoHandle /\ cres = "none"
        /\ OpenInit

-----------------------------------------------------------------------------
(***************************************************************************)
(* create.  The first error ends it: the registry is never half built.     *)
(***************************************************************************)
Go(point) == cat' = point /\ UNCHANGED <<cur, ch, cres, records, pinned>>
Ends(code) == /\ cat' = "done" /\ cres' = code /\ cur' = {}
              /\ UNCHANGED <<ch, records, pinned>>

CheckRootPath ==
  /\ cat = "paths"
  /\ IF defs.rootPlaced THEN Go("walkRoot") ELSE Ends("RESOURCE_CONFIGURATION_INVALID")
  /\ UNCHANGED <<defs, root, entry, moved, openVars>>

WalkRoot ==
  /\ cat = "walkRoot"
  /\ \/ root = "link" /\ Ends("PATH_CONTAINS_SYMLINK")
     \/ root = "missing" /\ Ends("RESOURCE_MISSING")
     \/ root \in {"private", "wide"} /\ Go("statRoot")
     \/ "io" \in mishaps /\ Ends("RESOURCE_CONFIGURATION_INVALID")
  /\ UNCHANGED <<defs, root, entry, moved, openVars>>

RootAccepted_AnyMode == root \in {"private", "wide"}     \* mutant: mode not compared
RootAccepted == root = "private"

StatRoot ==
  /\ cat = "statRoot"
  /\ \/ RootAccepted /\ Go("next")
     \/ ~RootAccepted /\ Ends("STORAGE_MODE_INVALID")
     \/ "io" \in mishaps /\ Ends("RESOURCE_CONFIGURATION_INVALID")
  /\ UNCHANGED <<defs, root, entry, moved, openVars>>

Unregistered_All == Resources           \* mutant: definitions visited again
Unregistered == Resources \ DOMAIN records

\* One definition after the other, in the order the document lists them.
NextDefinition ==
  /\ cat = "next"
  /\ \/ /\ DOMAIN records = Resources          \* new ResourceRegistry(records)
        /\ pinned' = records /\ cres' = "ok" /\ cat' = "done"
        /\ UNCHANGED <<cur, ch, records>>
     \/ \E r \in Unregistered :
          IF r \in defs.inside
          THEN cur' = {r} /\ cat' = "parent" /\ UNCHANGED <<ch, cres, records, pinned>>
          ELSE Ends("RESOURCE_CONFIGURATION_INVALID")
  /\ UNCHANGED <<defs, root, entry, moved, openVars>>

\* assertNoSymlink: lstat of the component, met as it is now.
Walk(point, link, next) ==
  /\ cat = point
  /\ \E r \in cur :
       \/ entry[r] = Missing /\ Ends("RESOURCE_MISSING")
       \/ /\ entry[r] # Missing
          /\ IF entry[r].route = link THEN Ends("PATH_CONTAINS_SYMLINK") ELSE Go(next)
       \/ "io" \in mishaps /\ Ends("RESOURCE_CONFIGURATION_INVALID")
  /\ UNCHANGED <<defs, root, entry, moved, openVars>>

WalkParent == Walk("parent", "parentLink", "leaf")
WalkLeaf == Walk("leaf", "leafLink", "open")

CaptureOpen ==
  /\ cat = "open"
  /\ \E r \in cur :
       \/ /\ Opens(r)
          /\ cat' = AfterOpen(entry[r].inode)
          /\ ch' = IF cat' = "blocked" THEN NoHandle ELSE entry[r].inode
          /\ UNCHANGED <<cur, cres, records, pinned>>
       \/ entry[r] = Missing /\ Ends("RESOURCE_MISSING")
       \/ /\ entry[r] # Missing /\ (~Opens(r) \/ "io" \in mishaps)
          /\ Ends("RESOURCE_CONFIGURATION_INVALID")
  /\ UNCHANGED <<defs, root, entry, moved, openVars>>

\* handle.stat decides what the close in the finally clause leads to.
CaptureStat ==
  /\ cat = "fstat"
  /\ \/ IsFile(ch) /\ UNCHANGED cres
     \/ /\ ~IsFile(ch) \/ "io" \in mishaps
        /\ cres' = "RESOURCE_CONFIGURATION_INVALID"
  /\ cat' = "close"
  /\ UNCHANGED <<cur, ch, pinned, records, defs, root, entry, moved, openVars>>

Recorded_LastWins ==                    \* mutant: one identity for all
  [r \in DOMAIN records \cup cur |-> ch]
Recorded == [r \in DOMAIN records \cup cur |-> IF r \in cur THEN ch ELSE records[r]]

CaptureClose ==
  /\ cat = "close"
  /\ ch' = NoHandle /\ cur' = {}
  /\ \/ /\ cres = "none"              \* records.set(id, identity)
        /\ records' = Recorded
        /\ cat' = "next" /\ UNCHANGED cres
     \/ /\ cres # "none" \/ "io" \in mishaps   \* a rejected close is an error too
        /\ cres' = "RESOURCE_CONFIGURATION_INVALID"
        /\ cat' = "done" /\ UNCHANGED records
  /\ UNCHANGED <<pinned, defs, root, entry, moved, openVars>>

Create == \/ CheckRootPath \/ WalkRoot \/ StatRoot \/ NextDefinition
          \/ WalkParent \/ WalkLeaf \/ CaptureOpen \/ CaptureStat \/ CaptureClose

-----------------------------------------------------------------------------
\* An open that waits keeps its thread, and every other operation needs one.
\* No reader exists before create has ended, which so has the pool to itself.
ThreadFree == Cardinality({q \in Readers : oat[q] = "blocked"}) < poolSize

Use(q) == \/ cres = "ok" /\ \E r \in Resources : BeginOpen(q, r)
          \/ ThreadFree /\ OpenStep(q)

Next == /\ \/ Create
           \/ \E q \in Readers : Use(q) /\ UNCHANGED createVars
           \/ \E r \in Resources : Repoint(r) /\ UNCHANGED createVars
        /\ UNCHANGED mishaps

Spec == Init /\ [][Next]_regVars

\* libuv does what it has a thread for: create takes its next step.
FairSpec == Spec /\ WF_regVars(Create /\ UNCHANGED mishaps)

-----------------------------------------------------------------------------
\* What the documented configuration asks of the storage and of each resource.
SoundResource(r) == /\ r \in defs.inside
                    /\ entry[r] # Missing
                    /\ entry[r].route = "direct" /\ IsFile(entry[r].inode)
SoundConfiguration == /\ defs.rootPlaced /\ root = "private"
                      /\ \A r \in Resources : SoundResource(r)

\* If nobody moves anything meanwhile, the awaits of create add up to one test
\* of the whole configuration, and its code names something really wrong; where
\* there is no verdict, because open waits for a FIFO, something is wrong, too.
VerdictMatchesConfiguration ==
  moved = {} /\ "io" \notin mishaps =>
    /\ cres = "ok" => SoundConfiguration
    /\ cres \in RegistryErrorCode \/ cat = "blocked" => ~SoundConfiguration
    /\ cres = "PATH_CONTAINS_SYMLINK" =>
         \/ root = "link"
         \/ \E r \in Resources : entry[r] # Missing /\ entry[r].route # "direct"
    /\ cres = "RESOURCE_MISSING" =>
         root = "missing" \/ \E r \in Resources : entry[r] = Missing

\* A file nobody moved is never refused, also while other paths are replaced, and
\* an open that waits for a FIFO is one of a path that was moved.
UnmovedIsNotRefused ==
  "io" \notin mishaps =>
    \A q \in Readers : ores[q] = "changed" \/ oat[q] = "blocked" => oid[q] \in moved

\* create may be raced by the owner between assertNoSymlink and open; where open
\* itself refuses links on the whole path, no step of create or openVerified
\* follows one.
NeverThroughALink ==
  [][\A q \in Readers :
       /\ (oh[q] = NoHandle /\ oh'[q] # NoHandle) => entry[oid[q]].route = "direct"
       /\ (ch = NoHandle /\ ch' # NoHandle) =>
            \A r \in cur : entry[r].route = "direct"]_regVars

\* Startup comes to an end, whatever the owner does to the paths meanwhile, but
\* for putting a FIFO in the place of a resource.
NamesFifo(r) == entry[r] # Missing /\ entry[r].inode \in Fifos
CreateEnds == [](\A r \in Resources : ~NamesFifo(r)) => <>(cat = "done")
=============================================================================
