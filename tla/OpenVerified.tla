---------------------------- MODULE OpenVerified ----------------------------
(***************************************************************************)
(* src/resource-registry.ts, openVerified: what every allowed read does to *)
(* get at the registered file.                                             *)
(*                                                                         *)
(* A resource path has a parent below the storage root and a leaf.  What   *)
(* it resolves to is Missing or an inode reached along a route: "direct",  *)
(* through a symbolic link in the place of the parent, or a link in the    *)
(* place of the leaf.  The owner may re-point a path between any two       *)
(* awaits.  An inode number names one file for as long as the broker lives.*)
(***************************************************************************)
EXTENDS Naturals, FiniteSets

CONSTANTS Resources,    \* the identifiers the policy declares
          Inodes,
          Directories,  \* the inodes that are not regular files
          Fifos,        \* those among them that open waits for a writer of
          Missing,      \* the path resolves to nothing
          NoHandle, NoResource,
          Readers,      \* slots for calls of openVerified
          NoFollowAny   \* open refuses a link anywhere on the path (darwin), or
                        \* only in its last component (O_NOFOLLOW elsewhere)

ASSUME OpenConstants == /\ Fifos \subseteq Directories /\ Directories \subseteq Inodes
                        /\ NoHandle \notin Inodes /\ NoResource \notin Resources
                        /\ NoFollowAny \in BOOLEAN

Routes == {"direct", "parentLink", "leafLink"}
PathState == {Missing} \cup [inode : Inodes, route : Routes]
Direct(i) == [inode |-> i, route |-> "direct"]

VARIABLES mishaps,  \* what may go wrong: a set of "repoint", "io"
          entry,    \* what each resource path resolves to
          moved,    \* history: the resource paths ever re-pointed
          pinned,   \* #resources: the identity captured for each registered one
          oat, oid, oh, ores   \* each call: where it is, which resource, the
                               \* inode its handle is open on, how it ends

paths == <<entry, moved, pinned>>
openVars == <<oat, oid, oh, ores>>

\* "blocked": open waits for somebody to write to a FIFO, and nobody does.  It
\* holds one of the process's worker threads meanwhile.
OpenPoints == {"idle", "open", "blocked", "fstat", "drop", "done"}
NoPins == [r \in {} |-> NoHandle]

OpenTypeOK ==
  /\ entry \in [Resources -> PathState]
  /\ moved \in SUBSET Resources
  /\ pinned \in UNION {[S -> Inodes] : S \in SUBSET Resources}
  /\ oat \in [Readers -> OpenPoints]
  /\ oid \in [Readers -> Resources \cup {NoResource}]
  /\ oh \in [Readers -> Inodes \cup {NoHandle}]
  /\ ores \in [Readers -> {"none", "ok", "changed"}]

OpenInit == /\ oat = [q \in Readers |-> "idle"]
            /\ oid = [q \in Readers |-> NoResource]
            /\ oh = [q \in Readers |-> NoHandle]
            /\ ores = [q \in Readers |-> "none"]

-----------------------------------------------------------------------------
\* open(path, O_RDONLY | no-follow flags) succeeds.
FollowedRoutes_LastOnly == {"direct", "parentLink"}     \* mutant: O_NOFOLLOW alone
FollowedRoutes == IF NoFollowAny THEN {"direct"} ELSE {"direct", "parentLink"}
Opens(r) == entry[r] # Missing /\ entry[r].route \in FollowedRoutes

\* There is no O_NONBLOCK, so that opening a FIFO does not come back.
AfterOpen(i) == IF i \in Fifos THEN "blocked" ELSE "fstat"

IsFile(i) == i \notin Directories

\* openVerified(id): an identifier without a record is refused at once.
BeginOpen(q, r) ==
  /\ oat[q] = "idle"
  /\ oid' = [oid EXCEPT ![q] = r]
  /\ IF r \in DOMAIN pinned
     THEN oat' = [oat EXCEPT ![q] = "open"] /\ UNCHANGED ores
     ELSE oat' = [oat EXCEPT ![q] = "done"] /\ ores' = [ores EXCEPT ![q] = "changed"]
  /\ UNCHANGED <<paths, oh>>

Open(q) ==
  /\ oat[q] = "open"
  /\ \/ /\ Opens(oid[q])
        /\ oat' = [oat EXCEPT ![q] = AfterOpen(entry[oid[q]].inode)]
        /\ oh' = IF oat'[q] = "blocked" THEN oh
                 ELSE [oh EXCEPT ![q] = entry[oid[q]].inode]
        /\ UNCHANGED ores
     \/ /\ ~Opens(oid[q]) \/ "io" \in mishaps
        /\ oat' = [oat EXCEPT ![q] = "done"]
        /\ ores' = [ores EXCEPT ![q] = "changed"]
        /\ UNCHANGED oh
  /\ UNCHANGED <<paths, oid>>

\* The opened file, not the path, is compared with the captured identity.
SameIdentity_FileOnly(q) == IsFile(oh[q])                \* mutant: no identity check
SameIdentity(q) == IsFile(oh[q]) /\ oh[q] = pinned[oid[q]]

Mismatch(q) == oat' = [oat EXCEPT ![q] = "drop"] /\ UNCHANGED ores

Verify(q) ==
  /\ oat[q] = "fstat"
  /\ \/ /\ SameIdentity(q)
        /\ oat' = [oat EXCEPT ![q] = "done"]
        /\ ores' = [ores EXCEPT ![q] = "ok"]
     \/ /\ ~SameIdentity(q) \/ "io" \in mishaps
        /\ Mismatch(q)
  /\ UNCHANGED <<paths, oid, oh>>

\* The catch closes the handle, swallowing an error, and throws.
Drop(q) == /\ oat[q] = "drop"
           /\ oh' = [oh EXCEPT ![q] = NoHandle]
           /\ oat' = [oat EXCEPT ![q] = "done"]
           /\ ores' = [ores EXCEPT ![q] = "changed"]
           /\ UNCHANGED <<paths, oid>>

OpenStep(q) == Open(q) \/ Verify(q) \/ Drop(q)

\* The owner replaces, removes or restores what the path names.
Repoint(r) ==
  /\ "repoint" \in mishaps
  /\ \E p \in PathState \ {entry[r]} : entry' = [entry EXCEPT ![r] = p]
  /\ moved' = moved \cup {r}
  /\ UNCHANGED <<pinned, openVars>>
=============================================================================
