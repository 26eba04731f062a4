------------------------------ MODULE AuditLog ------------------------------
(***************************************************************************)
(* What src/audit.ts promises to its callers, with no files and no awaits: *)
(* a log that only grows, and the report each call of append or            *)
(* validateAuditDestination makes of it.  AuditWriter implements it.       *)
(***************************************************************************)
CONSTANTS Calls, Events, NoEvent

VARIABLES asked,     \* the event each call is to append
          stored,    \* the calls whose whole record is on the disk, for good
          reported   \* what each caller has been told

logVars == <<asked, stored, reported>>

LogInit == /\ asked = [c \in Calls |-> NoEvent]
           /\ stored = {}
           /\ reported = [c \in Calls |-> "none"]

Ask(c, e) == /\ reported[c] = "none"
             /\ asked' = [asked EXCEPT ![c] = e]
             /\ reported' = [reported EXCEPT ![c] = "pending"]
             /\ UNCHANGED stored

\* The calls whose record may still come to the disk, by any call's sync or
\* by itself: those that run, and those that failed or died after writing it.
MayAppear == {c \in Calls : /\ asked[c] # NoEvent
                            /\ reported[c] \in {"pending", "AUDIT_WRITE_FAILED", "lost"}}
Grows == stored \subseteq stored' /\ stored' \subseteq stored \cup MayAppear

Appear == Grows /\ UNCHANGED <<asked, reported>>

\* "ok" means stored, an invalid destination means stored neither now nor later,
\* only an append can fail to write, and only a validation report a raw error.
Report(c, code) ==
  /\ reported[c] = "pending"
  /\ code = "ok" => asked[c] = NoEvent \/ c \in stored
  /\ code = "AUDIT_DESTINATION_INVALID" => c \notin stored
  /\ code = "AUDIT_WRITE_FAILED" => asked[c] # NoEvent
  /\ code = "EIO" => asked[c] = NoEvent
  /\ reported' = [reported EXCEPT ![c] = code]
  /\ UNCHANGED <<asked, stored>>

\* The process ends, or the host: every caller that waits is lost.
Crash == /\ reported' = [c \in Calls |-> IF reported[c] = "pending" THEN "lost"
                                         ELSE reported[c]]
         /\ Grows
         /\ UNCHANGED asked

LogNext == \/ \E c \in Calls : \/ \E e \in Events \cup {NoEvent} : Ask(c, e)
                               \/ \E code \in {"ok", "AUDIT_DESTINATION_INVALID",
                                               "AUDIT_WRITE_FAILED", "EIO"} : Report(c, code)
           \/ Appear
           \/ Crash

LogSpec == LogInit /\ [][LogNext]_logVars
=============================================================================
