------------------------------ MODULE ReadGate ------------------------------
(***************************************************************************)
(* What read_resource promises, with no files, handles or awaits: between  *)
(* a request and its reply stands a ledger that only grows.  Each request  *)
(* is entered at most once, nothing is replied that the ledger does not    *)
(* say (a reply that auditing failed says nothing about the resource), and *)
(* content is released only for what the running broker's policy grants.   *)
(* This is the contract of DECISIONS.md, ADR-006 and ADR-012.              *)
(***************************************************************************)
CONSTANTS Requests, Resources, Events, NoResource, NoAnswer, NoContent

VARIABLES granted,   \* the resources the running broker may release
          asked,     \* the resource each request asks for
          ledger,    \* the entries made for each request
          reply,     \* each request's reply
          gone       \* the requests that died with their broker

gateVars == <<granted, asked, ledger, reply, gone>>

GateInit == /\ granted \in SUBSET Resources
            /\ asked = [q \in Requests |-> NoResource]
            /\ ledger = [q \in Requests |-> {}]
            /\ reply = [q \in Requests |-> NoAnswer]
            /\ gone = {}

Pending(q) == asked[q] # NoResource /\ reply[q] = NoAnswer /\ q \notin gone

Ask(q, r) == /\ asked[q] = NoResource /\ q \notin gone
             /\ asked' = [asked EXCEPT ![q] = r]
             /\ UNCHANGED <<granted, ledger, reply, gone>>

\* The ledger may be entered late, even when the request is past answering.
Enters == \A q \in Requests :
            \/ ledger'[q] = ledger[q]
            \/ /\ ledger[q] = {} /\ asked[q] # NoResource
               /\ \E e \in Events : e.resource = asked[q] /\ ledger'[q] = {e}

Record == Enters /\ DOMAIN ledger' = Requests /\ UNCHANGED <<granted, asked, reply, gone>>

Told(q) == \E e \in ledger[q] : /\ reply'[q].decision = e.decision
                                /\ reply'[q].reason = e.reason

Reply(q) ==
  /\ Pending(q)
  /\ \A p \in Requests \ {q} : reply'[p] = reply[p]
  /\ reply'[q] # NoAnswer
  /\ \/ reply'[q].decision = "error" /\ reply'[q].reason = "AUDIT_FAILED"
     \/ Told(q)
  /\ IF reply'[q].decision = "allow" THEN asked[q] \in granted
                                     ELSE reply'[q].content = NoContent
  /\ UNCHANGED <<granted, asked, ledger, gone>>

\* A new broker, with a new policy; the requests of the old one are forgotten.
Renew == /\ granted' \in SUBSET Resources
         /\ gone' = gone \cup {q \in Requests : Pending(q)}
         /\ Enters
         /\ UNCHANGED <<asked, reply>>

GateNext == \/ \E q \in Requests, r \in Resources : Ask(q, r)
            \/ Record
            \/ \E q \in Requests : Reply(q)
            \/ Renew

GateSpec == GateInit /\ [][GateNext]_gateVars
=============================================================================
