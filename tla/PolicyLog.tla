----------------------------- MODULE PolicyLog ------------------------------
(***************************************************************************)
(* What the tenant policy rollout promises, with no handler, transaction   *)
(* or measurement in sight: a tenant's policy is an append-only log of     *)
(* documents; a document enters the log as a shadow candidate; and the     *)
(* only way a document becomes enforced is to be re-appended, unchanged,   *)
(* directly after its own shadow revision, once that revision has been     *)
(* measured.  TenantPolicy implements this specification.                  *)
(***************************************************************************)
EXTENDS Naturals, Sequences

CONSTANTS Docs      \* the documents that pass validation

VARIABLES
    log,            \* the revisions, oldest first
    measured        \* the versions traffic has measured

logVars == <<log, measured>>

Entry == [doc : Docs, mode : {"shadow", "enforce"}]

LogInit == log = << >> /\ measured = {}

\* A save or a rollback: a new candidate, never in force.
Propose(d) ==
    /\ log' = Append(log, [doc |-> d, mode |-> "shadow"])
    /\ UNCHANGED measured

\* Enough visitor traffic was evaluated against version v.
Measure(v) ==
    /\ v \in DOMAIN log
    /\ log[v].mode = "shadow"
    /\ measured' = measured \cup {v}
    /\ UNCHANGED log

\* The newest revision, measured, is put in force as it stands.
Enforce ==
    /\ Len(log) \in measured
    /\ log' = Append(log, [log[Len(log)] EXCEPT !.mode = "enforce"])
    /\ UNCHANGED measured

LogNext ==
    \/ \E d \in Docs : Propose(d)
    \/ \E v \in DOMAIN log : Measure(v)
    \/ Enforce

LogSpec == LogInit /\ [][LogNext]_logVars
=============================================================================
