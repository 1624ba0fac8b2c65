----------------------------- MODULE EnvLedger -----------------------------
(***************************************************************************)
(* What the provisioning of an environment promises to those who read its  *)
(* record, whoever does the work: resources appear one at a time and in    *)
(* order, "ready" comes after the last of them, a rollback removes what    *)
(* is there in reverse order, and "failed" comes when nothing more will    *)
(* happen.  The step that failed is the exception: its resource may have   *)
(* appeared, and no rollback removes it.                                   *)
(***************************************************************************)
EXTENDS Environment

VARIABLES
    status,   \* as in the record
    ids,      \* the resources the record holds
    kept,     \* the step that failed, 0 while none has
    phase     \* what may still happen

ledgerVars == <<status, ids, kept, phase>>

Phase == {"idle", "forward", "undoing", "delivered", "clean", "stuck", "aborted"}

LedgerInit ==
    /\ status = "absent"
    /\ ids = {}
    /\ kept = 0
    /\ phase = "idle"

Register ==
    /\ phase = "idle" /\ status = "absent"
    /\ status' = "provisioning"
    /\ UNCHANGED <<ids, kept, phase>>

Begin ==
    /\ phase = "idle" /\ status = "provisioning"
    /\ phase' = "forward"
    /\ UNCHANGED <<status, ids, kept>>

Provision(i) ==
    /\ phase \in {"forward", "aborted"} /\ kept = 0
    /\ status = "provisioning" /\ ids = 1..(i - 1)
    /\ ids' = ids \cup {i}
    /\ UNCHANGED <<status, kept, phase>>

Commit ==
    /\ phase \in {"forward", "aborted"} /\ kept = 0
    /\ status = "provisioning" /\ ids = Resource
    /\ status' = "ready"
    /\ UNCHANGED <<ids, kept, phase>>

Deliver ==
    /\ phase = "forward" /\ status = "ready"
    /\ phase' = "delivered"
    /\ UNCHANGED <<status, ids, kept>>

\* Step k fails for good: roll back what precedes it, if anything does.
Fail(k) ==
    /\ phase = "forward"
    /\ ids \ {k} = Resource \cap 1..(k - 1)
    /\ kept' = k
    /\ phase' = IF k = 1 THEN "clean" ELSE "undoing"
    /\ UNCHANGED <<status, ids>>

Undo(i) ==
    /\ phase \in {"undoing", "aborted"} /\ kept # 0
    /\ ids \ {kept} = 1..i
    /\ ids' = ids \ {i}
    /\ UNCHANGED <<status, kept, phase>>

\* The rollback is done, or given up.
RolledBack ==
    /\ phase = "undoing"
    /\ \/ ids \subseteq {kept} /\ phase' = "clean"
       \/ phase' = "stuck"
    /\ UNCHANGED <<status, ids, kept>>

Abort ==
    /\ phase \in {"idle", "forward", "undoing"} /\ status # "absent"
    /\ phase' = "aborted"
    /\ UNCHANGED <<status, ids, kept>>

\* The record is replaced by the one the environment was created with: what
\* the rollback left behind is no longer known.
MarkFailed ==
    /\ phase \in {"idle", "clean", "stuck", "aborted"} /\ status # "absent"
    /\ phase = "aborted" => ids = {}
    /\ status' = "failed"
    /\ ids' = {}
    /\ UNCHANGED <<kept, phase>>

LedgerNext ==
    \/ Register \/ Begin \/ Commit \/ Deliver
    \/ \E i \in Resource : Provision(i) \/ Undo(i)
    \/ \E k \in Step : Fail(k)
    \/ RolledBack \/ Abort \/ MarkFailed

LedgerSpec == LedgerInit /\ [][LedgerNext]_ledgerVars
=============================================================================
