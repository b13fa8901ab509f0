---------------------------- MODULE FencedVersion ----------------------------
(***************************************************************************)
(* What the lease and the lock_version promise together: the version item  *)
(* has at most one worker whose writes the table accepts, and every write  *)
(* of the API takes that right away.                                       *)
(***************************************************************************)
EXTENDS Naturals

CONSTANTS Worker, None

VARIABLES
    version,    \* the content of the version item
    revision,   \* grows with every write the API commits
    writer      \* the worker whose save_version would be accepted, or None

vars == <<version, revision, writer>>

Init == revision = 0 /\ writer = None

\* A worker has taken the lease and knows the lock_version it got: never while
\* another one still could write.
Grant(w) == writer = None /\ writer' = w /\ UNCHANGED <<version, revision>>

\* The lease is completed, released, taken over, or its holder is gone.
Revoke == writer' = None /\ UNCHANGED <<version, revision>>

WorkerWrite(w) == writer = w /\ writer' = w /\ UNCHANGED revision

ApiWrite == revision' > revision /\ writer' = None

Next ==
    \/ \E w \in Worker : Grant(w) \/ WorkerWrite(w)
    \/ Revoke
    \/ ApiWrite

Spec == Init /\ [][Next]_vars
==============================================================================
