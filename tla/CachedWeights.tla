--------------------------- MODULE CachedWeights ---------------------------
(***************************************************************************)
(* What the compressed-weight cache promises its caller (spec 4.7): after  *)
(* loading, the process computes with exactly the weights that compressing *)
(* the original floats for its configuration gives, never a partial or     *)
(* mixed load; how they got there (cache hit or regeneration) is not       *)
(* visible.  A process may stop and a new one start with any              *)
(* configuration; a process that keeps running eventually has weights.     *)
(***************************************************************************)
CONSTANTS
    Configs,       \* configurations a process may run with
    Refs,          \* the caller's buffers: tensors and scales
    Want(_, _),    \* Want(r, c): what buffer r holds once compressed for c
    NotLoaded      \* no weights yet

VARIABLES
    config,        \* the running process's configuration
    weights        \* NotLoaded, or the contents of every buffer

vars == <<config, weights>>

Init ==
    /\ config \in Configs
    /\ weights = NotLoaded

\* The load sequence ends: every buffer holds its wanted contents at once.
Load ==
    /\ weights = NotLoaded
    /\ weights' = [r \in Refs |-> Want(r, config)]
    /\ UNCHANGED config

\* The process stops and one with configuration c starts.
Restart(c) ==
    /\ config' = c
    /\ weights' = NotLoaded

Next == Load \/ \E c \in Configs : Restart(c)

Spec == Init /\ [][Next]_vars /\ WF_vars(Load)
=============================================================================
