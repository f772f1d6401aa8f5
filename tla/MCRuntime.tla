----------------------------- MODULE MCRuntime -----------------------------
\* Runtime with two containers: hooks of every kind, and the tasks' homes.
EXTENDS Runtime, TLC

CONSTANTS q1, q2, i1

\* One hook of every kind in each container.
OneHook == [k \in HookKind |-> [c \in Containers |-> 1]]

\* A task in each container, and one that is launched by a hook of the last.
HomeOf == [t \in Tasks |-> IF t = q1 THEN 1 ELSE N]
=============================================================================
