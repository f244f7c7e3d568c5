-------------------------- MODULE MCWorkflowGraph --------------------------
(* Small instances of WorkflowGraph.                                        *)
EXTENDS WorkflowGraph

Full(driven) ==
  [planner |-> TRUE, security |-> TRUE, researcher |-> TRUE, gates |-> TRUE,
   autoAdvance |-> TRUE, onChangesRequested |-> "advance", auto |-> driven]

Without(driven, fields) == {[Full(driven) EXCEPT ![f] = FALSE] : f \in fields}

\* A session with everything, and those that depart from it where it matters to
\* whoever drives it: its defaults, or an operator.
FullOrLess ==
  {Full(TRUE), Full(FALSE),
   [Full(TRUE) EXCEPT !.onChangesRequested = "stop", !.security = FALSE]}
    \cup Without(TRUE, {"planner", "researcher", "gates", "autoAdvance"})
    \cup Without(FALSE, {"planner"})

=============================================================================
