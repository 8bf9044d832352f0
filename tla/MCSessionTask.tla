--------------------------- MODULE MCSessionTask ---------------------------
(* Small instances of SessionTask. *)
EXTENDS SessionTask, TLC

CONSTANTS c1, c2, c3, w1, w2

\* A collection task, and one that starts in the page left by another.
MCTasks == {<<"Navigate", "WaitForSelector", "Click">>, <<"Read", "Navigate">>}
WaitTasks == {<<"Navigate", "WaitForSelector">>}
Symmetry == Permutations(Callers) \cup Permutations(Workers)
=============================================================================
