------------------------------ MODULE MCWorker ------------------------------
(* Small instances of Worker. *)
EXTENDS Worker, TLC

AllRequests == Requests
Symmetry == Permutations(Clients)
=============================================================================
