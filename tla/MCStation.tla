----------------------------- MODULE MCStation -----------------------------
(* Small instances of Station. *)
EXTENDS Station, TLC

CONSTANTS a1, a2, b, p, q

\* Two identities of one profile (personas that exclude each other), and another.
MCProfileOf == [id \in Identities |-> IF id = b THEN q ELSE p]

SubscribeCalls == {"Lease", "Subscribe", "Emergency"}
EmergencyCalls == {"Lease", "Use", "Shutdown", "Emergency"}
OrderlyCalls == Calls \ {"Emergency", "Subscribe"}
AllCalls == Calls
Symmetry == Permutations(Callers)
=============================================================================
