---------------------------- MODULE SnapshotStore ----------------------------
(***************************************************************************)
(* What the crawl engine relies on from its store (trait CrawlStore):      *)
(* replacing the snapshot is atomic.  Until a save has taken effect the    *)
(* previous snapshot is the one a load returns, whether the save returned  *)
(* an error or the process died in it.  Only the very first save has no    *)
(* such promise: interrupted, it leaves a store that refuses to load.      *)
(***************************************************************************)
CONSTANTS
    Snapshots,
    NoSnapshot     \* load() found no store, not in Snapshots

VARIABLES
    saved,      \* the snapshot a load returns
    proposed,   \* the snapshot a save in progress is writing
    spoiled,    \* the first save was interrupted
    answer      \* what the last call returned

vars == <<saved, proposed, spoiled, answer>>

Errors == {"Io", "Corrupt"}
Answers == Snapshots \cup Errors \cup {NoSnapshot, "Saved", "Busy", "Crashed"}

Init ==
    /\ saved = NoSnapshot
    /\ proposed = NoSnapshot
    /\ spoiled = FALSE
    /\ answer = NoSnapshot

Load ==
    /\ proposed = NoSnapshot
    /\ answer' = IF saved = NoSnapshot /\ spoiled THEN "Corrupt" ELSE saved
    /\ UNCHANGED <<saved, proposed, spoiled>>

Refuse ==
    /\ proposed = NoSnapshot
    /\ answer' \in Errors
    /\ UNCHANGED <<saved, proposed, spoiled>>

Propose(s) ==
    /\ proposed = NoSnapshot
    /\ ~ spoiled
    /\ proposed' = s
    /\ answer' = "Busy"
    /\ UNCHANGED <<saved, spoiled>>

\* The store of the first save exists before it holds a snapshot.
Spoil ==
    /\ proposed # NoSnapshot
    /\ saved = NoSnapshot
    /\ spoiled' = TRUE
    /\ UNCHANGED <<saved, proposed, answer>>

\* The instant at which the save takes effect.
Install ==
    /\ proposed # NoSnapshot
    /\ saved' = proposed
    /\ spoiled' = FALSE
    /\ UNCHANGED <<proposed, answer>>

Acknowledge ==
    /\ proposed # NoSnapshot
    /\ saved = proposed
    /\ ~ spoiled
    /\ answer' = "Saved"
    /\ proposed' = NoSnapshot
    /\ UNCHANGED <<saved, spoiled>>

GiveUp ==
    /\ proposed # NoSnapshot
    /\ answer' = "Io"
    /\ proposed' = NoSnapshot
    /\ UNCHANGED <<saved, spoiled>>

Crash ==
    /\ answer' = "Crashed"
    /\ proposed' = NoSnapshot
    /\ UNCHANGED <<saved, spoiled>>

Next ==
    \/ Load \/ Refuse \/ Spoil \/ Install \/ Acknowledge \/ GiveUp \/ Crash
    \/ \E s \in Snapshots : Propose(s)

Spec == Init /\ [][Next]_vars
=============================================================================
