---------------------------- MODULE RuntimeMirror ----------------------------
(***************************************************************************)
(* The mirror of a browser's directory in the station's catalog            *)
(* (src/windows_runtime_mirror.rs), for one content key: processes build   *)
(* it in a staging directory of their own, publish it with one rename,     *)
(* lease and reuse it, remove it, and reclaim what dead processes left.    *)
(*                                                                         *)
(* Files stands for the tree: one file in a subdirectory, the main         *)
(* executable and the readiness manifest.  A staging directory is named    *)
(* after its creator's process id and creation time, so it is a function   *)
(* of the process.  A lease shares reading only; an open for removal       *)
(* shares no deletion.                                                     *)
(***************************************************************************)
EXTENDS Integers, FiniteSets

CONSTANTS
    Processes,            \* incarnations: a process id with its creation time
    Absent,
    MaxBuilds,            \* bound: mirrors that are published
    RemovalInterrupted    \* whether a process may die, or a deletion fail, in a removal

VARIABLES
    mirror,      \* the published directory and its file identity, or Absent
    staging,     \* the files in the staging directory of each process, or Absent
    proc,        \* where each process is
    builds

mirrorVars == <<mirror, staging, proc, builds>>

Files == {"deep", "main", "manifest"}
Source == Files \ {"manifest"}

Off == [at |-> "Off"]
Dead == [at |-> "Dead"]
Idle == [at |-> "Idle"]

MirrorTypeOK ==
    /\ mirror \in {Absent} \cup [files : SUBSET Files, identity : Nat]
    /\ staging \in [Processes -> {Absent} \cup SUBSET Files]
    /\ proc \in [Processes ->
            [at : {"Off", "Dead", "Idle", "Build", "Clean", "Published", "Leased"}]
            \cup [at : {"Reconcile"}, seen : SUBSET Processes]
            \cup [at : {"Token", "Inspected", "Delete"}, identity : Nat]]
    /\ builds \in Nat

MirrorInit ==
    /\ mirror = Absent
    /\ staging = [p \in Processes |-> Absent]
    /\ proc = [p \in Processes |-> Off]
    /\ builds = 0

Goes(p, at) == proc' = [proc EXCEPT ![p] = [at |-> at]]

\* Who has the root open for a lease, or locked for its removal.
Leasing == {p \in Processes : proc[p].at = "Leased"}
Deleting == {p \in Processes : proc[p].at = "Delete"}

-----------------------------------------------------------------------------
(* ensure_mirror_base *)

\* The first use of the catalog by a process looks at the staging directories it finds.
Start(p) ==
    /\ proc[p] = Off
    /\ proc' = [proc EXCEPT ![p] =
                  [at |-> "Reconcile", seen |-> {q \in Processes : staging[q] # Absent}]]
    /\ UNCHANGED <<mirror, staging, builds>>

\* staging_creator_state(): a creator that cannot be looked at is not dead.
CreatorDead(q) == proc[q] = Dead

\* reclaim_orphaned_staging_entry(): file by file, as far as it gets.
Reclaim(p) ==
    /\ proc[p].at = "Reconcile"
    /\ \E q \in proc[p].seen :
          /\ proc' = [proc EXCEPT ![p].seen = @ \ {q}]
          /\ \/ UNCHANGED staging
             \/ /\ CreatorDead(q) /\ staging[q] # Absent
                /\ \E left \in {Absent} \cup SUBSET staging[q] :
                      staging' = [staging EXCEPT ![q] = left]
    /\ UNCHANGED <<mirror, builds>>

Reconciled(p) ==
    /\ proc[p].at = "Reconcile" /\ proc[p].seen = {}
    /\ Goes(p, "Idle") /\ UNCHANGED <<mirror, staging, builds>>

-----------------------------------------------------------------------------
(* materialize *)

\* inspect_ready_mirror(): the root can be leased, the manifest is there and the main
\* executable it names.
Ready == /\ mirror # Absent /\ Deleting = {}
         /\ {"main", "manifest"} \subseteq mirror.files

Reuse(p) ==
    /\ proc[p] = Idle /\ mirror # Absent
    /\ Goes(p, IF Ready THEN "Leased" ELSE "Idle")
    /\ UNCHANGED <<mirror, staging, builds>>

CreateStaging(p) ==
    /\ proc[p] = Idle /\ mirror = Absent
    /\ staging' = [staging EXCEPT ![p] = {}]
    /\ Goes(p, "Build") /\ UNCHANGED <<mirror, builds>>

\* populate_staging(), the second look at the source, and the manifest.
\* Mutant: the manifest is written first.
ManifestAtOnce(files) == TRUE
MayAdd(files) == Source \subseteq files

Populate(p) ==
    /\ proc[p].at = "Build"
    /\ \E f \in Files \ staging[p] :
          /\ f = "manifest" => MayAdd(staging[p])
          /\ staging' = [staging EXCEPT ![p] = @ \cup {f}]
    /\ UNCHANGED <<mirror, proc, builds>>

\* An entry cannot be created, or the source has changed.
BuildFails(p) ==
    /\ proc[p].at = "Build"
    /\ Goes(p, "Clean") /\ UNCHANGED <<mirror, staging, builds>>

\* cleanup_owned_staging(), then the copy where hard links were denied, or the error.
Clean(p) ==
    /\ proc[p].at = "Clean"
    /\ \/ staging' = [staging EXCEPT ![p] = {}] /\ Goes(p, "Build")
       \/ \E left \in {Absent} \cup SUBSET staging[p] :
             staging' = [staging EXCEPT ![p] = left] /\ Goes(p, "Idle")
    /\ UNCHANGED <<mirror, builds>>

\* publish_staging(): the rename fails when the key is taken, and what is there is used.
Publish(p) ==
    /\ proc[p].at = "Build" /\ "manifest" \in staging[p]
    /\ IF mirror = Absent
       THEN /\ builds < MaxBuilds /\ builds' = builds + 1
            /\ mirror' = [files |-> staging[p], identity |-> builds + 1]
            /\ staging' = [staging EXCEPT ![p] = Absent]
            /\ Goes(p, "Published")
       ELSE /\ staging' = [staging EXCEPT ![p] = Absent]
            /\ Goes(p, IF Ready THEN "Leased" ELSE "Idle")
            /\ UNCHANGED <<mirror, builds>>

\* The staging handle is closed before the mirror is opened for its lease.
Lease(p) ==
    /\ proc[p].at = "Published"
    /\ Goes(p, IF Ready THEN "Leased" ELSE "Idle")
    /\ UNCHANGED <<mirror, staging, builds>>

Release(p) ==
    /\ proc[p].at = "Leased"
    /\ Goes(p, "Idle") /\ UNCHANGED <<mirror, staging, builds>>

-----------------------------------------------------------------------------
(* remove, remove_with_retry *)

\* A mirror that was leased, or found by inventory(), becomes a removal token.
Remove(p) ==
    /\ proc[p].at = "Leased" \/ (proc[p] = Idle /\ Ready)
    /\ proc' = [proc EXCEPT ![p] = [at |-> "Token", identity |-> mirror.identity]]
    /\ UNCHANGED <<mirror, staging, builds>>

Inspect(p) ==
    /\ proc[p].at = "Token"
    /\ IF Ready /\ mirror.identity = proc[p].identity
       THEN proc' = [proc EXCEPT ![p].at = "Inspected"]
       ELSE Goes(p, "Idle")
    /\ UNCHANGED <<mirror, staging, builds>>

\* The delete locks on the root and on every entry: nobody leases it, nobody removes it.
\* Mutant: the root is opened for sharing.
RootShared == TRUE
RootLockable == Leasing = {} /\ Deleting = {}

SameMirror(p) == mirror # Absent /\ mirror.identity = proc[p].identity

Lock(p) ==
    /\ proc[p].at = "Inspected"
    /\ \/ SameMirror(p) /\ RootLockable /\ proc' = [proc EXCEPT ![p].at = "Delete"]
       \/ SameMirror(p) /\ ~ RootLockable /\ proc' = [proc EXCEPT ![p].at = "Token"]  \* later
       \/ (~ SameMirror(p) \/ ~ RootLockable) /\ Goes(p, "Idle")                      \* no more
    /\ UNCHANGED <<mirror, staging, builds>>

\* remove_open_tree(): files before directories, the deepest first, then by name downwards.
FirstOf(files) ==
    IF "deep" \in files THEN "deep" ELSE IF "main" \in files THEN "main" ELSE "manifest"

Delete(p) ==
    /\ proc[p].at = "Delete"
    /\ IF mirror # Absent /\ mirror.files # {}
       THEN mirror' = [mirror EXCEPT !.files = @ \ {FirstOf(@)}] /\ UNCHANGED proc
       ELSE mirror' = Absent /\ Goes(p, "Idle")
    /\ UNCHANGED <<staging, builds>>

DeleteFails(p) ==
    /\ RemovalInterrupted /\ proc[p].at = "Delete"
    /\ Goes(p, "Idle") /\ UNCHANGED <<mirror, staging, builds>>

\* The process dies, and its handles are closed.
Die(p) ==
    /\ proc[p] \notin {Off, Dead} /\ (proc[p].at = "Delete" => RemovalInterrupted)
    /\ proc' = [proc EXCEPT ![p] = Dead]
    /\ UNCHANGED <<mirror, staging, builds>>

MirrorStep(p) ==
    \/ Start(p) \/ Reclaim(p) \/ Reconciled(p)
    \/ Reuse(p) \/ CreateStaging(p) \/ Populate(p) \/ BuildFails(p) \/ Clean(p)
    \/ Publish(p) \/ Lease(p) \/ Release(p)
    \/ Remove(p) \/ Inspect(p) \/ Lock(p) \/ Delete(p) \/ DeleteFails(p) \/ Die(p)

MirrorNext == \E p \in Processes : MirrorStep(p)

MirrorSpec == MirrorInit /\ [][MirrorNext]_mirrorVars

-----------------------------------------------------------------------------
(* Properties *)

\* Who was given a mirror has the browser's complete directory in it, for as long as it
\* holds the lease.  A removal that is interrupted breaks this: what is left of the mirror
\* is reused.
LeasedMirrorIsComplete == Leasing # {} => mirror # Absent /\ mirror.files = Files
=============================================================================
