------------------------------ MODULE CrawlStore ------------------------------
(***************************************************************************)
(* FileStore of crates/dig2browser-crawler/src/store.rs: the snapshot of a *)
(* crawl job in up to three files.  The first save creates the journal     *)
(* file; later ones truncate and rewrite one of two slots in turn.  A load *)
(* reads all three, drops torn tails and takes the highest generation.     *)
(*                                                                         *)
(* The process may die, and a write or a sync may fail, between any two    *)
(* system calls of a save.  Abstracted: a file is absent, without a        *)
(* complete record (torn), or holds one record; the bytes of a record,     *)
(* its checksum, and files damaged from outside are left out, as are       *)
(* journals of the format before (D2CRAWL1), which hold several records.   *)
(***************************************************************************)
EXTENDS Integers

CONSTANTS
    Snapshots,
    NoSnapshot,
    MaxGeneration      \* u64::MAX, where a save is refused

ASSUME StoreAssumption ==
    /\ NoSnapshot \notin Snapshots
    /\ MaxGeneration \in Nat

VARIABLES
    file,      \* the candidates on disk
    save,      \* the save in progress: where it is and what it writes
    answer     \* what the last call returned

vars == <<file, save, answer>>

Candidates == {"path", "slot0", "slot1"}

Absent == [kind |-> "absent"]
Torn == [kind |-> "torn"]
Record(g, s) == [kind |-> "record", generation |-> g, snapshot |-> s]
Records == [kind : {"record"}, generation : 1..MaxGeneration, snapshot : Snapshots]

Idle == [at |-> "idle"]
Saves == [at : {"open", "write", "sync"}, target : Candidates,
          generation : 1..MaxGeneration, snapshot : Snapshots]

Errors == {"Io", "Corrupt"}
Answers == Snapshots \cup Errors \cup {NoSnapshot, "Saved", "Busy", "Crashed"}

TypeOK ==
    /\ file \in [Candidates -> Records \cup {Absent, Torn}]
    /\ save \in Saves \cup {Idle}
    /\ answer \in Answers

-----------------------------------------------------------------------------
(* load_latest *)

Complete == {c \in Candidates : file[c].kind = "record"}
AnyFile == \E c \in Candidates : file[c].kind # "absent"

Newest(c) == /\ c \in Complete
             /\ \A d \in Complete : file[d].generation <= file[c].generation
Latest == file[CHOOSE c \in Candidates : Newest(c)]

Conflict == \E c, d \in Complete : /\ file[c].generation = file[d].generation
                                   /\ file[c].snapshot # file[d].snapshot

\* What load() returns; read_candidate cuts a torn tail off, which leaves a torn file.
Loaded ==
    IF Conflict THEN "Corrupt"
    ELSE IF Complete # {} THEN Latest.snapshot
    ELSE IF AnyFile THEN "Corrupt" ELSE NoSnapshot

NextGeneration == IF Complete = {} THEN 1 ELSE Latest.generation + 1

\* Mutant: only one of the two slots is used.
TargetOnce(g) == IF Complete = {} THEN "path" ELSE "slot0"

Target(g) ==
    IF Complete = {} THEN "path" ELSE IF g % 2 = 0 THEN "slot0" ELSE "slot1"

-----------------------------------------------------------------------------
Init ==
    /\ file = [c \in Candidates |-> Absent]
    /\ save = Idle
    /\ answer = NoSnapshot

Load ==
    /\ save = Idle
    /\ answer' = Loaded
    /\ UNCHANGED <<file, save>>

\* Mutant: the last generation is not looked for.
RefusedButLast ==
    \/ Conflict
    \/ Complete = {} /\ AnyFile

\* save() refuses a store without a complete record, a conflict, and the last generation.
Refused ==
    \/ Conflict
    \/ Complete = {} /\ AnyFile
    \/ NextGeneration > MaxGeneration

RefuseSave ==
    /\ save = Idle
    /\ Refused
    /\ answer' = "Corrupt"
    /\ UNCHANGED <<file, save>>

BeginSave(s) ==
    /\ save = Idle
    /\ ~ Refused
    /\ save' = [at |-> "open", target |-> Target(NextGeneration),
                generation |-> NextGeneration, snapshot |-> s]
    /\ answer' = "Busy"
    /\ UNCHANGED file

\* create_new for the journal, create and truncate for a slot: what was there is gone.
OpenTarget ==
    /\ save.at = "open"
    /\ file' = [file EXCEPT ![save.target] = Torn]
    /\ save' = [save EXCEPT !.at = "write"]
    /\ UNCHANGED answer

WriteRecord ==
    /\ save.at = "write"
    /\ file' = [file EXCEPT ![save.target] = Record(save.generation, save.snapshot)]
    /\ save' = [save EXCEPT !.at = "sync"]
    /\ UNCHANGED answer

SyncRecord ==
    /\ save.at = "sync"
    /\ save' = Idle
    /\ answer' = "Saved"
    /\ UNCHANGED file

\* An open, a write (of a part of the record) or a sync fails; the file keeps what it has.
SaveFails ==
    /\ save # Idle
    /\ save' = Idle
    /\ answer' = "Io"
    /\ UNCHANGED file

Crash ==
    /\ save' = Idle
    /\ answer' = "Crashed"
    /\ UNCHANGED file

Next ==
    \/ Load \/ RefuseSave \/ OpenTarget \/ WriteRecord \/ SyncRecord \/ SaveFails \/ Crash
    \/ \E s \in Snapshots : BeginSave(s)

Spec == Init /\ [][Next]_vars

-----------------------------------------------------------------------------
(* Properties *)

\* The generations of the candidates are distinct: no load can find two snapshots to
\* choose from (the conflict load_latest reports), however saves were cut short.
GenerationsDiffer ==
    \A c, d \in Complete : file[c].generation = file[d].generation => c = d

\* A save never has the only copy of the latest snapshot open for rewriting.
LatestIsSpared ==
    save.at = "open" /\ Complete # {} => ~ Newest(save.target)

Store == INSTANCE SnapshotStore WITH
    saved <- IF Complete = {} THEN NoSnapshot ELSE Latest.snapshot,
    proposed <- IF save = Idle THEN NoSnapshot ELSE save.snapshot,
    spoiled <- Complete = {} /\ AnyFile,
    answer <- answer

\* The three files behave as one register that is replaced atomically: a load returns the
\* last snapshot acknowledged, or one whose save failed later, whatever was cut short.
SavesAreAtomic == Store!Spec
=============================================================================
