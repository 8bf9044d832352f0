----------------------------- MODULE DiskProofs -----------------------------
(***************************************************************************)
(* What is on disk survives whatever cuts its writing short: the store of  *)
(* crawls, the journals of monitors and what a profile says of its         *)
(* identity.                                                               *)
(*                                                                         *)
(* CrawlStore: for any snapshots and any last generation the three files   *)
(* are one register that is replaced atomically.  A generation tells in    *)
(* which file its record is, and the next generation belongs in another    *)
(* file than the newest one.                                               *)
(*                                                                         *)
(* Monitor: for any monitors, frames and crashes, while no append fails.   *)
(* A journal is whole up to a record that a crash tore (Body), and what a  *)
(* client has read is a prefix of that; a sink agrees with its file from   *)
(* begin() to the end of the last share of the session.                    *)
(*                                                                         *)
(* ProfileRecords: for any identities.  A binding that is under way says   *)
(* which manifests it has passed, and what those hold (Follows); one that  *)
(* runs on a bound profile finds every manifest there.                     *)
(*                                                                         *)
(* Collection: for any collections and tasks, whichever writes fail and    *)
(* wherever the daemon dies.  What is on disk of a collection at each step *)
(* of its task (OnDisk), and who answers for one that is open (Answered).  *)
(***************************************************************************)
EXTENDS CrawlStore, Monitor, ProfileRecords, SequenceTheorems, FiniteSetTheorems, TLAPS

-----------------------------------------------------------------------------
(* CrawlStore *)

\* Where the record of a generation may be.
Fits(c, g) == c = IF g = 1 THEN "path" ELSE IF g % 2 = 0 THEN "slot0" ELSE "slot1"

\* The newest record is the one before that of the save, and not in its file.
Ahead == /\ Complete = {} => save.generation = 1 /\ save.target = "path"
         /\ \A c \in Candidates :
                Newest(c) => /\ save.generation = file[c].generation + 1
                             /\ save.target = Target(save.generation)
                             /\ save.target # c

SaveInv ==
    /\ save.at = "open" =>
         /\ Ahead
         /\ Complete = {} => ~ AnyFile
    /\ save.at = "write" => Ahead /\ file[save.target] = Torn
    /\ save.at = "sync" => /\ file[save.target] = Record(save.generation, save.snapshot)
                           /\ Newest(save.target)

IInv ==
    /\ TypeOK
    /\ \A c \in Complete : Fits(c, file[c].generation)
    /\ SaveInv

-----------------------------------------------------------------------------
\* In a store whose records are where their generations belong no two are of the same.
LEMMA FitsDiffer ==
    ASSUME TypeOK, \A c \in Complete : Fits(c, file[c].generation)
    PROVE  GenerationsDiffer
BY DEF GenerationsDiffer, Fits

\* Among at most three numbers there is a greatest one.
LEMMA GreatestOfThree ==
    ASSUME NEW S \in SUBSET {"path", "slot0", "slot1"}, S # {}, NEW G \in [S -> Nat]
    PROVE  \E c \in S : \A d \in S : G[d] <= G[c]
<1> DEFINE Tops(c) == c \in S /\ \A d \in {"path", "slot0", "slot1"} : d \in S => G[d] <= G[c]
<1>1. ASSUME NEW c \in S, NEW d \in S PROVE G[c] \in Nat /\ G[d] \in Nat
  OBVIOUS
<1>2. CASE "path" \notin S
  <2>0. "slot0" \in S \/ "slot1" \in S
    BY <1>2
  <2>1. Tops("slot0") \/ Tops("slot1")
    BY <1>1, <1>2, <2>0
  <2> QED
    BY <2>1
<1>3. CASE "path" \in S
  <2>1. Tops("path") \/ Tops("slot0") \/ Tops("slot1")
    BY <1>1, <1>3
  <2> QED
    BY <2>1
<1> QED
  BY <1>2, <1>3

\* Three files at most: one of the complete ones is the newest.
LEMMA NewestExists ==
    ASSUME TypeOK, Complete # {}
    PROVE  \E c \in Candidates : Newest(c)
<1>1. \A c \in Complete : file[c].generation \in Nat
  BY DEF TypeOK, Records, Complete, Absent, Torn
<1>2. Complete \subseteq {"path", "slot0", "slot1"}
  BY DEF Complete, Candidates
<1> DEFINE G == [c \in Complete |-> file[c].generation]
<1>3. \E c \in Complete : \A d \in Complete : G[d] <= G[c]
  BY <1>1, <1>2, GreatestOfThree
<1> QED
  BY <1>2, <1>3 DEF Newest, Candidates

\* What CHOOSE picks in Latest is the newest record.
LEMMA LatestIsNewest ==
    ASSUME TypeOK, GenerationsDiffer, NEW c \in Candidates, Newest(c)
    PROVE  Latest = file[c] /\ NextGeneration = file[c].generation + 1 /\ c \in Complete
<1>1. \A d \in Candidates : Newest(d) => d = c
  <2> SUFFICES ASSUME NEW d \in Candidates, Newest(d) PROVE d = c
    OBVIOUS
  <2>1. file[c].generation \in Nat /\ file[d].generation \in Nat
    BY DEF TypeOK, Records, Newest, Complete, Absent, Torn
  <2> QED
    BY <2>1 DEF Newest, GenerationsDiffer
<1>2. (CHOOSE d \in Candidates : Newest(d)) = c
  BY <1>1
<1> QED
  BY <1>2 DEF Latest, NextGeneration, Newest

\* A store that loads has no conflict.
LEMMA NoConflict ==
    ASSUME GenerationsDiffer
    PROVE  ~ Conflict
BY DEF GenerationsDiffer, Conflict

-----------------------------------------------------------------------------
\* An empty store satisfies the invariant.
LEMMA InitInv == Init => IInv
BY StoreAssumption
   DEF Init, IInv, TypeOK, Complete, SaveInv, Idle, Candidates, Absent, Torn, Answers, Errors

\* What is loaded is an answer.
LEMMA LoadedType ==
    ASSUME TypeOK, GenerationsDiffer
    PROVE  Loaded \in Answers
<1>1. CASE Complete = {}
  BY <1>1, NoConflict DEF Loaded, Answers, Errors
<1>2. CASE Complete # {}
  <2>1. PICK c \in Candidates : Newest(c)
    BY <1>2, NewestExists
  <2>2. Latest = file[c] /\ c \in Complete
    BY <2>1, LatestIsNewest
  <2>3. Latest.snapshot \in Snapshots
    BY <2>2 DEF TypeOK, Records, Complete, Absent, Torn
  <2> QED
    BY <1>2, <2>3, NoConflict DEF Loaded, Answers
<1> QED
  BY <1>1, <1>2

\* Steps that leave the files and the save alone, or end the save.
LEMMA QuietStep ==
    ASSUME IInv, file' = file, save' \in {save, Idle}, answer' \in Answers
    PROVE  IInv'
<1>1. TypeOK'
  BY DEF IInv, TypeOK
<1>2. (\A c \in Complete : Fits(c, file[c].generation))'
  BY DEF IInv, Complete, Fits
<1>3. SaveInv'
  <2>1. CASE save' = save
    BY <2>1 DEF IInv, SaveInv, Ahead, Complete, AnyFile, Newest, Target
  <2>2. CASE save' = Idle
    BY <2>2 DEF SaveInv, Idle
  <2> QED
    BY <2>1, <2>2
<1> QED
  BY <1>1, <1>2, <1>3 DEF IInv

LEMMA BeginInv ==
    ASSUME IInv, NEW s \in Snapshots, BeginSave(s)
    PROVE  IInv'
<1> USE DEF IInv
<1>0. GenerationsDiffer
  BY FitsDiffer
<1>1. /\ save' = [at |-> "open", target |-> Target(NextGeneration),
                  generation |-> NextGeneration, snapshot |-> s]
      /\ file' = file /\ answer' = "Busy"
      /\ ~ Refused
  BY DEF BeginSave
<1>2. CASE Complete = {}
  <2>1. NextGeneration = 1 /\ Target(NextGeneration) = "path" /\ ~ AnyFile
    BY <1>1, <1>2 DEF NextGeneration, Target, Refused
  <2>0. NextGeneration \in 1..MaxGeneration
    BY <1>1, <2>1, StoreAssumption DEF Refused
  <2>2. TypeOK'
    BY <1>1, <2>0, <2>1 DEF TypeOK, Saves, Candidates, Answers
  <2>3. SaveInv'
    BY <1>1, <1>2, <2>1 DEF SaveInv, Ahead, Complete, AnyFile, Newest
  <2> QED
    BY <1>1, <2>2, <2>3 DEF Complete, Fits
<1>3. CASE Complete # {}
  <2>1. PICK c \in Candidates : Newest(c)
    BY <1>3, NewestExists
  <2>2. NextGeneration = file[c].generation + 1 /\ c \in Complete
    BY <1>0, <2>1, LatestIsNewest
  <2>3. file[c].generation \in Nat \ {0} /\ Fits(c, file[c].generation)
    BY <2>2 DEF TypeOK, Records, Complete, Absent, Torn
  <2>4. Target(NextGeneration) \in Candidates /\ Target(NextGeneration) # c
    BY <1>3, <2>2, <2>3 DEF Target, Candidates, Fits
  <2>5. \A d \in Candidates : Newest(d) => d = c
    BY <1>0, <2>1, <2>3 DEF Newest, GenerationsDiffer, TypeOK, Records, Complete, Absent, Torn
  <2>6. TypeOK'
    <3>1. NextGeneration \in 1..MaxGeneration
      BY <1>1, <2>2, <2>3, StoreAssumption DEF Refused
    <3> QED
      BY <1>1, <2>4, <3>1 DEF TypeOK, Saves, Answers
  <2>7. SaveInv'
    BY <1>1, <1>3, <2>2, <2>4, <2>5 DEF SaveInv, Ahead, Complete, AnyFile, Newest, Target
  <2> QED
    BY <1>1, <2>6, <2>7 DEF Complete, Fits
<1> QED
  BY <1>2, <1>3

LEMMA OpenInv ==
    ASSUME IInv, OpenTarget
    PROVE  IInv'
<1> USE DEF IInv
<1>1. /\ save \in Saves /\ save.at = "open" /\ save.target \in Candidates
      /\ file' = [file EXCEPT ![save.target] = Torn]
      /\ save' = [save EXCEPT !.at = "write"]
  BY DEF OpenTarget, TypeOK, Saves, Idle
<1>2. Ahead
  BY <1>1 DEF SaveInv
<1>3. Complete' = Complete \ {save.target}
  BY <1>1 DEF Complete, Torn, TypeOK
<1>4. \A c \in Complete' : file'[c] = file[c]
  BY <1>1, <1>3 DEF TypeOK, Complete
<1>5. \A c \in Candidates : Newest(c) => c \in Complete'
  BY <1>2, <1>3 DEF Ahead, Newest
<1>6. Complete' = {} => Complete = {}
  BY <1>5, NewestExists
<1>7. \A c \in Candidates : Newest(c)' => Newest(c)
  <2> SUFFICES ASSUME NEW c \in Candidates, Newest(c)' PROVE Newest(c)
    OBVIOUS
  <2>1. c \in Complete' /\ c \in Complete
    BY <1>3 DEF Newest
  <2>2. PICK d \in Candidates : Newest(d)
    BY <2>1, NewestExists
  <2>3. file[d].generation <= file[c].generation
    BY <1>4, <1>5, <2>1, <2>2 DEF Newest
  <2>4. \A e \in Complete : file[e].generation \in Nat
    BY DEF TypeOK, Records, Complete, Absent, Torn
  <2> QED
    BY <2>1, <2>2, <2>3, <2>4 DEF Newest
<1>8. TypeOK'
  BY <1>1 DEF TypeOK, Saves, OpenTarget
<1>9. Ahead'
  BY <1>1, <1>2, <1>4, <1>6, <1>7, <1>5 DEF Ahead, Target, Newest, Saves
<1>10. SaveInv'
  BY <1>1, <1>9 DEF SaveInv, Saves, TypeOK
<1> QED
  BY <1>3, <1>4, <1>8, <1>10 DEF Fits

LEMMA WriteInv ==
    ASSUME IInv, WriteRecord
    PROVE  IInv' /\ Newest(save.target)'
<1> USE DEF IInv
<1> DEFINE r == Record(save.generation, save.snapshot)
<1>1. /\ save \in Saves /\ save.at = "write" /\ save.target \in Candidates
      /\ save.generation \in Nat \ {0}
      /\ file' = [file EXCEPT ![save.target] = r]
      /\ save' = [save EXCEPT !.at = "sync"]
      /\ r \in Records /\ r.kind = "record" /\ r.generation = save.generation
  BY DEF WriteRecord, TypeOK, Saves, Idle, Record, Records
<1>2. Ahead /\ save.target \notin Complete
  BY <1>1 DEF SaveInv, Complete, Torn
<1>3. Complete' = Complete \cup {save.target}
  BY <1>1 DEF Complete, TypeOK
<1>4. /\ file'[save.target] = r
      /\ \A c \in Complete : file'[c] = file[c] /\ file[c].generation \in Nat
  BY <1>1, <1>2 DEF TypeOK, Complete, Records, Absent, Torn
<1>5. \A c \in Complete : file[c].generation < save.generation
  <2> SUFFICES ASSUME NEW c \in Complete PROVE file[c].generation < save.generation
    OBVIOUS
  <2>1. PICK d \in Candidates : Newest(d)
    BY NewestExists
  <2>2. save.generation = file[d].generation + 1 /\ d \in Complete
    BY <1>2, <2>1 DEF Ahead, Newest
  <2> QED
    BY <1>4, <2>1, <2>2 DEF Newest
<1>6. Newest(save.target)'
  BY <1>1, <1>3, <1>4, <1>5 DEF Newest, Saves
<1>7. Fits(save.target, save.generation)
  <2>1. CASE Complete = {}
    BY <1>2, <2>1 DEF Ahead, Fits
  <2>2. CASE Complete # {}
    <3>1. PICK d \in Candidates : Newest(d)
      BY <2>2, NewestExists
    <3>2. d \in Complete /\ file[d].generation \in Nat \ {0}
      BY <3>1 DEF Newest, TypeOK, Records, Complete, Absent, Torn
    <3>3. save.generation > 1 /\ save.target = Target(save.generation)
      BY <1>2, <3>1, <3>2 DEF Ahead
    <3> QED
      BY <1>1, <2>2, <3>3 DEF Target, Fits
  <2> QED
    BY <2>1, <2>2
<1>8. TypeOK'
  BY <1>1 DEF TypeOK, Saves, WriteRecord
<1>9. SaveInv'
  BY <1>1, <1>4, <1>6 DEF SaveInv, Saves
<1>10. (\A c \in Complete : Fits(c, file[c].generation))'
  BY <1>1, <1>3, <1>4, <1>7 DEF Fits
<1> QED
  BY <1>6, <1>8, <1>9, <1>10

\* The inductive invariant holds in every behaviour.
THEOREM Invariance == Spec => []IInv
<1>1. IInv /\ [Next]_vars => IInv'
  <2> SUFFICES ASSUME IInv, [Next]_vars PROVE IInv'
    OBVIOUS
  <2>1. CASE Load
    BY <2>1, QuietStep, LoadedType, FitsDiffer DEF Load, IInv
  <2>2. CASE RefuseSave
    BY <2>2, QuietStep DEF RefuseSave, Answers, Errors
  <2>3. CASE OpenTarget
    BY <2>3, OpenInv
  <2>4. CASE WriteRecord
    BY <2>4, WriteInv
  <2>5. CASE SyncRecord
    BY <2>5, QuietStep DEF SyncRecord, Answers
  <2>6. CASE SaveFails
    BY <2>6, QuietStep DEF SaveFails, Answers, Errors
  <2>7. CASE Crash
    BY <2>7, QuietStep DEF Crash, Answers
  <2>8. CASE \E s \in Snapshots : BeginSave(s)
    BY <2>8, BeginInv
  <2>9. CASE UNCHANGED vars
    BY <2>9, QuietStep DEF vars, IInv, TypeOK
  <2> QED
    BY <2>1, <2>2, <2>3, <2>4, <2>5, <2>6, <2>7, <2>8, <2>9 DEF Next
<1> QED
  BY <1>1, InitInv, PTL DEF Spec

\* No load finds two snapshots to choose from.
THEOREM NoConflictEver == Spec => []GenerationsDiffer
<1>1. IInv => GenerationsDiffer
  BY FitsDiffer DEF IInv
<1> QED
  BY <1>1, Invariance, PTL

\* The newest record is never in the file a save is about to truncate.
THEOREM LatestSpared == Spec => []LatestIsSpared
<1>1. IInv => LatestIsSpared
  BY DEF IInv, SaveInv, Ahead, LatestIsSpared, TypeOK, Saves, Idle
<1> QED
  BY <1>1, Invariance, PTL

-----------------------------------------------------------------------------
(* The register the files implement *)

\* The snapshot of the newest record is the one the register holds.
LEMMA SavedIs ==
    ASSUME IInv, NEW c \in Candidates, Newest(c)
    PROVE  /\ Complete # {}
           /\ Latest.snapshot = file[c].snapshot
           /\ Latest.snapshot \in Snapshots
<1>1. Latest = file[c] /\ c \in Complete
  BY LatestIsNewest, FitsDiffer DEF IInv
<1> QED
  BY <1>1 DEF IInv, TypeOK, Records, Complete, Absent, Torn

\* The same of the next state.
NewestIsSaved == \A c \in Candidates :
    Newest(c) => Complete # {} /\ Latest.snapshot = file[c].snapshot

LEMMA SavedIsNext == IInv' => NewestIsSaved'
<1>1. IInv => NewestIsSaved
  BY SavedIs DEF NewestIsSaved
<1> QED
  BY <1>1, PTL

\* A step that leaves the files alone leaves what the register holds alone.
LEMMA SameRegister ==
    ASSUME file' = file
    PROVE  /\ (Complete = {})' <=> Complete = {}
           /\ AnyFile' <=> AnyFile
           /\ Latest' = Latest
<1>1. \A c : Newest(c)' <=> Newest(c)
  BY DEF Newest, Complete
<1> QED
  BY <1>1 DEF Complete, AnyFile, Latest

\* Truncating a file leaves the register alone, or spoils one that never held anything.
LEMMA OpenSimulates ==
    ASSUME IInv, OpenTarget
    PROVE  Store!Spoil \/ UNCHANGED Store!vars
<1>1. IInv'
  BY OpenInv
<1>2. /\ save \in Saves /\ save # Idle /\ save' # Idle /\ save'.snapshot = save.snapshot
      /\ file' = [file EXCEPT ![save.target] = Torn] /\ answer' = answer
      /\ save.snapshot \in Snapshots /\ save.target \in Candidates
  BY DEF OpenTarget, IInv, TypeOK, Saves, Idle
<1>3. CASE Complete = {}
  <2>1. Complete' = {}
    BY <1>2, <1>3 DEF Complete, Torn, IInv, TypeOK
  <2>2. AnyFile'
    BY <1>2 DEF AnyFile, Torn, IInv, TypeOK
  <2>3. ~ AnyFile
    BY <1>3 DEF IInv, SaveInv, OpenTarget
  <2> QED
    BY <1>2, <1>3, <2>1, <2>2, StoreAssumption DEF Store!Spoil
<1>4. CASE Complete # {}
  <2>1. PICK c \in Candidates : Newest(c)
    BY <1>4, NewestExists DEF IInv
  <2>2. c # save.target
    BY <2>1 DEF IInv, SaveInv, Ahead, OpenTarget
  <2>3. file'[c] = file[c] /\ c \in Complete'
    BY <1>2, <2>1, <2>2 DEF IInv, TypeOK, Complete, Newest
  <2>4. Newest(c)'
    <3> SUFFICES ASSUME NEW d \in Complete' PROVE file'[d].generation <= file'[c].generation
      BY <2>3 DEF Newest
    <3>1. d \in Complete /\ file'[d] = file[d]
      BY <1>2 DEF IInv, TypeOK, Complete, Torn
    <3> QED
      BY <2>1, <2>3, <3>1 DEF Newest
  <2>5. Complete # {} /\ Latest.snapshot = file[c].snapshot
    BY <2>1, SavedIs
  <2>6. Complete' # {} /\ Latest'.snapshot = file'[c].snapshot
    BY <1>1, <2>1, <2>4, SavedIsNext DEF NewestIsSaved
  <2> QED
    BY <1>2, <2>3, <2>5, <2>6 DEF Store!vars
<1> QED
  BY <1>3, <1>4

\* A complete record installs its snapshot.
LEMMA WriteSimulates ==
    ASSUME IInv, WriteRecord
    PROVE  Store!Install
<1>1. IInv' /\ Newest(save.target)'
  BY WriteInv
<1>2. /\ save \in Saves /\ save # Idle /\ save' # Idle /\ save'.snapshot = save.snapshot
      /\ save'.target = save.target
      /\ file'[save.target].snapshot = save.snapshot /\ answer' = answer
      /\ save.snapshot \in Snapshots /\ save.target \in Candidates
  BY DEF WriteRecord, IInv, TypeOK, Saves, Idle, Record
<1>3. PICK t \in Candidates : t = save.target
  BY <1>2
<1>4. Newest(t)'
  BY <1>1, <1>2, <1>3 DEF Newest
<1>5. Complete' # {} /\ Latest'.snapshot = save.snapshot
  BY <1>1, <1>2, <1>3, <1>4, SavedIsNext DEF NewestIsSaved
<1> QED
  BY <1>2, <1>5, StoreAssumption DEF Store!Install

\* Every step of the files is a step of the register or does not touch it.
THEOREM AtomicReplacement == Spec => SavesAreAtomic
<1>1. Init => Store!Init
  BY DEF Init, Store!Init, Complete, Candidates, Absent, AnyFile
<1>2. IInv /\ [Next]_vars => [Store!Next]_Store!vars
  <2> SUFFICES ASSUME IInv, [Next]_vars PROVE [Store!Next]_Store!vars
    OBVIOUS
  <2>1. CASE Load
    <3>1. save = Idle /\ file' = file /\ save' = save /\ answer' = Loaded
      BY <2>1 DEF Load
    <3>2. Loaded = IF Complete = {} THEN (IF AnyFile THEN "Corrupt" ELSE NoSnapshot)
                   ELSE Latest.snapshot
      BY NoConflict, FitsDiffer DEF Loaded, IInv
    <3>3. Complete # {} => Latest.snapshot # NoSnapshot
      BY NewestExists, SavedIs, StoreAssumption DEF IInv
    <3>4. Store!Load
      BY <3>1, <3>2, <3>3, SameRegister DEF Store!Load
    <3> QED
      BY <3>4 DEF Store!Next
  <2>2. CASE RefuseSave
    <3>1. Store!Refuse
      BY <2>2, SameRegister DEF RefuseSave, Store!Refuse, Store!Errors
    <3> QED
      BY <3>1 DEF Store!Next
  <2>3. CASE OpenTarget
    BY <2>3, OpenSimulates DEF Store!Next
  <2>4. CASE WriteRecord
    BY <2>4, WriteSimulates DEF Store!Next
  <2>5. CASE SyncRecord
    <3>1. /\ save.at = "sync" /\ save' = Idle /\ file' = file /\ answer' = "Saved"
          /\ save \in Saves /\ save # Idle
      BY <2>5 DEF SyncRecord, IInv, TypeOK, Saves, Idle
    <3>2. Newest(save.target) /\ file[save.target].snapshot = save.snapshot
      BY <3>1 DEF IInv, SaveInv, Record
    <3>3. Complete # {} /\ Latest.snapshot = save.snapshot
      BY <3>1, <3>2, SavedIs DEF Saves
    <3>4. Store!Acknowledge
      BY <3>1, <3>3, SameRegister, StoreAssumption DEF Store!Acknowledge, Saves
    <3> QED
      BY <3>4 DEF Store!Next
  <2>6. CASE SaveFails
    <3>1. Store!GiveUp
      BY <2>6, SameRegister, StoreAssumption
         DEF SaveFails, Store!GiveUp, IInv, TypeOK, Saves, Idle
    <3> QED
      BY <3>1 DEF Store!Next
  <2>7. CASE Crash
    <3>1. Store!Crash
      BY <2>7, SameRegister DEF Crash, Store!Crash
    <3> QED
      BY <3>1 DEF Store!Next
  <2>8. CASE \E s \in Snapshots : BeginSave(s)
    <3>1. PICK s \in Snapshots : BeginSave(s)
      BY <2>8
    <3>2. /\ save = Idle /\ save' # Idle /\ save'.snapshot = s /\ file' = file
          /\ answer' = "Busy" /\ ~ (Complete = {} /\ AnyFile)
      BY <3>1 DEF BeginSave, Refused, Idle
    <3>3. Store!Propose(s)
      BY <3>2, SameRegister DEF Store!Propose
    <3> QED
      BY <3>3 DEF Store!Next
  <2>9. CASE UNCHANGED vars
    BY <2>9, SameRegister DEF vars, Store!vars
  <2> QED
    BY <2>1, <2>2, <2>3, <2>4, <2>5, <2>6, <2>7, <2>8, <2>9 DEF Next
<1> QED
  BY <1>1, <1>2, Invariance, PTL DEF Spec, SavesAreAtomic, Store!Spec

-----------------------------------------------------------------------------
(* Monitor *)

\* The tags of a record are none of its payloads.
PayloadsAreNoTags == Payloads \cap {"Started", "Stopped", "Torn"} = {}

\* The records of a journal: what is there of one at its end is not among them.
IsTorn(entries) == entries # <<>> /\ entries[Len(entries)] = TornRecord
Body(entries) == IF IsTorn(entries) THEN SubSeq(entries, 1, Len(entries) - 1) ELSE entries

\* Written in order, whose payloads the store has.
Written == [cursor : Nat, kind : Kinds]
Whole(records, payloads) ==
    /\ records \in Seq(Written) /\ Sound(records, Len(records))
    /\ \A k \in 1..Len(records) : records[k].kind \in {"Started", "Stopped"} \cup payloads

\* What begin() and stop() have done, the table of sessions and the reader agree.
SessionsAgree(i) ==
    /\ i \in sessions => begin[i] = "Entered" /\ stopping[i] = "No"
    /\ stopping[i] # "No" => begin[i] = "Entered" /\ i \notin sessions
    /\ stopping[i] = "Returned" => reader[i] = NoReader
    /\ reader[i] # NoReader => begin[i] \in {"Spawned", "Entered", "Gone"}
    /\ reader[i].at = "Stored" => reader[i].payload \in cas

\* A sink is open from begin() to the end of the last share of its session.
SinkIsJournal(i) == (Locked(i) \/ begin[i] = "New") => sink[i] = journal[i]

Settled(records) == records = <<>> \/ IsTerminal(records)

JournalKept(i) ==
    /\ journal[i] \in Seq(Entries) /\ Whole(Body(journal[i]), cas)
       /\ IsPrefix(told[i], Body(journal[i]))
    /\ begin[i] = "New" => journal[i] = <<>> /\ sink[i] = <<>>
    /\ IsTorn(journal[i]) => daemon = "Opening" /\ i \in unreconciled
    /\ daemon = "Opening" => ~ Locked(i)
    /\ (daemon = "Opening" /\ i \notin unreconciled) => Settled(journal[i])

MonitorInv ==
    /\ MonitorTypeOK
    /\ daemon # "Refused"
    /\ \A i \in Monitors : SessionsAgree(i) /\ JournalKept(i)
    /\ daemon = "Serving" => \A i \in Monitors : SinkIsJournal(i)

-----------------------------------------------------------------------------
\* A prefix, place by place.
LEMMA PrefixByPlace ==
  ASSUME NEW S, NEW s \in Seq(S), NEW t \in Seq(S)
  PROVE  IsPrefix(s, t) <=> Len(s) <= Len(t) /\ \A k \in 1..Len(s) : s[k] = t[k]
<1>1. SubSeq(s, 1, Len(s)) = s
  OBVIOUS
<1>2. CASE Len(s) <= Len(t)
  <2>1. /\ SubSeq(t, 1, Len(s)) \in Seq(S) /\ Len(SubSeq(t, 1, Len(s))) = Len(s)
        /\ \A k \in 1..Len(s) : SubSeq(t, 1, Len(s))[k] = t[k]
    BY <1>2
  <2>2. s = SubSeq(t, 1, Len(s)) <=> \A k \in 1..Len(s) : s[k] = SubSeq(t, 1, Len(s))[k]
    BY <2>1, SeqEqual
  <2>3. QED BY <1>1, <1>2, <2>1, <2>2 DEF IsPrefix
<1>3. QED BY <1>2 DEF IsPrefix

\* A prefix remains one when something is appended.
LEMMA PrefixGrows ==
  ASSUME NEW S, NEW s \in Seq(S), NEW t \in Seq(S), NEW x \in S, IsPrefix(s, t)
  PROVE  IsPrefix(s, Append(t, x))
<1>1. Append(t, x) \in Seq(S) /\ Len(Append(t, x)) = Len(t) + 1
      /\ \A k \in 1..Len(t) : Append(t, x)[k] = t[k]
  OBVIOUS
<1>2. Len(s) <= Len(t) /\ \A k \in 1..Len(s) : s[k] = t[k]
  BY PrefixByPlace
<1>3. Len(s) <= Len(Append(t, x)) /\ \A k \in 1..Len(s) : s[k] = Append(t, x)[k]
  BY <1>1, <1>2
<1>4. QED BY <1>1, <1>3, PrefixByPlace

\* What is whole is whole up to its end, and has the type of a journal.
LEMMA WholeIsJournal ==
  ASSUME NEW payloads, NEW r, Whole(r, payloads)
  PROVE  r \in Seq(Entries) /\ Len(r) \in Nat /\ ~ IsTorn(r) /\ Body(r) = r
         /\ \A k \in 1..Len(r) : r[k] # TornRecord
<1>1. r \in Seq(Entries) /\ Len(r) \in Nat
  <2>1. Written \subseteq Entries /\ r \in Seq(Written)
    BY DEF Whole, Written, Entries
  <2>2. QED BY <2>1, SeqMonotonic
<1>2. \A k \in 1..Len(r) : r[k].cursor = k
  BY DEF Whole, Sound
<1>3. \A k \in 1..Len(r) : r[k] # TornRecord
  BY <1>1, <1>2 DEF TornRecord
<1>4. ~ IsTorn(r)
  BY <1>1, <1>3 DEF IsTorn
<1>5. QED BY <1>1, <1>3, <1>4 DEF Body

\* What an append left of a record that it did not write to its end is cut off again.
LEMMA TornIsCut ==
  ASSUME NEW payloads, NEW r, Whole(r, payloads)
  PROVE  /\ Append(r, TornRecord) \in Seq(Entries)
         /\ IsTorn(Append(r, TornRecord)) /\ Body(Append(r, TornRecord)) = r
<1>1. r \in Seq(Entries)
  BY WholeIsJournal
<1>2. TornRecord \in Entries
  BY DEF TornRecord, Entries
<1>3. Append(r, TornRecord) \in Seq(Entries) /\ IsTorn(Append(r, TornRecord))
  BY <1>1, <1>2 DEF IsTorn
<1>4. SubSeq(Append(r, TornRecord), 1, Len(r)) = r
  BY <1>1, <1>2
<1>5. QED BY <1>1, <1>2, <1>3, <1>4 DEF Body

\* A journal is replayed up to a record that is torn, and is not taken for corrupt.
LEMMA ReplayOfWhole ==
  ASSUME NEW payloads, NEW e \in Seq(Entries), Whole(Body(e), payloads)
  PROVE  /\ Intact(e) = Len(Body(e)) /\ Replayed(e) = Body(e) /\ Cut(e) = Body(e)
         /\ MayReplay(e) /\ ~ MayBeCorrupt(e)
<1> DEFINE n == Len(Body(e))
           torn == {k \in 1..Len(e) : e[k] = TornRecord}
<1>1. /\ n \in Nat /\ n <= Len(e) /\ Body(e) = SubSeq(e, 1, n)
      /\ \A k \in 1..n : Body(e)[k] = e[k]
      /\ IsTorn(e) => Len(e) = n + 1
      /\ ~ IsTorn(e) => Len(e) = n
  <2>1. CASE IsTorn(e)
    <3>1. Len(e) \in Nat /\ Len(e) # 0
      BY <2>1 DEF IsTorn
    <3>2. Body(e) = SubSeq(e, 1, Len(e) - 1)
      BY <2>1 DEF Body
    <3>3. Len(SubSeq(e, 1, Len(e) - 1)) = Len(e) - 1
      <4>1. PICK m \in Nat : Len(e) = m + 1
        <5>1. Len(e) - 1 \in Nat /\ Len(e) = (Len(e) - 1) + 1
          BY ONLY <3>1
        <5>2. QED BY <5>1
      <4>2. \A k \in 1..m : e[k] \in Entries
        BY <4>1
      <4>3. Len(SubSeq(e, 1, m)) = IF 1 <= m THEN m - 1 + 1 ELSE 0
        BY ONLY <4>1, <4>2, SubSeqProperties
      <4>4. m = Len(e) - 1
        BY <4>1
      <4>5. QED BY <4>3, <4>4
    <3>4. n = Len(e) - 1
      BY <3>2, <3>3
    <3>5. QED BY <2>1, <3>1, <3>2, <3>4
  <2>2. CASE ~ IsTorn(e)
    <3>1. Body(e) = e
      BY <2>2 DEF Body
    <3>2. SubSeq(e, 1, Len(e)) = e
      BY SubSeqFull
    <3>3. Len(e) \in Nat /\ n = Len(e)
      BY <3>1
    <3>4. Body(e) = SubSeq(e, 1, n)
      BY ONLY <3>1, <3>2, <3>3
    <3>. HIDE DEF n, torn
    <3>5. \A k \in 1..n : Body(e)[k] = e[k]
      BY ONLY <3>1
    <3>6. n \in Nat /\ n <= Len(e)
      BY ONLY <3>3
    <3>7. QED BY ONLY <2>2, <3>3, <3>4, <3>5, <3>6
  <2>3. QED BY <2>1, <2>2
<1>2. \A k \in 1..n : e[k] # TornRecord
  BY <1>1, WholeIsJournal
<1>3. Intact(e) = n
  <2>1. CASE IsTorn(e)
    <3>1. torn = {n + 1}
      <4>1. e[Len(e)] = TornRecord
        BY <2>1 DEF IsTorn
      <4>. HIDE DEF n
      <4>3. Len(e) = n + 1 /\ e[n + 1] = TornRecord
        BY <1>1, <2>1, <4>1
      <4>2. QED BY <1>1, <1>2, <4>3
    <3>2. (CHOOSE k \in torn : \A j \in torn : k <= j) = n + 1
      BY <1>1, <3>1
    <3>3. QED BY <1>1, <3>1, <3>2 DEF Intact
  <2>2. CASE ~ IsTorn(e)
    <3>1. torn = {}
      BY <1>1, <1>2, <2>2
    <3>2. QED BY <1>1, <2>2, <3>1 DEF Intact
  <2>3. QED BY <2>1, <2>2
<1>4. Sound(e, n)
  BY <1>1 DEF Whole, Sound
<1>5. QED
  BY <1>1, <1>3, <1>4 DEF Replayed, Cut, MayReplay, MayBeCorrupt, IsTorn

\* append_kind() adds the next record of a journal that is not at its end.
LEMMA AppendKeepsWhole ==
  ASSUME NEW payloads, NEW r, Whole(r, payloads), NEW kind, MayAppend(r, kind),
         payloads \subseteq Payloads,
         kind \in {"Started", "Stopped"} \cup payloads
  PROVE  Whole(Append(r, RecordAfter(r, kind)), payloads)
<1> DEFINE x == RecordAfter(r, kind)
           s == Append(r, x)
<1>1. r \in Seq(Written) /\ x \in Written
  BY DEF Whole, RecordAfter, Written, Kinds
<1>2. /\ s \in Seq(Written) /\ Len(s) = Len(r) + 1 /\ s[Len(r) + 1] = x
      /\ \A k \in 1..Len(r) : s[k] = r[k]
  BY <1>1
<1>3. /\ r = <<>> <=> Len(r) = 0
      /\ Len(r) \in Nat
  BY <1>1
<1>4. x.cursor = Len(r) + 1 /\ x.kind = kind
  BY DEF RecordAfter
<1>5. ASSUME NEW k \in 1..Len(s)
      PROVE  /\ s[k].cursor = k
             /\ s[k].kind = "Started" <=> k = 1
             /\ k > 1 => s[k - 1].kind # "Stopped"
             /\ s[k].kind \in {"Started", "Stopped"} \cup payloads
  <2>1. CASE k \in 1..Len(r)
    <3>1. k > 1 => s[k - 1] = r[k - 1]
      BY <1>2, <1>3, <2>1
    <3>2. QED BY <1>2, <2>1, <3>1 DEF Whole, Sound
  <2>2. CASE k = Len(r) + 1
    <3>1. k > 1 => s[k - 1] = r[Len(r)] /\ r # <<>>
      BY <1>2, <1>3, <2>2
    <3>2. k > 1 => r[Len(r)].kind # "Stopped"
      BY <3>1 DEF MayAppend, IsTerminal, Last
    <3>3. kind = "Started" <=> k = 1
      BY <1>3, <2>2 DEF MayAppend
    <3>4. QED BY <1>2, <1>4, <2>2, <3>1, <3>2, <3>3
  <2>3. QED BY <1>2, <1>3, <2>1, <2>2
<1>6. QED BY <1>2, <1>5 DEF Whole, Sound

\* Written that are whole stay so while payloads are added to the store.
LEMMA WholeStays ==
  ASSUME NEW r, NEW payloads, NEW more, payloads \subseteq more, Whole(r, payloads)
  PROVE  Whole(r, more)
BY DEF Whole

\* A journal that is open can be added to: it remains one, with what was read of it.
LEMMA AppendKeepsJournal ==
  ASSUME NEW e, Whole(e, cas), NEW kind, MayAppend(e, kind), cas \subseteq Payloads,
         kind \in {"Started", "Stopped"} \cup cas, NEW t \in Seq(Entries), IsPrefix(t, e)
  PROVE  LET r == Append(e, RecordAfter(e, kind))
         IN  /\ r \in Seq(Entries) /\ Whole(r, cas) /\ ~ IsTorn(r) /\ Body(r) = r /\ IsPrefix(t, r)
             /\ r # <<>> /\ Last(r).kind = kind
<1> DEFINE x == RecordAfter(e, kind)
           r == Append(e, x)
<1>1. e \in Seq(Entries) /\ x \in Entries
  <2>1. e \in Seq(Entries)
    BY WholeIsJournal
  <2>2. x \in Entries
    BY <2>1 DEF RecordAfter, Entries, Kinds
  <2>3. QED BY <2>1, <2>2
<1>2. Whole(r, cas)
  BY AppendKeepsWhole
<1>3. r \in Seq(Entries) /\ ~ IsTorn(r) /\ Body(r) = r
  BY <1>2, WholeIsJournal
<1>4. IsPrefix(t, r)
  BY <1>1, PrefixGrows
<1>5. r # <<>> /\ r[Len(r)] = x
  BY <1>1
<1>6. QED BY <1>2, <1>3, <1>4, <1>5 DEF Last, RecordAfter

-----------------------------------------------------------------------------

\* No append fails.
NoWriteFault == MaxWriteFaults = 0

\* The variables that are functions of the monitors, and the sets of them.
LEMMA MonitorDomains ==
  ASSUME MonitorInv
  PROVE  /\ DOMAIN journal = Monitors /\ DOMAIN sink = Monitors /\ DOMAIN begin = Monitors
         /\ DOMAIN reader = Monitors /\ DOMAIN stopping = Monitors /\ DOMAIN told = Monitors
         /\ sessions \subseteq Monitors /\ unreconciled \subseteq Monitors /\ cas \subseteq Payloads
BY DEF MonitorInv, MonitorTypeOK

\* What begin(), the reader, stop() and shutdown() do without the journals.
LEMMA SessionKeeps ==
  ASSUME NoWriteFault, MonitorInv, NEW i \in Monitors,
         \/ BeginSpawns(i) \/ BeginEnters(i) \/ ReaderTakes(i) \/ ReaderEnds(i)
         \/ StopRemoves(i) \/ StopReturns(i)
         \/ \E record \in BOOLEAN : Drain(record)
  PROVE  MonitorInv'
<1> USE DEF Locked, durable, process, IdleReader, NoReader
<1>1. CASE BeginSpawns(i)
  <2>1. MonitorTypeOK'
    BY <1>1 DEF BeginSpawns, MonitorInv, MonitorTypeOK
  <2>2. \A j \in Monitors : SessionsAgree(j)'
    BY <1>1, MonitorDomains DEF BeginSpawns, MonitorInv, SessionsAgree
  <2>3. \A j \in Monitors : JournalKept(j)'
    BY <1>1, MonitorDomains DEF BeginSpawns, MonitorInv, SessionsAgree, JournalKept
  <2>4. daemon' = "Serving" => \A j \in Monitors : SinkIsJournal(j)'
    BY <1>1, MonitorDomains DEF BeginSpawns, MonitorInv, SessionsAgree, SinkIsJournal
  <2>5. QED BY <1>1, <2>1, <2>2, <2>3, <2>4 DEF BeginSpawns, MonitorInv
<1>2. CASE BeginEnters(i)
  <2>1. MonitorTypeOK'
    BY <1>2 DEF BeginEnters, MonitorInv, MonitorTypeOK
  <2>2. \A j \in Monitors : SessionsAgree(j)'
    BY <1>2, MonitorDomains DEF BeginEnters, MonitorInv, SessionsAgree
  <2>3. \A j \in Monitors : JournalKept(j)'
    BY <1>2, MonitorDomains DEF BeginEnters, MonitorInv, SessionsAgree, JournalKept
  <2>4. daemon' = "Serving" => \A j \in Monitors : SinkIsJournal(j)'
    BY <1>2, MonitorDomains DEF BeginEnters, MonitorInv, SessionsAgree, SinkIsJournal
  <2>5. QED BY <1>2, <2>1, <2>2, <2>3, <2>4 DEF BeginEnters, MonitorInv
<1>3. CASE ReaderTakes(i)
  <2>1. MonitorTypeOK'
    BY <1>3 DEF ReaderTakes, MonitorInv, MonitorTypeOK
  <2>2. \A j \in Monitors : SessionsAgree(j)'
    BY <1>3, MonitorDomains DEF ReaderTakes, MonitorInv, SessionsAgree
  <2>3. \A j \in Monitors : JournalKept(j)'
    BY <1>3, MonitorDomains DEF ReaderTakes, MonitorInv, SessionsAgree, JournalKept
  <2>4. daemon' = "Serving" => \A j \in Monitors : SinkIsJournal(j)'
    BY <1>3, MonitorDomains DEF ReaderTakes, MonitorInv, SessionsAgree, SinkIsJournal
  <2>5. QED BY <1>3, <2>1, <2>2, <2>3, <2>4 DEF ReaderTakes, MonitorInv
<1>4. CASE ReaderEnds(i)
  <2>1. MonitorTypeOK'
    BY <1>4 DEF ReaderEnds, MonitorInv, MonitorTypeOK
  <2>2. \A j \in Monitors : SessionsAgree(j)'
    BY <1>4, MonitorDomains DEF ReaderEnds, MonitorInv, SessionsAgree
  <2>3. \A j \in Monitors : JournalKept(j)'
    BY <1>4, MonitorDomains DEF ReaderEnds, MonitorInv, SessionsAgree, JournalKept
  <2>4. daemon' = "Serving" => \A j \in Monitors : SinkIsJournal(j)'
    BY <1>4, MonitorDomains DEF ReaderEnds, MonitorInv, SessionsAgree, SinkIsJournal
  <2>5. QED BY <1>4, <2>1, <2>2, <2>3, <2>4 DEF ReaderEnds, MonitorInv
<1>5. CASE StopRemoves(i)
  <2>1. MonitorTypeOK'
    BY <1>5 DEF StopRemoves, MonitorInv, MonitorTypeOK
  <2>2. \A j \in Monitors : SessionsAgree(j)'
    BY <1>5, MonitorDomains DEF StopRemoves, MonitorInv, SessionsAgree
  <2>3. \A j \in Monitors : JournalKept(j)'
    BY <1>5, MonitorDomains DEF StopRemoves, MonitorInv, SessionsAgree, JournalKept
  <2>4. daemon' = "Serving" => \A j \in Monitors : SinkIsJournal(j)'
    BY <1>5, MonitorDomains DEF StopRemoves, MonitorInv, SessionsAgree, SinkIsJournal
  <2>5. QED BY <1>5, <2>1, <2>2, <2>3, <2>4 DEF StopRemoves, MonitorInv
<1>6. CASE StopReturns(i)
  <2>1. MonitorTypeOK'
    BY <1>6 DEF StopReturns, Awaited, MonitorInv, MonitorTypeOK
  <2>2. \A j \in Monitors : SessionsAgree(j)'
    BY <1>6, MonitorDomains DEF StopReturns, Awaited, MonitorInv, SessionsAgree
  <2>3. \A j \in Monitors : JournalKept(j)'
    BY <1>6, MonitorDomains DEF StopReturns, Awaited, MonitorInv, SessionsAgree, JournalKept
  <2>4. daemon' = "Serving" => \A j \in Monitors : SinkIsJournal(j)'
    BY <1>6, MonitorDomains DEF StopReturns, Awaited, MonitorInv, SessionsAgree, SinkIsJournal
  <2>5. QED BY <1>6, <2>1, <2>2, <2>3, <2>4 DEF StopReturns, Awaited, MonitorInv
<1>7. ASSUME NEW record \in BOOLEAN, Drain(record) PROVE MonitorInv'
  <2>1. MonitorTypeOK'
    BY <1>7 DEF Drain, MonitorInv, MonitorTypeOK
  <2>2. \A j \in Monitors : SessionsAgree(j)'
    BY <1>7, MonitorDomains DEF Drain, MonitorInv, SessionsAgree
  <2>3. \A j \in Monitors : JournalKept(j)'
    BY <1>7, MonitorDomains DEF Drain, MonitorInv, SessionsAgree, JournalKept
  <2>4. daemon' = "Serving" => \A j \in Monitors : SinkIsJournal(j)'
    BY <1>7, MonitorDomains DEF Drain, MonitorInv, SessionsAgree, SinkIsJournal
  <2>5. QED BY <1>7, <2>1, <2>2, <2>3, <2>4 DEF Drain, MonitorInv
<1>8. QED BY ONLY <1>1, <1>2, <1>3, <1>4, <1>5, <1>6, <1>7,
               BeginSpawns(i) \/ BeginEnters(i) \/ ReaderTakes(i) \/ ReaderEnds(i)
               \/ StopRemoves(i) \/ StopReturns(i) \/ \E record \in BOOLEAN : Drain(record)

\* The store of payloads only grows.
LEMMA StoringKeeps ==
  ASSUME NoWriteFault, MonitorInv, NEW i \in Monitors, ReaderStores(i)
  PROVE  MonitorInv'
<1> USE DEF Locked, IdleReader, NoReader
<1>1. cas \subseteq cas'
      /\ UNCHANGED <<journal, told, daemon, unreconciled, begin, sessions, sink, stopping>>
  BY DEF ReaderStores, StoreRefuses
<1>2. \A j \in Monitors : Whole(Body(journal[j]), cas')
  BY <1>1, WholeStays, MonitorDomains DEF MonitorInv, JournalKept
<1>3. PICK p \in Payloads : reader[i] = [at |-> "Frame", payload |-> p]
  BY DEF ReaderStores, MonitorInv, MonitorTypeOK
<1>4. \/ cas' = cas \cup {p} /\ reader' = [reader EXCEPT ![i] = [at |-> "Stored", payload |-> p]]
      \/ cas' = cas /\ reader' = [reader EXCEPT ![i] = IdleReader]
  <2>1. [reader EXCEPT ![i].at = "Stored"] = [reader EXCEPT ![i] = [reader[i] EXCEPT !.at = "Stored"]]
    OBVIOUS
  <2>2. [reader[i] EXCEPT !.at = "Stored"] = [at |-> "Stored", payload |-> p]
    BY <1>3
  <2>3. reader[i].payload = p
    BY <1>3
  <2>4. QED BY <2>1, <2>2, <2>3 DEF ReaderStores, StoreRefuses
<1>5. MonitorTypeOK'
  <2>1. reader' \in [Monitors -> {NoReader, IdleReader} \cup
                                [at : {"Frame", "Stored"}, payload : Payloads]]
    <3> DEFINE R == {NoReader, IdleReader} \cup [at : {"Frame", "Stored"}, payload : Payloads]
    <3>1. reader \in [Monitors -> R]
      BY DEF MonitorInv, MonitorTypeOK
    <3>2. [at |-> "Stored", payload |-> p] \in R /\ IdleReader \in R
      OBVIOUS
    <3> HIDE DEF R
    <3>3. reader' \in [Monitors -> R]
      BY ONLY <1>4, <3>1, <3>2
    <3>4. QED BY <3>3 DEF R
  <2>2. cas' \subseteq Payloads
    BY <1>4, MonitorDomains
  <2>3. QED BY <1>1, <2>1, <2>2 DEF ReaderStores, MonitorInv, MonitorTypeOK
<1>6. \A j \in Monitors : SessionsAgree(j)' /\ (Locked(j)' <=> Locked(j))
  BY <1>1, <1>3, <1>4, MonitorDomains DEF MonitorInv, SessionsAgree
<1>7. \A j \in Monitors : JournalKept(j)'
  <2> HIDE DEF Locked
  <2>1. \A j \in Monitors : Locked(j)' <=> Locked(j)
    BY <1>6
  <2>2. ASSUME NEW j \in Monitors PROVE JournalKept(j)'
    <3>1. JournalKept(j) /\ Whole(Body(journal[j]), cas') /\ (Locked(j)' <=> Locked(j))
      BY <1>2, <2>1 DEF MonitorInv
    <3>2. QED BY <1>1, <3>1 DEF JournalKept
  <2>3. QED BY <2>2
<1>8. daemon' = "Serving" => \A j \in Monitors : SinkIsJournal(j)'
  BY <1>1, <1>6 DEF MonitorInv, SinkIsJournal
<1>9. QED BY <1>1, <1>5, <1>6, <1>7, <1>8 DEF MonitorInv

\* A record is appended to the file and to the sink, which held the same.
LEMMA AppendedKeeps ==
  ASSUME NoWriteFault, MonitorInv, NEW i \in Monitors, NEW kind, daemon = "Serving",
         Locked(i) \/ begin[i] = "New", kind \in {"Started", "Stopped"} \cup cas,
         Appended(i, kind), UNCHANGED <<cas, told>>
  PROVE  /\ \A j \in Monitors : /\ journal'[j] \in Seq(Entries) /\ Whole(Body(journal'[j]), cas')
                                 /\ IsPrefix(told'[j], Body(journal'[j])) /\ ~ IsTorn(journal'[j])
                                 /\ sink'[j] \in Seq(Entries)
         /\ \A j \in Monitors \ {i} : journal'[j] = journal[j] /\ sink'[j] = sink[j]
         /\ journal'[i] = sink'[i] /\ UNCHANGED writeFaults
<1> DEFINE e == journal[i]
           r == Append(e, RecordAfter(e, kind))
<1>1. sink[i] = e /\ MayAppend(e, kind)
  BY DEF MonitorInv, SinkIsJournal, Appended
<1>2. DOMAIN journal = Monitors /\ DOMAIN sink = Monitors
  BY DEF MonitorInv, MonitorTypeOK
<1>3. journal' = [journal EXCEPT ![i] = r] /\ sink' = [sink EXCEPT ![i] = r]
  BY <1>1 DEF Appended
<1>4. \A j \in Monitors : Body(journal[j]) = journal[j] /\ ~ IsTorn(journal[j])
  BY DEF MonitorInv, JournalKept, Body
<1>5. Whole(e, cas) /\ IsPrefix(told[i], e) /\ told[i] \in Seq(Entries) /\ cas \subseteq Payloads
  BY <1>4, MonitorDomains DEF MonitorInv, JournalKept, MonitorTypeOK
<1>6. r \in Seq(Entries) /\ Whole(r, cas) /\ ~ IsTorn(r) /\ Body(r) = r /\ IsPrefix(told[i], r)
  BY <1>1, <1>5, AppendKeepsJournal
<1>7. journal'[i] = r /\ sink'[i] = r /\ \A j \in Monitors \ {i} : journal'[j] = journal[j]
      /\ sink'[j] = sink[j]
  BY <1>2, <1>3
<1>8. ASSUME NEW j \in Monitors
      PROVE  /\ journal'[j] \in Seq(Entries) /\ Whole(Body(journal'[j]), cas')
             /\ IsPrefix(told'[j], Body(journal'[j])) /\ ~ IsTorn(journal'[j])
             /\ sink'[j] \in Seq(Entries)
  BY <1>4, <1>6, <1>7, MonitorDomains DEF MonitorInv, JournalKept, MonitorTypeOK
<1>9. QED BY <1>7, <1>8 DEF Appended

\* What begin() and stop() append, and the reader.
LEMMA AppendingKeeps ==
  ASSUME NoWriteFault, MonitorInv, NEW i \in Monitors,
         BeginStarts(i) \/ ReaderRecords(i) \/ StopRecords(i)
  PROVE  MonitorInv'
<1> USE DEF Locked, IdleReader, NoReader
<1>1. ~ AppendFails(i, "Started") /\ ~ AppendFails(i, "Stopped")
      /\ \A p \in Payloads : ~ AppendFails(i, p)
  BY DEF AppendFails, NoWriteFault, MonitorInv, MonitorTypeOK
<1>2. daemon = "Serving"
      /\ UNCHANGED <<cas, told, daemon, unreconciled, sessions, accepting, crashes>>
  BY DEF BeginStarts, ReaderRecords, StopRecords
<1>3. CASE BeginStarts(i)
  <2>1. begin[i] = "New" /\ Appended(i, "Started") /\ begin' = [begin EXCEPT ![i] = "Opened"]
        /\ UNCHANGED <<reader, stopping>>
    BY <1>1, <1>3 DEF BeginStarts
  <2>2. /\ \A j \in Monitors : /\ journal'[j] \in Seq(Entries) /\ Whole(Body(journal'[j]), cas')
                                /\ IsPrefix(told'[j], Body(journal'[j])) /\ ~ IsTorn(journal'[j])
                                /\ sink'[j] \in Seq(Entries)
        /\ \A j \in Monitors \ {i} : journal'[j] = journal[j] /\ sink'[j] = sink[j]
        /\ journal'[i] = sink'[i] /\ UNCHANGED writeFaults
    BY <1>2, <2>1, AppendedKeeps
  <2>3. MonitorTypeOK'
    BY <1>2, <2>1, <2>2 DEF MonitorInv, Appended, MonitorTypeOK
  <2>4. \A j \in Monitors : SessionsAgree(j)'
    BY <1>2, <2>1, MonitorDomains DEF MonitorInv, SessionsAgree
  <2>5. \A j \in Monitors : JournalKept(j)' /\ SinkIsJournal(j)'
    BY <1>2, <2>1, <2>2, MonitorDomains DEF MonitorInv, JournalKept, SinkIsJournal, SessionsAgree
  <2>6. QED BY <1>2, <2>3, <2>4, <2>5 DEF MonitorInv
<1>4. CASE ReaderRecords(i)
  <2>1. PICK p \in Payloads : reader[i] = [at |-> "Stored", payload |-> p]
    BY <1>4 DEF ReaderRecords, MonitorInv, MonitorTypeOK
  <2>2. p \in cas /\ Locked(i)
    BY <2>1, MonitorDomains DEF MonitorInv, SessionsAgree
  <2>3. /\ Appended(i, p) \/ AppendRefused
        /\ reader' = [reader EXCEPT ![i] = IdleReader] /\ UNCHANGED <<begin, stopping>>
    <3>1. reader[i].payload = p
      BY <2>1
    <3>2. QED BY <1>1, <1>4, <3>1 DEF ReaderRecords
  <2>4. CASE Appended(i, p)
    <3>1. /\ \A j \in Monitors : /\ journal'[j] \in Seq(Entries) /\ Whole(Body(journal'[j]), cas')
                                  /\ IsPrefix(told'[j], Body(journal'[j])) /\ ~ IsTorn(journal'[j])
                                  /\ sink'[j] \in Seq(Entries)
          /\ \A j \in Monitors \ {i} : journal'[j] = journal[j] /\ sink'[j] = sink[j]
          /\ journal'[i] = sink'[i] /\ UNCHANGED writeFaults
      BY <1>2, <2>2, <2>4, AppendedKeeps
    <3>2. MonitorTypeOK'
      BY <1>2, <2>3, <2>4, <3>1 DEF MonitorInv, Appended, MonitorTypeOK
    <3>3. \A j \in Monitors : SessionsAgree(j)'
      BY <1>2, <2>1, <2>3, MonitorDomains DEF MonitorInv, SessionsAgree
    <3>4. \A j \in Monitors : JournalKept(j)' /\ SinkIsJournal(j)'
      BY <1>2, <2>1, <2>3, <3>1, MonitorDomains
         DEF MonitorInv, JournalKept, SinkIsJournal, SessionsAgree
    <3>5. QED BY <1>2, <3>2, <3>3, <3>4 DEF MonitorInv
  <2>5. CASE AppendRefused
    <3>1. MonitorTypeOK'
      BY <1>2, <2>3, <2>5 DEF MonitorInv, AppendRefused, MonitorTypeOK
    <3>2. \A j \in Monitors : SessionsAgree(j)'
      BY <1>2, <2>1, <2>3, MonitorDomains DEF MonitorInv, SessionsAgree
    <3>3. \A j \in Monitors : JournalKept(j)' /\ SinkIsJournal(j)'
      BY <1>2, <2>1, <2>3, <2>5, MonitorDomains
         DEF MonitorInv, JournalKept, SinkIsJournal, AppendRefused, SessionsAgree
    <3>4. QED BY <1>2, <3>1, <3>2, <3>3 DEF MonitorInv
  <2>6. QED BY <2>3, <2>4, <2>5
<1>5. CASE StopRecords(i)
  <2>1. /\ stopping[i] = "Removed"
        /\ Appended(i, "Stopped") \/ AppendRefused
        /\ stopping' = [stopping EXCEPT ![i] = "Recorded"] /\ UNCHANGED <<begin, reader>>
    BY <1>1, <1>5 DEF StopRecords
  <2>2. Locked(i) /\ \A j \in Monitors : Locked(j)' <=> Locked(j)
    BY <1>2, <2>1, MonitorDomains DEF MonitorInv, SessionsAgree
  <2>3. CASE Appended(i, "Stopped")
    <3>1. /\ \A j \in Monitors : /\ journal'[j] \in Seq(Entries) /\ Whole(Body(journal'[j]), cas')
                                  /\ IsPrefix(told'[j], Body(journal'[j])) /\ ~ IsTorn(journal'[j])
                                  /\ sink'[j] \in Seq(Entries)
          /\ \A j \in Monitors \ {i} : journal'[j] = journal[j] /\ sink'[j] = sink[j]
          /\ journal'[i] = sink'[i] /\ UNCHANGED writeFaults
      BY <1>2, <2>2, <2>3, AppendedKeeps
    <3>2. MonitorTypeOK'
      BY <1>2, <2>1, <2>3, <3>1 DEF MonitorInv, Appended, MonitorTypeOK
    <3>3. \A j \in Monitors : SessionsAgree(j)'
      BY <1>2, <2>1, MonitorDomains DEF MonitorInv, SessionsAgree
    <3>4. \A j \in Monitors : JournalKept(j)' /\ SinkIsJournal(j)'
      BY <1>2, <2>1, <2>2, <3>1, MonitorDomains
         DEF MonitorInv, JournalKept, SinkIsJournal, SessionsAgree
    <3>5. QED BY <1>2, <3>2, <3>3, <3>4 DEF MonitorInv
  <2>4. CASE AppendRefused
    <3>1. MonitorTypeOK'
      BY <1>2, <2>1, <2>4 DEF MonitorInv, AppendRefused, MonitorTypeOK
    <3>2. \A j \in Monitors : SessionsAgree(j)'
      BY <1>2, <2>1, MonitorDomains DEF MonitorInv, SessionsAgree
    <3>3. \A j \in Monitors : JournalKept(j)' /\ SinkIsJournal(j)'
      BY <1>2, <2>1, <2>2, <2>4, MonitorDomains
         DEF MonitorInv, JournalKept, SinkIsJournal, AppendRefused, SessionsAgree
    <3>4. QED BY <1>2, <3>1, <3>2, <3>3 DEF MonitorInv
  <2>5. QED BY <2>1, <2>3, <2>4
<1>6. QED BY <1>3, <1>4, <1>5

\* A client reads what is there; the file of a monitor that nobody has open is whole.
LEMMA ReadingKeeps ==
  ASSUME NoWriteFault, MonitorInv, NEW i \in Monitors, Read(i)
  PROVE  MonitorInv'
<1>1. daemon = "Serving" /\ UNCHANGED <<cas, process, writeFaults, crashes>>
  BY DEF Read
<1>2. \A j \in Monitors : Body(journal[j]) = journal[j] /\ ~ IsTorn(journal[j])
  BY <1>1 DEF MonitorInv, JournalKept, Body
<1>3. journal[i] \in Seq(Entries) /\ Whole(journal[i], cas)
  BY <1>2 DEF MonitorInv, JournalKept
<1>4. Cut(journal[i]) = journal[i] /\ Replayed(journal[i]) = journal[i]
  BY <1>2, <1>3, ReplayOfWhole
<1>5. i \in sessions => sink[i] = journal[i]
  BY <1>1 DEF MonitorInv, SinkIsJournal, Locked
<1>6. journal' = journal /\ told' = [told EXCEPT ![i] = journal[i]]
  <2>1. [journal EXCEPT ![i] = journal[i]] = journal
    BY DEF MonitorInv, MonitorTypeOK
  <2>2. CASE i \in sessions
    BY <1>5, <2>2 DEF Read
  <2>3. CASE i \notin sessions
    BY <1>4, <2>1, <2>3 DEF Read
  <2>4. QED BY <2>2, <2>3
<1>7. IsPrefix(journal[i], journal[i])
  BY <1>3, PrefixByPlace DEF Whole
<1>8. \A j \in Monitors : SessionsAgree(j)' /\ (Locked(j)' <=> Locked(j)) /\ SinkIsJournal(j)'
  BY <1>1, <1>6 DEF MonitorInv, SessionsAgree, Locked, SinkIsJournal, process
<1>9. MonitorTypeOK'
  BY <1>1, <1>3, <1>6 DEF MonitorInv, MonitorTypeOK, process
<1>10. \A j \in Monitors : JournalKept(j)'
  BY <1>1, <1>2, <1>6, <1>7, <1>8, MonitorDomains DEF MonitorInv, JournalKept, process
<1>11. QED BY <1>1, <1>8, <1>9, <1>10 DEF MonitorInv, process

\* What a crash leaves of a journal, and what was read of it.
LEMMA TearKeepsJournal ==
  ASSUME NEW e \in Seq(Entries), Whole(Body(e), cas), NEW t \in Seq(Entries), IsPrefix(t, Body(e)),
         NEW r, r = Append(Body(e), TornRecord)
  PROVE  /\ r \in Seq(Entries) /\ IsTorn(r) /\ Body(r) = Body(e)
         /\ Whole(Body(r), cas) /\ IsPrefix(t, Body(r))
BY TornIsCut

\* The process dies: the journals that were open may end in a record that is torn.
LEMMA DyingKeeps ==
  ASSUME NoWriteFault, MonitorInv, DaemonDies
  PROVE  MonitorInv'
<1>1. PICK torn \in SUBSET {i \in Monitors : Tearable(i)} :
        journal' = [i \in Monitors |->
                      IF i \notin torn THEN journal[i]
                      ELSE Append(IF Locked(i) THEN journal[i] ELSE Cut(journal[i]), TornRecord)]
  BY DEF DaemonDies
<1>2. /\ daemon' = "Opening" /\ unreconciled' = Monitors /\ UNCHANGED <<cas, writeFaults, told>>
      /\ sessions' = {} /\ accepting' = TRUE /\ crashes' = crashes + 1
      /\ \A i \in Monitors : /\ begin'[i] = IF begin[i] = "New" THEN "New" ELSE "Gone"
                            /\ reader'[i] = NoReader /\ stopping'[i] = "No" /\ sink'[i] = <<>>
  BY DEF DaemonDies
<1>3. \A i \in Monitors : SessionsAgree(i)' /\ ~ Locked(i)'
  BY <1>2 DEF SessionsAgree, Locked, NoReader
<1>4. ASSUME NEW i \in torn
      PROVE  journal'[i] = Append(Body(journal[i]), TornRecord) /\ begin[i] # "New"
  <2>1. i \in Monitors /\ Tearable(i)
    BY <1>1
  <2>2. Cut(journal[i]) = Body(journal[i]) /\ Replayed(journal[i]) = Body(journal[i])
    BY <2>1, ReplayOfWhole DEF MonitorInv, JournalKept
  <2>3. CASE Locked(i)
    <3>1. Body(journal[i]) = journal[i]
      BY <2>1, <2>3 DEF MonitorInv, JournalKept, Body
    <3>2. begin[i] # "New"
      BY <2>1, <2>3 DEF MonitorInv, SessionsAgree, Locked
    <3>3. QED BY <1>1, <2>1, <2>3, <3>1, <3>2
  <2>4. CASE ~ Locked(i)
    <3>1. Body(journal[i]) # <<>>
      BY <2>1, <2>2, <2>4 DEF Tearable, Owed
    <3>2. journal[i] # <<>>
      BY <3>1 DEF Body, IsTorn
    <3>3. begin[i] # "New"
      BY <2>1, <3>2 DEF MonitorInv, JournalKept
    <3>4. QED BY <1>1, <2>1, <2>2, <2>4, <3>3
  <2>5. QED BY <2>3, <2>4
<1>5. \A i \in Monitors \ torn : journal'[i] = journal[i]
  BY <1>1
<1>6. ASSUME NEW i \in Monitors
      PROVE  /\ journal'[i] \in Seq(Entries) /\ Whole(Body(journal'[i]), cas)
             /\ IsPrefix(told[i], Body(journal'[i]))
             /\ begin[i] = "New" => journal'[i] = <<>>
  <2>1. journal[i] \in Seq(Entries) /\ Whole(Body(journal[i]), cas) /\ told[i] \in Seq(Entries)
        /\ IsPrefix(told[i], Body(journal[i]))
    BY DEF MonitorInv, JournalKept, MonitorTypeOK
  <2>2. CASE i \in torn
    BY <1>4, <2>1, <2>2, TearKeepsJournal
  <2>3. CASE i \notin torn
    BY <1>5, <2>1, <2>3 DEF MonitorInv, JournalKept
  <2>4. QED BY <2>2, <2>3
<1>7. MonitorTypeOK'
  <2>1. journal' \in [Monitors -> Seq(Entries)]
    BY <1>1, <1>6
  <2>2. /\ sink' \in [Monitors -> Seq(Entries)]
        /\ begin' \in [Monitors -> {"New", "Opened", "Spawned", "Entered", "Gone"}]
        /\ stopping' \in [Monitors -> {"No", "Removed", "Recorded", "Returned"}]
    BY DEF DaemonDies
  <2>3. reader' \in [Monitors -> {NoReader, IdleReader} \cup
                              [at : {"Frame", "Stored"}, payload : Payloads]]
    BY DEF DaemonDies
  <2>4. QED BY <1>2, <2>1, <2>2, <2>3 DEF MonitorInv, MonitorTypeOK
<1>8. \A i \in Monitors : JournalKept(i)'
  BY <1>2, <1>3, <1>6 DEF JournalKept
<1>9. QED BY <1>2, <1>3, <1>7, <1>8 DEF MonitorInv

\* open_at() brings a journal to its end: what a client read of it stays.
LEMMA ClosingKeepsJournal ==
  ASSUME NEW e \in Seq(Entries), Whole(Body(e), cas), NEW t \in Seq(Entries), IsPrefix(t, Body(e)),
         cas \subseteq Payloads
  PROVE  /\ Closed(e) \in Seq(Entries) /\ ~ IsTorn(Closed(e)) /\ Body(Closed(e)) = Closed(e)
         /\ Whole(Closed(e), cas) /\ IsPrefix(t, Closed(e)) /\ Settled(Closed(e))
         /\ e = <<>> => Closed(e) = <<>>
<1> DEFINE b == Body(e)
<1>1. Cut(e) = b /\ Replayed(e) = b
  BY ReplayOfWhole
<1>2. b \in Seq(Entries) /\ ~ IsTorn(b) /\ Body(b) = b
  BY WholeIsJournal
<1>3. e = <<>> => b = <<>>
  BY DEF Body, IsTorn
<1>4. CASE Owed(e)
  <2>1. b # <<>> /\ ~ IsTerminal(b) /\ Closed(e) = Append(b, RecordAfter(b, "Stopped"))
    BY <1>1, <1>4 DEF Owed, Closed
  <2>2. MayAppend(b, "Stopped")
    BY <2>1 DEF MayAppend
  <2>3. LET r == Append(b, RecordAfter(b, "Stopped"))
        IN  /\ r \in Seq(Entries) /\ Whole(r, cas) /\ ~ IsTorn(r) /\ Body(r) = r /\ IsPrefix(t, r)
            /\ r # <<>> /\ Last(r).kind = "Stopped"
    BY <2>2, AppendKeepsJournal
  <2>4. QED BY <1>3, <2>1, <2>3 DEF Settled, IsTerminal
<1>5. CASE ~ Owed(e)
  <2>1. Closed(e) = b /\ (b = <<>> \/ IsTerminal(b))
    BY <1>1, <1>5 DEF Owed, Closed
  <2>2. QED BY <1>2, <1>3, <2>1 DEF Settled
<1>6. QED BY <1>4, <1>5

\* A journal is opened and brought to its end, and none is taken for corrupt.
LEMMA ReconcilingKeeps ==
  ASSUME NoWriteFault, MonitorInv, NEW i \in Monitors, Reconcile(i)
  PROVE  MonitorInv'
<1>1. daemon = "Opening" /\ i \in unreconciled
      /\ UNCHANGED <<cas, sink, begin, reader, sessions, accepting, stopping, writeFaults, crashes,
         told>>
  BY DEF Reconcile
<1>2. journal[i] \in Seq(Entries) /\ Whole(Body(journal[i]), cas) /\ told[i] \in Seq(Entries)
      /\ IsPrefix(told[i], Body(journal[i])) /\ cas \subseteq Payloads
  BY DEF MonitorInv, JournalKept, MonitorTypeOK
<1>3. ~ MayBeCorrupt(journal[i])
  BY <1>2, ReplayOfWhole
<1>4. /\ journal' = [journal EXCEPT ![i] = Closed(journal[i])]
      /\ unreconciled' = unreconciled \ {i} /\ daemon' = daemon
  BY <1>3 DEF Reconcile
<1>5. /\ Closed(journal[i]) \in Seq(Entries) /\ ~ IsTorn(Closed(journal[i]))
      /\ Body(Closed(journal[i])) = Closed(journal[i])
      /\ Whole(Closed(journal[i]), cas) /\ IsPrefix(told[i], Closed(journal[i]))
      /\ Settled(Closed(journal[i])) /\ (journal[i] = <<>> => Closed(journal[i]) = <<>>)
  BY <1>2, ClosingKeepsJournal
<1>6. journal'[i] = Closed(journal[i]) /\ \A j \in Monitors \ {i} : journal'[j] = journal[j]
  BY <1>4, MonitorDomains
<1>7. \A j \in Monitors : SessionsAgree(j)' /\ (Locked(j)' <=> Locked(j))
  BY <1>1 DEF MonitorInv, SessionsAgree, Locked
<1>8. MonitorTypeOK'
  BY <1>1, <1>4, <1>5 DEF MonitorInv, MonitorTypeOK
<1>9. \A j \in Monitors : JournalKept(j)'
  <2> SUFFICES ASSUME NEW j \in Monitors PROVE JournalKept(j)'
    OBVIOUS
  <2>1. CASE j = i
    BY <1>1, <1>4, <1>5, <1>6, <1>7, <2>1 DEF MonitorInv, JournalKept
  <2>2. CASE j # i
    BY <1>1, <1>4, <1>6, <1>7, <2>2 DEF MonitorInv, JournalKept
  <2>3. QED BY <2>1, <2>2
<1>10. QED BY <1>1, <1>4, <1>7, <1>8, <1>9 DEF MonitorInv

\* The daemon serves when every journal is closed: a monitor that has never begun has none.
LEMMA ServingKeeps ==
  ASSUME NoWriteFault, MonitorInv, Serve
  PROVE  MonitorInv'
<1>1. \A j \in Monitors : SessionsAgree(j)' /\ JournalKept(j)'
  BY DEF Serve, durable, MonitorInv, SessionsAgree, JournalKept, Locked
<1>2. MonitorTypeOK'
  BY DEF Serve, durable, MonitorInv, MonitorTypeOK
<1>3. \A j \in Monitors : SinkIsJournal(j)'
  BY DEF Serve, durable, MonitorInv, JournalKept, SinkIsJournal, Locked
<1>4. QED BY <1>1, <1>2, <1>3 DEF Serve, MonitorInv

\* Every step of the monitors keeps the invariant.
LEMMA MonitorInvariance ==
  ASSUME NoWriteFault
  PROVE  /\ MonitorInit => MonitorInv
         /\ MonitorInv /\ [MonitorNext]_monitorVars => MonitorInv'
<1>1. MonitorInit => MonitorInv
  <2> SUFFICES ASSUME MonitorInit PROVE MonitorInv
    OBVIOUS
  <2>1. MonitorTypeOK
    BY DEF MonitorInit, MonitorTypeOK
  <2>2. ASSUME NEW i \in Monitors PROVE SessionsAgree(i) /\ SinkIsJournal(i) /\ ~ Locked(i)
    BY DEF MonitorInit, SessionsAgree, SinkIsJournal, Locked, NoReader
  <2>3. Whole(<<>>, cas) /\ ~ IsTorn(<<>>) /\ Body(<<>>) = <<>> /\ IsPrefix(<<>>, <<>>)
    <3>1. <<>> \in Seq(Written) /\ <<>> \in Seq(Entries) /\ Len(<<>>) = 0
      OBVIOUS
    <3>2. Whole(<<>>, cas)
      BY <3>1 DEF Whole, Sound
    <3>3. IsPrefix(<<>>, <<>>)
      BY <3>1 DEF IsPrefix
    <3>4. QED BY <3>2, <3>3 DEF IsTorn, Body
  <2>4. \A i \in Monitors : JournalKept(i)
    BY <2>2, <2>3 DEF MonitorInit, JournalKept
  <2>5. QED BY <2>1, <2>2, <2>4 DEF MonitorInit, MonitorInv
<1>2. MonitorInv /\ [MonitorNext]_monitorVars => MonitorInv'
  <2> SUFFICES ASSUME MonitorInv, [MonitorNext]_monitorVars PROVE MonitorInv'
    OBVIOUS
  <2>1. CASE MonitorNext
    <3>1. ASSUME NEW i \in Monitors,
                 \/ BeginStarts(i) \/ BeginSpawns(i) \/ BeginEnters(i)
                 \/ ReaderTakes(i) \/ ReaderStores(i) \/ ReaderRecords(i) \/ ReaderEnds(i)
                 \/ StopRemoves(i) \/ StopRecords(i) \/ StopReturns(i)
                 \/ Read(i) \/ Reconcile(i)
          PROVE  MonitorInv'
      BY <3>1, SessionKeeps, StoringKeeps, AppendingKeeps, ReadingKeeps, ReconcilingKeeps
    <3>2. ASSUME NEW record \in BOOLEAN, Drain(record) PROVE MonitorInv'
      <4>1. CASE Monitors = {}
        BY <3>2, <4>1 DEF Drain, durable, MonitorInv, MonitorTypeOK
      <4>2. CASE Monitors # {}
        BY <3>2, <4>2, SessionKeeps
      <4>3. QED BY <4>1, <4>2
    <3>3. QED BY <2>1, <3>1, <3>2, DyingKeeps, ServingKeeps DEF MonitorNext
  <2>2. CASE UNCHANGED monitorVars
    <3>1. UNCHANGED <<journal, cas, daemon, unreconciled, sink, begin, reader, sessions, accepting,
                      stopping, writeFaults, crashes, told>>
      BY <2>2 DEF monitorVars, durable, process
    <3>2. MonitorTypeOK'
      BY <3>1 DEF MonitorInv, MonitorTypeOK
    <3>3. \A j \in Monitors : /\ SessionsAgree(j)' /\ (Locked(j)' <=> Locked(j))
                              /\ (SinkIsJournal(j)' <=> SinkIsJournal(j))
      BY <3>1 DEF MonitorInv, SessionsAgree, Locked, SinkIsJournal
    <3>4. \A j \in Monitors : JournalKept(j)'
      BY <3>1, <3>3 DEF MonitorInv, JournalKept
    <3>5. QED BY <3>1, <3>2, <3>3, <3>4 DEF MonitorInv
  <2>3. QED BY <2>1, <2>2
<1>3. QED BY <1>1, <1>2

\* The variables have their types in every reachable state.
THEOREM MonitorTypes ==
  ASSUME NoWriteFault
  PROVE  MonitorSpec => []MonitorTypeOK
<1>1. MonitorInv => MonitorTypeOK
  BY DEF MonitorInv
<1>2. QED BY <1>1, MonitorInvariance, PTL DEF MonitorSpec

\* A record that a client has read keeps its place under its cursor, whatever crashes, and the
\* payload of a frame that is recorded is in the store (MonitorJournal, record_frame()).
THEOREM ReadRecordsStay ==
  ASSUME NoWriteFault, PayloadsAreNoTags
  PROVE  MonitorSpec => []CursorsHold
<1>1. MonitorInv => CursorsHold
  <2> SUFFICES ASSUME MonitorInv, NEW i \in Monitors
               PROVE  /\ IsPrefix(told[i], journal[i])
                      /\ \A k \in 1..Len(journal[i]) :
                             journal[i][k].kind \in Payloads => journal[i][k].kind \in cas
    BY DEF CursorsHold
  <2>1. /\ journal[i] \in Seq(Entries) /\ Whole(Body(journal[i]), cas) /\ told[i] \in Seq(Entries)
        /\ IsPrefix(told[i], Body(journal[i]))
    BY DEF MonitorInv, MonitorTypeOK, JournalKept
  <2>2. CASE IsTorn(journal[i])
    <3> DEFINE n == Len(journal[i])
    <3>1. n \in Nat /\ n # 0 /\ journal[i][n] = TornRecord
          /\ Body(journal[i]) = SubSeq(journal[i], 1, n - 1)
      BY <2>1, <2>2 DEF IsTorn, Body
    <3>2. Len(Body(journal[i])) = n - 1 /\ \A k \in 1..n - 1 : Body(journal[i])[k] = journal[i][k]
      BY <2>1, <3>1, ReplayOfWhole
    <3>3. IsPrefix(told[i], journal[i])
      <4> DEFINE b == Body(journal[i])
                 t == told[i]
                 e == journal[i]
      <4>1. b \in Seq(Entries) /\ t \in Seq(Entries) /\ e \in Seq(Entries)
        BY <2>1, WholeIsJournal
      <4>2. Len(t) <= Len(b) /\ \A k \in 1..Len(t) : t[k] = b[k]
        BY <2>1, <4>1, PrefixByPlace
      <4>3. Len(t) \in Nat /\ Len(b) = Len(e) - 1 /\ Len(e) \in Nat
            /\ \A k \in 1..Len(e) - 1 : b[k] = e[k]
        BY <3>1, <3>2, <4>1
      <4>. HIDE DEF b, t, e
      <4>4. Len(t) <= Len(e) /\ \A k \in 1..Len(t) : t[k] = e[k]
        BY ONLY <4>2, <4>3
      <4>5. QED BY <4>1, <4>4, PrefixByPlace DEF t, e
    <3>4. ASSUME NEW k \in 1..n, journal[i][k].kind \in Payloads PROVE journal[i][k].kind \in cas
      BY <2>1, <3>1, <3>2, <3>4 DEF Whole, PayloadsAreNoTags, TornRecord
    <3>5. QED BY <3>3, <3>4
  <2>3. CASE ~ IsTorn(journal[i])
    BY <2>1, <2>3 DEF Body, Whole, PayloadsAreNoTags
  <2>4. QED BY <2>2, <2>3
<1>2. QED BY <1>1, MonitorInvariance, PTL DEF MonitorSpec

\* After stop() has returned nobody holds the journal, and it can be read (stop_session()).
THEOREM StoppedCanBeRead ==
  ASSUME NoWriteFault
  PROVE  MonitorSpec => []StoppedIsReadable
<1>1. MonitorInv => StoppedIsReadable
  <2> SUFFICES ASSUME MonitorInv, NEW i \in Monitors, stopping[i] = "Returned", daemon = "Serving"
               PROVE  ~ Locked(i) /\ MayReplay(journal[i])
    BY DEF StoppedIsReadable
  <2>1. ~ Locked(i)
    BY DEF MonitorInv, SessionsAgree, Locked
  <2>2. MayReplay(journal[i])
    BY ReplayOfWhole DEF MonitorInv, JournalKept
  <2>3. QED BY <2>1, <2>2
<1>2. QED BY <1>1, MonitorInvariance, PTL DEF MonitorSpec

\* While no append fails, each journal can be opened again, wherever the process died: a record
\* cut short is not taken for a corrupt journal (open_at()).
THEOREM CrashesLeaveJournals ==
  ASSUME NoWriteFault
  PROVE  MonitorSpec => []JournalsStayConsistent
<1>1. MonitorInv => JournalsStayConsistent
  BY DEF MonitorInv, JournalsStayConsistent
<1>2. QED BY <1>1, MonitorInvariance, PTL DEF MonitorSpec

-----------------------------------------------------------------------------
(* ProfileRecords *)

\* Identities are told apart by what the manifests say of them.
IdentitiesAreTold ==
    /\ Unbound \notin Identities /\ MaxInterrupts \in Nat
    /\ \A i \in Identities : i.compiled \in BOOLEAN
    /\ \A i, j \in Identities :
          i.class = j.class /\ i.persona = j.persona /\ i.compiled = j.compiled => i = j

\* The manifests that a binding which is at one of them is through with.
Passed(place) ==
    CASE place = "Binding" -> {}
      [] place = "Class" -> {"Binding"}
      [] place = "Persona" -> {"Binding", "Class"}

Bindings ==
    [at : Manifests, identity : Identities, read : [Manifests -> Identities \cup {Unbound}],
     existing : BOOLEAN]

\* The manifests are as they were read, but for those that were written since.
Follows(b) ==
    /\ b \in Bindings
    /\ \A m \in Passed(b.at) : ~Objects(b, m)
    /\ \A m \in Manifests :
          manifests[m] = IF m \in Passed(b.at) /\ Writes(b, m) THEN b.identity ELSE b.read[m]
    /\ bound # {} => manifests = b.read

\* An identity whose manifests are all there.
AllHeld(held, i) ==
    /\ held["Class"] # Unbound /\ held["Persona"] # Unbound
    /\ Says(held, "Class", i) /\ Says(held, "Persona", i)
    /\ i.compiled => Says(held, "Binding", i)
    /\ ~i.compiled => held["Binding"] = Unbound

BindInv ==
    /\ manifests \in [Manifests -> Identities \cup {Unbound}] /\ bound \subseteq Identities
    /\ binding # NoBinding => Follows(binding)
    /\ \A i \in bound : AllHeld(manifests, i)

\* Whole records, the last of which is what is read.
IsRecord(n, s) ==
    /\ states[3 * (n - 1) + 1] = [unit |-> "Magic", of |-> s]
    /\ states[3 * (n - 1) + 2] = [unit |-> "Fields", of |-> s]
    /\ states[3 * (n - 1) + 3] = [unit |-> "Times", of |-> s]

\* Count records, the last of which is a possible one, and what is left of one that was cut short.
RecordsAndRest(count, rest) ==
    /\ Len(states) = 3 * count + rest
    /\ \A n \in 1..count : \E s \in Transitions : IsRecord(n, s)
    /\ count > 0 => \E s \in possible \cap Transitions : IsRecord(count, s)
    /\ count = 0 => Nothing \in possible

StatusInv ==
    /\ states \in Seq(Units) /\ possible \subseteq Statuses \cup {Nothing}
    /\ NoneInside => \E count \in Nat, rest \in 0..2 : RecordsAndRest(count, rest)

\* A journal that was never opened has no records.
RecordsAreThere == states # <<>> => opened

-----------------------------------------------------------------------------
\* A binding that has passed its last manifest has them all, and is that of whoever was bound.
LEMMA PassedIsComplete ==
  ASSUME IdentitiesAreTold, BindInv, binding # NoBinding, binding.at = "Persona",
         ~Objects(binding, "Persona"),
         NEW held, \/ ~Writes(binding, "Persona") /\ held = manifests
                   \/ /\ Writes(binding, "Persona")
                      /\ held = [manifests EXCEPT !["Persona"] = binding.identity]
  PROVE  AllHeld(held, binding.identity) /\ \A j \in bound : j = binding.identity
<1> DEFINE b == binding
           i == b.identity
<1>1. /\ b \in Bindings /\ ~Objects(b, "Binding") /\ ~Objects(b, "Class") /\ ~Objects(b, "Persona")
      /\ i \in Identities /\ i # Unbound /\ i.compiled \in BOOLEAN
      /\ bound # {} => manifests = b.read
  BY DEF BindInv, Follows, Passed, IdentitiesAreTold, Bindings
<1>2. /\ manifests["Binding"] = IF Writes(b, "Binding") THEN i ELSE b.read["Binding"]
      /\ manifests["Class"] = IF Writes(b, "Class") THEN i ELSE b.read["Class"]
      /\ manifests["Persona"] = b.read["Persona"]
  BY DEF BindInv, Follows, Passed, Manifests
<1>3. /\ held["Binding"] = manifests["Binding"] /\ held["Class"] = manifests["Class"]
      /\ held["Persona"] = IF Writes(b, "Persona") THEN i ELSE b.read["Persona"]
  BY <1>2 DEF BindInv, Manifests
<1>4. AllHeld(held, i)
  <2>1. held["Class"] # Unbound /\ Says(held, "Class", i)
    BY <1>1, <1>2, <1>3 DEF Objects, Writes, Says
  <2>2. held["Persona"] # Unbound /\ Says(held, "Persona", i)
    BY <1>1, <1>2, <1>3 DEF Objects, Writes, Says
  <2>3. /\ i.compiled => Says(held, "Binding", i)
        /\ ~i.compiled => held["Binding"] = Unbound
    BY <1>1, <1>2, <1>3 DEF Objects, Writes, Says
  <2>4. QED BY <2>1, <2>2, <2>3 DEF AllHeld
<1>5. ASSUME NEW j \in bound PROVE j = i
  <2>1. manifests = b.read /\ AllHeld(b.read, j) /\ j \in Identities
    BY <1>1 DEF BindInv
  <2>2. Says(b.read, "Class", i) /\ Says(b.read, "Persona", i)
    BY <1>1, <2>1 DEF AllHeld, Objects, Says
  <2>3. i.class = j.class /\ i.persona = j.persona /\ i.compiled = j.compiled
    BY <2>1, <2>2 DEF AllHeld, Says
  <2>4. QED BY <1>1, <2>1, <2>3 DEF IdentitiesAreTold
<1>6. QED BY <1>4, <1>5

\* A binding of a bound profile writes nothing.
LEMMA BoundIsFound ==
  ASSUME IdentitiesAreTold, BindInv, binding # NoBinding, bound # {},
         ~Objects(binding, binding.at)
  PROVE  ~Writes(binding, binding.at)
<1>1. PICK j \in bound : AllHeld(manifests, j)
  BY DEF BindInv
<1>2. manifests = binding.read /\ binding.at \in Manifests /\ binding.identity.compiled \in BOOLEAN
  BY DEF BindInv, Follows, Bindings, IdentitiesAreTold
<1>3. QED BY <1>1, <1>2 DEF AllHeld, Objects, Writes, Manifests, Says

\* What a step of a binding does to the next manifest.
LEMMA BindingKeeps ==
  ASSUME IdentitiesAreTold, BindInv, BindFinds \/ BindRenames
  PROVE  BindInv'
<1> DEFINE b == binding
<1>1. /\ b # NoBinding /\ ~Objects(b, b.at) /\ Moves(b)
      /\ \/ ~Writes(b, b.at) /\ manifests' = manifests
         \/ Writes(b, b.at) /\ manifests' = [manifests EXCEPT ![b.at] = b.identity]
  BY DEF BindFinds, BindRenames
<1>2. /\ b \in Bindings /\ b.at \in Manifests /\ b.identity \in Identities
      /\ manifests \in [Manifests -> Identities \cup {Unbound}] /\ bound \subseteq Identities
  BY <1>1 DEF BindInv, Follows, Bindings
<1>3. manifests' \in [Manifests -> Identities \cup {Unbound}]
  BY <1>1, <1>2
<1>4. bound # {} => manifests' = manifests
  BY <1>1, BoundIsFound
<1>5. CASE b.at = "Persona"
  <2>1. binding' = NoBinding /\ bound' = bound \cup {b.identity}
    BY <1>1, <1>5 DEF Moves
  <2>2. AllHeld(manifests', b.identity) /\ \A j \in bound : j = b.identity
    BY <1>1, <1>5, PassedIsComplete
  <2>3. QED BY <1>2, <1>3, <2>1, <2>2 DEF BindInv
<1>6. CASE b.at # "Persona"
  <2>1. binding' = [b EXCEPT !.at = After[b.at]] /\ bound' = bound
    BY <1>1, <1>6 DEF Moves
  <2>2. /\ binding'.at = After[b.at] /\ binding'.identity = b.identity /\ binding'.read = b.read
        /\ binding'.existing = b.existing /\ binding' \in Bindings
    BY <1>2, <1>6, <2>1 DEF Bindings, After, Manifests
  <2>3. Passed(After[b.at]) = Passed(b.at) \cup {b.at} /\ b.at \notin Passed(b.at)
    BY <1>2, <1>6 DEF After, Passed, Manifests
  <2>4. \A m \in Manifests : (Objects(binding', m) <=> Objects(b, m))
        /\ (Writes(binding', m) <=> Writes(b, m))
    BY <2>2 DEF Objects, Writes
  <2>5. \A m \in Passed(binding'.at) : ~Objects(binding', m)
    <3>1. \A m \in Passed(b.at) : ~Objects(b, m)
      BY <1>1 DEF BindInv, Follows
    <3>2. Passed(b.at) \subseteq Manifests
      BY <1>2 DEF Passed, Manifests
    <3>3. QED BY <1>1, <1>2, <2>2, <2>3, <2>4, <3>1, <3>2
  <2>6. ASSUME NEW m \in Manifests
        PROVE  manifests'[m] = IF m \in Passed(binding'.at) /\ Writes(binding', m)
                               THEN binding'.identity ELSE binding'.read[m]
    <3>1. manifests[m] = IF m \in Passed(b.at) /\ Writes(b, m) THEN b.identity ELSE b.read[m]
      BY <1>1 DEF BindInv, Follows
    <3>2. QED BY <1>1, <1>2, <2>2, <2>3, <2>4, <3>1
  <2>7. bound # {} => manifests' = binding'.read
    BY <1>1, <1>4, <2>2 DEF BindInv, Follows
  <2>8. Follows(binding)'
    BY <2>1, <2>2, <2>5, <2>6, <2>7 DEF Follows
  <2>9. \A i \in bound' : AllHeld(manifests', i)
    BY <1>4, <2>1 DEF BindInv
  <2>10. QED BY <1>2, <1>3, <2>1, <2>8, <2>9 DEF BindInv
<1>7. QED BY <1>5, <1>6

\* Every step keeps the invariant of the binding.
LEMMA BindInvariance ==
  ASSUME IdentitiesAreTold
  PROVE  /\ ProfileInit => BindInv
         /\ BindInv /\ [ProfileNext]_profileVars => BindInv'
<1>1. ProfileInit => BindInv
  BY DEF ProfileInit, BindInv
<1>2. ASSUME BindInv, NEW i \in Identities, BindBegins(i) PROVE BindInv'
  <2>1. /\ binding' = [at |-> "Binding", identity |-> i, read |-> manifests,
           existing |-> HasExistingState]
        /\ UNCHANGED <<manifests, bound>>
    BY <1>2 DEF BindBegins
  <2>2. HasExistingState \in BOOLEAN
    BY DEF HasExistingState
  <2>3. binding' \in Bindings
    BY <1>2, <2>1, <2>2 DEF Bindings, BindInv, Manifests
  <2>4. Follows(binding)'
    BY <2>1, <2>3 DEF Follows, Passed
  <2>5. QED BY <1>2, <2>1, <2>4 DEF BindInv
<1>3. ASSUME BindInv, UNCHANGED <<manifests, bound>>, binding' \in {binding, NoBinding}
      PROVE  BindInv'
  <2>1. CASE binding' = NoBinding
    BY <1>3, <2>1 DEF BindInv
  <2>2. CASE binding' = binding
    BY <1>3, <2>2 DEF BindInv, Follows
  <2>3. QED BY <1>3, <2>1, <2>2
<1>4. ASSUME BindInv, [ProfileNext]_profileVars PROVE BindInv'
  <2>1. CASE BindFinds \/ BindRenames
    BY <1>4, <2>1, BindingKeeps
  <2>2. CASE \E i \in Identities : BindBegins(i)
    BY <1>2, <1>4, <2>2
  <2>3. CASE BindRefuses \/ BindPrepares \/ BindFails \/ Dies \/ Browses
             \/ \E s \in Transitions : Updates(s) \/ UpdateFails(s)
    BY <1>3, <1>4, <2>3
       DEF BindRefuses, BindPrepares, BindFails, Dies, Browses, Updates, UpdateFails
  <2>4. CASE UNCHANGED profileVars
    BY <1>3, <1>4, <2>4 DEF profileVars
  <2>5. QED BY <1>4, <2>1, <2>2, <2>3, <2>4 DEF ProfileNext
<1>5. QED BY <1>1, <1>4

\* A profile serves one identity for good, wherever binding it stopped (bind_identity_contract).
THEOREM OneIdentityIsBound ==
  ASSUME IdentitiesAreTold
  PROVE  ProfileSpec => []ProfileKeepsIdentity
<1>1. BindInv => ProfileKeepsIdentity
  <2> SUFFICES ASSUME BindInv, NEW i \in bound, NEW j \in bound PROVE i = j
    BY DEF ProfileKeepsIdentity
  <2>1. i.compiled \in BOOLEAN /\ j.compiled \in BOOLEAN /\ i \in Identities /\ j \in Identities
    BY DEF IdentitiesAreTold, BindInv
  <2>2. i.class = j.class /\ i.persona = j.persona /\ i.compiled = j.compiled
    BY DEF BindInv, AllHeld, Says
  <2>3. QED BY <2>1, <2>2 DEF IdentitiesAreTold
<1>2. QED BY <1>1, BindInvariance, PTL DEF ProfileSpec

\* The manifests of a bound profile are those of one identity, and no refused request disturbs
\* them (bind_identity_contract, read_identity_session_status).
THEOREM BoundAgrees ==
  ASSUME IdentitiesAreTold
  PROVE  ProfileSpec => []BoundIsReadable
<1>1. BindInv => BoundIsReadable
  <2> SUFFICES ASSUME BindInv, NEW i \in bound PROVE Contract /\ Held("Class") /\ Held("Persona")
    BY DEF BoundIsReadable
  <2>1. AllHeld(manifests, i) /\ i \in Identities /\ i.compiled \in BOOLEAN /\ i # Unbound
    BY DEF BindInv, IdentitiesAreTold
  <2>2. CASE i.compiled
    BY <2>1, <2>2 DEF AllHeld, Says, Contract, Compiled, ClassHeld, Held
  <2>3. CASE ~i.compiled
    BY <2>1, <2>3 DEF AllHeld, Says, Contract, Compiled, ClassHeld, Held
  <2>4. QED BY <2>1, <2>2, <2>3 DEF AllHeld, Held
<1>2. QED BY <1>1, BindInvariance, PTL DEF ProfileSpec

-----------------------------------------------------------------------------
\* A record of a transition says that transition.
LEMMA RecordIsDecoded ==
  ASSUME NEW n \in Nat, NEW s \in Transitions, IsRecord(n, s)
  PROVE  Decodes(Chunk(n)) /\ Decoded(Chunk(n)) = s
<1>1. /\ Chunk(n)[1] = [unit |-> "Magic", of |-> s] /\ Chunk(n)[2] = [unit |-> "Fields", of |-> s]
      /\ Chunk(n)[3] = [unit |-> "Times", of |-> s]
  BY DEF Chunk, IsRecord
<1>2. s = [phase |-> s.phase, expires |-> s.expires]
  BY DEF Transitions, Statuses
<1>3. QED BY <1>1, <1>2 DEF Decodes, Decoded

\* The first n of a sequence.
LEMMA BeginningOf ==
  ASSUME NEW S, NEW record \in Seq(S), NEW n \in 0..Len(record)
  PROVE  /\ SubSeq(record, 1, n) \in Seq(S) /\ Len(SubSeq(record, 1, n)) = n
         /\ \A k \in 1..n : SubSeq(record, 1, n)[k] = record[k]
<1>1. \A k \in 1..n : record[k] \in S
  OBVIOUS
<1>2. /\ SubSeq(record, 1, n) \in Seq(S)
      /\ Len(SubSeq(record, 1, n)) = IF 1 <= n THEN n - 1 + 1 ELSE 0
      /\ \A k \in 1..n - 1 + 1 : SubSeq(record, 1, n)[k] = record[1 + k - 1]
  BY <1>1, SubSeqProperties
<1>3. Len(SubSeq(record, 1, n)) = n /\ \A k \in 1..n : SubSeq(record, 1, n)[k] = record[k]
  BY <1>2
<1>4. QED BY <1>2, <1>3

\* What an append puts down of a record, and where.
LEMMA UnitsAreAppended ==
  ASSUME states \in Seq(Units), NEW s \in Transitions, NEW n \in 0..3,
         states' = states \o SubSeq(UnitsOf(s), 1, n)
  PROVE  /\ states' \in Seq(Units) /\ Len(states') = Len(states) + n
         /\ \A k \in 1..Len(states) : states'[k] = states[k]
         /\ \A k \in 1..n : states'[Len(states) + k] = UnitsOf(s)[k]
<1>1. UnitsOf(s) \in Seq(Units) /\ Len(UnitsOf(s)) = 3
  BY DEF UnitsOf, Units
<1>2. /\ SubSeq(UnitsOf(s), 1, n) \in Seq(Units) /\ Len(SubSeq(UnitsOf(s), 1, n)) = n
      /\ \A k \in 1..n : SubSeq(UnitsOf(s), 1, n)[k] = UnitsOf(s)[k]
  <2>1. n \in 0..Len(UnitsOf(s))
    BY <1>1
  <2>2. QED BY <1>1, <2>1, BeginningOf
<1>3. PICK length \in Nat : length = Len(states)
  OBVIOUS
<1>4. /\ states' \in Seq(Units) /\ Len(states') = length + n
      /\ \A k \in 1..length + n :
            states'[k] =
              IF k <= length THEN states[k] ELSE SubSeq(UnitsOf(s), 1, n)[k - length]
  BY <1>2, <1>3, ConcatProperties
<1>5. \A k \in 1..n : length + k \in 1..length + n /\ ~(length + k <= length)
                      /\ (length + k) - length = k
  BY <1>3
<1>6. QED BY <1>2, <1>3, <1>4, <1>5

\* An append to whole records leaves whole records, and at most a rest.
LEMMA RecordsAreAppended ==
  ASSUME StatusInv, NEW s \in Transitions, NEW n \in 0..3,
         states' = states \o SubSeq(UnitsOf(s), 1, n),
         possible' = possible \cup {s} \/ (n = 3 /\ possible' = {s})
  PROVE  StatusInv'
<1>1. states \in Seq(Units) /\ possible' \subseteq Statuses \cup {Nothing}
  BY DEF StatusInv, Transitions
<1>2. /\ states' \in Seq(Units) /\ Len(states') = Len(states) + n
      /\ \A k \in 1..Len(states) : states'[k] = states[k]
      /\ \A k \in 1..n : states'[Len(states) + k] = UnitsOf(s)[k]
  BY <1>1, UnitsAreAppended
<1>3. UnitsOf(s)[1] = [unit |-> "Magic", of |-> s] /\ UnitsOf(s)[2] = [unit |-> "Fields", of |-> s]
      /\ UnitsOf(s)[3] = [unit |-> "Times", of |-> s]
  BY DEF UnitsOf
<1>4. ASSUME NoneInside' PROVE \E count \in Nat, rest \in 0..2 : RecordsAndRest(count, rest)'
  <2>1. PICK length \in Nat : length = Len(states)
    BY <1>1
  <2>2. \A k \in 1..length + n : states'[k].unit = "Magic" => k % 3 = 1
    BY <1>2, <1>4, <2>1 DEF NoneInside
  <2>3. NoneInside
    BY <1>1, <1>2, <2>1, <2>2 DEF NoneInside
  <2>4. PICK count \in Nat, rest \in 0..2 : RecordsAndRest(count, rest)
    BY <2>3 DEF StatusInv
  <2>5. length = 3 * count + rest
    BY <2>1, <2>4 DEF RecordsAndRest
  <2>6. n = 0 \/ rest = 0
    <3>1. CASE n > 0
      <4>1. states'[length + 1].unit = "Magic" /\ length + 1 \in 1..length + n
        BY <1>2, <1>3, <2>1, <3>1
      <4>2. (length + 1) % 3 = 1
        BY <2>2, <4>1
      <4>3. rest = 0
        BY <2>5, <4>2
      <4>4. QED BY <4>3
    <3>2. QED BY <3>1
  <2>7. ASSUME NEW m \in 1..count, NEW t \in Transitions, IsRecord(m, t) PROVE IsRecord(m, t)'
    <3>1. /\ 3 * (m - 1) + 1 \in 1..length /\ 3 * (m - 1) + 2 \in 1..length
          /\ 3 * (m - 1) + 3 \in 1..length
      BY <2>5
    <3>2. QED BY <1>2, <2>1, <2>7, <3>1 DEF IsRecord
  <2>8. CASE n < 3
    <3>1. Len(states') = 3 * count + (rest + n) /\ rest + n \in 0..2
      BY <1>2, <2>1, <2>5, <2>6, <2>8
    <3>2. possible \subseteq possible'
      BY <2>8
    <3>3. \A m \in 1..count : \E t \in Transitions : IsRecord(m, t)'
      BY <2>4, <2>7 DEF RecordsAndRest
    <3>4. count > 0 => \E t \in possible' \cap Transitions : IsRecord(count, t)'
      <4>1. CASE count > 0
        <5>1. count \in 1..count
          BY <4>1
        <5>2. PICK t \in possible \cap Transitions : IsRecord(count, t)
          BY <2>4, <4>1 DEF RecordsAndRest
        <5>3. IsRecord(count, t)'
          BY <2>7, <5>1, <5>2
        <5>4. QED BY <3>2, <5>2, <5>3
      <4>2. QED BY <4>1
    <3>5. count = 0 => Nothing \in possible'
      BY <2>4, <3>2 DEF RecordsAndRest
    <3>6. RecordsAndRest(count, rest + n)'
      BY <3>1, <3>3, <3>4, <3>5 DEF RecordsAndRest
    <3>7. QED BY <3>1, <3>6
  <2>9. CASE n = 3
    <3>1. rest = 0 /\ length = 3 * count /\ Len(states') = 3 * (count + 1) + 0
      BY <1>2, <2>1, <2>5, <2>6, <2>9
    <3>2. /\ states'[length + 1] = UnitsOf(s)[1] /\ states'[length + 2] = UnitsOf(s)[2]
          /\ states'[length + 3] = UnitsOf(s)[3]
      BY <1>2, <2>1, <2>9
    <3>3. 3 * ((count + 1) - 1) = length
      BY <3>1
    <3>4. IsRecord(count + 1, s)'
      BY <1>3, <3>2, <3>3 DEF IsRecord
    <3>5. \A m \in 1..count + 1 : m \in 1..count \/ m = count + 1
      BY <2>4
    <3>6. \A m \in 1..count + 1 : \E t \in Transitions : IsRecord(m, t)'
      <4>1. \A m \in 1..count : \E t \in Transitions : IsRecord(m, t)'
        BY <2>4, <2>7 DEF RecordsAndRest
      <4>2. QED BY <3>4, <3>5, <4>1
    <3>7. s \in possible' \cap Transitions
      OBVIOUS
    <3>8. count + 1 \in Nat /\ count + 1 > 0 /\ ~(count + 1 = 0)
      OBVIOUS
    <3>9. RecordsAndRest(count + 1, 0)'
      BY <3>1, <3>4, <3>6, <3>7, <3>8 DEF RecordsAndRest
    <3>10. QED BY <3>8, <3>9
  <2>10. QED BY <2>8, <2>9
<1>5. QED BY <1>1, <1>2, <1>4 DEF StatusInv

\* Every step keeps the journal one of records and at most a rest, until one is begun inside it.
LEMMA StatusInvariance ==
  /\ ProfileInit => StatusInv
  /\ StatusInv /\ [ProfileNext]_profileVars => StatusInv'
<1>1. ProfileInit => StatusInv
  <2> SUFFICES ASSUME ProfileInit PROVE StatusInv
    OBVIOUS
  <2>1. Len(states) = 3 * 0 + 0 /\ states \in Seq(Units) /\ possible = {Nothing}
    BY DEF ProfileInit
  <2>2. RecordsAndRest(0, 0)
    BY <2>1 DEF RecordsAndRest
  <2>3. QED BY <2>1, <2>2 DEF StatusInv
<1>2. ASSUME StatusInv, [ProfileNext]_profileVars PROVE StatusInv'
  <2>1. ASSUME NEW s \in Transitions, Updates(s) PROVE StatusInv'
    <3>1. SubSeq(UnitsOf(s), 1, 3) = UnitsOf(s)
      <4>1. UnitsOf(s) \in Seq(Units) /\ Len(UnitsOf(s)) = 3
        BY DEF UnitsOf, Units
      <4>2. QED BY <4>1, SubSeqFull
    <3>2. states' = states \o SubSeq(UnitsOf(s), 1, 3) /\ possible' = {s}
      BY <2>1, <3>1 DEF Updates
    <3>3. QED BY <1>2, <3>2, RecordsAreAppended
  <2>2. ASSUME NEW s \in Transitions, UpdateFails(s) PROVE StatusInv'
    <3>1. \E n \in 0..3 : states' = states \o SubSeq(UnitsOf(s), 1, n)
      BY <2>2 DEF UpdateFails
    <3>2. possible' = possible \cup {s}
      BY <2>2 DEF UpdateFails
    <3>3. QED BY <1>2, <3>1, <3>2, RecordsAreAppended
  <2>3. CASE UNCHANGED <<states, possible>>
    BY <1>2, <2>3 DEF StatusInv, NoneInside, RecordsAndRest, IsRecord
  <2>4. QED BY <1>2, <2>1, <2>2, <2>3
        DEF ProfileNext, BindBegins, BindRefuses, BindFinds, BindPrepares, BindRenames, BindFails,
            Dies, Browses, profileVars
<1>3. QED BY <1>1, <1>2

\* The status that is read is that of the last transition that was acknowledged, or of a later one
\* that may have been recorded, also behind a cut append, as long as no other is put behind that
\* (append_session_status, read_identity_session_status).
THEOREM LastStatusIsRead ==
  ProfileSpec => []StatusIsTheLast
<1>1. StatusInv /\ RecordsAreThere => StatusIsTheLast
  <2> SUFFICES ASSUME StatusInv, RecordsAreThere, NoneInside
               PROVE  LatestStatus \in possible \cup (IF Nothing \in possible THEN {Corrupt} ELSE {})
    BY DEF StatusIsTheLast
  <2>1. PICK count \in Nat, rest \in 0..2 : RecordsAndRest(count, rest)
    BY DEF StatusInv
  <2>2. Chunks = count
    BY <2>1 DEF Chunks, RecordsAndRest
  <2>3. CASE count = 0
    BY <2>1, <2>2, <2>3 DEF LatestStatus, RecordsAndRest
  <2>4. CASE count > 0
    <3>1. opened
      <4>1. states # <<>>
        BY <2>1, <2>4 DEF RecordsAndRest
      <4>2. QED BY <4>1 DEF RecordsAreThere
    <3>2. \A n \in 1..Chunks : Decodes(Chunk(n))
      BY <2>1, <2>2, RecordIsDecoded DEF RecordsAndRest
    <3>3. PICK s \in possible \cap Transitions : Decoded(Chunk(count)) = s
      BY <2>1, <2>4, RecordIsDecoded DEF RecordsAndRest
    <3>4. QED BY <2>2, <2>4, <3>1, <3>2, <3>3 DEF LatestStatus
  <2>5. QED BY <2>1, <2>3, <2>4
<1>2. ProfileInit => RecordsAreThere
  BY DEF ProfileInit, RecordsAreThere
<1>3. RecordsAreThere /\ [ProfileNext]_profileVars => RecordsAreThere'
  <2> SUFFICES ASSUME RecordsAreThere, [ProfileNext]_profileVars PROVE RecordsAreThere'
    OBVIOUS
  <2>1. ASSUME NEW s \in Transitions, UpdateFails(s) PROVE RecordsAreThere'
    <3>1. \E n \in 0..3 : /\ states' = states \o SubSeq(UnitsOf(s), 1, n)
                          /\ opened' \in IF n = 0 THEN {opened, TRUE} ELSE {TRUE}
      <4>1. \E n \in IF Tears THEN 0 .. 3 ELSE {0, 3} :
               /\ states' = states \o SubSeq(UnitsOf(s), 1, n)
               /\ opened' \in IF n = 0 THEN {opened, TRUE} ELSE {TRUE}
        BY <2>1, Zenon DEF UpdateFails
      <4>2. \A n \in IF Tears THEN 0 .. 3 ELSE {0, 3} : n \in 0..3
        OBVIOUS
      <4>3. QED BY ONLY <4>1, <4>2, Zenon
    <3>2. PICK n \in 0..3 : /\ states' = states \o SubSeq(UnitsOf(s), 1, n)
                           /\ opened' \in IF n = 0 THEN {opened, TRUE} ELSE {TRUE}
      BY ONLY <3>1, Zenon
    <3>3. CASE opened' = TRUE
      BY <3>3 DEF RecordsAreThere
    <3>4. CASE n = 0 /\ opened' = opened
      <4>1. states' = states \o <<>>
        <5>1. SubSeq(UnitsOf(s), 1, 0) = <<>>
          OBVIOUS
        <5>2. QED BY <3>2, <3>4, <5>1
      <4>2. states' # <<>> => states # <<>>
        BY <4>1
      <4>3. QED BY <3>4, <4>2 DEF RecordsAreThere
    <3>5. QED BY <3>2, <3>3, <3>4
  <2>2. ASSUME NEW s \in Transitions, Updates(s) PROVE RecordsAreThere'
    BY <2>2 DEF Updates, RecordsAreThere
  <2>3. CASE UNCHANGED <<states, opened>>
    BY <2>3 DEF RecordsAreThere
  <2>4. QED BY <2>1, <2>2, <2>3
        DEF ProfileNext, BindBegins, BindRefuses, BindFinds, BindPrepares, BindRenames, BindFails,
            Dies, Browses, profileVars
<1>4. QED BY <1>1, <1>2, <1>3, StatusInvariance, PTL DEF ProfileSpec

-----------------------------------------------------------------------------
\* The variables have their types in every reachable state.
THEOREM ProfileTypes ==
  ASSUME IdentitiesAreTold
  PROVE  ProfileSpec => []ProfileTypeOK
<1>1. ProfileInit => ProfileTypeOK
  <2>1. ProfileInit => states \in Seq(Units) /\ binding.at = "None"
    BY DEF ProfileInit, NoBinding
  <2>2. 0 \in 0 .. MaxInterrupts
    BY DEF IdentitiesAreTold
  <2>3. QED BY <2>1, <2>2 DEF ProfileInit, ProfileTypeOK
<1>2. ASSUME BindInv, BindInv', ProfileTypeOK, [ProfileNext]_profileVars PROVE ProfileTypeOK'
  <2>1. /\ manifests' \in [Manifests -> Identities \cup {Unbound}] /\ bound' \subseteq Identities
        /\ \A m \in Manifests : manifests'[m] \in Identities \cup {Unbound}
    BY <1>2 DEF BindInv
  <2>2. binding'.at \in {"None", "Binding", "Class", "Persona"}
    BY <1>2 DEF BindInv, Follows, Bindings, Manifests, NoBinding
  <2>3. binding # NoBinding => binding.at \in Manifests
    BY <1>2 DEF BindInv, Follows, Bindings
  <2>4. /\ temporary' \subseteq Manifests /\ abandoned' \subseteq Manifests /\ used' \in BOOLEAN
    <3>1. temporary \subseteq Manifests /\ abandoned \subseteq Manifests /\ used \in BOOLEAN
      BY <1>2 DEF ProfileTypeOK
    <3>2. CASE BindRefuses \/ BindFinds \/ Browses
      BY <3>1, <3>2 DEF BindBegins, BindRefuses, BindFinds, Browses
    <3>3. CASE BindPrepares \/ BindRenames \/ BindFails
      BY <2>3, <3>1, <3>3 DEF BindPrepares, BindRenames, BindFails
    <3>4. CASE Dies
      BY <3>1, <3>4 DEF Dies
    <3>5. CASE UNCHANGED <<temporary, abandoned, used>>
      BY <3>1, <3>5
    <3>6. QED BY <1>2, <3>2, <3>3, <3>4, <3>5
                 DEF ProfileNext, BindBegins, Updates, UpdateFails, profileVars
  <2>7. interrupts' \in 0 .. MaxInterrupts
    <3>1. interrupts \in 0 .. MaxInterrupts /\ MaxInterrupts \in Nat
      BY <1>2 DEF ProfileTypeOK, IdentitiesAreTold
    <3>2. \/ interrupts' = interrupts
          \/ interrupts < MaxInterrupts /\ interrupts' = interrupts + 1
      BY <1>2
         DEF ProfileNext, BindBegins, BindRefuses, BindFinds, BindPrepares, BindRenames, BindFails,
                  Dies, Browses, Updates, UpdateFails, profileVars
    <3>3. QED BY <3>1, <3>2
  <2>5. states' \in Seq(Units) /\ possible' \subseteq Statuses \cup {Nothing}
    <3>1. CASE UNCHANGED <<states, possible>>
      BY <1>2, <3>1 DEF ProfileTypeOK
    <3>2. ASSUME NEW s \in Transitions, Updates(s) \/ UpdateFails(s)
          PROVE  states' \in Seq(Units) /\ possible' \subseteq Statuses \cup {Nothing}
      <4>1. UnitsOf(s) \in Seq(Units) /\ Len(UnitsOf(s)) = 3 /\ s \in Statuses
        BY DEF UnitsOf, Units, Transitions
      <4>2. possible' \subseteq Statuses \cup {Nothing}
        BY <1>2, <3>2, <4>1 DEF Updates, UpdateFails, ProfileTypeOK
      <4>3. PICK n \in 0 .. 3 : states' = states \o SubSeq(UnitsOf(s), 1, n)
        <5>1. UnitsOf(s) = SubSeq(UnitsOf(s), 1, 3)
          BY <4>1, SubSeqFull
        <5>2. CASE Updates(s)
          <6>1. states' = states \o UnitsOf(s)
            BY <5>2 DEF Updates
          <6>2. states' = states \o SubSeq(UnitsOf(s), 1, 3)
            BY ONLY <5>1, <6>1, Zenon
          <6>3. 3 \in 0 .. 3
            OBVIOUS
          <6>4. QED BY <6>2, <6>3
        <5>3. CASE UpdateFails(s)
          <6>1. \E n \in {0, 3} \cup 0 .. 3 : states' = states \o SubSeq(UnitsOf(s), 1, n)
            BY <5>3 DEF UpdateFails
          <6>2. QED BY <6>1
        <5>4. QED BY <3>2, <5>2, <5>3
      <4>4. SubSeq(UnitsOf(s), 1, n) \in Seq(Units)
        BY <4>1
      <4>5. QED BY <1>2, <4>2, <4>3, <4>4, ConcatProperties DEF ProfileTypeOK
    <3>3. QED BY <1>2, <3>1, <3>2
          DEF ProfileNext, BindBegins, BindRefuses, BindFinds, BindPrepares, BindRenames, BindFails,
              Dies, Browses, profileVars
  <2>8. opened' \in BOOLEAN
    <3>1. opened \in BOOLEAN
      BY <1>2 DEF ProfileTypeOK
    <3>2. opened' = opened \/ opened' = TRUE
      <4>1. ASSUME NEW s \in Transitions, UpdateFails(s) PROVE opened' = opened \/ opened' = TRUE
        BY <4>1 DEF UpdateFails
      <4>2. QED BY <1>2, <4>1
            DEF ProfileNext, BindBegins, BindRefuses, BindFinds, BindPrepares, BindRenames,
                BindFails, Dies, Browses, Updates, profileVars
    <3>3. QED BY <3>1, <3>2
  <2>6. QED BY <2>1, <2>2, <2>4, <2>5, <2>7, <2>8 DEF ProfileTypeOK
<1>3. ProfileSpec => []BindInv
  BY BindInvariance, PTL DEF ProfileSpec
<1>4. QED BY <1>1, <1>2, <1>3, PTL DEF ProfileSpec

-----------------------------------------------------------------------------
(* Collections of clients *)

CONSTANTS Ids, Tasks, NoTask, MaxActive, MaxFaults, MaxStarts

VARIABLES
    begun, outcome, artifact, blob, receipt, phase, admitting, admission, pc, executed, active,
    cancelled, failures, leaving, faults, starts, stray

K == INSTANCE Collection WITH accepting <- admitting

\* No task's digest is that of none, and the room of the table is a number.
TasksAreTold == NoTask \notin Tasks /\ MaxActive \in Nat

\* A collection whose task has not ended; where its receipt is still to be written, or will not be.
OnItsWay == {"Running"} \cup K!Persisting
Unreceipted == {"Running", "Blob", "Reference", "Receipt", "Failed", "Cancelled", "Interrupted"}

\* What is on disk of a collection at each step of its task.
OnDisk(i) ==
    /\ outcome[i] = "Unused" => pc[i] = "None" /\ receipt[i] = NoTask
    /\ pc[i] \in OnItsWay => outcome[i] = "Open" /\ begun[i] \in Tasks
    /\ pc[i] \in {"Reference", "Receipt"} => i \in blob
    /\ pc[i] = "Receipt" => i \in artifact
    /\ pc[i] \in Unreceipted => receipt[i] = NoTask
    /\ pc[i] = "Disown" => faults > 0
    /\ pc[i] = "Succeeded" /\ i \in executed => receipt[i] # NoTask
    /\ faults = 0 /\ receipt[i] # NoTask /\ outcome[i] = "Open" =>
          pc[i] = "Succeeded" \/ phase = "Recovering"

\* Who answers for a collection that is open.
Answered(i) ==
    /\ pc[i] \in OnItsWay =>
          \/ i \in executed \cup stray \cup active \cup leaving
          \/ admission.at = "Insert" /\ admission.id = i
    /\ pc[i] = "Ended" /\ outcome[i] = "Open" =>
          \/ i \in stray \cup failures
          \/ i \in leaving /\ phase \in {"Interrupting", "Down"}
    /\ pc[i] = "None" /\ outcome[i] = "Open" => i \in stray \/ phase = "Recovering"

\* The admission and the table in each phase of the manager.
Managed ==
    /\ admission # K!Nobody => phase \in {"Serving", "Closing"}
    /\ admission.at = "Lease" => outcome[admission.id] = "Unused"
    /\ phase \in {"Waiting", "Interrupting", "Down"} => active = {}
    /\ phase \in {"Recovering", "Serving", "Closing"} => leaving = {}
    /\ phase = "Interrupting" => leaving \subseteq K!Finished
    /\ phase = "Recovering" => \A i \in Ids : pc[i] = "None"
    /\ admission.at = "Insert" => outcome[admission.id] # "Unused"
    /\ \A i \in active \cup leaving : outcome[i] # "Unused"
    /\ IsFiniteSet(active)
    /\ admission.at = "Insert" \/ (admission.at = "Lease" /\ ~ admission.execute) =>
          Cardinality(active) < MaxActive

CollectionInv ==
    /\ K!TypeOK /\ K!ReceiptsAreBacked /\ Managed
    /\ \A i \in Ids : OnDisk(i) /\ Answered(i)

\* The module counts with the operator of its own.
LEMMA SameCount == \A S : K!Cardinality(S) = Cardinality(S)
BY DEF K!Cardinality, Cardinality

\* Nothing was begun yet.
LEMMA CollectionsStart == ASSUME TasksAreTold PROVE K!Init => CollectionInv
<1> SUFFICES ASSUME K!Init PROVE CollectionInv
  OBVIOUS
<1>1. IsFiniteSet({}) /\ Cardinality({}) = 0
  BY FS_EmptySet
<1>2. K!TypeOK
  <2>1. active = {} /\ K!Cardinality(active) = 0 /\ K!Cardinality(active) <= MaxActive
    BY <1>1, SameCount DEF TasksAreTold, K!Init
  <2>2. /\ begun \in [Ids -> Tasks \cup {NoTask}] /\ receipt \in [Ids -> Tasks \cup {NoTask}]
        /\ outcome \in [Ids -> {"Unused", "Open"} \cup K!Ends]
        /\ pc \in [Ids -> {"None", "Running", "Ended"} \cup K!Persisting]
    BY DEF K!Init
  <2>3. admission \in K!Holders
    BY DEF K!Init, K!Holders
  <2> QED BY <2>1, <2>2, <2>3 DEF K!Init, K!TypeOK
<1>3. K!ReceiptsAreBacked /\ Managed
  BY <1>1 DEF K!Init, K!ReceiptsAreBacked, K!Nobody, Managed
<1>4. \A i \in Ids : OnDisk(i) /\ Answered(i)
  BY DEF K!Init, OnDisk, Answered, OnItsWay, Unreceipted, K!Persisting, K!Ends
<1> QED BY <1>2, <1>3, <1>4 DEF CollectionInv

\* The table after what has ended was taken out.
LEMMA TableShrinks ==
  ASSUME NEW S, IsFiniteSet(S), NEW T \in SUBSET S
  PROVE  IsFiniteSet(T) /\ Cardinality(T) <= Cardinality(S) /\ Cardinality(T) \in Nat
         /\ Cardinality(S) \in Nat
BY FS_Subset, FS_CardinalityType

\* The admission of a collection.
LEMMA AdmissionKeeps ==
  ASSUME TasksAreTold, CollectionInv,
         \/ \E i \in Ids, t \in Tasks, execute \in BOOLEAN : K!Admit(i, t, execute)
         \/ K!Start \/ K!StartFails \/ K!Refuse \/ K!Enter \/ K!DropBegin
  PROVE  CollectionInv'
<1>1. ASSUME NEW i \in Ids, NEW t \in Tasks, NEW execute \in BOOLEAN, K!Admit(i, t, execute)
      PROVE  CollectionInv'
  <2>1. /\ IsFiniteSet(active') /\ Cardinality(active') <= MaxActive /\ active' \subseteq active
        /\ Cardinality(active') \in Nat
    <3>1. active' = active \ K!Finished /\ IsFiniteSet(active) /\ Cardinality(active) <= MaxActive
      BY <1>1, SameCount DEF K!Admit, CollectionInv, Managed, K!TypeOK
    <3> QED BY <3>1, TableShrinks DEF TasksAreTold
  <2>2. K!TypeOK'
    BY <1>1, <2>1, SameCount DEF K!Admit, K!disk, CollectionInv, K!TypeOK, K!Holders
  <2>3. K!ReceiptsAreBacked'
    BY <1>1 DEF K!Admit, K!disk, CollectionInv, K!ReceiptsAreBacked, K!Backed
  <2>4. Managed'
    <3>1. /\ ~ execute => Cardinality(active') < MaxActive
          /\ admission' = [at |-> "Lease", id |-> i, task |-> t, execute |-> execute]
          /\ outcome'[i] = "Unused" /\ phase' = "Serving" /\ UNCHANGED <<pc, leaving>>
      BY <1>1, SameCount DEF K!Admit, K!disk, K!HasRoom
    <3>2. /\ admission'.at = "Lease" /\ admission'.id = i /\ admission'.execute = execute
          /\ leaving' = {} /\ UNCHANGED outcome
      BY <1>1, <3>1 DEF K!Admit, K!disk, CollectionInv, Managed
    <3>3. \A k \in active' \cup leaving' : outcome'[k] # "Unused"
      BY <2>1, <3>2 DEF CollectionInv, Managed
    <3> QED BY <2>1, <3>1, <3>2, <3>3 DEF Managed
  <2>5. ASSUME NEW k \in Ids PROVE (OnDisk(k) /\ Answered(k))'
    <3>1. pc[k] \in OnItsWay => k \notin K!Finished
      BY DEF OnItsWay, K!Persisting, K!Ends, K!Finished
    <3>2. OnDisk(k)'
      BY <1>1 DEF K!Admit, K!disk, CollectionInv, OnDisk
    <3>3. Answered(k)'
      BY <1>1, <3>1 DEF K!Admit, K!disk, CollectionInv, Answered, K!Nobody
    <3> QED BY <3>2, <3>3
  <2> QED BY <2>2, <2>3, <2>4, <2>5 DEF CollectionInv
<1>2. CASE K!Start \/ K!StartFails
  <2>1. /\ admission.at = "Lease" /\ admission.id \in Ids /\ admission.task \in Tasks
        /\ admission.execute \in BOOLEAN
        /\ admission \in [at : {"Lease", "Insert"}, id : Ids, task : Tasks, execute : BOOLEAN]
    BY <1>2 DEF K!Start, K!StartFails, CollectionInv, K!TypeOK, K!Holders, K!Nobody
  <2>2. outcome[admission.id] = "Unused" /\ pc[admission.id] = "None"
        /\ receipt[admission.id] = NoTask
    BY <2>1 DEF CollectionInv, Managed, OnDisk
  <2>3. K!TypeOK'
    BY <1>2, <2>1 DEF K!Start, K!StartFails, CollectionInv, K!TypeOK, K!Holders, K!Nobody
  <2>4. K!ReceiptsAreBacked'
    BY <1>2, <2>1, <2>2
       DEF K!Start, K!StartFails, CollectionInv, K!TypeOK, K!ReceiptsAreBacked, K!Backed
  <2>5. Managed'
    BY <1>2, <2>1, <2>2
       DEF K!Start, K!StartFails, CollectionInv, K!TypeOK, Managed, K!Nobody, K!Finished
  <2>6. ASSUME NEW k \in Ids PROVE (OnDisk(k) /\ Answered(k))'
    <3>1. OnDisk(k)'
      BY <1>2, <2>1, <2>2
         DEF K!Start, K!StartFails, CollectionInv, K!TypeOK, OnDisk, OnItsWay, Unreceipted,
             K!Persisting, K!Ends
    <3>2. Answered(k)'
      BY <1>2, <2>1, <2>2
         DEF K!Start, K!StartFails, CollectionInv, K!TypeOK, Answered, OnItsWay, Managed,
             K!Persisting, K!Ends, K!Nobody
    <3> QED BY <3>1, <3>2
  <2> QED BY <2>3, <2>4, <2>5, <2>6 DEF CollectionInv
<1>3. CASE K!Refuse \/ K!Enter \/ K!DropBegin
  <2>1. /\ admission.at \in {"Lease", "Insert"} /\ admission.id \in Ids /\ admission # K!Nobody
        /\ admission.at = "Insert" => Cardinality(active) < MaxActive
    BY <1>3 DEF K!Refuse, K!Enter, K!DropBegin, CollectionInv, K!TypeOK, K!Holders, K!Nobody,
       Managed
  <2>2. /\ IsFiniteSet(active \cup {admission.id})
        /\ Cardinality(active) < MaxActive => Cardinality(active \cup {admission.id}) <= MaxActive
    <3>1. IsFiniteSet(active) /\ Cardinality(active) \in Nat
      BY FS_CardinalityType DEF CollectionInv, Managed
    <3>2. /\ IsFiniteSet(active \cup {admission.id})
          /\ \/ Cardinality(active \cup {admission.id}) = Cardinality(active)
             \/ Cardinality(active \cup {admission.id}) = Cardinality(active) + 1
      BY <3>1, FS_AddElement, Zenon
    <3> QED BY <3>1, <3>2 DEF TasksAreTold
  <2>3. K!TypeOK'
    BY <1>3, <2>1, <2>2, SameCount
       DEF K!Refuse, K!Enter, K!DropBegin, K!disk, CollectionInv, K!TypeOK, K!Holders
  <2>4. K!ReceiptsAreBacked'
    BY <1>3 DEF K!Refuse, K!Enter, K!DropBegin, K!disk, CollectionInv, K!ReceiptsAreBacked, K!Backed
  <2>5. Managed'
    BY <1>3, <2>1, <2>2
       DEF K!Refuse, K!Enter, K!DropBegin, K!disk, CollectionInv, Managed, K!Nobody, K!Finished
  <2>6. ASSUME NEW k \in Ids PROVE (OnDisk(k) /\ Answered(k))'
    <3>1. OnDisk(k)'
      BY <1>3 DEF K!Refuse, K!Enter, K!DropBegin, K!disk, CollectionInv, OnDisk
    <3>2. Answered(k)'
      BY <1>3, <2>1 DEF K!Refuse, K!Enter, K!DropBegin, K!disk, CollectionInv, Answered, K!Nobody
    <3> QED BY <3>1, <3>2
  <2> QED BY <2>3, <2>4, <2>5, <2>6 DEF CollectionInv
<1> QED BY <1>1, <1>2, <1>3

\* A collection that is given up, or asked to end.
LEMMA CancelKeeps ==
  ASSUME TasksAreTold, CollectionInv, NEW i \in Ids, K!DropExecute(i) \/ K!Cancel(i)
  PROVE  CollectionInv'
<1>1. /\ IsFiniteSet(active') /\ Cardinality(active') <= Cardinality(active)
      /\ active' \subseteq active /\ Cardinality(active') \in Nat /\ Cardinality(active) \in Nat
  BY TableShrinks DEF K!DropExecute, K!manager, K!Cancel, CollectionInv, Managed
<1>2. K!TypeOK'
  BY <1>1, SameCount DEF TasksAreTold, K!DropExecute, K!manager, K!Cancel, K!disk, CollectionInv, K!TypeOK
<1>3. K!ReceiptsAreBacked'
  BY DEF K!DropExecute, K!manager, K!Cancel, K!disk, CollectionInv, K!ReceiptsAreBacked, K!Backed
<1>4. Managed'
  <2>1. CASE K!DropExecute(i)
    BY <1>1, <2>1 DEF K!DropExecute, K!manager, K!disk, CollectionInv, K!TypeOK, Managed,
       K!Nobody, K!Finished
  <2>2. CASE K!Cancel(i)
    BY <1>1, <2>2 DEF TasksAreTold, K!Cancel, K!disk, CollectionInv, Managed, K!Finished
  <2> QED BY <2>1, <2>2
<1>5. ASSUME NEW k \in Ids PROVE (OnDisk(k) /\ Answered(k))'
  <2>1. pc[k] \in OnItsWay => k \notin K!Finished
    BY DEF OnItsWay, K!Persisting, K!Ends, K!Finished
  <2>2. OnDisk(k)'
    BY DEF K!DropExecute, K!manager, K!Cancel, K!disk, CollectionInv, K!TypeOK, OnDisk, OnItsWay,
       Unreceipted, K!Persisting, K!Ends
  <2>3. Answered(k)'
    BY <2>1 DEF K!DropExecute, K!manager, K!Cancel, K!disk, CollectionInv, K!TypeOK, Answered,
       OnItsWay, K!Persisting, K!Ends
  <2> QED BY <2>2, <2>3
<1> QED BY <1>2, <1>3, <1>4, <1>5 DEF CollectionInv

\* The task of a collection, and what it writes.
LEMMA PersistKeeps ==
  ASSUME TasksAreTold, CollectionInv, NEW i \in Ids,
         \/ \E result \in {"Captured", "NoCapture", "Cancelled", "Failed"} : K!TaskEnds(i, result)
         \/ K!Persist(i)
  PROVE  CollectionInv'
<1>1. /\ phase # "Down" /\ pc[i] \in OnItsWay /\ outcome[i] = "Open" /\ begun[i] \in Tasks
      /\ \A k \in Ids : k # i => pc'[k] = pc[k] /\ outcome'[k] = outcome[k]
      /\ \A k \in Ids : begun'[k] = begun[k] /\ (k # i => receipt'[k] = receipt[k])
      /\ pc'[i] \in {"Ended"} \cup K!Persisting
      /\ outcome'[i] \in {"Open"} \cup K!Ends
      /\ receipt' \in [Ids -> Tasks \cup {NoTask}]
      /\ UNCHANGED <<begun, phase, admission, executed, active, cancelled, leaving, starts, stray>>
      /\ admitting' \in BOOLEAN /\ failures' \in SUBSET Ids /\ failures \subseteq failures'
      /\ faults' \in Nat /\ faults' >= faults
      /\ outcome' \in [Ids -> {"Unused", "Open"} \cup K!Ends]
      /\ pc' \in [Ids -> {"None", "Running", "Ended"} \cup K!Persisting]
      /\ artifact' \in SUBSET Ids /\ blob' \in SUBSET Ids
      /\ \A k \in Ids : k # i => (k \in artifact' <=> k \in artifact) /\ (k \in blob' <=> k \in blob)
  <2>1. pc[i] \in OnItsWay
    BY DEF K!TaskEnds, K!Persist, K!WriteBlob, K!WriteReference, K!WriteReceipt, K!Finish, K!Disown,
       OnItsWay, K!Persisting, K!Ends
  <2>2. outcome[i] = "Open" /\ begun[i] \in Tasks
    BY <2>1 DEF CollectionInv, OnDisk
  <2>3. CASE \E result \in {"Captured", "NoCapture", "Cancelled", "Failed"} : K!TaskEnds(i, result)
    BY <2>1, <2>2, <2>3 DEF K!TaskEnds, K!Up, K!disk, K!manager, CollectionInv, K!TypeOK,
       K!Persisting, K!Ends
  <2>4. CASE K!Up /\ (K!WriteBlob(i) \/ K!WriteReference(i) \/ K!WriteReceipt(i))
    BY <2>1, <2>2, <2>4 DEF K!WriteBlob, K!WriteReference, K!WriteReceipt, K!Writes, K!After, K!Up,
       K!manager, CollectionInv, K!TypeOK, K!Persisting, K!Ends
  <2>5. CASE K!Up /\ (K!Finish(i) \/ K!Disown(i))
    <3>1. /\ phase # "Down" /\ pc' = [pc EXCEPT ![i] = "Ended"]
          /\ UNCHANGED <<begun, artifact, blob, receipt, starts, stray>>
      BY <2>5 DEF K!Finish, K!Disown, K!Up
    <3>2. outcome' = outcome \/ \E end \in K!Ends : outcome' = [outcome EXCEPT ![i] = end]
      BY <2>5 DEF K!Finish, K!Disown, K!Ends
    <3>3. /\ UNCHANGED <<phase, admission, executed, active, cancelled, leaving>>
          /\ admitting' \in BOOLEAN /\ failures' \in SUBSET Ids /\ failures \subseteq failures'
      BY <2>5 DEF K!Finish, K!Disown, K!Poison, K!manager, CollectionInv, K!TypeOK
    <3>4. faults' \in Nat /\ faults' >= faults
      BY <2>5 DEF K!Finish, K!Disown, CollectionInv, K!TypeOK
    <3>5. /\ outcome' \in [Ids -> {"Unused", "Open"} \cup K!Ends]
          /\ outcome'[i] \in {"Open"} \cup K!Ends
          /\ \A k \in Ids : k # i => outcome'[k] = outcome[k]
      BY <2>2, <3>2 DEF CollectionInv, K!TypeOK
    <3> QED BY <2>1, <2>2, <3>1, <3>3, <3>4, <3>5 DEF CollectionInv, K!TypeOK
  <2> QED BY <2>3, <2>4, <2>5 DEF K!Persist
<1>2. K!TypeOK'
  BY <1>1, SameCount DEF CollectionInv, K!TypeOK, K!Holders
<1>3. Managed'
  <2>1. i \notin K!Finished /\ pc[i] # "None"
    BY <1>1 DEF OnItsWay, K!Persisting, K!Ends, K!Finished
  <2>2. phase = "Interrupting" => leaving \subseteq K!Finished'
    BY <1>1, <2>1 DEF CollectionInv, Managed, K!Finished
  <2>3. \A k \in Ids : outcome[k] # "Unused" => outcome'[k] # "Unused"
    BY <1>1 DEF K!Ends
  <2>4. admission.at = "Lease" => admission.id # i
    BY <1>1 DEF CollectionInv, Managed
  <2>5. admission # K!Nobody => admission.id \in Ids
    BY DEF CollectionInv, K!TypeOK, K!Holders
  <2>6. admission.at \in {"Lease", "Insert"} => admission # K!Nobody
    BY DEF K!Nobody
  <2>7. /\ admission.at = "Lease" => outcome'[admission.id] = "Unused"
        /\ admission.at = "Insert" => outcome'[admission.id] # "Unused"
    BY <1>1, <2>3, <2>4, <2>5, <2>6 DEF CollectionInv, Managed
  <2>8. phase # "Recovering"
    BY <2>1 DEF CollectionInv, Managed
  <2>9. \A k \in active \cup leaving : outcome'[k] # "Unused"
    BY <2>3 DEF CollectionInv, Managed, K!TypeOK
  <2> QED BY <1>1, <2>2, <2>7, <2>8, <2>9 DEF CollectionInv, Managed
<1>4. K!ReceiptsAreBacked' /\ \A k \in Ids : OnDisk(k)'
  <2>0. OnDisk(i) /\ K!ReceiptsAreBacked
    BY DEF CollectionInv
  <2>1. ASSUME NEW k \in Ids, k # i
        PROVE  /\ OnDisk(k)'
               /\ receipt'[k] # NoTask => K!Backed(k)'
               /\ k \in artifact' => k \in blob'
               /\ (k \in executed /\ outcome'[k] = "Succeeded") => receipt'[k] # NoTask
               /\ (faults' = 0 /\ receipt'[k] # NoTask) => outcome'[k] \in {"Open", "Succeeded"}
    <3>1. OnDisk(k) /\ faults \in Nat
      BY DEF CollectionInv, K!TypeOK
    <3>2. faults' = 0 => faults = 0
      BY <1>1, <3>1
    <3>3. OnDisk(k)'
      BY <1>1, <2>1, <3>1, <3>2 DEF OnDisk
    <3> QED BY <1>1, <2>0, <2>1, <3>2, <3>3 DEF K!ReceiptsAreBacked, K!Backed
  <2>2. /\ OnDisk(i)'
        /\ receipt'[i] # NoTask => K!Backed(i)'
        /\ i \in artifact' => i \in blob'
        /\ (i \in executed /\ outcome'[i] = "Succeeded") => receipt'[i] # NoTask
        /\ (faults' = 0 /\ receipt'[i] # NoTask) => outcome'[i] \in {"Open", "Succeeded"}
    <3>1. faults \in Nat /\ pc \in [Ids -> {"None", "Running", "Ended"} \cup K!Persisting]
          /\ outcome \in [Ids -> {"Unused", "Open"} \cup K!Ends]
          /\ receipt \in [Ids -> Tasks \cup {NoTask}] /\ NoTask \notin Tasks
      BY DEF CollectionInv, K!TypeOK, TasksAreTold
    <3>2. CASE \E result \in {"Captured", "NoCapture", "Cancelled", "Failed"} : K!TaskEnds(i, result)
      BY <1>1, <2>0, <3>1, <3>2 DEF K!TaskEnds, K!disk, K!manager, K!ReceiptsAreBacked, K!Backed,
         OnDisk, OnItsWay, Unreceipted, K!Persisting, K!Ends
    <3>3. CASE K!WriteBlob(i)
      BY <1>1, <2>0, <3>1, <3>3 DEF K!WriteBlob, K!Writes, K!After, K!manager, K!ReceiptsAreBacked,
         K!Backed, OnDisk, OnItsWay, Unreceipted, K!Persisting, K!Ends
    <3>4. CASE K!WriteReference(i)
      BY <1>1, <2>0, <3>1, <3>4 DEF K!WriteReference, K!Writes, K!After, K!manager,
         K!ReceiptsAreBacked, K!Backed, OnDisk, OnItsWay, Unreceipted, K!Persisting, K!Ends
    <3>5. CASE K!WriteReceipt(i)
      BY <1>1, <2>0, <3>1, <3>5 DEF K!WriteReceipt, K!Writes, K!After, K!manager,
         K!ReceiptsAreBacked, K!Backed, OnDisk, OnItsWay, Unreceipted, K!Persisting, K!Ends
    <3>6. CASE K!Finish(i)
      BY <1>1, <2>0, <3>1, <3>6 DEF K!Finish, K!ReceiptsAreBacked, K!Backed, OnDisk, OnItsWay,
         Unreceipted, K!Persisting, K!Ends
    <3>7. CASE K!Disown(i)
      BY <1>1, <2>0, <3>1, <3>7 DEF K!Disown, K!ReceiptsAreBacked, K!Backed, OnDisk, OnItsWay,
         Unreceipted, K!Persisting, K!Ends
    <3> QED BY <3>2, <3>3, <3>4, <3>5, <3>6, <3>7 DEF K!Persist
  <2> QED BY <1>1, <2>1, <2>2 DEF K!ReceiptsAreBacked
<1>5. ASSUME NEW k \in Ids PROVE Answered(k)'
  <2>1. CASE k # i
    BY <1>1, <2>1 DEF CollectionInv, Answered
  <2>2. CASE k = i
    <3>1. pc'[i] = "Ended" /\ outcome'[i] = "Open" => i \in failures'
      BY <1>1 DEF K!TaskEnds, K!Persist, K!WriteBlob, K!WriteReference, K!WriteReceipt, K!Writes,
         K!After, K!Finish, K!Disown, K!Poison, CollectionInv, K!TypeOK, K!Persisting, K!Ends
    <3>2. pc'[i] # "None"
      BY <1>1 DEF K!Persisting, K!Ends
    <3> QED BY <1>1, <2>2, <3>1, <3>2 DEF CollectionInv, Answered
  <2> QED BY <2>1, <2>2
<1> QED BY <1>2, <1>3, <1>4, <1>5 DEF CollectionInv

\* The shutdown of the manager.
LEMMA ShutdownKeeps ==
  ASSUME TasksAreTold, CollectionInv,
         \/ K!Close \/ K!Drain \/ K!Drained \/ K!Abort \/ K!Interrupted
         \/ \E i \in Ids : K!Interrupt(i) \/ K!InterruptFails(i)
  PROVE  CollectionInv'
<1>0. IsFiniteSet({}) /\ Cardinality({}) = 0
  BY FS_EmptySet
<1>1. CASE K!Close \/ K!Drain \/ K!Drained \/ K!Interrupted
  <2>1. /\ UNCHANGED <<begun, outcome, artifact, blob, receipt, pc, faults, starts, stray>>
        /\ UNCHANGED <<admission, executed, failures>>
        /\ phase' # "Recovering" /\ phase # "Recovering"
        /\ active' \in {active, {}}
    BY <1>1 DEF K!Close, K!Drain, K!Drained, K!Interrupted, K!disk
  <2>2. K!TypeOK'
    <3>1. active' \subseteq Ids /\ K!Cardinality(active') <= MaxActive
      BY <1>0, <2>1, SameCount DEF CollectionInv, K!TypeOK, TasksAreTold
    <3>2. /\ phase' \in {"Down", "Recovering", "Serving", "Closing", "Waiting", "Interrupting"}
          /\ admitting' \in BOOLEAN /\ cancelled' \subseteq Ids /\ leaving' \subseteq Ids
      BY <1>1 DEF K!Close, K!Drain, K!Drained, K!Interrupted, CollectionInv, K!TypeOK
    <3> QED BY <2>1, <3>1, <3>2 DEF CollectionInv, K!TypeOK, K!Holders
  <2>3. K!ReceiptsAreBacked' /\ \A k \in Ids : OnDisk(k)'
    BY <2>1 DEF CollectionInv, K!ReceiptsAreBacked, K!Backed, OnDisk
  <2>4. Managed'
    BY <1>0, <1>1, <2>1 DEF K!Close, K!Drain, K!Drained, K!Interrupted, K!AdmissionHeld,
       CollectionInv, Managed, K!Nobody, K!Finished
  <2>5. ASSUME NEW k \in Ids PROVE Answered(k)'
    <3>1. pc[k] \in OnItsWay => k \notin K!Finished
      BY DEF OnItsWay, K!Persisting, K!Ends, K!Finished
    <3>2. phase' # "Down" => leaving \cup active \subseteq leaving' \cup active'
      BY <1>1 DEF K!Close, K!Drain, K!Drained, K!Interrupted, CollectionInv, Managed
    <3>3. phase' = "Down" => active = {} /\ leaving \subseteq K!Finished
                             /\ (leaving = {} \/ phase = "Waiting")
      BY <1>1 DEF K!Close, K!Drain, K!Drained, K!Interrupted, CollectionInv, Managed
    <3>4. phase \in {"Interrupting", "Down"} => phase' = "Down" /\ leaving = {}
      BY <1>1 DEF K!Close, K!Drain, K!Drained, K!Interrupted
    <3> QED BY <2>1, <3>1, <3>2, <3>3, <3>4 DEF CollectionInv, Answered
  <2> QED BY <2>2, <2>3, <2>4, <2>5 DEF CollectionInv
<1>2. CASE K!Abort
  <2>1. \A k \in leaving : outcome[k] # "Unused" /\ pc[k] \in {"None", "Running", "Ended"}
    BY <1>2 DEF K!Abort, CollectionInv, Managed, K!TypeOK
  <2>2. /\ UNCHANGED <<begun, outcome, artifact, blob, receipt, faults, starts, stray>>
        /\ UNCHANGED <<admitting, admission, executed, active, cancelled, failures, leaving>>
        /\ phase = "Waiting" /\ phase' = "Interrupting"
        /\ \A k \in Ids : pc'[k] = IF k \in leaving THEN "Ended" ELSE pc[k]
        /\ pc' \in [Ids -> {"None", "Running", "Ended"} \cup K!Persisting]
    BY <1>2 DEF K!Abort, K!disk, CollectionInv, K!TypeOK
  <2>3. K!TypeOK'
    BY <2>2, SameCount DEF CollectionInv, K!TypeOK, K!Holders
  <2>4. K!ReceiptsAreBacked'
    BY <2>2 DEF CollectionInv, K!ReceiptsAreBacked, K!Backed
  <2>5. Managed'
    <3>1. leaving' \subseteq K!Finished'
      BY <2>2 DEF K!Finished, CollectionInv, K!TypeOK
    <3> QED BY <2>2, <3>1 DEF CollectionInv, Managed, K!Nobody
  <2>6. ASSUME NEW k \in Ids PROVE (OnDisk(k) /\ Answered(k))'
    BY <2>1, <2>2 DEF CollectionInv, OnDisk, Answered, OnItsWay, Unreceipted, K!Persisting, K!Ends
  <2> QED BY <2>3, <2>4, <2>5, <2>6 DEF CollectionInv
<1>3. ASSUME NEW i \in Ids, K!Interrupt(i) \/ K!InterruptFails(i) PROVE CollectionInv'
  <2>1. /\ phase = "Interrupting" /\ i \in leaving /\ i \in K!Finished /\ active = {}
        /\ pc[i] \in {"None", "Ended"}
    BY <1>3 DEF K!Interrupt, K!InterruptFails, CollectionInv, Managed, K!Finished
  <2>2. /\ UNCHANGED <<begun, artifact, blob, receipt, pc, starts, stray>>
        /\ UNCHANGED <<admitting, admission, executed, active, cancelled>>
        /\ phase' \in {"Interrupting", "Down"} /\ leaving' \subseteq leaving
        /\ phase' = "Interrupting" => leaving' = leaving \ {i} /\ faults' = faults
                                      /\ outcome'[i] # "Open"
        /\ phase' = "Down" => leaving' = leaving /\ failures' = failures
        /\ failures' \subseteq failures /\ failures \ {i} \subseteq failures'
    BY <1>3 DEF K!Interrupt, K!InterruptFails, K!MayInterrupt, CollectionInv, K!TypeOK
  <2>3. /\ faults' \in Nat /\ (faults' = faults \/ faults' > 0)
        /\ faults' = 0 => faults = 0
    BY <1>3 DEF K!Interrupt, K!InterruptFails, CollectionInv, K!TypeOK
  <2>4. /\ outcome' = outcome
           \/ (outcome[i] = "Open" /\ outcome' = [outcome EXCEPT ![i] = "Interrupted"])
    BY <1>3 DEF K!Interrupt, K!InterruptFails, K!MayInterrupt
  <2>5. /\ outcome' \in [Ids -> {"Unused", "Open"} \cup K!Ends]
        /\ \A k \in Ids : k # i => outcome'[k] = outcome[k]
        /\ outcome'[i] = outcome[i] \/ (outcome[i] = "Open" /\ outcome'[i] = "Interrupted")
    BY <2>4 DEF CollectionInv, K!TypeOK, K!Ends
  <2>6. K!TypeOK'
    BY <2>2, <2>3, <2>5, SameCount DEF CollectionInv, K!TypeOK, K!Holders
  <2>7. faults = 0 /\ receipt[i] # NoTask => outcome[i] # "Open"
    BY <2>1 DEF CollectionInv, OnDisk
  <2>8. K!ReceiptsAreBacked'
    BY <2>2, <2>3, <2>5, <2>7 DEF CollectionInv, K!ReceiptsAreBacked, K!Backed
  <2>9. Managed'
    <3>1. admission = K!Nobody
      BY <2>1 DEF CollectionInv, Managed
    <3>2. \A k \in leaving' : outcome'[k] # "Unused"
      BY <2>2, <2>5 DEF CollectionInv, Managed, K!TypeOK
    <3>3. leaving' \subseteq K!Finished'
      BY <2>1, <2>2 DEF CollectionInv, Managed, K!Finished
    <3> QED BY <2>1, <2>2, <3>1, <3>2, <3>3 DEF CollectionInv, Managed, K!Nobody
  <2>10. ASSUME NEW k \in Ids PROVE (OnDisk(k) /\ Answered(k))'
    <3>1. OnDisk(k)'
      BY <2>1, <2>2, <2>3, <2>5 DEF CollectionInv, OnDisk, OnItsWay, K!Persisting, K!Ends
    <3>2. Answered(k)'
      BY <2>1, <2>2, <2>5 DEF CollectionInv, Answered, OnItsWay, K!Persisting, K!Ends
    <3> QED BY <3>1, <3>2
  <2> QED BY <2>6, <2>8, <2>9, <2>10 DEF CollectionInv
<1> QED BY <1>1, <1>2, <1>3

\* A start of the daemon, and what it makes of the collections the last one left open.
LEMMA StartKeeps ==
  ASSUME TasksAreTold, CollectionInv,
         \/ K!Restart \/ K!Serve
         \/ \E i \in Ids : K!Recover(i) \/ K!Abandon(i)
  PROVE  CollectionInv'
<1>0. IsFiniteSet({}) /\ Cardinality({}) = 0
  BY FS_EmptySet
<1>1. CASE K!Restart
  <2>1. K!TypeOK'
    <3>1. active' = {} /\ K!Cardinality(active') <= MaxActive
      BY <1>0, <1>1, SameCount DEF K!Restart, TasksAreTold
    <3>2. pc' \in [Ids -> {"None", "Running", "Ended"} \cup K!Persisting] /\ starts' \in Nat
      BY <1>1 DEF K!Restart, CollectionInv, K!TypeOK
    <3>3. admission' \in K!Holders
      BY <1>1 DEF K!Restart, K!Holders
    <3> QED BY <1>1, <3>1, <3>2, <3>3 DEF K!Restart, K!disk, CollectionInv, K!TypeOK
  <2>2. K!ReceiptsAreBacked'
    BY <1>1 DEF K!Restart, K!disk, CollectionInv, K!ReceiptsAreBacked, K!Backed
  <2>3. Managed'
    BY <1>0, <1>1 DEF K!Restart, Managed, K!Nobody
  <2>4. ASSUME NEW k \in Ids PROVE (OnDisk(k) /\ Answered(k))'
    BY <1>1 DEF K!Restart, K!disk, CollectionInv, OnDisk, Answered, OnItsWay, Unreceipted,
       K!Persisting, K!Ends
  <2> QED BY <2>1, <2>2, <2>3, <2>4 DEF CollectionInv
<1>2. CASE K!Serve
  <2>1. K!TypeOK'
    BY <1>2, SameCount DEF K!Serve, K!disk, CollectionInv, K!TypeOK, K!Holders
  <2>2. K!ReceiptsAreBacked'
    BY <1>2 DEF K!Serve, K!disk, CollectionInv, K!ReceiptsAreBacked, K!Backed
  <2>3. Managed'
    BY <1>2 DEF K!Serve, K!disk, CollectionInv, Managed, K!Nobody
  <2>4. ASSUME NEW k \in Ids PROVE (OnDisk(k) /\ Answered(k))'
    <3>1. outcome[k] # "Open" /\ pc[k] = "None" /\ UNCHANGED <<outcome, pc>>
      BY <1>2 DEF K!Serve, K!disk, K!Open, CollectionInv, Managed
    <3> QED BY <1>2, <3>1 DEF K!Serve, K!disk, CollectionInv, OnDisk, Answered, OnItsWay,
          Unreceipted, K!Persisting, K!Ends
  <2> QED BY <2>1, <2>2, <2>3, <2>4 DEF CollectionInv
<1>3. ASSUME NEW i \in Ids, K!Recover(i) \/ K!Abandon(i) PROVE CollectionInv'
  <2>1. /\ phase = "Recovering" /\ outcome[i] = "Open" /\ pc[i] = "None" /\ executed = executed'
        /\ UNCHANGED <<begun, artifact, blob, receipt, pc, faults, starts, stray>>
        /\ UNCHANGED <<phase, admitting, admission, executed, active, cancelled, failures, leaving>>
    BY <1>3 DEF K!Recover, K!Abandon, K!Abandoned, K!Unclaimed, K!Open, K!manager, CollectionInv,
       Managed
  <2>2. \/ receipt[i] # NoTask /\ outcome' = [outcome EXCEPT ![i] = "Succeeded"]
        \/ receipt[i] = NoTask /\ outcome' = [outcome EXCEPT ![i] = "Interrupted"]
    BY <1>3 DEF K!Recover, K!Abandon, K!Abandoned, K!Unclaimed, K!Open
  <2>3. /\ outcome' \in [Ids -> {"Unused", "Open"} \cup K!Ends]
        /\ \A k \in Ids : k # i => outcome'[k] = outcome[k]
        /\ receipt[i] # NoTask => outcome'[i] = "Succeeded"
        /\ receipt[i] = NoTask => outcome'[i] = "Interrupted"
    BY <2>2 DEF CollectionInv, K!TypeOK, K!Ends
  <2>4. K!TypeOK'
    BY <2>1, <2>3, SameCount DEF CollectionInv, K!TypeOK, K!Holders
  <2>5. K!ReceiptsAreBacked'
    BY <2>1, <2>3 DEF CollectionInv, K!ReceiptsAreBacked, K!Backed
  <2>6. Managed'
    <3>1. admission = K!Nobody
      BY <2>1 DEF CollectionInv, Managed
    <3>2. \A k \in active' \cup leaving' : outcome'[k] # "Unused"
      BY <2>1, <2>3 DEF CollectionInv, Managed, K!TypeOK
    <3> QED BY <2>1, <3>1, <3>2 DEF CollectionInv, Managed, K!Nobody
  <2>7. ASSUME NEW k \in Ids PROVE (OnDisk(k) /\ Answered(k))'
    BY <2>1, <2>3 DEF CollectionInv, OnDisk, Answered, OnItsWay, Unreceipted, K!Persisting, K!Ends
  <2> QED BY <2>4, <2>5, <2>6, <2>7 DEF CollectionInv
<1> QED BY <1>1, <1>2, <1>3

\* Every step keeps the invariant.
LEMMA CollectionSteps ==
  ASSUME TasksAreTold, CollectionInv, [K!Next]_(K!vars) PROVE CollectionInv'
<1>1. CASE UNCHANGED K!vars
  BY <1>1, SameCount DEF K!vars, K!disk, K!manager, CollectionInv, K!TypeOK, K!Holders, K!ReceiptsAreBacked,
     K!Backed, Managed, OnDisk, Answered, K!Finished
<1>2. CASE K!Next
  <2>1. CASE \/ \E i \in Ids, t \in Tasks, execute \in BOOLEAN : K!Admit(i, t, execute)
             \/ K!Start \/ K!StartFails \/ K!Refuse \/ K!Enter \/ K!DropBegin
    BY <2>1, AdmissionKeeps
  <2>2. CASE \E i \in Ids : K!DropExecute(i) \/ K!Cancel(i)
    BY <2>2, CancelKeeps
  <2>3. CASE \/ \E i \in Ids, result \in {"Captured", "NoCapture", "Cancelled", "Failed"} :
                    K!TaskEnds(i, result)
             \/ \E i \in Ids : K!Persist(i)
    BY <2>3, PersistKeeps
  <2>4. CASE \/ K!Close \/ K!Drain \/ K!Drained \/ K!Abort \/ K!Interrupted
             \/ \E i \in Ids : K!Interrupt(i) \/ K!InterruptFails(i)
    BY <2>4, ShutdownKeeps
  <2>5. CASE K!Restart \/ K!Serve \/ \E i \in Ids : K!Recover(i) \/ K!Abandon(i)
    BY <2>5, StartKeeps
  <2> QED BY <1>2, <2>1, <2>2, <2>3, <2>4, <2>5 DEF K!Next
<1> QED BY <1>1, <1>2

\* What a shutdown leaves open, somebody answers for.
LEMMA DownIsSettled == ASSUME CollectionInv PROVE K!ShutdownSettles
<1> SUFFICES ASSUME phase = "Down", NEW i \in Ids, outcome[i] = "Open"
             PROVE  i \in executed \cup stray \cup failures \cup leaving
  BY DEF K!ShutdownSettles, K!Open
<1>1. pc[i] \in {"None", "Ended"} \cup OnItsWay
  BY DEF CollectionInv, K!TypeOK, OnItsWay, K!Persisting
<1>2. active = {} /\ admission = K!Nobody
  BY DEF CollectionInv, Managed
<1> QED BY <1>1, <1>2 DEF CollectionInv, Answered, K!Nobody

\* No step rewrites how a collection ended.
LEMMA EndsStay ==
  ASSUME CollectionInv, [K!Next]_(K!vars), NEW k \in Ids, outcome[k] \in K!Ends
  PROVE  outcome'[k] = outcome[k]
<1>0. /\ outcome[k] # "Open" /\ outcome[k] # "Unused"
      /\ outcome \in [Ids -> {"Unused", "Open"} \cup K!Ends]
  BY DEF K!Ends, CollectionInv, K!TypeOK
<1>1. CASE UNCHANGED outcome
  BY <1>1
<1>2. CASE K!Start \/ K!StartFails
  <2>1. admission.id # k
    BY <1>0, <1>2 DEF K!Start, K!StartFails, CollectionInv, Managed
  <2> QED BY <1>0, <1>2, <2>1 DEF K!Start, K!StartFails
<1>3. ASSUME NEW i \in Ids, K!Finish(i) \/ K!Disown(i) PROVE outcome'[k] = outcome[k]
  <2>1. i # k
    BY <1>0, <1>3 DEF K!Finish, K!Disown, CollectionInv, OnDisk, OnItsWay, K!Persisting
  <2>2. outcome' = outcome \/ \E end \in K!Ends : outcome' = [outcome EXCEPT ![i] = end]
    BY <1>3 DEF K!Finish, K!Disown, K!Ends
  <2> QED BY <1>0, <2>1, <2>2
<1>4. ASSUME NEW i \in Ids, K!Interrupt(i) \/ K!InterruptFails(i) PROVE outcome'[k] = outcome[k]
  BY <1>0, <1>4 DEF K!Interrupt, K!InterruptFails, K!MayInterrupt
<1>5. ASSUME NEW i \in Ids, K!Recover(i) \/ K!Abandon(i) PROVE outcome'[k] = outcome[k]
  BY <1>0, <1>5 DEF K!Recover, K!Abandon, K!Abandoned, K!Unclaimed, K!Open
<1>6. ASSUME NEW i \in Ids, K!WriteBlob(i) \/ K!WriteReference(i) \/ K!WriteReceipt(i)
      PROVE  UNCHANGED outcome
  BY <1>6 DEF K!WriteBlob, K!WriteReference, K!WriteReceipt
<1>7. ASSUME NEW i \in Ids,
             \/ K!DropExecute(i) \/ K!Cancel(i)
             \/ \E t \in Tasks, execute \in BOOLEAN : K!Admit(i, t, execute)
             \/ \E result \in {"Captured", "NoCapture", "Cancelled", "Failed"} : K!TaskEnds(i, result)
      PROVE  UNCHANGED outcome
  BY <1>7 DEF K!DropExecute, K!Cancel, K!Admit, K!TaskEnds, K!disk
<1>8. CASE \/ K!Refuse \/ K!Enter \/ K!DropBegin \/ K!Close \/ K!Drain \/ K!Drained \/ K!Abort
           \/ K!Interrupted \/ K!Restart \/ K!Serve \/ UNCHANGED K!vars
  BY <1>8 DEF K!Refuse, K!Enter, K!DropBegin, K!Close, K!Drain, K!Drained, K!Abort, K!Interrupted,
     K!Restart, K!Serve, K!vars, K!disk
<1> QED BY <1>1, <1>2, <1>3, <1>4, <1>5, <1>6, <1>7, <1>8 DEF K!Next, K!Persist

\* Whatever the writes of a collection do, and wherever the daemon dies: a receipt on disk stands
\* for an artifact that is there, of the task that was begun, and a shutdown that is through leaves
\* nobody's collection open.
THEOREM ReceiptsOfCollections ==
  ASSUME TasksAreTold PROVE K!Spec => [](K!TypeOK /\ K!ReceiptsAreBacked /\ K!ShutdownSettles)
<1>1. K!Init => CollectionInv
  BY CollectionsStart
<1>2. CollectionInv /\ [K!Next]_(K!vars) => CollectionInv'
  BY CollectionSteps
<1>3. CollectionInv => K!TypeOK /\ K!ReceiptsAreBacked /\ K!ShutdownSettles
  BY DownIsSettled DEF CollectionInv
<1> QED BY <1>1, <1>2, <1>3, PTL DEF K!Spec

\* How a collection ended stays in the ledger: no interruption, recovery or late task rewrites it.
THEOREM CollectionEndsAreFinal == ASSUME TasksAreTold PROVE K!Spec => K!OutcomeIsFinal
<1>1. K!Init => CollectionInv
  BY CollectionsStart
<1>2. CollectionInv /\ [K!Next]_(K!vars) => CollectionInv'
  BY CollectionSteps
<1>3. CollectionInv /\ [K!Next]_(K!vars) =>
          [\A i \in Ids : outcome[i] \in K!Ends => outcome'[i] = outcome[i]]_(K!vars)
  BY EndsStay
<1> QED BY <1>1, <1>2, <1>3, PTL DEF K!Spec, K!OutcomeIsFinal
=============================================================================
