--------------------------- MODULE OwnershipProofs ---------------------------
(***************************************************************************)
(* What a browser runs on is not given away while it runs: the network     *)
(* filters of Containment, for any number of daemons and scopes, the       *)
(* profile of ProfileOwner, for any number of launches, the mirror of      *)
(* RuntimeMirror, for any number of processes, and what MirrorSource put   *)
(* into it, for any number of builders.                                    *)
(*                                                                         *)
(* A lease of a scope is removed by one of three: a later broker, only     *)
(* when nothing runs from the scope; the broker whose grant could not be   *)
(* written, before anything can run; and the broker that was asked to      *)
(* close, after the mirror could be removed.  NobodyRuns says of the last  *)
(* two that nothing runs in between, which needs that a daemon launches    *)
(* browsers only under a lease of its own (Owned) and that no scope has    *)
(* two leases.                                                             *)
(*                                                                         *)
(* That a failed launch leaves nothing running depends on where it failed. *)
(* Phases says what each await of a launch and of a close knows of the     *)
(* browser and of the requests under way, and Owns that the lock belongs   *)
(* to the launch or backend that is active, if there is one.               *)
(*                                                                         *)
(* A published mirror is whole because its manifest is the last file that  *)
(* is put into it, and stays so because at most one process removes it,    *)
(* and not while another one leases it.  It is a snapshot because a        *)
(* builder looks at each directory and file twice: what was the same both  *)
(* times was so in between, and every first look precedes every second.    *)
(***************************************************************************)
EXTENDS Containment, ProfileOwner, MirrorSource, TLAPS

-----------------------------------------------------------------------------
(* Containment *)

\* Daemons of one scope follow each other (ProfilesRootOwnership).
OneAtATime ==
    \A d, e \in Daemons : Alive(d) /\ Alive(e) /\ ScopeOf[d] = ScopeOf[e] => d = e

\* How far a daemon and its broker can be apart.
InStep ==
    \A d \in Daemons :
        /\ client[d] = "New" => broker[d] = "None"
        /\ request[d] => client[d] \in {"Closing", "Dead"}
        /\ reply[d] = "Granted" => broker[d] \in {"Holding", "Ended"}
        /\ client[d] \in {"Serving", "Failing", "Leaving"} => broker[d] \in {"Holding", "Ended"}

\* The filters of a daemon that lives are there, from their installation to its close.
Owned ==
    \A d \in Daemons :
        /\ (broker[d] = "Installed" /\ Alive(d)) => d \in leases
        /\ (client[d] = "Asking" /\ reply[d] = "Granted") => d \in leases
        /\ client[d] \in {"Serving", "Failing", "Leaving"} => d \in leases

\* A lease that its own broker may still remove.
Removing(d) ==
    \/ broker[d] = "Installed"
    \/ client[d] = "Asking" /\ reply[d] = "Granted"
    \/ request[d]

NobodyRuns == \A d \in leases : Removing(d) => Peers(d) \cap browsing = {}

Confined == \A d \in browsing : Peers(d) \cap leases # {}
Exclusive == \A l, m \in leases : ScopeOf[l] = ScopeOf[m] => l = m
Standing == \A d \in Daemons : client[d] = "Serving" => ScopeOf[d] \in trees

ContainmentInv ==
    ContainmentTypeOK /\ OneAtATime /\ InStep /\ Owned /\ NobodyRuns /\ Confined /\ Exclusive
    /\ Standing

-----------------------------------------------------------------------------

\* The variables have their types in every reachable state.
THEOREM ContainmentTypes == ContainmentSpec => []ContainmentTypeOK
<1>1. ContainmentInit => ContainmentTypeOK
  BY DEF ContainmentInit, ContainmentTypeOK
<1>2. ContainmentTypeOK /\ [ContainmentNext]_containmentVars => ContainmentTypeOK'
  <2> SUFFICES ASSUME ContainmentTypeOK, [ContainmentNext]_containmentVars
               PROVE  ContainmentTypeOK'
    OBVIOUS
  <2> USE DEF ContainmentTypeOK, ClientGoes, BrokerGoes, Replies, MayRemove, Removals
  <2>1. ASSUME NEW d \in Daemons, DaemonStep(d) PROVE ContainmentTypeOK'
    BY <2>1 DEF DaemonStep, Accept, Decline, Launch, BrowserEnds, Fail, Finish, Close, Die
  <2>2. ASSUME NEW d \in Daemons, BrokerStep(d) PROVE ContainmentTypeOK'
    <3>1. CASE Start(d) BY <3>1 DEF Start
    <3>2. CASE Refuse(d) BY <3>2 DEF Refuse
    <3>3. CASE Reconcile(d) BY <3>3 DEF Reconcile
    <3>4. CASE Prepare(d) BY <3>4, ContainmentAssumption DEF Prepare
    <3>5. CASE \E s \in Scopes : CleanUp(d, s) BY <3>5 DEF CleanUp
    <3>6. CASE Verify(d) BY <3>6 DEF Verify
    <3>7. CASE Install(d) BY <3>7 DEF Install
    <3>8. CASE Grant(d) BY <3>8 DEF Grant
    <3>9. CASE GrantFails(d) BY <3>9 DEF GrantFails
    <3>10. CASE BrokerCloses(d) BY <3>10 DEF BrokerCloses
    <3>11. CASE Disconnected(d) BY <3>11 DEF Disconnected
    <3>12. CASE BrokerDies(d) BY <3>12 DEF BrokerDies
    <3>13. QED BY <2>2, <3>1, <3>2, <3>3, <3>4, <3>5, <3>6, <3>7, <3>8, <3>9, <3>10, <3>11,
                  <3>12 DEF BrokerStep
  <2>3. CASE UNCHANGED containmentVars
    BY <2>3 DEF containmentVars
  <2>4. QED BY <2>1, <2>2, <2>3 DEF ContainmentNext
<1>3. QED BY <1>1, <1>2, PTL DEF ContainmentSpec

-----------------------------------------------------------------------------

\* Whatever a daemon does, and the end of a browser, keeps the invariant.
LEMMA DaemonKeeps ==
  ASSUME ContainmentInv, NEW d \in Daemons, DaemonStep(d)
  PROVE  ContainmentInv'
<1> USE ContainmentAssumption DEF ContainmentInv, ContainmentTypeOK, OneAtATime, InStep, Owned,
            Removing, NobodyRuns, Confined, Exclusive, Standing, ClientGoes, BrokerGoes,
            Replies, MayRemove, Removals, Stale, NoProcess, Removable, Holding, Alive, Of, Peers
<1>1. CASE Accept(d)
  BY <1>1, SMTT(30) DEF Accept
<1>2. CASE Decline(d)
  BY <1>2, SMTT(30) DEF Decline
<1>3. CASE Launch(d)
  BY <1>3, SMTT(30) DEF Launch
<1>4. CASE BrowserEnds(d)
  BY <1>4, SMTT(30) DEF BrowserEnds
<1>5. CASE Fail(d)
  BY <1>5, SMTT(30) DEF Fail
<1>6. CASE Finish(d)
  BY <1>6, SMTT(30) DEF Finish
<1>7. CASE Close(d)
  BY <1>7, SMTT(30) DEF Close
<1>8. CASE Die(d)
  BY <1>8, SMTT(30) DEF Die
<1>9. QED
  BY ONLY <1>1, <1>2, <1>3, <1>4, <1>5, <1>6, <1>7, <1>8, DaemonStep(d) DEF DaemonStep

\* So does whatever a broker does.
LEMMA BrokerKeeps ==
  ASSUME ContainmentInv, NEW d \in Daemons, BrokerStep(d)
  PROVE  ContainmentInv'
<1> USE ContainmentAssumption DEF ContainmentInv, ContainmentTypeOK, OneAtATime, InStep, Owned,
            Removing, NobodyRuns, Confined, Exclusive, Standing, ClientGoes, BrokerGoes,
            Replies, MayRemove, Removals, Stale, NoProcess, Removable, Holding, Alive, Of, Peers
<1>1. CASE Start(d)
  BY <1>1, SMTT(30) DEF Start
<1>2. CASE Refuse(d)
  BY <1>2, SMTT(30) DEF Refuse
<1>3. CASE Reconcile(d)
  BY <1>3, SMTT(30) DEF Reconcile
<1>4. CASE Prepare(d)
  <2>1. ScopeOf[d] \in Scopes
    OBVIOUS
  <2>2. trees' = trees \cup {ScopeOf[d]} /\ broker' = [broker EXCEPT ![d] = "Prepared"]
    BY <1>4 DEF Prepare
  <2>3. UNCHANGED <<client, request, reply, leases, browsing>>
    BY <1>4 DEF Prepare
  <2>4. ContainmentTypeOK'
    BY <2>1, <2>2, <2>3
  <2>5. (OneAtATime /\ InStep /\ Owned)'
    BY <1>4, <2>2, <2>3 DEF Prepare
  <2>6. (NobodyRuns /\ Confined /\ Exclusive /\ Standing)'
    BY <1>4, <2>2, <2>3 DEF Prepare
  <2>7. QED
    BY <2>4, <2>5, <2>6
<1>5. CASE \E s \in Scopes : CleanUp(d, s)
  BY <1>5, SMTT(30) DEF CleanUp
<1>6. CASE Verify(d)
  BY <1>6, SMTT(30) DEF Verify
<1>7. CASE Install(d)
  BY <1>7, SMTT(30) DEF Install
<1>8. CASE Grant(d)
  BY <1>8, SMTT(30) DEF Grant
<1>9. CASE GrantFails(d)
  BY <1>9, SMTT(30) DEF GrantFails
<1>10. CASE BrokerCloses(d)
  BY <1>10, SMTT(30) DEF BrokerCloses
<1>11. CASE Disconnected(d)
  BY <1>11, SMTT(30) DEF Disconnected
<1>12. CASE BrokerDies(d)
  BY <1>12, SMTT(30) DEF BrokerDies
<1>13. QED
  BY ONLY <1>1, <1>2, <1>3, <1>4, <1>5, <1>6, <1>7, <1>8, <1>9, <1>10, <1>11, <1>12,
          BrokerStep(d) DEF BrokerStep

\* The invariant holds in every reachable state.
THEOREM ContainmentInvariant == ContainmentSpec => []ContainmentInv
<1>1. ContainmentInit => ContainmentInv
  BY DEF ContainmentInit, ContainmentInv, ContainmentTypeOK, OneAtATime, InStep, Owned, Removing,
         NobodyRuns, Confined, Exclusive, Standing, Alive, Peers, Of
<1>2. ContainmentInv /\ [ContainmentNext]_containmentVars => ContainmentInv'
  <2>1. CASE ContainmentInv /\ ContainmentNext
    BY <2>1, DaemonKeeps, BrokerKeeps DEF ContainmentNext
  <2>2. CASE ContainmentInv /\ UNCHANGED containmentVars
    BY <2>2 DEF containmentVars, ContainmentInv, ContainmentTypeOK, OneAtATime, InStep, Owned,
                Removing, NobodyRuns, Confined, Exclusive, Standing, Alive, Peers, Of
  <2>3. QED BY <2>1, <2>2
<1>3. QED BY <1>1, <1>2, PTL DEF ContainmentSpec

\* A browser runs only under filters on its executables, of which there is one lease at a
\* time, and from a mirror that stays, whichever daemon or broker dies when
\* (hold_broker_lease(), reconcile_overlaps(), close()).
THEOREM Confinement == ContainmentSpec => []BrowsersAreConfined
<1>1. ContainmentInv => BrowsersAreConfined
  BY DEF ContainmentInv, Confined, Exclusive, Standing, BrowsersAreConfined
<1>2. QED BY <1>1, ContainmentInvariant, PTL

-----------------------------------------------------------------------------
(* ProfileOwner *)

\* What ProfileOwner's constants stand for.
Setting ==
    /\ Firefox \subseteq Launches /\ External \subseteq Firefox
    /\ Nobody \notin Launches /\ Quarantine \notin Launches /\ Nobody # Quarantine

Active == Starting \cup Attempting \cup Held

\* The lock is the one active launch's; without one it is free or quarantined.
Owns ==
    /\ \A l \in Launches : at[l] \in Active => owner = l
    /\ owner \in Launches => at[owner] \in Active

\* What the place of a launch says of its browser and its driver.
PhaseOf(l) ==
    /\ at[l] \in {"New", "Driver"} => tree[l] = "None" /\ l \notin asked
    /\ at[l] \in {"Attempt", "Contended", "AttemptDrains", "StartDrains", "CloseDrains"} =>
          tree[l] # "Running"
    /\ at[l] \in {"StartDrains", "CloseDrains"} => l \notin External
    /\ l \in asked => at[l] = "Session" \/ l \in External
    /\ at[l] \in Starting => l \in Firefox
    /\ at[l] \in Attempting => l \notin Firefox

Phases == \A l \in Launches : PhaseOf(l)

OwnerInv ==
    OwnerTypeOK /\ Owns /\ Phases /\ RunningIsOwned /\ FirefoxKeepsOwnership
    /\ NothingIsLeftBehind

-----------------------------------------------------------------------------

\* No launch has begun: the profile is free and nothing runs.
LEMMA OwnerStarts == Setting /\ OwnerInit => OwnerInv
  BY DEF Setting, OwnerInit, OwnerInv, OwnerTypeOK, Owns, Active, Starting, Attempting, Held,
         Over, Phases, PhaseOf, RunningIsOwned, FirefoxKeepsOwnership, NothingIsLeftBehind

\* A step of one launch, with what it does to the others left to the invariant.
LEMMA OwnerSteps == Setting /\ OwnerInv /\ OwnerNext => OwnerInv'
<1> SUFFICES ASSUME Setting, OwnerInv, NEW k \in Launches,
                    \/ FirefoxStarts(k) \/ BrowserExits(k) \/ TreeEnds(k)
                    \/ Acquires(k) \/ IsRefused(k)
                    \/ DriverFails(k) \/ Asks(k) \/ SessionOpens(k) \/ StartFails(k)
                    \/ StartDrains(k) \/ SetupEnds(k) \/ HandsOver(k) \/ TakesBack(k)
                    \/ Spawns(k) \/ Answers(k) \/ AnswerFails(k) \/ Retries(k)
                    \/ AttemptFails(k) \/ CallerLeaves(k)
                    \/ Closes(k) \/ CloseWaits(k) \/ CloseDrains(k) \/ IsDropped(k)
             PROVE  OwnerInv'
  BY DEF OwnerNext
<1> USE DEF Setting, OwnerInv, OwnerTypeOK, Owns, Active, Starting, Attempting, Held, Over,
            Phases, PhaseOf, RunningIsOwned, FirefoxKeepsOwnership, NothingIsLeftBehind,
            Goes, Terminates, LetsGo, Confirmed, Chromium
\* The processes
<1>1. CASE FirefoxStarts(k)  BY <1>1 DEF FirefoxStarts
<1>2. CASE BrowserExits(k)  BY <1>2 DEF BrowserExits
<1>3. CASE TreeEnds(k)  BY <1>3 DEF TreeEnds
\* Launch
<1>4. CASE Acquires(k)  BY <1>4 DEF Acquires
<1>5. CASE IsRefused(k)  BY <1>5 DEF IsRefused
<1>6. CASE DriverFails(k)  BY <1>6 DEF DriverFails
<1>7. CASE Asks(k)  BY <1>7 DEF Asks
<1>8. CASE SessionOpens(k)  BY <1>8 DEF SessionOpens
<1>9. CASE StartFails(k)  BY <1>9 DEF StartFails
<1>10. CASE StartDrains(k)  BY <1>10 DEF StartDrains
<1>11. CASE SetupEnds(k)  BY <1>11 DEF SetupEnds
<1>12. CASE HandsOver(k)  BY <1>12 DEF HandsOver
<1>13. CASE TakesBack(k)  BY <1>13 DEF TakesBack
<1>14. CASE Spawns(k)  BY <1>14 DEF Spawns
<1>15. CASE Answers(k)  BY <1>15 DEF Answers
<1>16. CASE AnswerFails(k)  BY <1>16 DEF AnswerFails
<1>17. CASE Retries(k)  BY <1>17 DEF Retries
<1>18. CASE AttemptFails(k)  BY <1>18 DEF AttemptFails
<1>19. CASE CallerLeaves(k)  BY <1>19 DEF CallerLeaves
\* Close and drop
<1>20. CASE Closes(k)  BY <1>20 DEF Closes
<1>21. CASE CloseWaits(k)  BY <1>21 DEF CloseWaits
<1>22. CASE CloseDrains(k)  BY <1>22 DEF CloseDrains
<1>23. CASE IsDropped(k)  BY <1>23 DEF IsDropped
<1> QED
  BY <1>1, <1>2, <1>3, <1>4, <1>5, <1>6, <1>7, <1>8, <1>9, <1>10, <1>11, <1>12, <1>13,
     <1>14, <1>15, <1>16, <1>17, <1>18, <1>19, <1>20, <1>21, <1>22, <1>23

\* The invariant of the profile's owner: what every await of a launch, of a close and of a
\* drop leaves behind, for any launches, drivers and cancellations.
THEOREM OwnerInvariance == ASSUME Setting PROVE OwnerSpec => []OwnerInv
<1>1. OwnerInit => OwnerInv
  BY OwnerStarts
<1>2. OwnerInv /\ [OwnerNext]_ownerVars => OwnerInv'
  <2>1. CASE OwnerNext  BY <2>1, OwnerSteps
  <2>2. CASE UNCHANGED ownerVars
    BY <2>2 DEF ownerVars, OwnerInv, OwnerTypeOK, Owns, Phases, PhaseOf, RunningIsOwned,
                FirefoxKeepsOwnership, NothingIsLeftBehind
  <2> QED  BY <2>1, <2>2
<1> QED  BY <1>1, <1>2, PTL DEF OwnerSpec

\* No browser runs on a profile that somebody else may own, or own later, and Firefox keeps
\* the profile until its processes are gone: however many launches follow each other and
\* wherever each is cancelled (acquire_profile_ownership, PendingProfileOwnership, Drop).
THEOREM ProfileIsKept ==
  ASSUME Setting PROVE OwnerSpec => [](RunningIsOwned /\ FirefoxKeepsOwnership)
<1>1. OwnerInv => RunningIsOwned /\ FirefoxKeepsOwnership
  BY DEF OwnerInv
<1> QED  BY <1>1, OwnerInvariance, PTL

\* A launch that failed and a backend that is gone have given the profile up and left no
\* browser of ours running (deliver_acknowledged_launch, terminate_and_wait, Drop).
THEOREM NothingLeft == ASSUME Setting PROVE OwnerSpec => []NothingIsLeftBehind
<1>1. OwnerInv => NothingIsLeftBehind
  BY DEF OwnerInv
<1> QED  BY <1>1, OwnerInvariance, PTL

-----------------------------------------------------------------------------
(* The runtime mirror *)

CONSTANTS Processes, MaxBuilds, RemovalInterrupted

VARIABLES mirror, staging, proc, builds

Mirror == INSTANCE RuntimeMirror

\* A mirror is removed by one process, which nobody leases it from.
OneRemoves == \A p, q \in Mirror!Deleting : p = q
LeasedIsNotRemoved == Mirror!Leasing # {} => Mirror!Deleting = {} /\ mirror # Absent

\* The manifest of a staging directory is the last of its files.
ManifestIsLast ==
    \A p \in Processes :
        proc[p].at \in {"Build", "Clean"} =>
            /\ staging[p] \in SUBSET Mirror!Files
            /\ proc[p].at = "Build" /\ "manifest" \in staging[p] => staging[p] = Mirror!Files

\* What nobody removes is whole, when no removal is cut short.
PublishedIsWhole ==
    ~ RemovalInterrupted /\ Mirror!Deleting = {} /\ mirror # Absent => mirror.files = Mirror!Files

MirrorInv ==
    Mirror!MirrorTypeOK /\ OneRemoves /\ LeasedIsNotRemoved /\ ManifestIsLast /\ PublishedIsWhole

\* At first there is no mirror and nobody looks for one.
LEMMA MirrorStarts == Mirror!MirrorInit => MirrorInv
BY DEF Mirror!MirrorInit, MirrorInv, Mirror!MirrorTypeOK, OneRemoves, LeasedIsNotRemoved,
   ManifestIsLast, PublishedIsWhole,
   Mirror!Deleting, Mirror!Leasing, Mirror!Off

\* Every step of a process keeps it.
LEMMA MirrorSteps ==
  ASSUME MaxBuilds \in Nat, RemovalInterrupted \in BOOLEAN, MirrorInv,
         NEW p \in Processes, Mirror!MirrorStep(p)
  PROVE  MirrorInv'
<1> USE DEF MirrorInv, Mirror!MirrorTypeOK, OneRemoves, LeasedIsNotRemoved, ManifestIsLast,
       PublishedIsWhole, Mirror!Deleting, Mirror!Leasing, Mirror!Off, Mirror!Dead, Mirror!Idle,
       Mirror!Goes, Mirror!Files, Mirror!Source, Mirror!Ready, Mirror!CreatorDead
<1>1. CASE Mirror!Start(p)  BY <1>1 DEF Mirror!Start
<1>2. CASE Mirror!Reclaim(p)
  <2> USE <1>2 DEF Mirror!Reclaim
  <2>1. PICK q \in proc[p].seen :
           /\ proc' = [proc EXCEPT ![p].seen = @ \ {q}]
           /\ \/ UNCHANGED staging
              \/ /\ Mirror!CreatorDead(q) /\ staging[q] # Absent
                 /\ \E left \in {Absent} \cup SUBSET staging[q] :
                       staging' = [staging EXCEPT ![q] = left]
    OBVIOUS
  <2>2. proc[p] \in [at : {"Reconcile"}, seen : SUBSET Processes] /\ q \in Processes
    OBVIOUS
  <2>3. [proc[p] EXCEPT !.seen = @ \ {q}] \in [at : {"Reconcile"}, seen : SUBSET Processes]
    BY <2>2
  <2>4. proc' = [proc EXCEPT ![p] = [proc[p] EXCEPT !.seen = @ \ {q}]]
    BY <2>1
  <2>5. \A o \in Processes : proc'[o].at = proc[o].at
    BY <2>2, <2>3, <2>4
  <2>6. \A o \in Processes : proc[o].at \in {"Build", "Clean"} => staging'[o] = staging[o]
    BY <2>1, <2>2
  <2>7. Mirror!MirrorTypeOK'
    <3>1. staging' \in [Processes -> {Absent} \cup SUBSET Mirror!Files]
      <4>1. CASE UNCHANGED staging BY <4>1
      <4>2. ASSUME NEW left \in {Absent} \cup SUBSET staging[q], staging[q] # Absent,
                   staging' = [staging EXCEPT ![q] = left]
            PROVE  staging' \in [Processes -> {Absent} \cup SUBSET Mirror!Files]
        BY <4>2, <2>2
      <4> QED BY <4>1, <4>2, <2>1
    <3> QED BY <3>1, <2>3, <2>4
  <2> QED BY <2>5, <2>6, <2>7
<1>3. CASE Mirror!Reconciled(p)  BY <1>3 DEF Mirror!Reconciled
<1>4. CASE Mirror!Reuse(p)  BY <1>4 DEF Mirror!Reuse
<1>5. CASE Mirror!CreateStaging(p)  BY <1>5 DEF Mirror!CreateStaging
<1>6. CASE Mirror!Populate(p)  BY <1>6 DEF Mirror!Populate, Mirror!MayAdd
<1>7. CASE Mirror!BuildFails(p)  BY <1>7 DEF Mirror!BuildFails
<1>8. CASE Mirror!Clean(p)
  <2> USE <1>8 DEF Mirror!Clean
  <2>1. CASE staging' = [staging EXCEPT ![p] = {}] /\ Mirror!Goes(p, "Build")
    BY <2>1
  <2>2. ASSUME NEW left \in {Absent} \cup SUBSET staging[p],
               staging' = [staging EXCEPT ![p] = left], Mirror!Goes(p, "Idle")
        PROVE  MirrorInv'
    <3>1. left \in {Absent} \cup SUBSET Mirror!Files
      BY <2>2
    <3> QED BY <2>2, <3>1
  <2> QED BY <2>1, <2>2
<1>9. CASE Mirror!Publish(p)  BY <1>9 DEF Mirror!Publish
<1>10. CASE Mirror!Lease(p)  BY <1>10 DEF Mirror!Lease
<1>11. CASE Mirror!Release(p)  BY <1>11 DEF Mirror!Release
<1>12. CASE Mirror!Remove(p)  BY <1>12 DEF Mirror!Remove
<1>13. CASE Mirror!Inspect(p)  BY <1>13 DEF Mirror!Inspect
<1>14. CASE Mirror!Lock(p)  BY <1>14 DEF Mirror!Lock, Mirror!SameMirror, Mirror!RootLockable
<1>15. CASE Mirror!Delete(p)  BY <1>15 DEF Mirror!Delete, Mirror!FirstOf
<1>16. CASE Mirror!DeleteFails(p)  BY <1>16 DEF Mirror!DeleteFails
<1>17. CASE Mirror!Die(p)  BY <1>17 DEF Mirror!Die
<1> QED
  BY ONLY <1>1, <1>2, <1>3, <1>4, <1>5, <1>6, <1>7, <1>8, <1>9, <1>10, <1>11, <1>12, <1>13,
     <1>14, <1>15, <1>16, <1>17, Mirror!MirrorStep(p) DEF Mirror!MirrorStep

\* One process at most removes a mirror, only when nobody leases it, and what is published is
\* whole, for any processes.
LEMMA MirrorInvariance ==
  ASSUME MaxBuilds \in Nat, RemovalInterrupted \in BOOLEAN
  PROVE  Mirror!MirrorSpec => []MirrorInv
<1>1. Mirror!MirrorInit => MirrorInv
  BY MirrorStarts
<1>2. MirrorInv /\ [Mirror!MirrorNext]_(Mirror!mirrorVars) => MirrorInv'
  <2>1. CASE Mirror!MirrorNext  BY <2>1, MirrorSteps DEF Mirror!MirrorNext
  <2>2. CASE UNCHANGED Mirror!mirrorVars
    BY <2>2 DEF Mirror!mirrorVars, MirrorInv, Mirror!MirrorTypeOK, OneRemoves, LeasedIsNotRemoved,
                ManifestIsLast, PublishedIsWhole, Mirror!Deleting, Mirror!Leasing
  <2> QED  BY <2>1, <2>2
<1> QED  BY <1>1, <1>2, PTL DEF Mirror!MirrorSpec

\* Who leases a mirror has the browser's complete directory in it, whatever other processes
\* build, publish, remove and reclaim meanwhile and wherever they die, as long as no removal of
\* a mirror is cut short (materialize, remove_with_retry, reclaim_orphaned_staging_entry).
THEOREM MirrorIsWhole ==
  ASSUME MaxBuilds \in Nat, RemovalInterrupted = FALSE
  PROVE  Mirror!MirrorSpec => []Mirror!LeasedMirrorIsComplete
<1>1. MirrorInv => Mirror!LeasedMirrorIsComplete
  BY DEF MirrorInv, LeasedIsNotRemoved, PublishedIsWhole, Mirror!LeasedMirrorIsComplete
<1>2. Mirror!MirrorSpec => []MirrorInv
  BY MirrorInvariance
<1> QED  BY <1>1, <1>2, PTL

\* Nobody changes or replaces the mirror that somebody leases, and this needs no assumption on
\* removals: the delete lock is exclusive and a publication finds the name taken
\* (open_relative_delete_lock, publish_staging).
THEOREM LeasedMirrorStays ==
  ASSUME MaxBuilds \in Nat, RemovalInterrupted \in BOOLEAN
  PROVE  Mirror!MirrorSpec => [][Mirror!Leasing # {} => UNCHANGED mirror]_(Mirror!mirrorVars)
<1>1. MirrorInv /\ [Mirror!MirrorNext]_(Mirror!mirrorVars) =>
         [Mirror!Leasing # {} => UNCHANGED mirror]_(Mirror!mirrorVars)
  <2> SUFFICES ASSUME MirrorInv, Mirror!MirrorNext, Mirror!Leasing # {} PROVE UNCHANGED mirror
    BY DEF Mirror!mirrorVars
  <2>1. mirror # Absent /\ Mirror!Deleting = {}
    BY DEF MirrorInv, LeasedIsNotRemoved
  <2>2. PICK p \in Processes : Mirror!MirrorStep(p)
    BY DEF Mirror!MirrorNext
  <2>3. ~ Mirror!Delete(p)
    BY <2>1 DEF Mirror!Delete, Mirror!Deleting
  <2>4. CASE Mirror!Publish(p)
    BY <2>1, <2>4 DEF Mirror!Publish
  <2>5. CASE Mirror!Start(p) \/ Mirror!Reclaim(p) \/ Mirror!Reconciled(p) \/ Mirror!Reuse(p)
         \/ Mirror!CreateStaging(p)
    BY <2>5 DEF Mirror!Start, Mirror!Reclaim, Mirror!Reconciled, Mirror!Reuse, Mirror!CreateStaging
  <2>6. CASE Mirror!Populate(p) \/ Mirror!BuildFails(p) \/ Mirror!Clean(p)
         \/ Mirror!Lease(p) \/ Mirror!Release(p)
    BY <2>6 DEF Mirror!Populate, Mirror!BuildFails, Mirror!Clean, Mirror!Lease, Mirror!Release
  <2>7. CASE Mirror!Remove(p) \/ Mirror!Inspect(p) \/ Mirror!Lock(p)
         \/ Mirror!DeleteFails(p) \/ Mirror!Die(p)
    BY <2>7 DEF Mirror!Remove, Mirror!Inspect, Mirror!Lock, Mirror!DeleteFails, Mirror!Die
  <2> QED
    BY ONLY <2>2, <2>3, <2>4, <2>5, <2>6, <2>7 DEF Mirror!MirrorStep
<1> QED  BY <1>1, MirrorInvariance, PTL DEF Mirror!MirrorSpec

-----------------------------------------------------------------------------
(* Where a mirror comes from *)

\* What a builder that works has, by its next step.
Works ==
    [at : 1..20, binary : Files, opened : SUBSET Places, mode : {"Link", "Copy"}, files : Trees,
     times : [Places \cup Directories -> Times], placed : Copies, past : SUBSET Keys]

Clocks ==
    /\ source \in Trees /\ content \in [Files -> Times] /\ time \in [Files -> Times]
    /\ stamp \in [Directories -> Times]
    /\ earlier \in [Places -> SUBSET Files] /\ changes \in Times
    /\ \A f \in Files : time[f] <= changes
    /\ \A d \in Directories : stamp[d] <= changes

\* A mirror is called by times its files have or had.
Catalog ==
    /\ published = [key \in DOMAIN published |-> published[key]]
    /\ DOMAIN published \subseteq Keys
    /\ \A key \in DOMAIN published :
          published[key] \in [mode : {"Link", "Copy"}, copies : Copies, by : Builders]

BuilderShapes ==
    /\ builder = [p \in Builders |-> builder[p]]
    /\ \A p \in Builders :
          LET b == builder[p] IN
          \/ b = Idle
          \/ b \in Works
          \/ b = [at |-> 21, key |-> b.key, content |-> b.content] /\ b.key \in DOMAIN published

DirOf(place) == IF place = "main" THEN "root" ELSE "deep"
InspectedAt(x) ==
    CASE x = "root" -> 1 [] x = "main" -> 4 [] x = "deep" -> 5 [] OTHER -> 8
ListedAt(place) == IF place = "main" THEN 2 ELSE 6
OpenedAt(place) == IF place = "main" THEN 3 ELSE 7
PutAt(place) == IF place = "main" THEN 11 ELSE 10
RecheckedAt(x) ==
    CASE x = "root" -> 12 [] x = "deep" -> 13 [] x = "lib" -> 14 [] OTHER -> 15

\* What was done so far, of a builder b.
Done(b) ==
    /\ \A place \in Places :
          /\ b.at > OpenedAt(place) => (b.files[place] # Absent => place \in b.opened)
          /\ b.at <= ListedAt(place) => b.files[place] = Absent
          /\ place \in b.opened => b.at > OpenedAt(place) /\ b.files[place] # Absent
          /\ b.files[place] = Absent => b.times[place] = 0
    /\ b.at <= 19 =>
          \A place \in Places :
              (b.at > PutAt(place) /\ b.files[place] # Absent) =>
                  b.placed[place] = content[b.files[place]]

\* What was read is what is there, unless it has changed since.
Dated(b) ==
    /\ \A d \in Directories : b.at > InspectedAt(d) => b.times[d] <= stamp[d]
    /\ \A place \in Places :
          /\ (b.at > InspectedAt(place) /\ b.files[place] # Absent) =>
                b.times[place] <= time[b.files[place]]
          /\ (b.at > ListedAt(place) /\ stamp[DirOf(place)] = b.times[DirOf(place)]) =>
                source[place] = b.files[place]

\* A copy is what its file has in it, as long as the file has the time the mirror is called by.
CopyOf(key, place) == published[key].mode = "Copy" /\ key.files[place] # Absent
CopiesDated ==
    \A key \in DOMAIN published : \A place \in Places :
        CopyOf(key, place) =>
            /\ key.times[place] <= time[key.files[place]]
            /\ key.times[place] = time[key.files[place]] =>
                  published[key].copies[place] = content[key.files[place]]

\* The files it has open do not change, so copies made of them are what is in them.
CopiesHeld(b) ==
    \A key \in DOMAIN published : \A place \in Places :
        (/\ CopyOf(key, place) /\ b.at > InspectedAt(place)
         /\ key.files[place] = b.files[place] /\ key.times[place] = b.times[place]) =>
            published[key].copies[place] = content[key.files[place]]

\* An instant between the first look and the second.
Instant(b, s) ==
    /\ \A d \in Directories : b.times[d] <= s.times[d] /\ s.times[d] <= stamp[d]
    /\ \A place \in Places :
          /\ s.times[DirOf(place)] = b.times[DirOf(place)] => s.files[place] = b.files[place]
          /\ s.files[place] = b.files[place] =>
                IF b.files[place] = Absent THEN s.times[place] = b.times[place]
                ELSE /\ b.times[place] <= s.times[place]
                     /\ s.times[place] <= time[b.files[place]]
    /\ \A x \in Places \cup Directories : b.at > RecheckedAt(x) => s.times[x] = b.times[x]
Seen(b) ==
    /\ Snapshot \in b.past
    /\ b.at \in 9..19 => \E s \in b.past : Instant(b, s)

SourceInv ==
    /\ Clocks /\ Catalog /\ BuilderShapes /\ CopiesDated
    /\ \A p \in Builders :
          Working(p) => /\ Done(builder[p]) /\ Dated(builder[p]) /\ CopiesHeld(builder[p])
                        /\ Seen(builder[p])

\* The program of a build, step by step.
LEMMA ProgramIs ==
  /\ Len(Program) = 20
  /\ \A n \in 1..20 :
        /\ Program[n].act = "Inspect" =>
              \/ (n = 1 /\ Program[n].of = "root") \/ (n = 4 /\ Program[n].of = "main")
              \/ (n = 5 /\ Program[n].of = "deep") \/ (n = 8 /\ Program[n].of = "lib")
        /\ Program[n].act = "List" =>
              (n = 2 /\ Program[n].of = "main") \/ (n = 6 /\ Program[n].of = "lib")
        /\ Program[n].act = "Open" =>
              (n = 3 /\ Program[n].of = "main") \/ (n = 7 /\ Program[n].of = "lib")
        /\ Program[n].act = "Key" <=> n = 9
        /\ Program[n].act = "Put" <=> n \in {10, 11}
        /\ n = 10 => Program[n].of = "lib"
        /\ n = 11 => Program[n].of = "main"
        /\ Program[n].act = "Recheck" =>
              \/ (n = 12 /\ Program[n].of = "root") \/ (n = 13 /\ Program[n].of = "deep")
              \/ (n = 14 /\ Program[n].of = "lib") \/ (n = 15 /\ Program[n].of = "main")
        /\ Program[n].act = "Compare" => n \in {16, 17}
        /\ Program[n].act = "Publish" <=> n = 18
        /\ Program[n].act = "Validate" <=> n = 19
        /\ Program[n].act = "Hold" <=> n = 20
<1>1. Len(Program) = 20
  BY DEF Program
<1>2. /\ Program[1].act = "Inspect" /\ Program[1].of = "root"
      /\ Program[2].act = "List" /\ Program[2].of = "main"
      /\ Program[3].act = "Open" /\ Program[3].of = "main"
      /\ Program[4].act = "Inspect" /\ Program[4].of = "main"
      /\ Program[5].act = "Inspect" /\ Program[5].of = "deep"
      /\ Program[6].act = "List" /\ Program[6].of = "lib"
      /\ Program[7].act = "Open" /\ Program[7].of = "lib"
      /\ Program[8].act = "Inspect" /\ Program[8].of = "lib"
      /\ Program[9].act = "Key" /\ Program[9].of = "root"
      /\ Program[10].act = "Put" /\ Program[10].of = "lib"
      /\ Program[11].act = "Put" /\ Program[11].of = "main"
      /\ Program[12].act = "Recheck" /\ Program[12].of = "root"
      /\ Program[13].act = "Recheck" /\ Program[13].of = "deep"
      /\ Program[14].act = "Recheck" /\ Program[14].of = "lib"
      /\ Program[15].act = "Recheck" /\ Program[15].of = "main"
      /\ Program[16].act = "Compare" /\ Program[16].of = "main"
      /\ Program[17].act = "Compare" /\ Program[17].of = "lib"
      /\ Program[18].act = "Publish" /\ Program[18].of = "root"
      /\ Program[19].act = "Validate" /\ Program[19].of = "root"
      /\ Program[20].act = "Hold" /\ Program[20].of = "root"
  BY DEF Program, Does
<1>3. ASSUME NEW n \in 1..20
      PROVE  \/ n = 1 \/ n = 2 \/ n = 3 \/ n = 4 \/ n = 5 \/ n = 6 \/ n = 7 \/ n = 8
             \/ n = 9 \/ n = 10 \/ n = 11 \/ n = 12 \/ n = 13 \/ n = 14 \/ n = 15
             \/ n = 16 \/ n = 17 \/ n = 18 \/ n = 19 \/ n = 20
  OBVIOUS
<1> QED
  BY <1>1, <1>2, <1>3

\* Where a jump goes.
LEMMA Jumps == StepOf("Hold") = 20 /\ StepOf("Put") = 10
<1> DEFINE P(act, n) == Program[n].act = act /\ (n = 1 \/ Program[n - 1].act # act)
<1>1. P("Hold", 20) /\ \A n \in 1..20 : P("Hold", n) => n = 20
  BY ProgramIs
<1>2. P("Put", 10) /\ \A n \in 1..20 : P("Put", n) => n = 10
  BY ProgramIs
<1>3. StepOf("Hold") = CHOOSE n \in 1..20 : P("Hold", n)
  BY ProgramIs DEF StepOf
<1>4. StepOf("Put") = CHOOSE n \in 1..20 : P("Put", n)
  BY ProgramIs DEF StepOf
<1> HIDE DEF P
<1> QED
  BY <1>1, <1>2, <1>3, <1>4

\* What the updater does to the clocks: nothing changes without a later time, and a file that a
\* builder has open is not written.
LEMMA UpdateMoves ==
  ASSUME MaxChanges \in Nat, Clocks, Updates
  PROVE  /\ Clocks'
         /\ \A f \in Files :
               /\ time[f] <= time'[f]
               /\ time'[f] = time[f] => content'[f] = content[f]
               /\ Locked(f) => content'[f] = content[f]
         /\ \A d \in Directories : stamp[d] <= stamp'[d]
         /\ \A place \in Places :
               stamp'[DirOf(place)] = stamp[DirOf(place)] => source'[place] = source[place]
<1> USE DEF Clocks, Files, Trees, Times, Change, Now
<1>1. PICK place \in Places :
         \/ Replaces(place)
         \/ source[place] # Absent /\ (Writes(source[place]) \/ Touches(source[place]))
  BY DEF Updates
<1>2. CASE Replaces(place)
  <2>1. PICK file \in {Absent, 2 + Now} \cup earlier[place] :
          /\ file # source[place]
          /\ source' = [source EXCEPT ![place] = file]
          /\ earlier' = [earlier EXCEPT ![place] = (@ \cup {source[place]}) \ {file, Absent}]
    BY <1>2 DEF Replaces
  <2>2. /\ changes < MaxChanges /\ changes' = changes + 1
        /\ stamp' = [d \in Directories |-> IF place \in In(d) THEN changes + 1 ELSE stamp[d]]
        /\ UNCHANGED <<content, time>>
    BY <1>2 DEF Replaces
  <2>3. file \in Files \cup {Absent}
    BY <2>1, <2>2
  <2>4. source' \in Trees /\ earlier' \in [Places -> SUBSET Files]
    BY <2>1, <2>3
  <2>5. Clocks'
    BY <2>2, <2>4
  <2>6. \A d \in Directories : stamp[d] <= stamp'[d]
    BY <2>2
  <2>7. \A other \in Places :
           stamp'[DirOf(other)] = stamp[DirOf(other)] => source'[other] = source[other]
    <3>1. stamp'[DirOf(place)] = changes + 1 /\ stamp[DirOf(place)] <= changes
      BY <2>2 DEF In, DirOf, Places, Directories
    <3> QED
      BY <2>1, <3>1
  <2>8. \A f \in Files : time[f] <= time'[f] /\ content'[f] = content[f]
    BY <2>2
  <2> HIDE DEF Clocks, Files, Trees, Times
  <2> QED
    BY <2>2, <2>5, <2>6, <2>7, <2>8
<1>3. CASE source[place] # Absent /\ Writes(source[place])
  <2>1. /\ changes < MaxChanges /\ changes' = changes + 1 /\ source[place] \in Files
        /\ content' = [content EXCEPT ![source[place]] = changes + 1]
        /\ time' = [time EXCEPT ![source[place]] = changes + 1]
        /\ UNCHANGED <<source, stamp, earlier>>
    BY <1>3 DEF Writes
  <2>2. \A f \in Files : Locked(f) => f # source[place]
    BY <1>3 DEF Writes
  <2>3. Clocks'
    <3>1. PICK g \in Files : g = source[place]
      BY <2>1
    <3>2. /\ content' = [content EXCEPT ![g] = changes + 1]
          /\ time' = [time EXCEPT ![g] = changes + 1]
      BY <2>1, <3>1
    <3>3. changes + 1 \in Times /\ changes' \in Times
      BY <2>1
    <3>4. content' \in [Files -> Times] /\ time' \in [Files -> Times]
      BY <3>2, <3>3
    <3>5. (\A f \in Files : time'[f] <= changes') /\ (\A d \in Directories : stamp[d] <= changes')
      <4>1. \A f \in Files : time[f] \in Nat /\ time[f] <= changes + 1
        OBVIOUS
      <4>2. \A d \in Directories : stamp[d] \in Nat /\ stamp[d] <= changes + 1
        OBVIOUS
      <4>3. time \in [Files -> Times] /\ changes \in Nat
        OBVIOUS
      <4> HIDE DEF Clocks, Files, Trees, Times
      <4> QED
        BY <2>1, <3>2, <4>1, <4>2, <4>3
    <3>6. source' = source /\ stamp' = stamp /\ earlier' = earlier
      BY <2>1
    <3> HIDE DEF Files, Trees, Times
    <3> QED
      BY <2>1, <3>3, <3>4, <3>5, <3>6
  <2>4. \A f \in Files :
           /\ time[f] <= time'[f]
           /\ time'[f] = time[f] => content'[f] = content[f]
           /\ f # source[place] => content'[f] = content[f]
    BY <2>1
  <2>5. \A d \in Directories : stamp[d] <= stamp'[d]
    BY <2>1
  <2> HIDE DEF Clocks, Files, Trees, Times
  <2> QED
    BY <2>1, <2>2, <2>3, <2>4, <2>5
<1>4. CASE source[place] # Absent /\ Touches(source[place])
  <2>1. /\ changes < MaxChanges /\ changes' = changes + 1 /\ source[place] \in Files
        /\ time' = [time EXCEPT ![source[place]] = changes + 1]
        /\ UNCHANGED <<source, content, stamp, earlier>>
    BY <1>4 DEF Touches
  <2>2. Clocks'
    <3>1. PICK g \in Files : g = source[place]
      BY <2>1
    <3>2. time' = [time EXCEPT ![g] = changes + 1]
      BY <2>1, <3>1
    <3>3. changes + 1 \in Times /\ changes' \in Times
      BY <2>1
    <3>4. time' \in [Files -> Times]
      BY <3>2, <3>3
    <3>5. (\A f \in Files : time'[f] <= changes') /\ (\A d \in Directories : stamp[d] <= changes')
      <4>1. \A f \in Files : time[f] \in Nat /\ time[f] <= changes + 1
        OBVIOUS
      <4>2. \A d \in Directories : stamp[d] \in Nat /\ stamp[d] <= changes + 1
        OBVIOUS
      <4>3. time \in [Files -> Times] /\ changes \in Nat
        OBVIOUS
      <4> HIDE DEF Clocks, Files, Trees, Times
      <4> QED
        BY <2>1, <3>2, <4>1, <4>2, <4>3
    <3>6. source' = source /\ stamp' = stamp /\ earlier' = earlier
      BY <2>1
    <3> HIDE DEF Files, Trees, Times
    <3> QED
      BY <2>1, <3>3, <3>4, <3>5, <3>6
  <2>3. \A f \in Files : time[f] <= time'[f] /\ content'[f] = content[f]
    BY <2>1
  <2>4. \A d \in Directories : stamp[d] <= stamp'[d]
    BY <2>1
  <2> HIDE DEF Clocks, Files, Trees, Times
  <2> QED
    BY <2>1, <2>2, <2>3, <2>4
<1> HIDE DEF Clocks, Files, Trees, Times
<1> QED
  BY <1>1, <1>2, <1>3, <1>4

\* What a builder knows.
Good(b) == Done(b) /\ Dated(b) /\ CopiesHeld(b) /\ Seen(b)

\* What would be read now names a mirror.
LEMMA SnapshotIsAKey == ASSUME MaxChanges \in Nat, Clocks PROVE Snapshot \in Keys
<1>1. source \in Trees
  BY DEF Clocks
<1>2. \A d \in Directories : stamp[d] \in Times
  BY DEF Clocks
<1>3. \A place \in Places : source[place] # Absent => time[source[place]] \in Times
  BY DEF Clocks, Trees
<1>4. 0 \in Times
  BY DEF Times
<1> HIDE DEF Places, Directories, Trees, Times
<1> QED
  BY <1>1, <1>2, <1>3, <1>4 DEF Snapshot, Keys

\* A change of the browser's directory keeps what each builder knows.
LEMMA UpdateKeepsGood ==
  ASSUME MaxChanges \in Nat, SourceInv, Updates, NEW p \in Builders, Working(p)
  PROVE  Good(builder[p])' /\ builder'[p] \in Works
<1> DEFINE b == builder[p]
           c == builder'[p]
<1>1. /\ Clocks'
      /\ \A f \in Files :
            /\ time[f] <= time'[f]
            /\ time'[f] = time[f] => content'[f] = content[f]
            /\ Locked(f) => content'[f] = content[f]
      /\ \A d \in Directories : stamp[d] <= stamp'[d]
      /\ \A place \in Places :
            stamp'[DirOf(place)] = stamp[DirOf(place)] => source'[place] = source[place]
  BY UpdateMoves DEF SourceInv
<1>2. b \in Works /\ Good(b) /\ b.at \in 1..20
  BY ProgramIs DEF SourceInv, BuilderShapes, Working, Idle, Good
<1>3. c = [b EXCEPT !.past = @ \cup {Snapshot'}] /\ published' = published
  BY DEF Updates
<1>4. Snapshot' \in Keys
  <2>1. source' \in Trees
    BY <1>1 DEF Clocks
  <2>2. \A d \in Directories : stamp'[d] \in Times
    BY <1>1 DEF Clocks
  <2>3. \A place \in Places : source'[place] # Absent => time'[source'[place]] \in Times
    BY <1>1 DEF Clocks, Trees
  <2>4. 0 \in Times
    BY DEF Times
  <2> QED
    BY <2>1, <2>2, <2>3, <2>4 DEF Snapshot, Keys
<1>5. /\ b' = c /\ c \in Works /\ c.at = b.at /\ c.opened = b.opened /\ c.files = b.files
      /\ c.times = b.times /\ c.placed = b.placed /\ c.past = b.past \cup {Snapshot'}
  BY <1>2, <1>3, <1>4 DEF Works
<1>6. /\ time \in [Files -> Int] /\ time' \in [Files -> Int]
      /\ stamp \in [Directories -> Int] /\ stamp' \in [Directories -> Int]
  BY <1>1 DEF SourceInv, Clocks, Times
<1>7. /\ b.files \in [Places -> Files \cup {Absent}]
      /\ b.times \in [Places \cup Directories -> Int]
      /\ b.opened \subseteq Places
  BY <1>2 DEF Works, Trees, Times
<1>8. \A place \in Places : DirOf(place) \in Directories
  BY DEF DirOf, Places, Directories
<1>9. \A place \in b.opened : Locked(b.files[place])
  BY <1>2 DEF Locked
<1>10. \A place \in Places : OpenedAt(place) < PutAt(place) /\ OpenedAt(place) < InspectedAt(place)
                             /\ ListedAt(place) < OpenedAt(place)
  BY DEF OpenedAt, PutAt, InspectedAt, Places, ListedAt
<1>11. Done(b)'
  <2>1. ASSUME NEW place \in Places, b.at <= 19, b.at > PutAt(place), b.files[place] # Absent
        PROVE  c.placed[place] = content'[c.files[place]]
    <3>1. place \in b.opened
      BY <1>2, <1>10, <2>1 DEF Good, Done, PutAt, OpenedAt
    <3>2. content'[b.files[place]] = content[b.files[place]]
      BY <1>1, <1>7, <1>9, <2>1, <3>1
    <3> QED
      BY <1>2, <1>5, <2>1, <3>2 DEF Good, Done
  <2> QED
    BY <1>2, <1>5, <2>1 DEF Good, Done
<1>12. Dated(b)'
  <2>1. \A d \in Directories : c.at > InspectedAt(d) => c.times[d] <= stamp'[d]
    BY <1>1, <1>2, <1>5, <1>6, <1>7 DEF Good, Dated
  <2>2. \A place \in Places :
          (c.at > InspectedAt(place) /\ c.files[place] # Absent) =>
             c.times[place] <= time'[c.files[place]]
    BY <1>1, <1>2, <1>5, <1>6, <1>7 DEF Good, Dated
  <2>3. ASSUME NEW place \in Places,
               c.at > ListedAt(place), stamp'[DirOf(place)] = c.times[DirOf(place)]
        PROVE  source'[place] = c.files[place]
    <3>1. b.at > InspectedAt(DirOf(place))
      BY <1>2, <1>5, <2>3 DEF InspectedAt, DirOf, ListedAt, Places
    <3>2. b.times[DirOf(place)] <= stamp[DirOf(place)]
      BY <1>2, <1>8, <3>1 DEF Good, Dated
    <3>3. stamp'[DirOf(place)] = stamp[DirOf(place)] /\ stamp[DirOf(place)] = b.times[DirOf(place)]
      BY <1>1, <1>5, <1>6, <1>7, <1>8, <2>3, <3>2
    <3> QED
      BY <1>1, <1>2, <1>5, <2>3, <3>3 DEF Good, Dated
  <2> QED
    BY <2>1, <2>2, <2>3 DEF Dated
<1>13. CopiesHeld(b)'
  <2>1. ASSUME NEW key \in DOMAIN published, NEW place \in Places,
               CopyOf(key, place), b.at > InspectedAt(place),
               key.files[place] = b.files[place], key.times[place] = b.times[place]
        PROVE  published[key].copies[place] = content'[key.files[place]]
    <3>1. place \in b.opened
      BY <1>2, <1>10, <2>1 DEF Good, Done, CopyOf, InspectedAt, OpenedAt
    <3>2. content'[b.files[place]] = content[b.files[place]]
      BY <1>1, <1>7, <1>9, <2>1, <3>1 DEF CopyOf
    <3> QED
      BY <1>2, <2>1, <3>2 DEF Good, CopiesHeld
  <2> QED
    BY <1>3, <1>5, <2>1 DEF CopiesHeld, CopyOf
<1>14. Seen(b)'
  <2>1. ASSUME b.at \in 9..19
        PROVE  \E s \in c.past : Instant(b, s)'
    <3>1. PICK s \in b.past : Instant(b, s)
      BY <1>2, <2>1 DEF Good, Seen
    <3>2. s.times \in [Places \cup Directories -> Int] /\ s \in c.past
      BY <1>2, <1>5, <3>1 DEF Works, Keys, Times
    <3>3. \A d \in Directories : c.times[d] <= s.times[d] /\ s.times[d] <= stamp'[d]
      BY <1>1, <1>5, <1>6, <1>7, <3>1, <3>2 DEF Instant
    <3>4. \A place \in Places :
            s.files[place] = c.files[place] =>
                IF c.files[place] = Absent THEN s.times[place] = c.times[place]
                ELSE /\ c.times[place] <= s.times[place]
                     /\ s.times[place] <= time'[c.files[place]]
      BY <1>1, <1>5, <1>6, <1>7, <3>1, <3>2 DEF Instant
    <3> QED
      BY <1>5, <3>1, <3>2, <3>3, <3>4 DEF Instant
  <2> QED
    BY <1>5, <2>1 DEF Seen
<1> QED
  BY <1>5, <1>11, <1>12, <1>13, <1>14 DEF Good

\* A change of the browser's directory keeps the invariant.
LEMMA UpdateKeeps ==
  ASSUME MaxChanges \in Nat, SourceInv, Updates
  PROVE  SourceInv'
<1>1. /\ Clocks'
      /\ \A f \in Files : /\ time[f] <= time'[f]
                          /\ time'[f] = time[f] => content'[f] = content[f]
  BY UpdateMoves DEF SourceInv
<1>2. /\ published' = published
      /\ builder' = [p \in Builders |->
                        IF Working(p) THEN [builder[p] EXCEPT !.past = @ \cup {Snapshot'}]
                        ELSE builder[p]]
  BY DEF Updates
<1>3. Catalog'
  BY <1>2 DEF SourceInv, Catalog
<1>4. BuilderShapes'
  <2>1. \A p \in Builders : Working(p) => builder'[p] \in Works
    BY UpdateKeepsGood
  <2>2. \A p \in Builders : ~ Working(p) => builder'[p] = builder[p]
    BY <1>2
  <2>3. builder' = [p \in Builders |-> builder'[p]]
    BY <1>2
  <2>4. ASSUME NEW p \in Builders, ~ Working(p)
        PROVE  \/ builder[p] = Idle
               \/ /\ builder[p] = [at |-> 21, key |-> builder[p].key,
                                 content |-> builder[p].content]
                  /\ builder[p].key \in DOMAIN published
    BY <2>4, ProgramIs DEF SourceInv, BuilderShapes, Works, Working
  <2> HIDE DEF Works
  <2> QED
    BY <1>2, <2>1, <2>2, <2>3, <2>4 DEF BuilderShapes
<1>5. CopiesDated'
  <2>1. time \in [Files -> Int] /\ time' \in [Files -> Int]
    BY <1>1 DEF SourceInv, Clocks, Times
  <2>2. \A key \in Keys, place \in Places :
           key.files[place] \in Files \cup {Absent} /\ key.times[place] \in Int
    BY DEF Keys, Trees, Times
  <2>3. ASSUME NEW key \in DOMAIN published, NEW place \in Places, CopyOf(key, place)
        PROVE  /\ key.times[place] <= time'[key.files[place]]
               /\ key.times[place] = time'[key.files[place]] =>
                     published[key].copies[place] = content'[key.files[place]]
    <3>1. key.files[place] \in Files /\ key.times[place] \in Int
      BY <2>2, <2>3 DEF CopyOf, SourceInv, Catalog
    <3>2. /\ key.times[place] <= time[key.files[place]]
          /\ key.times[place] = time[key.files[place]] =>
                published[key].copies[place] = content[key.files[place]]
      BY <2>3 DEF SourceInv, CopiesDated
    <3> QED
      BY <1>1, <2>1, <3>1, <3>2
  <2> QED
    BY <1>2, <2>3 DEF CopiesDated, CopyOf
<1>6. ASSUME NEW p \in Builders, Working(p)' PROVE Good(builder[p])'
  <2>1. Working(p)
    BY <1>2, <1>6 DEF Working
  <2> QED
    BY <2>1, UpdateKeepsGood
<1> QED
  BY <1>1, <1>3, <1>4, <1>5, <1>6 DEF SourceInv, Good

-----------------------------------------------------------------------------

\* What a builder may know after a step that changes nothing else.
Fits(b) ==
    \/ b = Idle
    \/ b \in Works /\ Good(b)
    \/ b = [at |-> 21, key |-> b.key, content |-> b.content] /\ b.key \in DOMAIN published

\* Only a builder moves, and it knows what its place in the program tells.
LEMMA TurnKeeps ==
  ASSUME SourceInv, NEW p \in Builders, NEW c, Fits(c), Turns(p, c),
         UNCHANGED <<Update, published>>
  PROVE  SourceInv'
<1>1. /\ source' = source /\ content' = content /\ time' = time /\ stamp' = stamp
      /\ earlier' = earlier /\ changes' = changes /\ published' = published
  BY DEF Update
<1>2. /\ builder' = [q \in Builders |-> builder'[q]]
      /\ builder'[p] = c
      /\ \A q \in Builders \ {p} : builder'[q] = builder[q]
  BY DEF Turns, SourceInv, BuilderShapes
<1>3. Clocks' /\ Catalog' /\ CopiesDated'
  BY <1>1 DEF SourceInv, Clocks, Catalog, CopiesDated, CopyOf
<1>4. \A q \in Builders : Fits(builder'[q])
  <2>1. ASSUME NEW q \in Builders PROVE Fits(builder[q])
    <3>1. CASE builder[q] \in Works
      <4>1. Working(q)
        BY <3>1, ProgramIs DEF Works, Working
      <4> QED
        BY <3>1, <4>1 DEF SourceInv, Good, Fits
    <3>2. CASE builder[q] \notin Works
      BY <3>2 DEF SourceInv, BuilderShapes, Fits
    <3> QED
      BY <3>1, <3>2
  <2> QED
    BY <1>2, <2>1
<1>5. \A q \in Builders : Good(builder'[q]) => Good(builder[q])'
  BY <1>1 DEF Good, Done, Dated, CopiesHeld, CopyOf, Seen, Snapshot, Instant
<1>6. BuilderShapes'
  BY <1>1, <1>2, <1>4 DEF BuilderShapes, Fits
<1>7. ASSUME NEW q \in Builders, Working(q)' PROVE Good(builder[q])'
  <2>1. builder'[q].at \in 1..20
    BY <1>7, ProgramIs DEF Working
  <2>2. ASSUME NEW b, Fits(b), b.at \in 1..20 PROVE Good(b)
    <3>1. CASE b = Idle
      BY <2>2, <3>1 DEF Idle
    <3>2. CASE b = [at |-> 21, key |-> b.key, content |-> b.content]
      <4>1. b.at = 21
        BY <3>2
      <4> QED
        BY <2>2, <4>1
    <3> QED
      BY <2>2, <3>1, <3>2 DEF Fits
  <2>3. Good(builder'[q])
    BY <1>4, <2>1, <2>2
  <2> QED
    BY <1>5, <2>3
<1> QED
  BY <1>3, <1>6, <1>7 DEF SourceInv, Good

\* Once everything was looked at, the present is an instant that agrees with it.
LEMMA InstantBegins ==
  ASSUME Clocks, NEW c, c \in Works, c.at = 9, Done(c), Dated(c), Snapshot \in c.past
  PROVE  Seen(c)
<1>1. \A x \in Places \cup Directories : 9 > InspectedAt(x) /\ ~ (9 > RecheckedAt(x))
  BY DEF Places, Directories, InspectedAt, RecheckedAt
<1>2. \A place \in Places : 9 > ListedAt(place)
  BY DEF Places, ListedAt
<1>3. /\ stamp \in [Directories -> Int] /\ time \in [Files -> Int]
      /\ c.times \in [Places \cup Directories -> Int]
      /\ c.files \in [Places -> Files \cup {Absent}] /\ source \in [Places -> Files \cup {Absent}]
  BY DEF Clocks, Works, Times, Trees
<1>4. /\ Snapshot.files = source
      /\ \A d \in Directories : Snapshot.times[d] = stamp[d]
      /\ \A place \in Places :
            Snapshot.times[place] = IF source[place] = Absent THEN 0 ELSE time[source[place]]
  <2>1. Places \cap Directories = {}
    BY DEF Places, Directories
  <2> QED
    BY <2>1 DEF Snapshot
<1>5. \A place \in Places : DirOf(place) \in Directories
  BY DEF DirOf, Places, Directories
<1>6. \A d \in Directories : c.times[d] <= Snapshot.times[d] /\ Snapshot.times[d] <= stamp[d]
  BY <1>1, <1>3, <1>4 DEF Dated
<1>7. \A place \in Places :
         Snapshot.times[DirOf(place)] = c.times[DirOf(place)] =>
           Snapshot.files[place] = c.files[place]
  BY <1>2, <1>4, <1>5 DEF Dated
<1>8. \A place \in Places :
         Snapshot.files[place] = c.files[place] =>
             IF c.files[place] = Absent THEN Snapshot.times[place] = c.times[place]
             ELSE /\ c.times[place] <= Snapshot.times[place]
                  /\ Snapshot.times[place] <= time[c.files[place]]
  BY <1>1, <1>3, <1>4 DEF Dated, Done
<1>9. Instant(c, Snapshot)
  BY <1>1, <1>6, <1>7, <1>8 DEF Instant
<1> QED
  BY <1>9 DEF Seen

\* The instant stays one as the builder goes on, and agrees with what is looked at again.
LEMMA InstantStays ==
  ASSUME Clocks, NEW b, NEW c, b \in Works, Seen(b), b.at \in 9..18, c.at = b.at + 1,
         c.files = b.files, c.times = b.times, c.past = b.past,
         \A x \in Places \cup Directories :
             RecheckedAt(x) = b.at =>
                 IF x \in Directories THEN stamp[x] = b.times[x]
                 ELSE b.files[x] # Absent => time[b.files[x]] = b.times[x]
  PROVE  Seen(c)
<1>1. PICK s \in b.past : Instant(b, s)
  BY DEF Seen
<1>2. /\ stamp \in [Directories -> Int] /\ time \in [Files -> Int]
      /\ b.times \in [Places \cup Directories -> Int]
      /\ b.files \in [Places -> Files \cup {Absent}]
      /\ s.times \in [Places \cup Directories -> Int]
  BY <1>1 DEF Clocks, Works, Times, Trees, Keys
<1>3. \A x \in Places \cup Directories : RecheckedAt(x) \in Int
  BY DEF RecheckedAt
<1>4. ASSUME NEW x \in Places \cup Directories, RecheckedAt(x) = b.at
      PROVE  s.times[x] = b.times[x]
  <2>1. CASE x \in Directories
    BY <1>1, <1>2, <1>4, <2>1 DEF Instant
  <2>2. CASE x \notin Directories
    <3>1. x \in Places /\ DirOf(x) \in Directories /\ b.at > RecheckedAt(DirOf(x))
      BY <1>4, <2>2 DEF Places, Directories, DirOf, RecheckedAt
    <3>2. s.files[x] = b.files[x]
      BY <1>1, <3>1 DEF Instant
    <3> QED
      BY <1>1, <1>2, <1>4, <2>2, <3>1, <3>2 DEF Instant
  <2> QED
    BY <2>1, <2>2
<1>5. \A x \in Places \cup Directories : c.at > RecheckedAt(x) => s.times[x] = c.times[x]
  BY <1>1, <1>3, <1>4 DEF Instant
<1>6. Instant(c, s)
  BY <1>1, <1>5 DEF Instant
<1> QED
  BY <1>1, <1>6 DEF Seen

\* A builder begins with nothing read.
LEMMA BeginFits ==
  ASSUME MaxChanges \in Nat, SourceInv, NEW p \in Builders, Begins(p)
  PROVE  SourceInv'
<1> DEFINE c == [at |-> 1, binary |-> source["main"], opened |-> {}, mode |-> "Link",
                 files |-> [place \in Places |-> Absent],
                 times |-> [x \in Places \cup Directories |-> 0],
                 placed |-> [place \in Places |-> -1], past |-> {Snapshot}]
<1>1. source["main"] \in Files /\ Turns(p, c) /\ UNCHANGED <<Update, published>>
  BY DEF Begins, SourceInv, Clocks, Trees, Places
<1>2. Snapshot \in Keys
  BY SnapshotIsAKey DEF SourceInv
<1>3. c \in Works
  <2>1. 0 \in Times /\ -1 \in {-1} \cup Times
    BY DEF Times
  <2> HIDE DEF Keys, Times, Files, Places, Directories
  <2>2. c.files \in Trees /\ c.times \in [Places \cup Directories -> Times] /\ c.placed \in Copies
    BY <2>1 DEF Trees, Copies
  <2>3. {Snapshot} \in SUBSET Keys
    BY <1>2
  <2> QED
    BY <1>1, <2>2, <2>3 DEF Works
<1>4. \A x \in Places \cup Directories : ~ (1 > InspectedAt(x))
  BY DEF InspectedAt
<1>5. \A place \in Places : ~ (1 > OpenedAt(place)) /\ ~ (1 > PutAt(place))
      /\ ~ (1 > ListedAt(place))
  BY DEF OpenedAt, PutAt, ListedAt
<1>6. Done(c)
  BY <1>5 DEF Done
<1>7. Dated(c) /\ CopiesHeld(c) /\ Seen(c)
  BY <1>4, <1>5 DEF Dated, CopiesHeld, Seen
<1> QED
  BY <1>1, <1>3, <1>6, <1>7, TurnKeeps DEF Fits, Good

\* A builder that works is one of Works and knows what its place tells.
LEMMA WorkIsGood ==
  ASSUME SourceInv, NEW p \in Builders, Working(p)
  PROVE  builder[p] \in Works /\ builder[p].at \in 1..20 /\ Good(builder[p])
<1>1. builder[p].at \in 1..20
  BY ProgramIs DEF Working
<1>2. builder[p] # Idle
  BY <1>1 DEF Idle
<1>3. builder[p] # [at |-> 21, key |-> builder[p].key, content |-> builder[p].content]
  <2> SUFFICES ASSUME builder[p] = [at |-> 21, key |-> builder[p].key,
                                            content |-> builder[p].content]
               PROVE  FALSE
    OBVIOUS
  <2>1. builder[p].at = 21
    OBVIOUS
  <2> QED
    BY <1>1, <2>1
<1> QED
  BY <1>1, <1>2, <1>3 DEF SourceInv, BuilderShapes, Good

\* Nothing at a place.
LEMMA PassFits ==
  ASSUME SourceInv, NEW p \in Builders, Passes(p)
  PROVE  SourceInv'
<1> DEFINE b == builder[p]
           n == b.at
           c == [b EXCEPT !.at = @ + 1]
<1>1. /\ b \in Works /\ n \in 1..20 /\ Good(b)
      /\ Where(p) \in Places /\ b.files[Where(p)] = Absent
      /\ Turns(p, c) /\ UNCHANGED <<Update, published>>
  BY WorkIsGood DEF Passes, At, Present, Then
<1>2. \/ n \in {3, 4, 11, 15} /\ Where(p) = "main"
      \/ n \in {7, 8, 10, 14} /\ Where(p) = "lib"
  BY <1>1, ProgramIs DEF Passes, At, Where, Places
<1>3. /\ c \in Works /\ c.at = n + 1 /\ c.opened = b.opened /\ c.files = b.files
      /\ c.times = b.times /\ c.placed = b.placed /\ c.past = b.past
  BY <1>1, <1>2 DEF Works
<1>4. \A place \in Places : place # Where(p) =>
         /\ c.at > OpenedAt(place) <=> n > OpenedAt(place)
         /\ c.at > InspectedAt(place) <=> n > InspectedAt(place)
         /\ c.at > PutAt(place) <=> n > PutAt(place)
  BY <1>2, <1>3 DEF Places, OpenedAt, InspectedAt, PutAt
<1>5. /\ \A place \in Places : /\ c.at <= ListedAt(place) <=> n <= ListedAt(place)
                               /\ c.at > ListedAt(place) <=> n > ListedAt(place)
      /\ \A d \in Directories : c.at > InspectedAt(d) <=> n > InspectedAt(d)
      /\ c.at <= 19 <=> n <= 19
  BY <1>2, <1>3 DEF Places, Directories, ListedAt, InspectedAt
<1>6. Done(c)
  BY <1>1, <1>3, <1>4, <1>5 DEF Good, Done
<1>7. Dated(c)
  BY <1>1, <1>3, <1>4, <1>5 DEF Good, Dated
<1>8. CopiesHeld(c)
  BY <1>1, <1>3, <1>4 DEF Good, CopiesHeld, CopyOf
<1>9. Snapshot \in c.past
  BY <1>1, <1>3 DEF Good, Seen
<1>10. Seen(c)
  <2>1. CASE n \in {3, 4, 7}
    BY <1>3, <1>9, <2>1 DEF Seen
  <2> HIDE DEF c
  <2>2. CASE n = 8
    BY <1>3, <1>6, <1>7, <1>9, <2>2, InstantBegins DEF SourceInv
  <2>3. CASE n \in {10, 11, 14, 15}
    <3>1. \A x \in Places \cup Directories :
             RecheckedAt(x) = n => x = Where(p) /\ x \notin Directories
      BY <1>2, <2>3 DEF RecheckedAt, Places, Directories
    <3>2. Clocks /\ Seen(b) /\ n \in 9..18
      BY <1>1, <2>3 DEF SourceInv, Good
    <3> QED
      BY <1>1, <1>3, <3>1, <3>2, InstantStays
  <2> QED
    BY <1>2, <2>1, <2>2, <2>3
<1> QED
  BY <1>1, <1>3, <1>6, <1>7, <1>8, <1>10, TurnKeeps DEF Fits, Good

\* The metadata of a directory or of a file.
LEMMA InspectFits ==
  ASSUME SourceInv, NEW p \in Builders, Inspects(p)
  PROVE  SourceInv'
<1> DEFINE b == builder[p]
           n == b.at
           x == Where(p)
           read == TimeOf(b, x)
           c == [[b EXCEPT !.times[x] = read] EXCEPT !.at = @ + 1]
<1>1. /\ b \in Works /\ n \in 1..20 /\ Good(b)
      /\ Turns(p, c) /\ UNCHANGED <<Update, published>>
      /\ x \in Directories \cup Present(b)
  BY WorkIsGood DEF Inspects, At, Then, Here
<1>2. \/ (n = 1 /\ x = "root") \/ (n = 4 /\ x = "main")
      \/ (n = 5 /\ x = "deep") \/ (n = 8 /\ x = "lib")
  BY <1>1, ProgramIs DEF Inspects, At, Where
<1>3. /\ x \in Places \cup Directories /\ read \in Times
      /\ x \in Directories => read = stamp[x]
      /\ x \notin Directories => /\ x \in Places /\ b.files[x] # Absent /\ b.files[x] \in Files
                                 /\ read = time[b.files[x]]
  <2>1. CASE x \in Directories
    BY <2>1 DEF TimeOf, SourceInv, Clocks
  <2>2. CASE x \notin Directories
    <3>1. x \in Places /\ b.files[x] # Absent /\ b.files[x] \in Files
      BY <1>1, <2>2 DEF Present, Works, Trees
    <3> QED
      BY <2>2, <3>1 DEF TimeOf, SourceInv, Clocks
  <2> QED
    BY <2>1, <2>2
<1>4. /\ c.at = n + 1 /\ c.opened = b.opened /\ c.files = b.files
      /\ c.times = [b.times EXCEPT ![x] = read] /\ c.placed = b.placed /\ c.past = b.past
      /\ c \in Works
  <2>1. b.times \in [Places \cup Directories -> Times] /\ n + 1 \in 1..20
    BY <1>1, <1>2 DEF Works
  <2>2. [b.times EXCEPT ![x] = read] \in [Places \cup Directories -> Times]
    BY <1>3, <2>1
  <2> HIDE DEF x, read
  <2> QED
    BY <1>1, <2>1, <2>2 DEF Works
<1>5. b.times \in [Places \cup Directories -> Int] /\ stamp \in [Directories -> Int]
      /\ time \in [Files -> Int]
  BY <1>1 DEF Works, SourceInv, Clocks, Times
<1>6. \A y \in Places \cup Directories : c.times[y] = IF y = x THEN read ELSE b.times[y]
  BY <1>3, <1>4, <1>5
<1>7. /\ \A y \in Places \cup Directories :
            y # x => (c.at > InspectedAt(y) <=> n > InspectedAt(y))
      /\ \A place \in Places : /\ c.at <= ListedAt(place) <=> n <= ListedAt(place)
                               /\ c.at > ListedAt(place) <=> n > ListedAt(place)
                               /\ DirOf(place) = x => ~ (c.at > ListedAt(place))
                               /\ c.at > OpenedAt(place) <=> n > OpenedAt(place)
                               /\ ~ (c.at > PutAt(place))
                               /\ DirOf(place) \in Directories
  BY <1>2, <1>4 DEF Places, Directories, OpenedAt, InspectedAt, PutAt, ListedAt, DirOf
<1> HIDE DEF x, read, c, n, b
<1>8. Done(c)
  <2>1. \A place \in Places : b.files[place] = Absent => place # x
    BY <1>3 DEF Places, Directories
  <2> QED
    BY <1>1, <1>4, <1>6, <1>7, <2>1 DEF Good, Done, n
<1>9. Dated(c)
  <2>1. \A d \in Directories : c.at > InspectedAt(d) => c.times[d] <= stamp[d]
    BY <1>1, <1>3, <1>4, <1>5, <1>6, <1>7 DEF Good, Dated, n
  <2>2. \A place \in Places :
          c.at > InspectedAt(place) /\ c.files[place] # Absent =>
            c.times[place] <= time[c.files[place]]
    BY <1>1, <1>3, <1>4, <1>5, <1>6, <1>7 DEF Good, Dated, n, Places, Directories
  <2>3. \A place \in Places :
          (c.at > ListedAt(place) /\ stamp[DirOf(place)] = c.times[DirOf(place)]) =>
                source[place] = c.files[place]
    BY <1>1, <1>4, <1>6, <1>7 DEF Good, Dated, n
  <2> QED
    BY <2>1, <2>2, <2>3 DEF Dated
<1>10. CopiesHeld(c)
  <2> SUFFICES ASSUME NEW key \in DOMAIN published, NEW place \in Places,
                      CopyOf(key, place), c.at > InspectedAt(place),
                      key.files[place] = c.files[place], key.times[place] = c.times[place]
               PROVE  published[key].copies[place] = content[key.files[place]]
    BY DEF CopiesHeld
  <2>1. CASE place = x
    <3>1. place \notin Directories
      BY DEF Places, Directories
    <3>2. key.times[place] = time[key.files[place]]
      BY <1>3, <1>4, <1>6, <2>1, <3>1
    <3> QED
      BY <3>2 DEF SourceInv, CopiesDated
  <2>2. CASE place # x
    BY <1>1, <1>4, <1>6, <1>7, <2>2 DEF Good, CopiesHeld, n
  <2> QED
    BY <2>1, <2>2
<1>11. Seen(c)
  <2>1. Snapshot \in c.past
    BY <1>1, <1>4 DEF Good, Seen
  <2>2. CASE n = 8
    BY <1>4, <1>8, <1>9, <2>1, <2>2, InstantBegins DEF SourceInv
  <2>3. CASE n # 8
    BY <1>2, <1>4, <2>1, <2>3 DEF Seen
  <2> QED
    BY <2>2, <2>3
<1> QED
  BY <1>1, <1>4, <1>8, <1>9, <1>10, <1>11, TurnKeeps DEF Fits, Good

\* The entry of a directory, as it is listed.
LEMMA ListFits ==
  ASSUME SourceInv, NEW p \in Builders, Lists(p)
  PROVE  SourceInv'
<1> DEFINE b == builder[p]
           n == b.at
           x == Where(p)
           c == [[b EXCEPT !.files[x] = source[x]] EXCEPT !.at = @ + 1]
<1>1. /\ b \in Works /\ n \in 1..20 /\ Good(b)
      /\ Turns(p, c) /\ UNCHANGED <<Update, published>>
  BY WorkIsGood DEF Lists, At, Then
<1>2. (n = 2 /\ x = "main") \/ (n = 6 /\ x = "lib")
  BY <1>1, ProgramIs DEF Lists, At, Where
<1>3. x \in Places /\ source[x] \in Files \cup {Absent}
  BY <1>2 DEF Places, SourceInv, Clocks, Trees
<1>4. /\ c.at = n + 1 /\ c.opened = b.opened /\ c.files = [b.files EXCEPT ![x] = source[x]]
      /\ c.times = b.times /\ c.placed = b.placed /\ c.past = b.past
      /\ c \in Works
  <2>1. b.files \in [Places -> Files \cup {Absent}] /\ n + 1 \in 1..20
    BY <1>1, <1>2 DEF Works, Trees
  <2>2. [b.files EXCEPT ![x] = source[x]] \in Trees
    BY <1>3, <2>1 DEF Trees
  <2> HIDE DEF x
  <2> QED
    BY <1>1, <2>1, <2>2 DEF Works
<1>5. \A y \in Places : c.files[y] = IF y = x THEN source[x] ELSE b.files[y]
  BY <1>1, <1>3, <1>4 DEF Works, Trees
<1>6. \A place \in Places :
         /\ place # x => /\ c.at > OpenedAt(place) <=> n > OpenedAt(place)
                         /\ c.at <= ListedAt(place) <=> n <= ListedAt(place)
                         /\ c.at > ListedAt(place) <=> n > ListedAt(place)
                         /\ c.at > InspectedAt(place) <=> n > InspectedAt(place)
         /\ place = x => /\ ~ (c.at > OpenedAt(place)) /\ ~ (n > OpenedAt(place))
                         /\ ~ (c.at > InspectedAt(place)) /\ n <= ListedAt(place)
                         /\ ~ (c.at <= ListedAt(place))
         /\ ~ (c.at > PutAt(place))
  BY <1>2, <1>4 DEF Places, OpenedAt, InspectedAt, PutAt, ListedAt
<1>7. \A d \in Directories : c.at > InspectedAt(d) <=> n > InspectedAt(d)
  BY <1>2, <1>4 DEF Directories, InspectedAt
<1> HIDE DEF c
<1>8. Done(c)
  BY <1>1, <1>4, <1>5, <1>6 DEF Good, Done
<1>9. Dated(c)
  BY <1>1, <1>4, <1>5, <1>6, <1>7 DEF Good, Dated
<1>10. CopiesHeld(c)
  BY <1>1, <1>4, <1>5, <1>6 DEF Good, CopiesHeld, CopyOf
<1>11. Seen(c)
  BY <1>1, <1>2, <1>4 DEF Good, Seen
<1> QED
  BY <1>1, <1>4, <1>8, <1>9, <1>10, <1>11, TurnKeeps DEF Fits, Good, c

\* What was listed is opened.
LEMMA OpenFits ==
  ASSUME SourceInv, NEW p \in Builders, Opens(p)
  PROVE  SourceInv'
<1> DEFINE b == builder[p]
           n == b.at
           x == Where(p)
           c == [[b EXCEPT !.opened = @ \cup {x}] EXCEPT !.at = @ + 1]
<1>1. /\ b \in Works /\ n \in 1..20 /\ Good(b)
      /\ Turns(p, c) /\ UNCHANGED <<Update, published>>
      /\ x \in Directories \cup Present(b)
  BY WorkIsGood DEF Opens, At, Then, Here
<1>2. (n = 3 /\ x = "main") \/ (n = 7 /\ x = "lib")
  BY <1>1, ProgramIs DEF Opens, At, Where
<1>3. x \in Places /\ b.files[x] # Absent
  BY <1>1, <1>2 DEF Places, Directories, Present
<1>4. /\ c.at = n + 1 /\ c.opened = b.opened \cup {x} /\ c.files = b.files
      /\ c.times = b.times /\ c.placed = b.placed /\ c.past = b.past
      /\ c \in Works
  <2>1. n + 1 \in 1..20
    BY <1>2
  <2> HIDE DEF x
  <2> QED
    BY <1>1, <1>3, <2>1 DEF Works
<1>5. \A place \in Places :
         /\ place # x => (c.at > OpenedAt(place) <=> n > OpenedAt(place))
         /\ place = x => c.at > OpenedAt(place)
         /\ n > OpenedAt(place) => c.at > OpenedAt(place)
         /\ c.at <= ListedAt(place) <=> n <= ListedAt(place)
         /\ c.at > ListedAt(place) <=> n > ListedAt(place)
         /\ c.at > InspectedAt(place) <=> n > InspectedAt(place)
         /\ ~ (c.at > PutAt(place))
  BY <1>2, <1>4 DEF Places, OpenedAt, InspectedAt, PutAt, ListedAt
<1>6. \A d \in Directories : c.at > InspectedAt(d) <=> n > InspectedAt(d)
  BY <1>2, <1>4 DEF Directories, InspectedAt
<1> HIDE DEF c
<1>7. Done(c)
  BY <1>1, <1>3, <1>4, <1>5 DEF Good, Done
<1>8. Dated(c)
  BY <1>1, <1>4, <1>5, <1>6 DEF Good, Dated
<1>9. CopiesHeld(c)
  BY <1>1, <1>4, <1>5 DEF Good, CopiesHeld, CopyOf
<1>10. Seen(c)
  BY <1>1, <1>2, <1>4 DEF Good, Seen
<1> QED
  BY <1>1, <1>4, <1>7, <1>8, <1>9, <1>10, TurnKeeps DEF Fits, Good, c

\* From the name of the mirror on, what was read stays.
LEMMA LaterFits ==
  ASSUME SourceInv, NEW p \in Builders, Working(p), builder[p].at \in 9..20, NEW c, c \in Works,
         c.at \in 9..20, c.opened = builder[p].opened, c.files = builder[p].files,
         c.times = builder[p].times, c.past = builder[p].past
  PROVE  /\ Dated(c) /\ CopiesHeld(c) /\ Snapshot \in c.past
         /\ (c.at <= 19 =>
                \A place \in Places : (c.at > PutAt(place) /\ c.files[place] # Absent) =>
                    c.placed[place] = content[c.files[place]])
            => Done(c)
<1> DEFINE b == builder[p]
<1>1. b \in Works /\ Good(b)
  BY WorkIsGood
<1>2. \A place \in Places : /\ c.at > OpenedAt(place) /\ b.at > OpenedAt(place)
                            /\ c.at > ListedAt(place) /\ b.at > ListedAt(place)
                            /\ ~ (c.at <= ListedAt(place))
                            /\ c.at > InspectedAt(place) /\ b.at > InspectedAt(place)
  BY DEF Places, OpenedAt, ListedAt, InspectedAt
<1>3. \A d \in Directories : c.at > InspectedAt(d) /\ b.at > InspectedAt(d)
  BY DEF Directories, InspectedAt
<1>4. Dated(c)
  BY <1>1, <1>2, <1>3 DEF Good, Dated
<1>5. CopiesHeld(c)
  BY <1>1, <1>2 DEF Good, CopiesHeld, CopyOf
<1>6. Snapshot \in c.past
  BY <1>1 DEF Good, Seen
<1> QED
  BY <1>1, <1>2, <1>4, <1>5, <1>6 DEF Good, Done

\* A mirror of this name is used, or a staging directory is filled.
LEMMA NameFits ==
  ASSUME SourceInv, NEW p \in Builders, Names(p)
  PROVE  SourceInv'
<1> DEFINE b == builder[p]
<1>1. /\ b \in Works /\ b.at = 9 /\ Good(b) /\ Working(p)
      /\ UNCHANGED <<Update, published>>
      /\ \/ Turns(p, [b EXCEPT !.at = 20])
         \/ Turns(p, [b EXCEPT !.at = @ + 1])
  BY WorkIsGood, ProgramIs, Jumps DEF Names, At, Then, GoesTo
<1>2. ASSUME NEW c, c = [b EXCEPT !.at = 20] \/ c = [b EXCEPT !.at = @ + 1] PROVE Fits(c)
  <2>1. /\ c \in Works /\ c.at \in {10, 20} /\ c.opened = b.opened /\ c.files = b.files
        /\ c.times = b.times /\ c.placed = b.placed /\ c.past = b.past
    BY <1>1, <1>2 DEF Works
  <2>2. \A place \in Places : c.at <= 19 => ~ (c.at > PutAt(place))
    BY <2>1 DEF Places, PutAt
  <2>3. Done(c) /\ Dated(c) /\ CopiesHeld(c) /\ Snapshot \in c.past
    BY <1>1, <2>1, <2>2, LaterFits
  <2>4. Seen(c)
    <3>1. CASE c.at = 20
      BY <2>3, <3>1 DEF Seen
    <3>2. CASE c.at = 10
      <4>1. \A x \in Places \cup Directories : RecheckedAt(x) # 9
        BY DEF Places, Directories, RecheckedAt
      <4> HIDE DEF b
      <4> QED
        BY <1>1, <2>1, <3>2, <4>1, InstantStays DEF SourceInv, Good
    <3> QED
      BY <2>1, <3>1, <3>2
  <2> QED
    BY <2>1, <2>3, <2>4 DEF Fits, Good
<1> QED
  BY <1>1, <1>2, TurnKeeps

\* A file is linked or copied: what is in it is what it is opened with.
LEMMA PutFits ==
  ASSUME SourceInv, NEW p \in Builders, Puts(p)
  PROVE  SourceInv'
<1> DEFINE b == builder[p]
           x == Where(p)
           put == content[b.files[x]]
           c == [[b EXCEPT !.placed[x] = put] EXCEPT !.at = @ + 1]
<1>1. /\ b \in Works /\ b.at \in 1..20 /\ Good(b) /\ Working(p)
      /\ Turns(p, c) /\ UNCHANGED <<Update, published>>
      /\ x \in Directories \cup Present(b)
  BY WorkIsGood DEF Puts, At, Then, Here
<1>2. (b.at = 10 /\ x = "lib") \/ (b.at = 11 /\ x = "main")
  BY <1>1, ProgramIs DEF Puts, At, Where
<1>3. x \in Places /\ b.files[x] # Absent /\ b.files[x] \in Files
  BY <1>1, <1>2 DEF Places, Directories, Present, Works, Trees
<1>4. put \in Times
  BY <1>3 DEF SourceInv, Clocks
<1>5. /\ c.at = b.at + 1 /\ c.opened = b.opened /\ c.files = b.files
      /\ c.times = b.times /\ c.placed = [b.placed EXCEPT ![x] = put] /\ c.past = b.past
      /\ c \in Works
  <2>1. b.placed \in [Places -> {-1} \cup Times] /\ b.at + 1 \in 1..20
    BY <1>1, <1>2 DEF Works, Copies
  <2>2. [b.placed EXCEPT ![x] = put] \in Copies
    BY <1>3, <1>4, <2>1 DEF Copies
  <2> HIDE DEF x, put
  <2> QED
    BY <1>1, <2>1, <2>2 DEF Works
<1>6. \A y \in Places : c.placed[y] = IF y = x THEN put ELSE b.placed[y]
  BY <1>1, <1>3, <1>5 DEF Works, Copies
<1>7. \A place \in Places : place # x => (c.at > PutAt(place) <=> b.at > PutAt(place))
  BY <1>2, <1>5 DEF Places, PutAt
<1> HIDE DEF c
<1>8. \A place \in Places : (c.at > PutAt(place) /\ c.files[place] # Absent) =>
                               c.placed[place] = content[c.files[place]]
  BY <1>1, <1>2, <1>5, <1>6, <1>7 DEF Good, Done
<1>9. Done(c) /\ Dated(c) /\ CopiesHeld(c)
  <2>1. b.at \in 9..20 /\ c.at \in 9..20
    BY <1>2, <1>5
  <2> QED
    BY <1>1, <1>5, <1>8, <2>1, LaterFits
<1>10. Seen(c)
  <2>1. \A y \in Places \cup Directories : RecheckedAt(y) # b.at
    BY <1>2 DEF Places, Directories, RecheckedAt
  <2> HIDE DEF b
  <2> QED
    BY <1>1, <1>2, <1>5, <2>1, InstantStays DEF SourceInv, Good
<1> QED
  BY <1>1, <1>5, <1>9, <1>10, TurnKeeps DEF Fits, Good, c

\* The links are denied, and everything is copied.
LEMMA DenyFits ==
  ASSUME SourceInv, NEW p \in Builders, Denied(p)
  PROVE  SourceInv'
<1> DEFINE b == builder[p]
           c == [b EXCEPT !.mode = "Copy", !.at = 10, !.placed = [place \in Places |-> -1]]
<1>1. /\ b \in Works /\ b.at \in {10, 11} /\ Good(b) /\ Working(p)
      /\ Turns(p, c) /\ UNCHANGED <<Update, published>>
  BY WorkIsGood, ProgramIs, Jumps DEF Denied, At
<1>2. /\ c.at = 10 /\ c.opened = b.opened /\ c.files = b.files /\ c.times = b.times
      /\ c.past = b.past /\ c \in Works
  <2> DEFINE none == [place \in Places |-> -1]
  <2>1. none \in Copies
    BY DEF Copies
  <2>2. b \in Works /\ c = [[[b EXCEPT !.mode = "Copy"] EXCEPT !.at = 10] EXCEPT !.placed = none]
    BY <1>1
  <2> HIDE DEF none, b, c
  <2>3. /\ c.at = 10 /\ c.opened = b.opened /\ c.files = b.files /\ c.times = b.times
        /\ c.past = b.past
    BY <2>2 DEF Works
  <2>4. c \in Works
    <3>1. \A d \in Works : [d EXCEPT !.mode = "Copy"] \in Works
      BY DEF Works
    <3>2. \A d \in Works : [d EXCEPT !.at = 10] \in Works
      BY DEF Works
    <3>3. \A d \in Works : [d EXCEPT !.placed = none] \in Works
      BY <2>1 DEF Works
    <3> HIDE DEF Works
    <3> QED
      BY <2>2, <3>1, <3>2, <3>3
  <2> QED
    BY <2>3, <2>4
<1> HIDE DEF c
<1>3. \A place \in Places : ~ (10 > PutAt(place))
  BY DEF Places, PutAt
<1>4. Done(c) /\ Dated(c) /\ CopiesHeld(c) /\ Snapshot \in c.past
  BY <1>1, <1>2, <1>3, LaterFits
<1>5. Seen(c)
  <2>1. PICK s \in b.past : Instant(b, s)
    BY <1>1 DEF Good, Seen
  <2>2. \A x \in Places \cup Directories : ~ (10 > RecheckedAt(x))
    BY DEF Places, Directories, RecheckedAt
  <2>3. Instant(c, s)
    BY <1>2, <2>1, <2>2 DEF Instant
  <2> QED
    BY <1>2, <1>4, <2>1, <2>3 DEF Seen
<1> QED
  BY <1>1, <1>2, <1>4, <1>5, TurnKeeps DEF Fits, Good, c

\* A look that finds nothing changed, and the next step.
LEMMA LookFits ==
  ASSUME SourceInv, NEW p \in Builders, Rechecks(p) \/ Compares(p) \/ Validates(p)
  PROVE  SourceInv'
<1> DEFINE b == builder[p]
           c == [b EXCEPT !.at = @ + 1]
<1>1. /\ b \in Works /\ b.at \in 1..20 /\ Good(b) /\ Working(p)
      /\ Turns(p, c) /\ UNCHANGED <<Update, published>>
  BY WorkIsGood DEF Rechecks, Compares, Validates, At, Then
<1>2. /\ b.at \in {12, 13, 14, 15, 16, 17, 19}
      /\ \A x \in Places \cup Directories :
            RecheckedAt(x) = b.at => x = Where(p) /\ Rechecks(p)
  <2>1. CASE Rechecks(p)
    <3>1. \/ (b.at = 12 /\ Where(p) = "root") \/ (b.at = 13 /\ Where(p) = "deep")
          \/ (b.at = 14 /\ Where(p) = "lib") \/ (b.at = 15 /\ Where(p) = "main")
      BY <1>1, <2>1, ProgramIs DEF Rechecks, At, Where
    <3> QED
      BY <2>1, <3>1 DEF RecheckedAt, Places, Directories
  <2>2. CASE Compares(p) \/ Validates(p)
    <3>1. b.at \in {16, 17, 19}
      BY <1>1, <2>2, ProgramIs DEF Compares, Validates, At
    <3> QED
      BY <3>1 DEF RecheckedAt, Places, Directories
  <2> QED
    BY <2>1, <2>2
<1>3. /\ c.at = b.at + 1 /\ c.opened = b.opened /\ c.files = b.files
      /\ c.times = b.times /\ c.placed = b.placed /\ c.past = b.past /\ c \in Works
  BY <1>1, <1>2 DEF Works
<1>4. \A place \in Places : b.at > PutAt(place)
  BY <1>2 DEF Places, PutAt
<1>5. \A place \in Places : (c.at <= 19 /\ c.files[place] # Absent) =>
                               c.placed[place] = content[c.files[place]]
  BY <1>1, <1>2, <1>3, <1>4 DEF Good, Done
<1> HIDE DEF c
<1>6. Done(c) /\ Dated(c) /\ CopiesHeld(c) /\ Snapshot \in c.past
  BY <1>1, <1>2, <1>3, <1>5, LaterFits
<1>7. Seen(c)
  <2>1. CASE b.at = 19
    BY <1>3, <1>6, <2>1 DEF Seen
  <2>2. CASE b.at # 19
    <3>1. \A x \in Places \cup Directories :
             RecheckedAt(x) = b.at =>
                 IF x \in Directories THEN stamp[x] = b.times[x]
                 ELSE b.files[x] # Absent => time[b.files[x]] = b.times[x]
      BY <1>2 DEF Rechecks, TimeOf
    <3> HIDE DEF b
    <3> QED
      BY <1>1, <1>2, <1>3, <2>2, <3>1, InstantStays DEF SourceInv, Good
  <2> QED
    BY <2>1, <2>2
<1> QED
  BY <1>1, <1>3, <1>6, <1>7, TurnKeeps DEF Fits, Good, c

\* A staging directory is published under a name that nobody has, or what is there is used.
LEMMA PublishFits ==
  ASSUME SourceInv, NEW p \in Builders, Publishes(p)
  PROVE  SourceInv'
<1> DEFINE b == builder[p]
           key == KeyOf(b)
           new == [mode |-> b.mode, copies |-> b.placed, by |-> p]
<1>1. /\ b \in Works /\ b.at = 18 /\ Good(b) /\ Working(p)
      /\ UNCHANGED Update
  BY WorkIsGood, ProgramIs DEF Publishes, At
<1>2. \A place \in Places : b.at > PutAt(place) /\ b.at > InspectedAt(place)
  BY <1>1 DEF Places, PutAt, InspectedAt
<1>3. \A place \in Places : b.files[place] # Absent => b.placed[place] = content[b.files[place]]
  BY <1>1, <1>2 DEF Good, Done
<1>4. CASE key \in DOMAIN published
  <2> DEFINE c == [b EXCEPT !.at = 20]
  <2>1. Turns(p, c) /\ UNCHANGED published
    BY <1>4, Jumps DEF Publishes, GoesTo
  <2>2. /\ c \in Works /\ c.at = 20 /\ c.opened = b.opened /\ c.files = b.files
        /\ c.times = b.times /\ c.placed = b.placed /\ c.past = b.past
    BY <1>1 DEF Works
  <2> HIDE DEF c
  <2>3. Done(c) /\ Dated(c) /\ CopiesHeld(c) /\ Snapshot \in c.past
    BY <1>1, <2>2, LaterFits
  <2>4. Seen(c)
    BY <2>2, <2>3 DEF Seen
  <2> QED
    BY <1>1, <2>1, <2>2, <2>3, <2>4, TurnKeeps DEF Fits, Good
<1>5. CASE key \notin DOMAIN published
  <2> DEFINE c == [b EXCEPT !.at = @ + 1]
  <2>1. /\ published' = [k \in DOMAIN published \cup {key} |->
                           IF k = key THEN new ELSE published[k]]
        /\ builder' = [builder EXCEPT ![p] = c]
    BY <1>5 DEF Publishes, Then, Turns
  <2>2. /\ source' = source /\ content' = content /\ time' = time /\ stamp' = stamp
        /\ earlier' = earlier /\ changes' = changes
    BY <1>1 DEF Update
  <2>3. /\ c \in Works /\ c.at = 19 /\ c.opened = b.opened /\ c.files = b.files
        /\ c.times = b.times /\ c.placed = b.placed /\ c.past = b.past
    BY <1>1 DEF Works
  <2>4. /\ key \in Keys /\ key.files = b.files /\ key.times = b.times
        /\ new \in [mode : {"Link", "Copy"}, copies : Copies, by : Builders]
        /\ new.copies = b.placed
    BY <1>1 DEF KeyOf, Keys, Works
  <2> HIDE DEF c, key, new
  <2>5. /\ DOMAIN published' = DOMAIN published \cup {key}
        /\ published'[key] = new
        /\ \A k \in DOMAIN published : published'[k] = published[k]
    BY <1>5, <2>1
  <2>6. Clocks' /\ Catalog'
    <3>1. published' = [k \in DOMAIN published' |-> published'[k]]
      BY <2>1
    <3> QED
      BY <2>2, <2>4, <2>5, <3>1 DEF SourceInv, Clocks, Catalog
  <2>7. CopiesDated'
    <3> SUFFICES ASSUME NEW k \in DOMAIN published', NEW place \in Places, CopyOf(k, place)'
                 PROVE  /\ k.times[place] <= time[k.files[place]]
                        /\ k.times[place] = time[k.files[place]] =>
                              published'[k].copies[place] = content[k.files[place]]
      BY <2>2 DEF CopiesDated
    <3>1. CASE k = key
      BY <1>1, <1>2, <1>3, <2>4, <2>5, <3>1 DEF CopyOf, Good, Dated
    <3>2. CASE k # key
      <4>1. k \in DOMAIN published /\ CopyOf(k, place) /\ published'[k] = published[k]
        BY <2>5, <3>2 DEF CopyOf
      <4> QED
        BY <4>1 DEF SourceInv, CopiesDated
    <3> QED
      BY <3>1, <3>2
  <2>8. builder'[p] = c /\ \A q \in Builders \ {p} : builder'[q] = builder[q]
    BY <2>1 DEF SourceInv, BuilderShapes
  <2>9. BuilderShapes'
    <3>1. builder' = [q \in Builders |-> builder'[q]]
      BY <2>1 DEF SourceInv, BuilderShapes
    <3>2. \A q \in Builders :
             \/ builder'[q] = Idle
             \/ builder'[q] \in Works
             \/ /\ builder'[q] = [at |-> 21, key |-> builder'[q].key,
                                content |-> builder'[q].content]
                /\ builder'[q].key \in DOMAIN published'
      BY <2>3, <2>5, <2>8 DEF SourceInv, BuilderShapes
    <3> QED
      BY <3>1, <3>2 DEF BuilderShapes
  <2>10. ASSUME NEW d, CopiesHeld(d),
                NEW k \in DOMAIN published', NEW place \in Places,
                CopyOf(k, place)', d.at > InspectedAt(place),
                k.files[place] = d.files[place], k.times[place] = d.times[place]
         PROVE  published'[k].copies[place] = content[k.files[place]]
    <3>1. CASE k = key
      BY <1>3, <2>4, <2>5, <2>10, <3>1 DEF CopyOf
    <3>2. CASE k # key
      <4>1. k \in DOMAIN published /\ CopyOf(k, place) /\ published'[k] = published[k]
        BY <2>5, <2>10, <3>2 DEF CopyOf
      <4> QED
        BY <2>10, <4>1 DEF CopiesHeld
    <3> QED
      BY <3>1, <3>2
  <2>11. ASSUME NEW q \in Builders, Good(builder'[q])
         PROVE  Good(builder[q])'
    <3>1. CopiesHeld(builder[q])'
      BY <2>2, <2>10, <2>11 DEF Good, CopiesHeld
    <3> QED
      BY <2>2, <2>11, <3>1 DEF Good, Done, Dated, Seen, Snapshot, Instant
  <2>12. Good(c)
    <3>1. Done(c) /\ Dated(c) /\ CopiesHeld(c) /\ Snapshot \in c.past
      BY <1>1, <1>3, <2>3, LaterFits
    <3>2. \A x \in Places \cup Directories : RecheckedAt(x) # 18
      BY DEF Places, Directories, RecheckedAt
    <3>3. Seen(c)
      <4> HIDE DEF b
      <4> QED
        BY <1>1, <2>3, <3>2, InstantStays DEF SourceInv, Good
    <3> QED
      BY <3>1, <3>3 DEF Good
  <2>13. ASSUME NEW q \in Builders, Working(q)' PROVE Good(builder[q])'
    <3>1. CASE q = p
      BY <2>8, <2>11, <2>12, <3>1
    <3>2. CASE q # p
      <4>1. builder'[q] = builder[q] /\ Working(q)
        BY <2>8, <2>13, <3>2 DEF Working
      <4>2. Good(builder[q])
        BY <4>1, WorkIsGood
      <4> QED
        BY <2>11, <4>1, <4>2
    <3> QED
      BY <3>1, <3>2
  <2> QED
    BY <2>6, <2>7, <2>9, <2>13 DEF SourceInv, Good
<1> QED
  BY <1>4, <1>5

\* A mirror that nobody leases is removed.
LEMMA RemoveKeeps ==
  ASSUME SourceInv, NEW key \in DOMAIN published, Removes(key)
  PROVE  SourceInv'
<1>1. /\ source' = source /\ content' = content /\ time' = time /\ stamp' = stamp
      /\ earlier' = earlier /\ changes' = changes /\ builder' = builder
  BY DEF Removes, Update
<1>2. /\ published' = [k \in DOMAIN published' |-> published'[k]]
      /\ DOMAIN published' = DOMAIN published \ {key}
      /\ \A k \in DOMAIN published' : published'[k] = published[k]
  BY DEF Removes
<1>3. Clocks' /\ Catalog'
  BY <1>1, <1>2 DEF SourceInv, Clocks, Catalog
<1>4. CopiesDated'
  BY <1>1, <1>2 DEF SourceInv, CopiesDated, CopyOf
<1>5. BuilderShapes'
  <2>1. ASSUME NEW q \in Builders,
               builder[q] = [at |-> 21, key |-> builder[q].key, content |-> builder[q].content]
        PROVE  builder[q].key # key
    <3>1. builder[q].at = 21
      BY <2>1
    <3>2. Leased = 21
      BY ProgramIs DEF Leased
    <3> QED
      BY <3>1, <3>2 DEF Removes, InUse
  <2> QED
    BY <1>1, <1>2, <2>1 DEF SourceInv, BuilderShapes
<1>6. ASSUME NEW q \in Builders, Working(q)' PROVE Good(builder[q])'
  <2>1. Good(builder[q])
    BY <1>1, <1>6, WorkIsGood DEF Working
  <2> QED
    BY <1>1, <1>2, <2>1 DEF Good, Done, Dated, CopiesHeld, CopyOf, Seen, Snapshot, Instant
<1> QED
  BY <1>3, <1>4, <1>5, <1>6 DEF SourceInv, Good

\* A builder returns what it holds, fails or lets it go.
LEMMA EndFits ==
  ASSUME SourceInv, NEW p \in Builders, Returns(p) \/ Fails(p) \/ Releases(p)
  PROVE  SourceInv'
<1>1. CASE Returns(p)
  <2> DEFINE key == KeyOf(builder[p])
             c == [at |-> 21, key |-> key,
                   content |-> [place \in Present(builder[p]) |-> ContentOf(key, place)]]
  <2>1. Turns(p, c) /\ key \in DOMAIN published /\ UNCHANGED <<Update, published>>
    BY <1>1, ProgramIs DEF Returns, Leased
  <2>2. Fits(c)
    <3> HIDE DEF key
    <3> QED
      BY <2>1 DEF Fits
  <2> HIDE DEF c
  <2> QED
    BY <2>1, <2>2, TurnKeeps
<1>2. CASE Fails(p) \/ Releases(p)
  BY <1>2, TurnKeeps DEF Fails, Releases, Fits
<1> QED
  BY <1>1, <1>2

\* What every builder knows of what it read, of what it copied and of what others published, for
\* any number of builders and changes.
THEOREM SourceInvariance == ASSUME MaxChanges \in Nat PROVE SourceSpec => []SourceInv
<1>1. SourceInit => SourceInv
  <2> SUFFICES ASSUME SourceInit PROVE SourceInv
    OBVIOUS
  <2>1. 0 \in Times /\ 1 \in Files /\ 2 \in Files
    BY DEF Times, Files
  <2>2. source \in Trees
    BY <2>1 DEF SourceInit, Trees
  <2>3. Clocks
    <3>1. /\ content \in [Files -> Times] /\ time \in [Files -> Times]
          /\ stamp \in [Directories -> Times] /\ earlier \in [Places -> SUBSET Files]
      BY <2>1 DEF SourceInit
    <3> QED
      BY <2>1, <2>2, <3>1 DEF SourceInit, Clocks
  <2>4. DOMAIN published = {} /\ published = [key \in {} |-> published[key]]
    BY DEF SourceInit
  <2>5. Catalog /\ CopiesDated
    BY <2>4 DEF Catalog, CopiesDated
  <2>6. BuilderShapes /\ \A p \in Builders : ~ Working(p)
    BY ProgramIs DEF SourceInit, BuilderShapes, Working, Idle
  <2> QED
    BY <2>3, <2>5, <2>6 DEF SourceInv
<1>2. SourceInv /\ [SourceNext]_sourceVars => SourceInv'
  <2> SUFFICES ASSUME SourceInv, [SourceNext]_sourceVars PROVE SourceInv'
    OBVIOUS
  <2>1. CASE Updates
    BY <2>1, UpdateKeeps
  <2>2. CASE \E key \in DOMAIN published : Removes(key)
    BY <2>2, RemoveKeeps
  <2>3. ASSUME NEW p \in Builders,
               \/ Begins(p) \/ Fails(p) \/ Passes(p) \/ Inspects(p) \/ Lists(p) \/ Opens(p)
               \/ Names(p) \/ Puts(p) \/ Denied(p) \/ Rechecks(p) \/ Compares(p) \/ Publishes(p)
               \/ Validates(p) \/ Returns(p) \/ Releases(p)
        PROVE  SourceInv'
    BY <2>3, BeginFits, PassFits, InspectFits, ListFits, OpenFits, NameFits, PutFits, DenyFits,
       LookFits, PublishFits, EndFits
  <2>4. CASE UNCHANGED sourceVars
    <3>1. /\ source' = source /\ content' = content /\ time' = time /\ stamp' = stamp
          /\ earlier' = earlier /\ changes' = changes /\ published' = published
          /\ builder' = builder
      BY <2>4 DEF sourceVars
    <3>2. Clocks' /\ Catalog' /\ BuilderShapes' /\ CopiesDated'
      BY <3>1 DEF SourceInv, Clocks, Catalog, BuilderShapes, CopiesDated, CopyOf
    <3>3. ASSUME NEW p \in Builders, Working(p)' PROVE Good(builder[p])'
      <4>1. Good(builder[p])
        BY <3>1, <3>3, WorkIsGood DEF Working
      <4> QED
        BY <3>1, <4>1 DEF Good, Done, Dated, CopiesHeld, CopyOf, Seen, Snapshot, Instant
    <3> QED
      BY <3>2, <3>3 DEF SourceInv, Good
  <2> QED
    BY <2>1, <2>2, <2>3, <2>4 DEF SourceNext
<1> QED
  BY <1>1, <1>2, PTL DEF SourceSpec

\* A mirror that was just published is what the browser's directory was at one instant since its
\* builder began, whatever an updater did in between: the second look at the directories comes
\* before the second look at their files (fingerprint_open_source_tree).
THEOREM PublishedIsASnapshot ==
  ASSUME MaxChanges \in Nat PROVE SourceSpec => []MirrorIsASnapshot
<1>1. SourceInv => MirrorIsASnapshot
  <2> SUFFICES ASSUME SourceInv, NEW p \in Builders, At(p, "Validate")
               PROVE  KeyOf(builder[p]) \in builder[p].past
    BY DEF MirrorIsASnapshot
  <2> DEFINE b == builder[p]
  <2>1. b \in Works /\ b.at = 19 /\ Good(b)
    BY WorkIsGood, ProgramIs DEF At
  <2>2. PICK s \in b.past : Instant(b, s)
    BY <2>1 DEF Good, Seen
  <2>3. \A x \in Places \cup Directories : s.times[x] = b.times[x]
    BY <2>1, <2>2 DEF Instant, Places, Directories, RecheckedAt
  <2>4. \A place \in Places : s.files[place] = b.files[place]
    BY <2>2, <2>3 DEF Instant, DirOf, Places, Directories
  <2>5. /\ s \in [files : Trees, times : [Places \cup Directories -> Times]]
        /\ b.files \in Trees /\ b.times \in [Places \cup Directories -> Times]
    BY <2>1, <2>2 DEF Works, Keys
  <2>6. s.files = b.files /\ s.times = b.times
    <3> HIDE DEF b
    <3> QED
      BY <2>3, <2>4, <2>5 DEF Trees
  <2> QED
    BY <2>2, <2>5, <2>6 DEF KeyOf
<1> QED
  BY <1>1, SourceInvariance, PTL

\* A mirror that is given out, built or found, has in it what the files have in them that its
\* builder read: what is open cannot be written, and a copy that was made at other times of its
\* file has another name (mirror_key, open_relative_without_write_share, copy_file_relative).
THEOREM GivenIsItsSource ==
  ASSUME MaxChanges \in Nat PROVE SourceSpec => []MirrorIsItsSource
<1>1. SourceInv => MirrorIsItsSource
  <2> SUFFICES ASSUME SourceInv, NEW p \in Builders, At(p, "Hold"),
                      KeyOf(builder[p]) \in DOMAIN published,
                      NEW place \in Present(builder[p])
               PROVE  ContentOf(KeyOf(builder[p]), place) = content[builder[p].files[place]]
    BY DEF MirrorIsItsSource
  <2> DEFINE b == builder[p]
             key == KeyOf(b)
  <2>1. b \in Works /\ b.at = 20 /\ Good(b)
    BY WorkIsGood, ProgramIs DEF At
  <2>2. key.files = b.files /\ key.times = b.times /\ key \in DOMAIN published
    BY DEF KeyOf
  <2>3. place \in Places /\ b.files[place] # Absent /\ b.at > InspectedAt(place)
    BY <2>1 DEF Present, Places, InspectedAt
  <2>4. CASE published[key].mode = "Link"
    BY <2>2, <2>4 DEF ContentOf
  <2>5. CASE published[key].mode = "Copy"
    <3>1. ContentOf(key, place) = published[key].copies[place]
      BY <2>5 DEF ContentOf
    <3> HIDE DEF key, b
    <3>2. published[key].copies[place] = content[key.files[place]]
      BY <2>1, <2>2, <2>3, <2>5 DEF Good, CopiesHeld, CopyOf
    <3> QED
      BY <2>2, <3>1, <3>2 DEF key, b
  <2>6. published[key].mode \in {"Link", "Copy"}
    BY DEF SourceInv, Catalog
  <2> QED
    BY <2>4, <2>5, <2>6
<1> QED
  BY <1>1, SourceInvariance, PTL

\* The variables have their types in every reachable state.
THEOREM SourceTypes == ASSUME MaxChanges \in Nat PROVE SourceSpec => []SourceTypeOK
<1>1. SourceInv => SourceTypeOK
  <2> SUFFICES ASSUME SourceInv PROVE SourceTypeOK
    OBVIOUS
  <2>1. ASSUME NEW p \in Builders
        PROVE  \/ builder[p] = Idle
               \/ builder[p].at = Leased /\ builder[p].key \in DOMAIN published
               \/ /\ builder[p].at \in 1..Len(Program)
                  /\ builder[p].opened \subseteq Present(builder[p])
                  /\ KeyOf(builder[p]) \in Keys /\ builder[p].placed \in Copies
                  /\ builder[p].past \subseteq Keys
    <3> DEFINE b == builder[p]
    <3>1. CASE b \in Works
      <4>1. Working(p)
        BY <3>1, ProgramIs DEF Works, Working
      <4>2. Good(b)
        BY <4>1, WorkIsGood
      <4>3. b.opened \subseteq Present(b)
        BY <3>1, <4>2 DEF Good, Done, Present, Works
      <4>4. KeyOf(b) \in Keys /\ b.placed \in Copies /\ b.past \subseteq Keys
        BY <3>1 DEF Works, KeyOf, Keys
      <4> QED
        BY <4>1, <4>3, <4>4 DEF Working
    <3>2. CASE b = [at |-> 21, key |-> b.key, content |-> b.content] /\ b.key \in DOMAIN published
      <4>1. b.at = 21 /\ Leased = 21
        BY <3>2, ProgramIs DEF Leased
      <4> QED
        BY <3>2, <4>1
    <3> QED
      BY <3>1, <3>2 DEF SourceInv, BuilderShapes
  <2>2. \A key \in DOMAIN published :
           /\ key \in Keys
           /\ published[key].mode \in {"Link", "Copy"} /\ published[key].by \in Builders
           /\ published[key].copies \in Copies
    BY DEF SourceInv, Catalog
  <2> QED
    BY <2>1, <2>2 DEF SourceTypeOK, SourceInv, Clocks
<1> QED
  BY <1>1, SourceInvariance, PTL

-----------------------------------------------------------------------------
(* BrokerBootstrap *)

VARIABLES
    launcher, elevated, peer, records, heard, orders, reused, seen, terminated, secret, holders, visitor,
    caller

Bootstrap == INSTANCE BrokerBootstrap

\* What the launcher and the broker have found out of each other.
Known ==
    /\ launcher \in {"Starting", "Done",
       "Gone"} \cup Bootstrap!Recovering \cup Bootstrap!Pending \cup Bootstrap!Owning
    /\ launcher \notin {"Starting", "Gone"} => elevated # "Unborn"
    /\ launcher = "Trusting" => peer = "Broker"
    /\ launcher = "Done" => elevated = "Ended"
Kept ==
    /\ holders \subseteq {"Launcher", "Broker", "Client"}
    /\ elevated \in {"Granting", "Leasing"} => visitor = "Client" /\ secret = "Spent"
    /\ Bootstrap!OnlyTheBrokerIsTerminated
    /\ "Reuser" \in terminated => launcher = "Gone"

\* Only the broker writes to its launcher.
Written ==
    /\ peer # "Broker" => records = <<>>
    /\ launcher = "Opening" => peer = "Broker"

BootstrapInv == Known /\ Kept /\ Written

\* The launcher begins.
LEMMA BootstrapStarts == Bootstrap!BootstrapInit => BootstrapInv
  BY DEF Bootstrap!BootstrapInit, BootstrapInv, Known, Kept, Written,
     Bootstrap!OnlyTheBrokerIsTerminated, Bootstrap!Recovering,
     Bootstrap!Pending, Bootstrap!Owning

\* The launcher.
LEMMA StarterKeeps ==
  ASSUME BootstrapInv, Bootstrap!LauncherStep
  PROVE  BootstrapInv'
<1> USE DEF BootstrapInv, Known, Kept, Written, Bootstrap!OnlyTheBrokerIsTerminated,
    Bootstrap!Launcher, Bootstrap!Broker, Bootstrap!Recovering,
    Bootstrap!Pending, Bootstrap!Owning, Bootstrap!bootstrapPipe,
        Bootstrap!processes, Bootstrap!capability
<1>1. CASE Bootstrap!Launches
  BY <1>1 DEF Bootstrap!Launches
<1>2. CASE Bootstrap!Connected \/ Bootstrap!Checks \/ Bootstrap!Transfers
           \/ Bootstrap!RecoveryConnects \/ Bootstrap!Inspects
  BY <1>2 DEF Bootstrap!Connected, Bootstrap!Checks, Bootstrap!Transfers,
     Bootstrap!RecoveryConnects, Bootstrap!Inspects, Bootstrap!Exact
<1>3. CASE Bootstrap!LaunchFails \/ Bootstrap!OwnerDrops \/ Bootstrap!GivesUp
           \/ Bootstrap!LauncherDies
  BY <1>3 DEF Bootstrap!LaunchFails, Bootstrap!OwnerDrops, Bootstrap!DropsBroker,
     Bootstrap!Running, Bootstrap!Ends, Bootstrap!GivesUp, Bootstrap!LauncherDies
<1>4. CASE Bootstrap!Listens
  BY <1>4 DEF Bootstrap!Listens
<1>5. CASE Bootstrap!Terminates
  BY <1>5 DEF Bootstrap!Terminates, Bootstrap!Ends, Bootstrap!Found, Bootstrap!IsElevated
<1>6. CASE Bootstrap!RequestsCrash \/ Bootstrap!WaitsForOutcome \/ Bootstrap!TimesOut
           \/ Bootstrap!Reaps
  BY <1>6 DEF Bootstrap!RequestsCrash, Bootstrap!WaitsForOutcome, Bootstrap!TimesOut,
     Bootstrap!Reaps, Bootstrap!BrokerHears, Bootstrap!Running
<1>7. CASE Bootstrap!Hears
  BY <1>7 DEF Bootstrap!Hears
<1> QED BY <1>1, <1>2, <1>3, <1>4, <1>5, <1>6, <1>7 DEF Bootstrap!LauncherStep

\* The broker, and who else is there.
LEMMA VisitedKeeps ==
  ASSUME BootstrapInv,
         Bootstrap!BrokerStep \/ Bootstrap!Rearms \/ Bootstrap!BrokerFails
         \/ Bootstrap!VisitorStep \/ Bootstrap!OtherConnects \/ Bootstrap!IdIsReused
  PROVE  BootstrapInv'
<1> USE DEF BootstrapInv, Known, Kept, Written, Bootstrap!OnlyTheBrokerIsTerminated,
    Bootstrap!Launcher, Bootstrap!Broker, Bootstrap!Recovering,
    Bootstrap!Pending, Bootstrap!Owning, Bootstrap!bootstrapPipe,
        Bootstrap!processes, Bootstrap!capability
<1>1. CASE Bootstrap!Connects \/ Bootstrap!Verifies \/ Bootstrap!Starts \/ Bootstrap!StartFails
  BY <1>1 DEF Bootstrap!Connects, Bootstrap!Verifies, Bootstrap!Starts, Bootstrap!StartFails,
     Bootstrap!Ends, Bootstrap!PipeIsUp, Bootstrap!Reports, Bootstrap!BrokerHears
<1>2. CASE Bootstrap!Crashes \/ Bootstrap!LauncherLost \/ Bootstrap!ReportsOutcome
           \/ Bootstrap!BrokerFails
  BY <1>2 DEF Bootstrap!Crashes, Bootstrap!LauncherLost, Bootstrap!ReportsOutcome,
     Bootstrap!BrokerFails, Bootstrap!Serving, Bootstrap!Ends, Bootstrap!Running, Bootstrap!Reports, Bootstrap!BrokerHears
<1>3. CASE Bootstrap!OfferEnds \/ Bootstrap!Grants \/ Bootstrap!LeaseEnds \/ Bootstrap!Rearms
           \/ Bootstrap!CallerLeaves
  BY <1>3 DEF Bootstrap!OfferEnds, Bootstrap!Grants, Bootstrap!LeaseEnds, Bootstrap!Rearms,
     Bootstrap!CallerLeaves
<1>4. CASE Bootstrap!OtherConnects \/ Bootstrap!IdIsReused
  BY <1>4 DEF Bootstrap!OtherConnects, Bootstrap!IdIsReused, Bootstrap!PipeIsUp
<1>5. ASSUME NEW who \in {"Client", "Other"}, Bootstrap!Visits(who) PROVE BootstrapInv'
  BY <1>5 DEF Bootstrap!Visits
<1>6. ASSUME NEW who \in {"Client", "Other"}, NEW what \in {"Right", "Wrong", "Missing"},
             Bootstrap!Presents(who, what)
      PROVE  BootstrapInv'
  <2>1. CASE Bootstrap!Authorizes(who, what)
    BY <1>6, <2>1 DEF Bootstrap!Presents, Bootstrap!Authorizes
  <2>2. CASE ~ Bootstrap!Authorizes(who, what)
    BY <1>6, <2>2 DEF Bootstrap!Presents
  <2> QED BY <2>1, <2>2
<1> QED BY <1>1, <1>2, <1>3, <1>4, <1>5, <1>6 DEF Bootstrap!BrokerStep, Bootstrap!VisitorStep

\* Nobody sees the capability but who is meant to, only the broker is terminated by its launcher,
\* or an elevated process that had its id when the launcher first looked, and an owner that was told of its end is right (CapabilityIsKept, OnlyTheBrokerIsTerminated,
\* ExitsAreReal): launch_elevated_broker(), WindowsWfpBrokerProcess.
THEOREM BrokerIsKnown ==
    Bootstrap!BootstrapSpec => [](Bootstrap!CapabilityIsKept
    /\ Bootstrap!OnlyTheBrokerIsTerminated /\ Bootstrap!ExitsAreReal)
<1>1. BootstrapInv /\ UNCHANGED Bootstrap!bootstrapVars => BootstrapInv'
  BY DEF BootstrapInv, Known, Kept, Written, Bootstrap!OnlyTheBrokerIsTerminated, Bootstrap!bootstrapVars, Bootstrap!bootstrapPipe,
     Bootstrap!processes, Bootstrap!capability
<1>2. BootstrapInv /\ [Bootstrap!BootstrapNext]_(Bootstrap!bootstrapVars) => BootstrapInv'
  BY <1>1, StarterKeeps, VisitedKeeps DEF Bootstrap!BootstrapNext
<1>3. BootstrapInv => Bootstrap!CapabilityIsKept /\ Bootstrap!OnlyTheBrokerIsTerminated
      /\ Bootstrap!ExitsAreReal
  BY DEF BootstrapInv, Known, Kept, Bootstrap!CapabilityIsKept,
     Bootstrap!OnlyTheBrokerIsTerminated, Bootstrap!ExitsAreReal
<1> QED BY <1>2, <1>3, BootstrapStarts, PTL DEF Bootstrap!BootstrapSpec
=============================================================================
