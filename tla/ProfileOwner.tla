---------------------------- MODULE ProfileOwner ----------------------------
(***************************************************************************)
(* Who owns a persistent profile while browsers are launched on it, closed *)
(* and given up (identity/lock.rs, browser/backend/bidi.rs and cdp.rs,     *)
(* browser_process.rs, process_tree.rs).  The owner is the holder of a     *)
(* file lock; a browser is a tree of processes that a Job Object ends as a *)
(* whole but not at once.                                                  *)
(*                                                                         *)
(* Firefox is started by a driver, which is ours or the caller's, on a     *)
(* request whose outcome may never be known: ownership is then kept until  *)
(* the process exits, the quarantine.  Its launch runs in a task of its    *)
(* own and hands the backend over in two messages.  Chromium is launched   *)
(* in the caller's future, keeps a lock of its own on the profile and      *)
(* gives ownership up whenever its backend is dropped.                     *)
(*                                                                         *)
(* Ending a Job Object is taken to succeed; waiting for its processes may  *)
(* time out.  An ephemeral profile is nobody else's and is left out.       *)
(***************************************************************************)
EXTENDS FiniteSets

CONSTANTS
    Launches,
    Firefox,      \* the launches of Firefox; the others are of Chromium
    External,     \* those of Firefox with a driver of the caller
    Nobody, Quarantine

VARIABLES
    at,       \* where each launch or its backend is
    owner,    \* who holds the lock of the profile
    tree,     \* the processes of each browser
    asked,    \* session requests the driver may still carry out
    waiting   \* launches whose caller awaits the backend

ownerVars == <<at, owner, tree, asked, waiting>>

Chromium == Launches \ Firefox
Starting == {"Driver", "Session", "Setup", "StartDrains", "Handoff", "Acknowledged", "Delivered"}
Attempting == {"Attempt", "Answer", "AttemptDrains", "Contended"}
Held == {"Open", "Closing", "CloseDrains"}
Over == {"Failed", "Closed"}

OwnerTypeOK ==
    /\ at \in [Launches -> {"New"} \cup Starting \cup Attempting \cup Held \cup Over]
    /\ owner \in Launches \cup {Nobody, Quarantine}
    /\ tree \in [Launches -> {"None", "Running", "Ending"}]
    /\ asked \subseteq Firefox /\ waiting \subseteq Launches

OwnerInit ==
    /\ at = [l \in Launches |-> "New"]
    /\ owner = Nobody
    /\ tree = [l \in Launches |-> "None"]
    /\ asked = {}
    /\ waiting = Launches

Goes(l, pc) == at' = [at EXCEPT ![l] = pc]

\* Ends the tree of a browser that is ours: its processes are told, and go later.
Terminates(l) ==
    tree' = [tree EXCEPT ![l] = IF @ = "Running" /\ l \notin External THEN "Ending" ELSE @]

\* A Firefox that was not seen to end keeps its profile; a Chromium backend drops the lock.
LetsGo(l) == owner' = IF l \in Firefox THEN Quarantine ELSE Nobody

-----------------------------------------------------------------------------
(* The processes *)

FirefoxStarts(l) ==
    /\ l \in asked
    /\ asked' = asked \ {l}
    /\ tree' = [tree EXCEPT ![l] = "Running"]
    /\ UNCHANGED <<at, owner, waiting>>

BrowserExits(l) ==
    /\ tree[l] = "Running"
    /\ tree' = [tree EXCEPT ![l] = "Ending"]
    /\ UNCHANGED <<at, owner, asked, waiting>>

TreeEnds(l) ==
    /\ tree[l] = "Ending"
    /\ tree' = [tree EXCEPT ![l] = "None"]
    /\ UNCHANGED <<at, owner, asked, waiting>>

-----------------------------------------------------------------------------
(* Launch *)

Acquires(l) ==
    /\ at[l] = "New" /\ owner = Nobody
    /\ owner' = l
    /\ Goes(l, IF l \in Firefox THEN "Driver" ELSE "Attempt")
    /\ UNCHANGED <<tree, asked, waiting>>

IsRefused(l) ==
    /\ at[l] = "New" /\ owner # Nobody
    /\ Goes(l, "Failed")
    /\ UNCHANGED <<owner, tree, asked, waiting>>

\* No listener was announced: there is no browser yet.
DriverFails(l) ==
    /\ at[l] = "Driver" /\ l \notin External
    /\ Goes(l, "Failed")
    /\ owner' = Nobody
    /\ UNCHANGED <<tree, asked, waiting>>

\* arm_for_session_creation: from here ownership outlives the launch.
Asks(l) ==
    /\ at[l] = "Driver"
    /\ Goes(l, "Session")
    /\ asked' = asked \cup {l}
    /\ UNCHANGED <<owner, tree, waiting>>

SessionOpens(l) ==
    /\ at[l] = "Session" /\ l \notin asked
    /\ Goes(l, "Setup")
    /\ UNCHANGED <<owner, tree, asked, waiting>>

\* new_session or what follows it fails: our driver is ended with what it started.
StartFails(l) ==
    /\ at[l] \in {"Session", "Setup"}
    /\ IF l \in External
       THEN Goes(l, "Failed") /\ owner' = Quarantine /\ UNCHANGED <<tree, asked>>
       ELSE Goes(l, "StartDrains") /\ Terminates(l) /\ asked' = asked \ {l} /\ UNCHANGED owner
    /\ UNCHANGED waiting

\* terminate_and_wait sees the tree empty, or gives up.
StartDrains(l) ==
    /\ at[l] = "StartDrains"
    /\ owner' = IF tree[l] = "None" THEN Nobody ELSE Quarantine
    /\ Goes(l, "Failed")
    /\ UNCHANGED <<tree, asked, waiting>>

SetupEnds(l) ==
    /\ at[l] = "Setup"
    /\ Goes(l, "Handoff")
    /\ UNCHANGED <<owner, tree, asked, waiting>>

\* deliver_acknowledged_launch: ready, acknowledged, the backend, received.
HandsOver(l) ==
    /\ l \in waiting
    /\ \/ at[l] = "Handoff" /\ Goes(l, "Acknowledged")
       \/ at[l] = "Acknowledged" /\ Goes(l, "Delivered")
       \/ at[l] = "Delivered" /\ Goes(l, "Open")
    /\ UNCHANGED <<owner, tree, asked, waiting>>

\* The task finds its caller gone and closes the backend itself.
TakesBack(l) ==
    /\ l \notin waiting /\ at[l] \in {"Handoff", "Acknowledged"}
    /\ Goes(l, "Closing")
    /\ UNCHANGED <<owner, tree, asked, waiting>>

\* One attempt over owned pipes; Chromium looks for another one on the profile.
Spawns(l) ==
    /\ at[l] = "Attempt"
    /\ IF \E k \in Chromium : tree[k] # "None"
       THEN Goes(l, "Contended") /\ UNCHANGED tree
       ELSE Goes(l, "Answer") /\ tree' = [tree EXCEPT ![l] = "Running"]
    /\ UNCHANGED <<owner, asked, waiting>>

Answers(l) ==
    /\ at[l] = "Answer"
    /\ Goes(l, "Open")
    /\ UNCHANGED <<owner, tree, asked, waiting>>

AnswerFails(l) ==
    /\ at[l] = "Answer"
    /\ Goes(l, "AttemptDrains") /\ Terminates(l)
    /\ UNCHANGED <<owner, asked, waiting>>

\* Within its budget a launch that met a lock tries again.
Retries(l) ==
    /\ at[l] = "Contended"
    /\ Goes(l, "Attempt")
    /\ UNCHANGED <<owner, tree, asked, waiting>>

\* The tree is drained or the drain timed out, the budget is spent, or nothing was spawned.
AttemptFails(l) ==
    /\ at[l] \in {"Attempt", "Contended", "AttemptDrains"}
    /\ Goes(l, "Failed")
    /\ owner' = Nobody
    /\ UNCHANGED <<tree, asked, waiting>>

\* The future of the launch is dropped: a launch of Chromium goes with it; that of Firefox
\* does not, unless its backend was on the way.
CallerLeaves(l) ==
    /\ l \in waiting /\ at[l] \in Starting \cup Attempting
    /\ waiting' = waiting \ {l}
    /\ IF at[l] \in Attempting \cup {"Delivered"}
       THEN Goes(l, "Failed") /\ Terminates(l) /\ LetsGo(l)
       ELSE UNCHANGED <<at, owner, tree>>
    /\ UNCHANGED asked

-----------------------------------------------------------------------------
(* Close and drop *)

Closes(l) ==
    /\ at[l] = "Open"
    /\ Goes(l, "Closing")
    /\ UNCHANGED <<owner, tree, asked, waiting>>

Confirmed(l) == l \notin External /\ tree[l] = "None"

\* The browser was asked to quit: its tree is empty in time, or it is ended.
CloseWaits(l) ==
    /\ at[l] = "Closing"
    /\ IF Confirmed(l) THEN Goes(l, "Closed") /\ owner' = Nobody /\ UNCHANGED tree
       ELSE IF l \in External THEN Goes(l, "Failed") /\ owner' = Quarantine /\ UNCHANGED tree
       ELSE Goes(l, "CloseDrains") /\ Terminates(l) /\ UNCHANGED owner
    /\ UNCHANGED <<asked, waiting>>

CloseDrains(l) ==
    /\ at[l] = "CloseDrains" /\ Confirmed(l)
    /\ Goes(l, "Closed")
    /\ owner' = Nobody
    /\ UNCHANGED <<tree, asked, waiting>>

\* The backend is dropped: unclosed, with the future of its close, or by an error in it,
\* a wait for the tree that timed out included.
IsDropped(l) ==
    /\ at[l] \in Held
    /\ Goes(l, "Failed") /\ Terminates(l) /\ LetsGo(l)
    /\ UNCHANGED <<asked, waiting>>

OwnerNext ==
    \E l \in Launches :
        \/ FirefoxStarts(l) \/ BrowserExits(l) \/ TreeEnds(l)
        \/ Acquires(l) \/ IsRefused(l)
        \/ DriverFails(l) \/ Asks(l) \/ SessionOpens(l) \/ StartFails(l) \/ StartDrains(l)
        \/ SetupEnds(l) \/ HandsOver(l) \/ TakesBack(l)
        \/ Spawns(l) \/ Answers(l) \/ AnswerFails(l) \/ Retries(l) \/ AttemptFails(l)
        \/ CallerLeaves(l)
        \/ Closes(l) \/ CloseWaits(l) \/ CloseDrains(l) \/ IsDropped(l)

OwnerSpec == OwnerInit /\ [][OwnerNext]_ownerVars

-----------------------------------------------------------------------------
(* Properties *)

\* A browser that is not being ended runs for the owner of the profile, or on one that nobody
\* can own any more, however its launch, its caller or its close came to an end.
RunningIsOwned == \A l \in Launches : tree[l] = "Running" => owner \in {l, Quarantine}

\* Firefox: as long as one of its processes may have the profile open, or a driver may still
\* start one, the profile is not free (PendingProfileOwnership, Drop for BiDiBrowserBackend).
FirefoxKeepsOwnership ==
    \A l \in Firefox : l \in asked \/ tree[l] # "None" => owner \in {l, Quarantine}

\* When a launch has failed or its backend is gone, its browser is not left running, and the
\* profile does not stay its own.
NothingIsLeftBehind ==
    \A l \in Launches : at[l] \in Over =>
        owner # l /\ (l \notin External => tree[l] # "Running")

\* A profile that is free is one that no browser has open.
FreeIsEmpty == owner = Nobody => \A l \in Launches : tree[l] = "None"
=============================================================================
