---------------------------- MODULE WorkerStates ----------------------------
(***************************************************************************)
(* A browser worker as a value: the phase its owner can observe, and what  *)
(* each event in its life may turn it into.  WorkerContract makes these    *)
(* successor sets a specification that Worker is checked to implement; the *)
(* station model is built from the same sets, one value per worker.        *)
(***************************************************************************)

\* condemned: startup was not confirmed, so the worker will never be restarted.
\* live: the worker may hold a browser process, and with it the profile.
\* stopped: lifecycle Stopped is published, the runtime not yet dropped.
Phases == {"starting", "ready", "degraded", "restarting", "closing", "stopped", "released"}
Workers == [phase : Phases, condemned : BOOLEAN, live : BOOLEAN]

Spawned == [phase |-> "starting", condemned |-> FALSE, live |-> FALSE]

\* A worker in another phase is condemned if it was.
Turned(w, phase, live) == [phase |-> phase, condemned |-> w.condemned, live |-> live]

Started(w) ==
    IF w.phase = "starting"
    THEN {Turned(w, "ready", TRUE)}
         \cup [phase : {"degraded"}, condemned : {TRUE}, live : BOOLEAN]
    ELSE {}

\* A command failed or timed out.
Degraded(w) ==
    IF w.phase = "ready" THEN {Turned(w, "degraded", w.live)} ELSE {}

Restarting(w) ==
    IF w.phase \in {"ready", "degraded"} /\ ~w.condemned
    THEN {Turned(w, "restarting", w.live)} ELSE {}

Restarted(w) ==
    IF w.phase = "restarting"
    THEN {Turned(w, "ready", TRUE)} \cup {Turned(w, "degraded", l) : l \in BOOLEAN}
    ELSE {}

\* Shutdown, an emergency, or the end of the last handle.
Closing(w) ==
    IF w.phase \in {"stopped", "released"} THEN {}
    ELSE {Turned(w, "closing", l) : l \in {w.live, FALSE}}

\* Only a close that timed out leaves the browser to the drop of the runtime.
Stopped(w) ==
    IF w.phase = "closing" THEN {Turned(w, "stopped", l) : l \in {w.live, FALSE}} ELSE {}

\* The runtime was dropped, or the task aborted before it published Stopped.
Released(w) ==
    IF w.phase \in {"closing", "stopped"} THEN {Turned(w, "released", FALSE)} ELSE {}
=============================================================================
