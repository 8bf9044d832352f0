--------------------------- MODULE ProfileRecords ---------------------------
(***************************************************************************)
(* What one profile directory says of its identity                         *)
(* (crates/dig2browser-station/src/lib.rs): the manifests that bind it to  *)
(* a class, a persona and, for a compiled persona, a runtime, written one  *)
(* after the other when the profile is first used, and the journal of the  *)
(* transitions of its session.                                             *)
(*                                                                         *)
(* A manifest is replaced by renaming a temporary file that carries the    *)
(* process id; a record is appended in place.  Either can be cut short, by *)
(* an error or with the process.  Calls on the journal run under           *)
(* session_state_gate, those that bind a profile under its lock.           *)
(*                                                                         *)
(* Abstracted: a record is its magic, its fields and its times; a time     *)
(* that was read from other bytes never comes.  That a session is Expired  *)
(* when its time has come is a view of the reader.                         *)
(***************************************************************************)
EXTENDS Naturals, Sequences, FiniteSets

CONSTANTS
    Identities,    \* [class, persona, compiled]: the requests for this profile; a
                   \* compiled persona on another runtime counts as another one
    Plain,         \* BrowserPersona::desktop_default()
    Unbound,       \* no such manifest
    Tears,         \* whether an append can stop inside a record
    MaxAppends,    \* bound: records begun in a behaviour
    MaxInterrupts  \* bound: manifests and records cut short in a behaviour

VARIABLES
    manifests,   \* the three manifests
    temporary,   \* temporary files of this process
    abandoned,   \* temporary files of earlier processes
    used,        \* a browser has written to the profile
    binding,     \* the bind_identity_contract() in progress
    states,      \* the units in the session journal
    opened,      \* whether the journal is there; one without a record is refused
    interrupts,  \* bound
    bound,       \* history: the identities that were bound
    possible     \* history: what the last transition may have been

profileVars ==
    <<manifests, temporary, abandoned, used, binding, states, opened, interrupts, bound, possible>>

-----------------------------------------------------------------------------
(* Types *)

Manifests == {"Binding", "Class", "Persona"}
Phases == {"Unknown", "Ready", "ReauthRequired"}     \* Expired is another one like the last
Expiries == {"None", "Time", "Never"}
Statuses == [phase : Phases, expires : Expiries]
\* What SessionStateUpdate::validate admits, and the Unknown that a probe records.
Transitions == {s \in Statuses : s.expires = "None" \/ (s.phase = "Ready" /\ s.expires = "Time")}
Nothing == [phase |-> "Nothing", expires |-> "None"]      \* no journal
Corrupt == [phase |-> "Corrupt", expires |-> "None"]
NoBinding == [at |-> "None"]
Units == [unit : {"Magic", "Fields", "Times"}, of : Transitions]

ProfileTypeOK ==
    /\ \A m \in Manifests : manifests[m] \in Identities \cup {Unbound}
    /\ temporary \subseteq Manifests /\ abandoned \subseteq Manifests
    /\ used \in BOOLEAN
    /\ binding.at \in {"None", "Binding", "Class", "Persona"}
    /\ states \in Seq(Units) /\ opened \in BOOLEAN
    /\ interrupts \in 0 .. MaxInterrupts
    /\ bound \subseteq Identities
    /\ possible \subseteq Statuses \cup {Nothing}

ProfileInit ==
    /\ manifests = [m \in Manifests |-> Unbound]
    /\ temporary = {} /\ abandoned = {}
    /\ used = FALSE
    /\ binding = NoBinding
    /\ states = <<>> /\ opened = FALSE
    /\ interrupts = 0
    /\ bound = {} /\ possible = {Nothing}

-----------------------------------------------------------------------------
(* bind_identity_contract *)

\* A manifest holds the identity that wrote it; what it says of another one.
Says(held, m, i) ==
    CASE m = "Binding" -> held[m] = i
      [] m = "Class"   -> held[m].class = i.class
      [] m = "Persona" -> held[m].persona = i.persona /\ held[m].compiled = i.compiled

\* Files that are neither manifests nor the journal: a temporary file is one.
HasExistingState == used \/ temporary # {} \/ abandoned # {}

\* What the call finds wrong before it writes manifest m, from what it read at first.
Objects(b, m) ==
    LET held(n) == b.read[n] # Unbound
        i == b.identity
    IN  CASE m = "Binding" ->
               \/ held(m) /\ ~(i.compiled /\ Says(b.read, m, i))
               \/ i.compiled /\ ~held(m) /\ (held("Persona") \/ held("Class") \/ b.existing)
          [] m = "Class" ->
               \/ held("Persona") /\ ~Says(b.read, "Persona", i)
               \/ held(m) /\ ~Says(b.read, m, i)
               \/ ~held(m) /\ (held("Persona") \/ b.existing) /\ i.class # "Public"
          [] m = "Persona" ->
               ~held(m) /\ b.existing /\ i.persona # Plain

Writes(b, m) == b.read[m] = Unbound /\ (m = "Binding" => b.identity.compiled)
After == [Binding |-> "Class", Class |-> "Persona", Persona |-> "None"]

BindBegins(i) ==
    /\ binding = NoBinding
    /\ binding' = [at |-> "Binding", identity |-> i, read |-> manifests,
                   existing |-> HasExistingState]
    /\ UNCHANGED <<manifests, temporary, abandoned, used, states, opened, interrupts, bound, possible>>

\* The identity is bound when the last manifest is.
Moves(b) ==
    /\ binding' = IF b.at = "Persona" THEN NoBinding ELSE [b EXCEPT !.at = After[b.at]]
    /\ bound' = IF b.at = "Persona" THEN bound \cup {b.identity} ELSE bound

BindRefuses ==
    /\ binding # NoBinding /\ Objects(binding, binding.at)
    /\ binding' = NoBinding
    /\ UNCHANGED <<manifests, temporary, abandoned, used, states, opened, interrupts, bound, possible>>

BindFinds ==
    /\ binding # NoBinding
    /\ ~Objects(binding, binding.at) /\ ~Writes(binding, binding.at)
    /\ Moves(binding)
    /\ UNCHANGED <<manifests, temporary, abandoned, used, states, opened, interrupts, possible>>

\* write_once_manifest: the temporary file and then the rename.
BindPrepares ==
    /\ binding # NoBinding /\ binding.at \notin temporary
    /\ ~Objects(binding, binding.at) /\ Writes(binding, binding.at)
    /\ temporary' = temporary \cup {binding.at}
    /\ UNCHANGED <<manifests, abandoned, used, binding, states, opened, interrupts, bound, possible>>

BindRenames ==
    /\ binding # NoBinding /\ binding.at \in temporary
    /\ ~Objects(binding, binding.at) /\ Writes(binding, binding.at)
    /\ manifests' = [manifests EXCEPT ![binding.at] = binding.identity]
    /\ temporary' = temporary \ {binding.at}
    /\ Moves(binding)
    /\ UNCHANGED <<abandoned, used, states, opened, interrupts, possible>>

\* The temporary file cannot be written, or not renamed: only the second is tidied up.
BindFails ==
    /\ binding # NoBinding /\ interrupts < MaxInterrupts
    /\ ~Objects(binding, binding.at) /\ Writes(binding, binding.at)
    /\ temporary' \in {temporary \cup {binding.at}, temporary \ {binding.at}}
    /\ binding' = NoBinding
    /\ interrupts' = interrupts + 1
    /\ UNCHANGED <<manifests, abandoned, used, states, opened, bound, possible>>

\* The process ends; the next one has another id.
Dies ==
    /\ interrupts < MaxInterrupts /\ interrupts' = interrupts + 1
    /\ binding' = NoBinding
    /\ abandoned' = abandoned \cup temporary /\ temporary' = {}
    /\ UNCHANGED <<manifests, used, states, opened, bound, possible>>

\* A browser was started on the profile.
Browses ==
    /\ bound # {} /\ ~used
    /\ used' = TRUE
    /\ UNCHANGED <<manifests, temporary, abandoned, binding, states, opened, interrupts, bound, possible>>

-----------------------------------------------------------------------------
(* read_identity_session_status *)

Held(m) == manifests[m] # Unbound
Compiled == Held("Persona") /\ manifests["Persona"].compiled
ClassHeld == Held("Class") \/ (Held("Persona") /\ ~Compiled)
IsAuthenticated == Held("Class") /\ manifests["Class"].class = "Authenticated"

\* The manifests are those of one identity, or of none.
Contract ==
    \/ /\ Compiled /\ ClassHeld /\ Held("Binding")
       /\ Says(manifests, "Class", manifests["Binding"])
       /\ Says(manifests, "Persona", manifests["Binding"])
    \/ Held("Persona") /\ ~Compiled /\ ~Held("Binding")
    \/ \A m \in Manifests : ~Held(m)

Chunks == Len(states) \div 3
Chunk(n) == [k \in 1 .. 3 |-> states[3 * (n - 1) + k]]

\* IdentitySessionStatus::decode: bytes that are no time are one far away, if a time is due.
Decodes(c) ==
    /\ c[1].unit = "Magic" /\ c[2].unit = "Fields"
    /\ c[3].unit = "Times" \/ c[2].of.expires # "None"
Decoded(c) ==
    [phase |-> c[2].of.phase,
     expires |-> IF c[2].of.expires # "None" /\ c[3].unit # "Times" THEN "Never" ELSE c[2].of.expires]

\* The newest record; what is left of one behind it is not looked at.
LatestStatus ==
    IF ~opened THEN Nothing
    ELSE IF Chunks > 0 /\ \A n \in 1 .. Chunks : Decodes(Chunk(n)) THEN Decoded(Chunk(Chunks))
    ELSE Corrupt

-----------------------------------------------------------------------------
(* update_identity_session, mark_identity_session_unknown *)

Writable == Contract /\ Held("Persona") /\ IsAuthenticated /\ LatestStatus # Corrupt

UnitsOf(s) == << [unit |-> "Magic", of |-> s], [unit |-> "Fields", of |-> s], [unit |-> "Times", of |-> s] >>

Updates(s) ==
    /\ Writable /\ Len(states) < 3 * MaxAppends
    /\ states' = states \o UnitsOf(s) /\ opened' = TRUE
    /\ possible' = {s}
    /\ UNCHANGED <<manifests, temporary, abandoned, used, binding, interrupts, bound>>

\* The file cannot be opened, write_all or sync_data fails, or the process ends in it: nothing,
\* everything or part of the record is there, or a journal without any.
UpdateFails(s) ==
    /\ interrupts < MaxInterrupts /\ interrupts' = interrupts + 1
    /\ Writable /\ Len(states) < 3 * MaxAppends
    /\ \E n \in IF Tears THEN 0 .. 3 ELSE {0, 3} :
          /\ states' = states \o SubSeq(UnitsOf(s), 1, n)
          /\ opened' \in IF n = 0 THEN {opened, TRUE} ELSE {TRUE}
    /\ possible' = possible \cup {s}
    /\ UNCHANGED <<manifests, temporary, abandoned, used, binding, bound>>

-----------------------------------------------------------------------------

ProfileNext ==
    \/ \E i \in Identities : BindBegins(i)
    \/ BindRefuses \/ BindFinds \/ BindPrepares \/ BindRenames \/ BindFails
    \/ Dies \/ Browses
    \/ \E s \in Transitions : Updates(s) \/ UpdateFails(s)

ProfileSpec == ProfileInit /\ [][ProfileNext]_profileVars

-----------------------------------------------------------------------------
(* Properties *)

\* A profile serves one identity for good: whichever requests come, wherever
\* binding it stops and whatever a browser leaves in it, no second identity is
\* ever bound to it (bind_identity_contract).
ProfileKeepsIdentity == \A i, j \in bound : i = j

\* Once bound, its manifests agree, and no refused request disturbs them: the
\* session of a bound profile can be read.
BoundIsReadable == bound # {} => Contract /\ Held("Class") /\ Held("Persona")

\* No record was begun inside another one: nothing was appended behind one that was cut short.
NoneInside == \A k \in DOMAIN states : states[k].unit = "Magic" => k % 3 = 1

\* The status that is read is that of the last transition that was acknowledged, or of a
\* later one that may have been recorded; a record that was cut short is passed over as long
\* as nothing is appended behind it.  Only where no transition was acknowledged yet, the cut
\* may leave a journal that is refused (append_session_status, read_identity_session_status).
StatusIsTheLast ==
    NoneInside => LatestStatus \in possible \cup (IF Nothing \in possible THEN {Corrupt} ELSE {})

\* A record that was cut short does not make a later read say what was never
\* recorded: it is passed over, or the journal is refused as a whole
\* (IdentitySessionStatus::decode).
StatusIsNeverWrong == LatestStatus \in possible \cup {Corrupt}

\* A request that was cut short can be made again: while no identity is bound, one
\* that the manifests do not contradict can be (bind_identity_contract).
InterruptedCanBeBound ==
    bound = {} /\ binding = NoBinding =>
        \A i \in Identities :
            (\A m \in Manifests : Held(m) => Says(manifests, m, i)) =>
                LET b == [identity |-> i, read |-> manifests, existing |-> HasExistingState]
                IN  \A m \in Manifests : ~Objects(b, m)
=============================================================================
