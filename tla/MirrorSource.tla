---------------------------- MODULE MirrorSource ----------------------------
(***************************************************************************)
(* Where a runtime mirror comes from (src/windows_runtime_mirror.rs): the  *)
(* browser's directory is read entry by entry while an updater changes it, *)
(* what was read names the mirror, and its files are linked or copied into *)
(* a staging directory that is published under that name.  RuntimeMirror   *)
(* has the life of one mirror; here is what is in it.                      *)
(*                                                                         *)
(* A file is known by its identity, which is never used again; its content *)
(* is the number of its last write, its metadata and those of a directory  *)
(* the number of their last change.  A handle that reads data and does not *)
(* share writing keeps writers out; one that reads attributes takes no     *)
(* part in the sharing of a file.                                          *)
(***************************************************************************)
EXTENDS Integers, Sequences

CONSTANTS
    Builders,       \* processes that call materialize() for this browser
    Absent,
    MaxChanges      \* bound: changes of the source

VARIABLES
    source,         \* the file at each place of the browser's directory
    content, time,  \* of each file: its last write, its last change
    stamp,          \* of each directory
    earlier,        \* the files that were taken away from each place
    changes,
    published,      \* the mirrors of the catalog, by what was read
    builder

sourceVars == <<source, content, time, stamp, earlier, changes, published, builder>>

\* The main executable in the root, a library in a subdirectory.
Directories == {"root", "deep"}
Places == {"main", "lib"}
In(d) == IF d = "root" THEN {"main"} ELSE {"lib"}

Files == 1 .. 2 + MaxChanges
Trees == [Places -> Files \cup {Absent}]
Times == 0 .. MaxChanges

\* What a build does, in this order.  collect_source_tree() takes the entry it found last,
\* reads its metadata, lists it if it is a directory, and opens what it listed.
Does(act, of) == [act |-> act, of |-> of]
Program ==
    << Does("Inspect", "root"), Does("List", "main"), Does("Open", "main"), Does("Inspect", "main"),
       Does("Inspect", "deep"), Does("List", "lib"), Does("Open", "lib"), Does("Inspect", "lib"),
       Does("Key", "root"), Does("Put", "lib"), Does("Put", "main"),
       Does("Recheck", "root"), Does("Recheck", "deep"), Does("Recheck", "lib"),
       Does("Recheck", "main"), Does("Compare", "main"), Does("Compare", "lib"),
       Does("Publish", "root"), Does("Validate", "root"), Does("Hold", "root") >>
StepOf(act) == CHOOSE n \in 1..Len(Program) : Program[n].act = act /\ (n = 1 \/ Program[n - 1].act # act)

Leased == Len(Program) + 1
Idle == [at |-> 0]

\* What names a mirror: the layout and the metadata.
KeyOf(b) == [files |-> b.files, times |-> b.times]
Keys == [files : Trees, times : [Places \cup Directories -> Times]]
Copies == [Places -> {-1} \cup Times]

\* What would be read now, if nothing changed meanwhile.
Snapshot ==
    [files |-> source,
     times |-> [x \in Places \cup Directories |->
                   IF x \in Directories THEN stamp[x]
                   ELSE IF source[x] = Absent THEN 0 ELSE time[source[x]]]]

\* The places where it found a file.
Present(b) == {place \in Places : b.files[place] # Absent}

SourceTypeOK ==
    /\ source \in Trees
    /\ content \in [Files -> Times] /\ time \in [Files -> Times]
    /\ stamp \in [Directories -> Times]
    /\ earlier \in [Places -> SUBSET Files] /\ changes \in Times
    /\ \A key \in DOMAIN published :
          /\ key \in Keys
          /\ published[key].mode \in {"Link", "Copy"} /\ published[key].by \in Builders
          /\ published[key].copies \in Copies
    /\ \A p \in Builders :
          \/ builder[p] = Idle
          \/ builder[p].at = Leased /\ builder[p].key \in DOMAIN published
          \/ /\ builder[p].at \in 1..Len(Program) /\ builder[p].opened \subseteq Present(builder[p])
             /\ KeyOf(builder[p]) \in Keys /\ builder[p].placed \in Copies
             /\ builder[p].past \subseteq Keys

SourceInit ==
    /\ source = [place \in Places |-> IF place = "main" THEN 1 ELSE 2]
    /\ content = [f \in Files |-> 0] /\ time = [f \in Files |-> 0]
    /\ stamp = [d \in Directories |-> 0]
    /\ earlier = [place \in Places |-> {}] /\ changes = 0
    /\ published = [key \in {} |-> 0]
    /\ builder = [p \in Builders |-> Idle]

Working(p) == builder[p].at \in 1..Len(Program)
At(p, act) == Working(p) /\ Program[builder[p].at].act = act
Where(p) == Program[builder[p].at].of

-----------------------------------------------------------------------------
(* The updater *)

Now == changes + 1
Change == changes < MaxChanges /\ changes' = Now

\* Another file, one that was there before, or none.
Replaces(place) ==
    /\ Change
    /\ \E file \in {Absent, 2 + Now} \cup earlier[place] :
          /\ file # source[place]
          /\ source' = [source EXCEPT ![place] = file]
          /\ earlier' = [earlier EXCEPT ![place] = (@ \cup {source[place]}) \ {file, Absent}]
    /\ stamp' = [d \in Directories |-> IF place \in In(d) THEN Now ELSE stamp[d]]
    /\ UNCHANGED <<content, time>>

\* open_relative_without_write_share()
Locked(f) ==
    \E p \in Builders : Working(p) /\ \E place \in builder[p].opened : builder[p].files[place] = f

Writes(f) ==
    /\ Change /\ ~ Locked(f)
    /\ content' = [content EXCEPT ![f] = Now] /\ time' = [time EXCEPT ![f] = Now]
    /\ UNCHANGED <<source, stamp, earlier>>

\* Attributes and times can be set whoever has the file open.
Touches(f) ==
    /\ Change /\ time' = [time EXCEPT ![f] = Now]
    /\ UNCHANGED <<source, content, stamp, earlier>>

Updates ==
    /\ \E place \in Places :
          \/ Replaces(place)
          \/ source[place] # Absent /\ (Writes(source[place]) \/ Touches(source[place]))
    /\ builder' = [p \in Builders |->
                      IF Working(p) THEN [builder[p] EXCEPT !.past = @ \cup {Snapshot'}]
                      ELSE builder[p]]
    /\ UNCHANGED published

-----------------------------------------------------------------------------
(* materialize_scoped *)

Turns(p, b) == builder' = [builder EXCEPT ![p] = b]
GoesTo(p, act) == Turns(p, [builder[p] EXCEPT !.at = StepOf(act)])
Then(p, b) == Turns(p, [b EXCEPT !.at = @ + 1])
Update == <<source, content, time, stamp, earlier, changes>>

\* The main executable is opened first, and has to be the one that is found later.
Begins(p) ==
    /\ builder[p] = Idle /\ source["main"] # Absent
    /\ Turns(p, [at |-> 1, binary |-> source["main"], opened |-> {}, mode |-> "Link",
                 files |-> [place \in Places |-> Absent],
                 times |-> [x \in Places \cup Directories |-> 0],
                 placed |-> [place \in Places |-> -1], past |-> {Snapshot}])
    /\ UNCHANGED <<Update, published>>

\* A step finds that something has changed, or does not succeed.
Fails(p) == Working(p) /\ Turns(p, Idle) /\ UNCHANGED <<Update, published>>

\* Nothing is done at a place where nothing was listed.
Passes(p) ==
    /\ \E act \in {"Open", "Inspect", "Put", "Recheck"} : At(p, act)
    /\ Where(p) \in Places \ Present(builder[p])
    /\ Then(p, builder[p]) /\ UNCHANGED <<Update, published>>

\* handle_information()
TimeOf(b, x) == IF x \in Directories THEN stamp[x] ELSE time[b.files[x]]
Here(p) == Where(p) \in Directories \cup Present(builder[p])

\* collect_source_tree()
Inspects(p) ==
    /\ At(p, "Inspect") /\ Here(p)
    /\ Then(p, [builder[p] EXCEPT !.times[Where(p)] = TimeOf(builder[p], Where(p))])
    /\ UNCHANGED <<Update, published>>

\* enumerate_directory()
Lists(p) ==
    /\ At(p, "List")
    /\ Then(p, [builder[p] EXCEPT !.files[Where(p)] = source[Where(p)]])
    /\ UNCHANGED <<Update, published>>

\* What was listed is opened by its name, and has to be the file that was listed.
Opens(p) ==
    /\ At(p, "Open") /\ Here(p) /\ source[Where(p)] = builder[p].files[Where(p)]
    /\ Then(p, [builder[p] EXCEPT !.opened = @ \cup {Where(p)}])
    /\ UNCHANGED <<Update, published>>

\* mirror_key(), relative_exists(): a mirror of this name is used as it is.
Names(p) ==
    /\ At(p, "Key") /\ builder[p].files["main"] = builder[p].binary
    /\ IF KeyOf(builder[p]) \in DOMAIN published THEN GoesTo(p, "Hold") ELSE Then(p, builder[p])
    /\ UNCHANGED <<Update, published>>

\* populate_staging(): a hard link is the file itself, copy_file_relative() takes its content.
Puts(p) ==
    /\ At(p, "Put") /\ Here(p)
    /\ Then(p, [builder[p] EXCEPT !.placed[Where(p)] = content[builder[p].files[Where(p)]]])
    /\ UNCHANGED <<Update, published>>

\* is_hard_link_policy_denial(): all over again, with copies.
Denied(p) ==
    /\ At(p, "Put") /\ Here(p) /\ builder[p].mode = "Link"
    /\ Turns(p, [builder[p] EXCEPT !.mode = "Copy", !.at = StepOf("Put"),
                                   !.placed = [place \in Places |-> -1]])
    /\ UNCHANGED <<Update, published>>

\* fingerprint_open_source_tree()
Rechecks(p) ==
    /\ At(p, "Recheck") /\ Here(p) /\ TimeOf(builder[p], Where(p)) = builder[p].times[Where(p)]
    /\ Then(p, builder[p]) /\ UNCHANGED <<Update, published>>

\* validate_source_tree_membership()
Compares(p) ==
    /\ At(p, "Compare") /\ source[Where(p)] = builder[p].files[Where(p)]
    /\ Then(p, builder[p]) /\ UNCHANGED <<Update, published>>

\* write_ready_manifest(), publish_staging(): the first to publish a name has it.
Publishes(p) ==
    LET key == KeyOf(builder[p])
        new == [mode |-> builder[p].mode, copies |-> builder[p].placed, by |-> p]
    IN  /\ At(p, "Publish")
        /\ IF key \in DOMAIN published THEN GoesTo(p, "Hold") /\ UNCHANGED published
           ELSE /\ published' = [k \in DOMAIN published \cup {key} |->
                                    IF k = key THEN new ELSE published[k]]
                /\ Then(p, builder[p])
        /\ UNCHANGED Update

\* validate_ready_mirror() of what was published: it has to be there still, and the same.
Validates(p) ==
    /\ At(p, "Validate")
    /\ KeyOf(builder[p]) \in DOMAIN published /\ published[KeyOf(builder[p])].by = p
    /\ Then(p, builder[p]) /\ UNCHANGED <<Update, published>>

\* The mirror is given out; what the source was opened with is closed on the way.
ContentOf(key, place) ==
    IF published[key].mode = "Link" THEN content[key.files[place]] ELSE published[key].copies[place]
Returns(p) ==
    LET key == KeyOf(builder[p]) IN
    /\ At(p, "Hold") /\ key \in DOMAIN published
    /\ Turns(p, [at |-> Leased, key |-> key,
                 content |-> [place \in Present(builder[p]) |-> ContentOf(key, place)]])
    /\ UNCHANGED <<Update, published>>

Releases(p) ==
    /\ builder[p].at = Leased /\ Turns(p, Idle)
    /\ UNCHANGED <<Update, published>>

\* remove(): a lease keeps it away.
InUse(key) == \E p \in Builders : builder[p].at = Leased /\ builder[p].key = key
Removes(key) ==
    /\ ~ InUse(key)
    /\ published' = [k \in DOMAIN published \ {key} |-> published[k]]
    /\ UNCHANGED <<Update, builder>>

SourceNext ==
    \/ Updates
    \/ \E key \in DOMAIN published : Removes(key)
    \/ \E p \in Builders :
          \/ Begins(p) \/ Fails(p) \/ Passes(p) \/ Inspects(p) \/ Lists(p) \/ Opens(p) \/ Names(p)
          \/ Puts(p) \/ Denied(p) \/ Rechecks(p) \/ Compares(p) \/ Publishes(p) \/ Validates(p)
          \/ Returns(p) \/ Releases(p)

SourceSpec == SourceInit /\ [][SourceNext]_sourceVars

-----------------------------------------------------------------------------
(* Properties *)

\* A mirror that was just published has the files the browser's directory had, and the name
\* their metadata give it, at one instant since its builder began: not some from before and some
\* from after an update (fingerprint_open_source_tree, validate_source_tree_membership).
MirrorIsASnapshot ==
    \A p \in Builders : At(p, "Validate") => KeyOf(builder[p]) \in builder[p].past

\* A mirror that is given out, built or found, has in it what the browser's files had in them
\* when they were read (mirror_key, copy_file_relative, validate_ready_mirror).
MirrorIsItsSource ==
    \A p \in Builders :
        LET b == builder[p] IN
        (At(p, "Hold") /\ KeyOf(b) \in DOMAIN published) =>
            \A place \in Present(b) : ContentOf(KeyOf(b), place) = content[b.files[place]]

\* It stays so while it is leased (open_relative_lease).  It does not: the lease of a file reads
\* attributes only, which locks nothing, and a hard link changes with its file.
LeasedIsUnchanged ==
    \A p \in Builders :
        builder[p].at = Leased =>
            \A place \in DOMAIN builder[p].content :
                ContentOf(builder[p].key, place) = builder[p].content[place]
=============================================================================
