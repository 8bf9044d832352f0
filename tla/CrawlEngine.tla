----------------------------- MODULE CrawlEngine -----------------------------
(***************************************************************************)
(* A crawl engine shared by workers that hold leases on pages              *)
(* (CrawlEngine of crates/dig2browser-crawler/src/engine.rs).  Every       *)
(* operation builds the next snapshot, validates it, saves it and only     *)
(* then makes it the state (commit).  The store replaces its snapshot      *)
(* atomically (SnapshotStore, which CrawlStore implements): a save that    *)
(* returns an error may have taken effect or not, and a crash leaves the   *)
(* snapshot the store holds.                                               *)
(***************************************************************************)
EXTENDS CrawlJob

CONSTANTS
    Workers,
    Links,       \* the links a page may turn out to have
    MaxTime,     \* bound: of the clock
    MaxFaults    \* bound: failed saves and crashes

VARIABLES
    job,      \* engine.state
    disk,     \* the snapshot in the store
    token,    \* the token each worker holds
    now,
    faults,   \* bound: failed saves and crashes so far
    \* History
    handed,   \* how often each page was handed to a worker
    acked     \* the pages whose completion was acknowledged

vars == <<job, disk, token, now, faults, handed, acked>>

Tokens == [url : Urls, attempt : Nat, expires : Nat]
LeaseTime == 1

TypeOK ==
    /\ job \in Jobs /\ disk \in Jobs
    /\ token \in [Workers -> Tokens \cup {NoToken}]
    /\ now \in Nat /\ faults \in Nat
    /\ handed \in [Urls -> Nat]
    /\ acked \subseteq Urls

-----------------------------------------------------------------------------
(* commit *)

Accepts(next) == Valid(next) /\ LogFits(next)

\* Mutant: the snapshot is not saved.
CommitUnsaved(next) == Accepts(next) /\ job' = next /\ UNCHANGED <<disk, faults>>

Commit(next) ==
    /\ Accepts(next)
    /\ job' = next /\ disk' = next
    /\ UNCHANGED faults

\* The save fails; whether it took effect is not known.
CommitFails(next) ==
    /\ Accepts(next) /\ faults < MaxFaults
    /\ disk' \in {disk, next}
    /\ faults' = faults + 1
    /\ UNCHANGED <<job, token, now, handed, acked>>

Init ==
    /\ job = Created /\ disk = Created
    /\ token = [w \in Workers |-> NoToken]
    /\ now = 0 /\ faults = 0
    /\ handed = [u \in Urls |-> 0]
    /\ acked = {}

Claim(w, u) ==
    LET next == Claimed(job, u, now + LeaseTime)
    IN  /\ token[w] = NoToken /\ Mutable(job) /\ u \in Claimable(job)
        /\ \/ /\ Commit(next)
              /\ token' = [token EXCEPT ![w] = Token(next, u)]
              /\ handed' = [handed EXCEPT ![u] = @ + 1]
              /\ UNCHANGED <<now, acked>>
           \/ CommitFails(next)

Renew(w) ==
    LET t == token[w]
        next == Renewed(job, t.url, now + LeaseTime)
    IN  /\ t # NoToken /\ Mutable(job) /\ Live(job, t) /\ t.expires > now
        /\ \/ /\ Commit(next)
              /\ token' = [token EXCEPT ![w] = Token(next, t.url)]
              /\ UNCHANGED <<now, handed, acked>>
           \/ CommitFails(next)

\* complete, and complete_recovered, which accepts a lease that has expired.
Complete(w, links, recovered) ==
    LET t == token[w]
    IN  /\ t # NoToken /\ Mutable(job) /\ Live(job, t)
        /\ recovered \/ t.expires > now
        /\ \E new \in Discoveries(job, t.url, links) :
              \/ /\ Commit(Completed(job, t.url, new))
                 /\ token' = [token EXCEPT ![w] = NoToken]
                 /\ acked' = acked \cup {t.url}
                 /\ UNCHANGED <<now, handed>>
              \/ CommitFails(Completed(job, t.url, new))

Fail(w, retryable) ==
    LET t == token[w]
    IN  /\ t # NoToken /\ Mutable(job) /\ Live(job, t) /\ t.expires > now
        /\ \/ /\ Commit(Failed(job, t.url, retryable))
              /\ token' = [token EXCEPT ![w] = NoToken]
              /\ UNCHANGED <<now, handed, acked>>
           \/ CommitFails(Failed(job, t.url, retryable))

\* A worker whose token is refused, or that dies, has nothing left to do with its page.
Drop(w) ==
    /\ token[w] # NoToken
    /\ token' = [token EXCEPT ![w] = NoToken]
    /\ UNCHANGED <<job, disk, now, faults, handed, acked>>

\* Operations that involve no token.
Operate(next) ==
    \/ Commit(next) /\ UNCHANGED <<token, now, handed, acked>>
    \/ CommitFails(next)

RequeueFailed(u) == Mutable(job) /\ MayRequeue(job, u) /\ Operate(Requeued(job, u))

Expired == {u \in In(job, "InFlight") : job.expires[u] <= now}
RecoverExpired == Mutable(job) /\ Expired # {} /\ Operate(Recovered(job, Expired))

Cancel == Mutable(job) /\ Phase(job) = "Running" /\ Operate(Cancelled(job))
FailJob == Mutable(job) /\ Phase(job) = "Running" /\ Operate(JobFailed(job))

Tick ==
    /\ now < MaxTime
    /\ now' = now + 1
    /\ UNCHANGED <<job, disk, token, faults, handed, acked>>

\* The process dies and the job is opened again, with the leases it had or without any.
Crash(recovery) ==
    /\ faults < MaxFaults
    /\ faults' = faults + 1
    /\ token' = [w \in Workers |-> NoToken]
    /\ LET next == IF recovery = "All" /\ Mutable(disk) /\ In(disk, "InFlight") # {}
                   THEN Recovered(disk, In(disk, "InFlight")) ELSE disk
       IN  Accepts(next) /\ job' = next /\ disk' = next
    /\ UNCHANGED <<now, handed, acked>>

Next ==
    \/ \E w \in Workers, u \in Urls : Claim(w, u)
    \/ \E w \in Workers : Renew(w) \/ Drop(w)
    \/ \E w \in Workers, links \in Links, recovered \in BOOLEAN : Complete(w, links, recovered)
    \/ \E w \in Workers, retryable \in BOOLEAN : Fail(w, retryable)
    \/ \E u \in Urls : RequeueFailed(u)
    \/ RecoverExpired \/ Cancel \/ FailJob \/ Tick
    \/ \E recovery \in {"None", "All"} : Crash(recovery)

Spec == Init /\ [][Next]_vars

-----------------------------------------------------------------------------
(* Properties *)

\* No page is left in the frontier that claim_next() will never hand out: the job would
\* be running with nothing to do.
PendingIsClaimable ==
    \A j \in {job, disk} : \A u \in In(j, "Pending") : j.attempts[u] < MaxAttempts

\* A page is handed to workers no more often than its attempts allow, over crashes and
\* failed saves: the claim is durable before the token is out.
AttemptsAreCounted ==
    \A u \in Urls : handed[u] <= job.attempts[u] /\ handed[u] <= disk.attempts[u]
                    /\ disk.attempts[u] <= MaxAttempts

\* Two workers never hold live leases of one page, however leases expire, are recovered
\* and are claimed again.
LeasesExclude ==
    \A v, w \in Workers :
        (v # w /\ token[v] # NoToken /\ token[w] # NoToken
            /\ Live(job, token[v]) /\ Live(job, token[w]))
        => token[v].url # token[w].url

\* A completion that was acknowledged is never lost or taken back.
AckedIsDurable == acked \subseteq In(disk, "Completed") \cap In(job, "Completed")
=============================================================================
