---------------------------- MODULE SharingProofs ----------------------------
(***************************************************************************)
(* Theorems about work that several callers share: CrawlEngine for any     *)
(* pages, workers and budgets, CdpTransport and BidiTransport for any      *)
(* calls and queues, StationClient for any callers, requests and pipes,    *)
(* PageGuard for any targets and backlog.                                  *)
(*                                                                         *)
(* CrawlEngine: every operation leads from a sound snapshot to a sound one *)
(* that follows it, with no attempt and no completion taken back (the      *)
(* lemmas of CrawlJob); so it does not matter which of the two the store   *)
(* holds after a failed save.  Tokens differ in their attempt, because a   *)
(* claim makes a new one and a renewal keeps the worker's own.             *)
(*                                                                         *)
(* CdpTransport: a call is in one place at a time, and whoever ends the    *)
(* connection sets the flag before it clears the table, so that what is    *)
(* entered afterwards is in the hand of a writer that looks at the flag    *)
(* once more.  BidiTransport: the same, where the caller looks itself.     *)
(*                                                                         *)
(* StationClient: the mutex has one holder, the first in line, and a       *)
(* request is on one pipe at most once; so what is left under way when the *)
(* mutex is released is nobody's but a dropped call's.                     *)
(*                                                                         *)
(* PageGuard: whatever runs has a session in which its requests pause and  *)
(* one that is told of the targets it opens, because a target waits until  *)
(* the task has gone through its list, and what the task has done so far   *)
(* is what is no longer in the list.                                       *)
(* A task that has missed nothing will come to whoever waits: a target     *)
(* that waits has its announcement in the queue, with nothing before it    *)
(* that would make the task pass it over, and a session holds no more      *)
(* requests than there are pauses of it in the queue.                      *)
(***************************************************************************)
EXTENDS CrawlEngine, CdpTransport, BidiTransport, StationClient, PageGuard,
        SequenceTheorems, TLAPS

-----------------------------------------------------------------------------
(* CrawlEngine *)

\* Tokens of one page differ in their attempt, and none is ahead of the page.
TokensDiffer ==
    /\ \A w \in Workers : token[w] # NoToken => token[w].attempt <= job.attempts[token[w].url]
    /\ \A v, w \in Workers :
         (v # w /\ token[v] # NoToken /\ token[w] # NoToken /\ token[v].url = token[w].url)
         => token[v].attempt # token[w].attempt

Counted(j) == \A u \in Urls : handed[u] <= j.attempts[u]
Kept(j) == \A u \in acked : j.page[u] = "Completed"

IInv ==
    /\ TypeOK
    /\ Sound(job) /\ Sound(disk)
    /\ Counted(job) /\ Counted(disk)
    /\ Kept(job) /\ Kept(disk)
    /\ TokensDiffer

-----------------------------------------------------------------------------
(* The operations *)

\* What every operation builds follows the snapshot it was built from; if saved, or if the
\* save failed either way, both snapshots stay sound and keep what was acknowledged.
LEMMA EitherIsKept ==
    ASSUME IInv, NEW next, Supersedes(job, next)
    PROVE  /\ \A d \in {disk, next} : Sound(d) /\ Counted(d) /\ Kept(d)
           /\ \A u \in Urls : job.attempts[u] <= next.attempts[u]
<1>1. /\ handed \in [Urls -> Nat] /\ acked \subseteq Urls
      /\ job.attempts \in [Urls -> Nat] /\ next.attempts \in [Urls -> Nat]
  BY Fields DEF IInv, TypeOK, Supersedes, Sound
<1>2. Sound(next) /\ Counted(next) /\ Kept(next)
  BY <1>1 DEF IInv, Supersedes, Counted, Kept
<1> QED
  BY <1>2 DEF IInv, Supersedes

\* An operation whose snapshot could not be saved.
LEMMA FailedSaveInv ==
    ASSUME IInv, NEW next, Supersedes(job, next), CommitFails(next)
    PROVE  IInv'
<1>1. disk' \in {disk, next} /\ faults' \in Nat
      /\ UNCHANGED <<job, token, now, handed, acked>>
  BY DEF CommitFails, IInv, TypeOK
<1>2. Sound(disk') /\ Counted(disk') /\ Kept(disk')
  BY <1>1, EitherIsKept
<1>3. disk' \in Jobs
  BY <1>2 DEF Sound
<1>4. TypeOK'
  BY <1>1, <1>3 DEF IInv, TypeOK
<1>5. Sound(job)' /\ Sound(disk)' /\ Counted(job)' /\ Counted(disk)' /\ Kept(job)' /\ Kept(disk)'
  BY <1>1, <1>2 DEF IInv, Sound, Counted, Kept
<1>6. TokensDiffer'
  BY <1>1 DEF IInv, TokensDiffer
<1> QED
  BY <1>4, <1>5, <1>6 DEF IInv

\* An operation that was saved and gives out no token: tokens may be given up.
LEMMA SavedInv ==
    ASSUME IInv, NEW next, Supersedes(job, next), Commit(next),
           token' \in [Workers -> Tokens \cup {NoToken}],
           \A w \in Workers : token'[w] # NoToken => token'[w] = token[w],
           UNCHANGED <<now, handed>>, acked' \subseteq Urls,
           \A u \in acked' : u \in acked \/ next.page[u] = "Completed"
    PROVE  IInv'
<1>1. job' = next /\ disk' = next /\ faults' = faults
  BY DEF Commit
<1>2. Sound(next) /\ Counted(next) /\ Kept(next) /\ next \in Jobs
  BY EitherIsKept DEF Sound
<1>3. TypeOK'
  BY <1>1, <1>2 DEF IInv, TypeOK
<1>4. /\ Sound(job)' /\ Sound(disk)' /\ Counted(job)' /\ Counted(disk)'
      /\ Kept(job)' /\ Kept(disk)'
  BY <1>1, <1>2 DEF Sound, Counted, Kept
<1>5. TokensDiffer'
  <2>1. \A w \in Workers : token'[w] # NoToken => token[w].attempt <= next.attempts[token[w].url]
    <3> SUFFICES ASSUME NEW w \in Workers, token'[w] # NoToken
                 PROVE  token[w].attempt <= next.attempts[token[w].url]
      OBVIOUS
    <3>1. token[w] \in Tokens /\ token[w] # NoToken
      BY DEF IInv, TypeOK
    <3>2. token[w].url \in Urls /\ token[w].attempt \in Nat
      BY <3>1 DEF Tokens
    <3>3. token[w].attempt <= job.attempts[token[w].url]
      BY <3>1 DEF IInv, TokensDiffer
    <3>4. job.attempts[token[w].url] <= next.attempts[token[w].url]
      BY <3>2, EitherIsKept
    <3>5. job.attempts[token[w].url] \in Nat /\ next.attempts[token[w].url] \in Nat
      BY <1>2, <3>2, Fields DEF IInv, Sound
    <3> QED
      BY <3>2, <3>3, <3>4, <3>5
  <2> QED
    BY <1>1, <2>1 DEF IInv, TokensDiffer
<1> QED
  BY <1>3, <1>4, <1>5 DEF IInv

\* No worker other than w has a token of page u's attempt in n.
Fresh(n, w, u) ==
    \A v \in Workers : (v # w /\ token[v] # NoToken /\ token[v].url = u)
                       => token[v].attempt # n.attempts[u]

\* What was handed out by the end of the step is within the attempts of n.
HandedWithin(n) == handed' \in [Urls -> Nat] /\ \A p \in Urls : handed'[p] <= n.attempts[p]

\* A token handed out anew is one of its attempt, and no other worker has one of it.
LEMMA TokenInv ==
    ASSUME IInv, NEW next, Supersedes(job, next), Commit(next), NEW w \in Workers, NEW u \in Urls,
           token' = [token EXCEPT ![w] = Token(next, u)], Fresh(next, w, u),
           UNCHANGED <<now, acked>>, HandedWithin(next)
    PROVE  IInv'
<1> USE DEF Fresh, HandedWithin
<1>1. job' = next /\ disk' = next /\ faults' = faults
  BY DEF Commit
<1>2. Sound(next) /\ Kept(next) /\ next \in Jobs
  BY EitherIsKept DEF Sound
<1>3. /\ next.attempts \in [Urls -> Nat] /\ next.expires \in [Urls -> Nat]
      /\ job.attempts \in [Urls -> Nat]
  BY <1>2, Fields DEF IInv, Sound
<1>4. Token(next, u) \in Tokens /\ Token(next, u).url = u
      /\ Token(next, u).attempt = next.attempts[u]
  BY <1>3 DEF Token, Tokens
<1>5. token \in [Workers -> Tokens \cup {NoToken}]
  BY DEF IInv, TypeOK
<1>6. /\ token' \in [Workers -> Tokens \cup {NoToken}] /\ token'[w] = Token(next, u)
      /\ \A v \in Workers : v # w => token'[v] = token[v]
  BY <1>4, <1>5
<1>7. TypeOK'
  BY <1>1, <1>2, <1>6 DEF IInv, TypeOK
<1>8. /\ Sound(job)' /\ Sound(disk)' /\ Counted(job)' /\ Counted(disk)'
      /\ Kept(job)' /\ Kept(disk)'
  BY <1>1, <1>2 DEF Sound, Counted, Kept
<1>9. TokensDiffer'
  <2>1. ASSUME NEW v \in Workers, token'[v] # NoToken
        PROVE  token'[v].attempt <= next.attempts[token'[v].url]
    <3>1. CASE v = w
      BY <1>3, <1>4, <1>6, <3>1
    <3>2. CASE v # w
      <4>1. token'[v] = token[v] /\ token[v] \in Tokens
        BY <1>5, <1>6, <2>1, <3>2
      <4>2. token[v].url \in Urls /\ token[v].attempt \in Nat
        BY <4>1 DEF Tokens
      <4>3. token[v].attempt <= job.attempts[token[v].url]
        BY <2>1, <4>1 DEF IInv, TokensDiffer
      <4>4. job.attempts[token[v].url] <= next.attempts[token[v].url]
        BY <4>2, EitherIsKept
      <4> QED
        BY <1>3, <4>1, <4>2, <4>3, <4>4
    <3> QED
      BY <3>1, <3>2
  <2>2. ASSUME NEW v1 \in Workers, NEW v2 \in Workers, v1 # v2, token'[v1] # NoToken,
               token'[v2] # NoToken, token'[v1].url = token'[v2].url
        PROVE  token'[v1].attempt # token'[v2].attempt
    <3>1. CASE v1 # w /\ v2 # w
      BY <1>6, <2>2, <3>1 DEF IInv, TokensDiffer
    <3>2. CASE v1 = w
      BY <1>4, <1>6, <2>2, <3>2
    <3>3. CASE v2 = w
      BY <1>4, <1>6, <2>2, <3>3
    <3> QED
      BY <3>1, <3>2, <3>3
  <2> QED
    BY <1>1, <2>1, <2>2 DEF TokensDiffer
<1> QED
  BY <1>7, <1>8, <1>9 DEF IInv

-----------------------------------------------------------------------------
(* The actions *)

\* A live token is of a page in flight.
LEMMA LiveToken ==
    ASSUME IInv, NEW w \in Workers, token[w] # NoToken, Live(job, token[w])
    PROVE  /\ token[w].url \in Urls /\ job.page[token[w].url] = "InFlight"
           /\ token[w].attempt = job.attempts[token[w].url]
<1>1. token[w] \in Tokens
  BY DEF IInv, TypeOK
<1> QED
  BY <1>1 DEF Tokens, Live, Token

\* A claim hands out a token of a new attempt.
LEMMA ClaimInv ==
    ASSUME IInv, NEW w \in Workers, NEW u \in Urls, Claim(w, u)
    PROVE  IInv'
<1> DEFINE next == Claimed(job, u, now + LeaseTime)
<1>1. now + LeaseTime \in Nat /\ u \in Claimable(job) /\ Sound(job)
  BY DEF IInv, TypeOK, Claim, LeaseTime
<1>2. Supersedes(job, next) /\ next.attempts = [job.attempts EXCEPT ![u] = @ + 1]
  BY <1>1, ClaimedFollows
<1>3. CASE CommitFails(next)
  BY <1>2, <1>3, FailedSaveInv
<1>4. CASE /\ Commit(next) /\ token' = [token EXCEPT ![w] = Token(next, u)]
           /\ handed' = [handed EXCEPT ![u] = @ + 1] /\ UNCHANGED <<now, acked>>
  <2>1. job.attempts \in [Urls -> Nat] /\ handed \in [Urls -> Nat]
    BY <1>1, Fields DEF IInv, TypeOK, Sound
  <2>2. next.attempts[u] = job.attempts[u] + 1
    BY <1>2, <2>1
  <2>3. Fresh(next, w, u)
    <3> SUFFICES ASSUME NEW v \in Workers, token[v] # NoToken, token[v].url = u
                 PROVE  token[v].attempt # next.attempts[u]
      BY DEF Fresh
    <3>1. token[v].attempt \in Nat
      BY DEF IInv, TypeOK, Tokens
    <3>2. token[v].attempt <= job.attempts[u]
      BY DEF IInv, TokensDiffer
    <3> HIDE DEF next
    <3> QED
      BY <2>1, <2>2, <3>1, <3>2
  <2>4. HandedWithin(next)
    <3>1. \A p \in Urls : handed[p] <= job.attempts[p]
      BY DEF IInv, Counted
    <3> HIDE DEF next
    <3> QED
      BY <1>2, <1>4, <2>1, <3>1 DEF HandedWithin
  <2>5. Supersedes(job, next) /\ Commit(next) /\ UNCHANGED <<now, acked>>
    BY <1>2, <1>4
  <2>6. token' = [token EXCEPT ![w] = Token(next, u)]
    BY <1>4
  <2> HIDE DEF next
  <2> QED
    BY <2>3, <2>4, <2>5, <2>6, TokenInv
<1> QED
  BY <1>3, <1>4 DEF Claim

\* A renewal hands the same attempt out again, to the worker that had it.
LEMMA RenewInv ==
    ASSUME IInv, NEW w \in Workers, Renew(w)
    PROVE  IInv'
<1> DEFINE u == token[w].url
           next == Renewed(job, u, now + LeaseTime)
<1>1. /\ now + LeaseTime \in Nat /\ u \in Urls /\ Sound(job)
      /\ token[w] # NoToken /\ token[w].attempt = job.attempts[u]
  BY LiveToken DEF IInv, TypeOK, Renew, LeaseTime
<1>2. Supersedes(job, next) /\ next.attempts = job.attempts
  BY <1>1, RenewedFollows
<1>3. CASE CommitFails(next)
  BY <1>2, <1>3, FailedSaveInv
<1>4. CASE /\ Commit(next) /\ token' = [token EXCEPT ![w] = Token(next, u)]
           /\ UNCHANGED <<now, handed, acked>>
  <2>1. Fresh(next, w, u)
    BY <1>1, <1>2 DEF IInv, TokensDiffer, Fresh
  <2>2. HandedWithin(next)
    BY <1>2, <1>4 DEF IInv, TypeOK, Counted, HandedWithin
  <2>3. Supersedes(job, next) /\ Commit(next) /\ UNCHANGED <<now, acked>>
    BY <1>2, <1>4
  <2>4. token' = [token EXCEPT ![w] = Token(next, u)] /\ u \in Urls
    BY <1>1, <1>4
  <2> HIDE DEF next, u
  <2> QED
    BY <2>1, <2>2, <2>3, <2>4, TokenInv
<1> QED
  BY <1>3, <1>4 DEF Renew

\* A completion is acknowledged once it is saved.
LEMMA CompleteInv ==
    ASSUME IInv, NEW w \in Workers, NEW links, NEW recovered, Complete(w, links, recovered)
    PROVE  IInv'
<1>1. PICK new \in Discoveries(job, token[w].url, links) :
          \/ /\ Commit(Completed(job, token[w].url, new))
             /\ token' = [token EXCEPT ![w] = NoToken]
             /\ acked' = acked \cup {token[w].url}
             /\ UNCHANGED <<now, handed>>
          \/ CommitFails(Completed(job, token[w].url, new))
  BY DEF Complete
<1> DEFINE next == Completed(job, token[w].url, new)
<1>2. token[w].url \in Urls /\ job.page[token[w].url] = "InFlight" /\ Sound(job)
  BY LiveToken DEF Complete, IInv
<1>3. Supersedes(job, next) /\ next.page[token[w].url] = "Completed"
  BY <1>2, CompletedFollows
<1>4. CASE CommitFails(next)
  BY <1>3, <1>4, FailedSaveInv
<1>5. CASE /\ Commit(next) /\ token' = [token EXCEPT ![w] = NoToken]
           /\ acked' = acked \cup {token[w].url} /\ UNCHANGED <<now, handed>>
  <2>1. /\ token' \in [Workers -> Tokens \cup {NoToken}]
        /\ \A v \in Workers : token'[v] # NoToken => token'[v] = token[v]
    BY <1>5 DEF IInv, TypeOK
  <2>2. acked' \subseteq Urls /\ \A u \in acked' : u \in acked \/ next.page[u] = "Completed"
    BY <1>2, <1>3, <1>5 DEF IInv, TypeOK
  <2> HIDE DEF next
  <2> QED
    BY <1>3, <1>5, <2>1, <2>2, SavedInv
<1> QED
  BY <1>1, <1>4, <1>5

\* A failure gives the token up.
LEMMA FailInv ==
    ASSUME IInv, NEW w \in Workers, NEW retryable \in BOOLEAN, Fail(w, retryable)
    PROVE  IInv'
<1> DEFINE next == Failed(job, token[w].url, retryable)
<1>1. token[w].url \in Urls /\ job.page[token[w].url] = "InFlight" /\ Sound(job)
  BY LiveToken DEF Fail, IInv
<1>2. Supersedes(job, next)
  BY <1>1, FailedFollows
<1>3. CASE CommitFails(next)
  BY <1>2, <1>3, FailedSaveInv
<1>4. CASE Commit(next) /\ token' = [token EXCEPT ![w] = NoToken]
           /\ UNCHANGED <<now, handed, acked>>
  <2>1. /\ token' \in [Workers -> Tokens \cup {NoToken}]
        /\ \A v \in Workers : token'[v] # NoToken => token'[v] = token[v]
    BY <1>4 DEF IInv, TypeOK
  <2>2. acked' \subseteq Urls /\ acked' = acked
    BY <1>4 DEF IInv, TypeOK
  <2> HIDE DEF next
  <2> QED
    BY <1>2, <1>4, <2>1, <2>2, SavedInv
<1> QED
  BY <1>3, <1>4 DEF Fail

\* Operations without a token.
LEMMA OperateInv ==
    ASSUME IInv, NEW next, Supersedes(job, next), Operate(next)
    PROVE  IInv'
<1>1. CASE CommitFails(next)
  BY <1>1, FailedSaveInv
<1>2. CASE Commit(next) /\ UNCHANGED <<token, now, handed, acked>>
  <2>1. token' \in [Workers -> Tokens \cup {NoToken}] /\ acked' \subseteq Urls
    BY <1>2 DEF IInv, TypeOK
  <2> QED
    BY <1>2, <2>1, SavedInv
<1> QED
  BY <1>1, <1>2 DEF Operate

\* A crash leaves what the store holds, and no tokens.
LEMMA CrashInv ==
    ASSUME IInv, NEW recovery, Crash(recovery)
    PROVE  IInv'
<1> DEFINE next == IF recovery = "All" /\ Mutable(disk) /\ In(disk, "InFlight") # {}
                   THEN Recovered(disk, In(disk, "InFlight")) ELSE disk
<1>1. Sound(disk)
  BY DEF IInv
<1>2. Supersedes(disk, Recovered(disk, In(disk, "InFlight")))
  BY <1>1, RecoveredFollows
<1>3. Supersedes(disk, disk)
  BY <1>1, Fields DEF Supersedes, Sound
<1>4. Supersedes(disk, next)
  BY <1>2, <1>3
<1>5. /\ job' = next /\ disk' = next /\ faults' = faults + 1
      /\ token' = [w \in Workers |-> NoToken] /\ UNCHANGED <<now, handed, acked>>
  BY DEF Crash
<1> HIDE DEF next
<1>6. /\ handed \in [Urls -> Nat] /\ acked \subseteq Urls /\ faults + 1 \in Nat
      /\ disk.attempts \in [Urls -> Nat] /\ next.attempts \in [Urls -> Nat] /\ next \in Jobs
  BY <1>4, Fields DEF IInv, TypeOK, Supersedes, Sound
<1>7. Sound(next) /\ Counted(next) /\ Kept(next)
  BY <1>4, <1>6 DEF IInv, Supersedes, Counted, Kept
<1>8. TypeOK'
  BY <1>5, <1>6 DEF IInv, TypeOK
<1>9. TokensDiffer'
  BY <1>5 DEF TokensDiffer
<1>10. /\ Sound(job)' /\ Sound(disk)' /\ Counted(job)' /\ Counted(disk)'
       /\ Kept(job)' /\ Kept(disk)'
  BY <1>5, <1>7 DEF Sound, Counted, Kept
<1> QED
  BY <1>8, <1>9, <1>10 DEF IInv

\* A step that leaves both snapshots alone and at most gives a token up.
LEMMA QuietInv ==
    ASSUME IInv, UNCHANGED <<job, disk, faults, handed, acked>>, now' \in Nat,
           token' \in [Workers -> Tokens \cup {NoToken}],
           \A w \in Workers : token'[w] # NoToken => token'[w] = token[w]
    PROVE  IInv'
<1>1. TypeOK'
  BY DEF IInv, TypeOK
<1>2. TokensDiffer'
  BY DEF IInv, TokensDiffer
<1>3. /\ Sound(job)' /\ Sound(disk)' /\ Counted(job)' /\ Counted(disk)'
      /\ Kept(job)' /\ Kept(disk)'
  BY DEF IInv, Sound, Counted, Kept
<1> QED
  BY <1>1, <1>2, <1>3 DEF IInv

\* The invariant holds at the start.
LEMMA InitInv ==
    ASSUME Init PROVE IInv
<1>1. Sound(Created) /\ Created \in Jobs
  BY CreatedIsSound DEF Sound
<1>2. \A u \in Urls : Created.attempts[u] = 0
  BY DEF Created
<1>3. TypeOK
  BY <1>1 DEF Init, TypeOK
<1>4. /\ Sound(job) /\ Sound(disk) /\ Counted(job) /\ Counted(disk) /\ Kept(job) /\ Kept(disk)
  BY <1>1, <1>2 DEF Init, Counted, Kept
<1>5. TokensDiffer
  BY DEF Init, TokensDiffer
<1> QED
  BY <1>3, <1>4, <1>5 DEF IInv

\* Every step keeps it.
LEMMA NextInv ==
    ASSUME IInv, [Next]_vars PROVE IInv'
<1>1. ASSUME NEW w \in Workers, NEW u \in Urls, Claim(w, u) PROVE IInv'
  BY <1>1, ClaimInv
<1>2. ASSUME NEW w \in Workers, Renew(w) PROVE IInv'
  BY <1>2, RenewInv
<1>3. ASSUME NEW w \in Workers, Drop(w) PROVE IInv'
  <2>1. /\ UNCHANGED <<job, disk, faults, handed, acked>> /\ now' = now
        /\ token' = [token EXCEPT ![w] = NoToken]
    BY <1>3 DEF Drop
  <2>2. now' \in Nat /\ token' \in [Workers -> Tokens \cup {NoToken}]
        /\ \A v \in Workers : token'[v] # NoToken => token'[v] = token[v]
    BY <2>1 DEF IInv, TypeOK
  <2> QED
    BY <2>1, <2>2, QuietInv
<1>4. ASSUME NEW w \in Workers, NEW links \in Links, NEW recovered \in BOOLEAN,
             Complete(w, links, recovered)
      PROVE  IInv'
  BY <1>4, CompleteInv
<1>5. ASSUME NEW w \in Workers, NEW retryable \in BOOLEAN, Fail(w, retryable) PROVE IInv'
  BY <1>5, FailInv
<1>6. ASSUME NEW u \in Urls, RequeueFailed(u) PROVE IInv'
  BY <1>6, RequeuedFollows, OperateInv DEF RequeueFailed, IInv
<1>7. CASE RecoverExpired
  <2>1. Expired \subseteq In(job, "InFlight") /\ Operate(Recovered(job, Expired))
    BY <1>7 DEF RecoverExpired, Expired
  <2> QED
    BY <2>1, RecoveredFollows, OperateInv DEF IInv
<1>8. CASE Cancel \/ FailJob
  BY <1>8, EndFollows, OperateInv DEF Cancel, FailJob, IInv
<1>9. CASE Tick
  <2>1. UNCHANGED <<job, disk, faults, handed, acked>> /\ token' = token /\ now' \in Nat
    BY <1>9 DEF Tick, IInv, TypeOK
  <2> QED
    BY <2>1, QuietInv DEF IInv, TypeOK
<1>10. ASSUME NEW recovery \in {"None", "All"}, Crash(recovery) PROVE IInv'
  BY <1>10, CrashInv
<1>11. CASE UNCHANGED vars
  <2>1. UNCHANGED <<job, disk, faults, handed, acked>> /\ token' = token /\ now' \in Nat
    BY <1>11 DEF vars, IInv, TypeOK
  <2> QED
    BY <2>1, QuietInv DEF IInv, TypeOK
<1> QED
  BY <1>1, <1>2, <1>3, <1>4, <1>5, <1>6, <1>7, <1>8, <1>9, <1>10, <1>11 DEF Next

-----------------------------------------------------------------------------
(* The theorems *)

\* The invariant holds in every state.
THEOREM Invariance == Spec => []IInv
<1>1. Init => IInv
  BY InitInv
<1>2. IInv /\ [Next]_vars => IInv'
  BY NextInv
<1> QED
  BY <1>1, <1>2, PTL DEF Spec

\* No page is left pending that claim_next() would never hand out, whatever fails and
\* whoever retries, requeues or recovers it.
THEOREM NothingIsStranded == Spec => []PendingIsClaimable
<1>1. IInv => PendingIsClaimable
  BY DEF IInv, Sound, PendingIsClaimable, In
<1> QED
  BY <1>1, Invariance, PTL

\* No page is handed out more often than its attempts allow, over failed saves and
\* crashes.
THEOREM AttemptsBounded == Spec => []AttemptsAreCounted
<1>1. IInv => AttemptsAreCounted
  BY DEF IInv, Sound, Counted, AttemptsAreCounted
<1> QED
  BY <1>1, Invariance, PTL

\* Two workers never both hold a live lease of a page.
THEOREM LeasesNeverShared == Spec => []LeasesExclude
<1>1. IInv => LeasesExclude
  BY DEF IInv, TokensDiffer, LeasesExclude, Live, Token
<1> QED
  BY <1>1, Invariance, PTL

\* A completion a worker was told of is never lost.
THEOREM CompletionsLast == Spec => []AckedIsDurable
<1>1. IInv => AckedIsDurable
  BY DEF IInv, TypeOK, Kept, AckedIsDurable, In
<1> QED
  BY <1>1, Invariance, PTL

-----------------------------------------------------------------------------
(* Queues *)

\* Nothing is in a queue twice.
OnceIn(q) == \A i, j \in DOMAIN q : q[i] = q[j] => i = j

\* A call put at the end of a queue it was not in is in it once.
LEMMA PutAtTheEnd ==
    ASSUME NEW S, NEW q \in Seq(S), NEW x \in S
    PROVE  /\ ToSet(Append(q, x)) = ToSet(q) \cup {x}
           /\ OnceIn(q) /\ x \notin ToSet(q) => OnceIn(Append(q, x))
<1>1. /\ DOMAIN Append(q, x) = 1 .. (Len(q) + 1) /\ DOMAIN q = 1 .. Len(q) /\ Len(q) \in Nat
      /\ Append(q, x)[Len(q) + 1] = x
      /\ \A i \in 1 .. Len(q) : Append(q, x)[i] = q[i]
  OBVIOUS
<1>2. ToSet(Append(q, x)) = ToSet(q) \cup {x}
  <2>1. ASSUME NEW y \in ToSet(Append(q, x)) PROVE y \in ToSet(q) \cup {x}
    BY <1>1 DEF ToSet
  <2>2. ASSUME NEW y \in ToSet(q) PROVE y \in ToSet(Append(q, x))
    BY <1>1 DEF ToSet
  <2>3. Len(q) + 1 \in DOMAIN Append(q, x)
    BY <1>1
  <2>4. x \in ToSet(Append(q, x))
    BY <1>1, <2>3 DEF ToSet
  <2>5. QED BY <2>1, <2>2, <2>4
<1>3. ASSUME OnceIn(q), x \notin ToSet(q) PROVE OnceIn(Append(q, x))
  <2>1. \A i \in 1 .. Len(q) : q[i] # x
    BY <1>1, <1>3 DEF ToSet
  <2>2. QED BY <1>1, <1>3, <2>1 DEF OnceIn
<1>4. QED BY <1>2, <1>3

\* The command taken from a queue it was in once is not in what is left.
LEMMA TakenFromTheFront ==
    ASSUME NEW S, NEW q \in Seq(S), q # <<>>, OnceIn(q)
    PROVE  /\ Tail(q) \in Seq(S) /\ Len(Tail(q)) = Len(q) - 1 /\ OnceIn(Tail(q))
           /\ ToSet(Tail(q)) \subseteq ToSet(q) /\ Head(q) \notin ToSet(Tail(q))
           /\ Head(q) \in ToSet(q) /\ Head(q) \in S
<1>1. /\ Len(q) \in Nat /\ Len(q) # 0 /\ DOMAIN q = 1 .. Len(q) /\ Head(q) = q[1]
      /\ Tail(q) \in Seq(S) /\ Len(Tail(q)) = Len(q) - 1
      /\ DOMAIN Tail(q) = 1 .. (Len(q) - 1)
      /\ \A i \in 1 .. (Len(q) - 1) : Tail(q)[i] = q[i + 1]
  BY HeadTailProperties
<1>2. 1 \in DOMAIN q /\ \A i \in 1 .. (Len(q) - 1) : i + 1 \in DOMAIN q /\ i + 1 # 1
  BY <1>1
<1>3. OnceIn(Tail(q))
  <2>1. ASSUME NEW i \in 1 .. (Len(q) - 1), NEW j \in 1 .. (Len(q) - 1), Tail(q)[i] = Tail(q)[j]
        PROVE  i = j
    <3>1. i + 1 = j + 1
      BY <1>1, <1>2, <2>1 DEF OnceIn
    <3>2. QED BY <3>1
  <2>2. QED BY <1>1, <2>1 DEF OnceIn
<1>4. ToSet(Tail(q)) \subseteq ToSet(q)
  BY <1>1, <1>2 DEF ToSet
<1>5. Head(q) \notin ToSet(Tail(q))
  <2>1. ASSUME NEW i \in 1 .. (Len(q) - 1), Tail(q)[i] = Head(q) PROVE FALSE
    BY <1>1, <1>2, <2>1 DEF OnceIn
  <2>2. QED BY <1>1, <2>1 DEF ToSet
<1>6. Head(q) \in ToSet(q) /\ Head(q) \in S
  BY <1>1, <1>2 DEF ToSet
<1>7. QED BY <1>1, <1>3, <1>4, <1>5, <1>6

\* Nothing is in an empty one.
LEMMA EmptyQueue == ToSet(<<>>) = {} /\ OnceIn(<<>>)
<1>1. DOMAIN <<>> = {}
  OBVIOUS
<1>2. QED BY <1>1 DEF ToSet, OnceIn

\* What is left of a queue when one is taken out of it.
LEMMA TakenOut ==
    ASSUME NEW S, NEW q \in Seq(S), OnceIn(q), NEW i \in DOMAIN q
    PROVE  LET r == RemoveAt(q, i) IN
           /\ r \in Seq(S) /\ Len(r) = Len(q) - 1 /\ OnceIn(r)
           /\ ToSet(r) = ToSet(q) \ {q[i]}
           /\ i # 1 => r # <<>> /\ Head(r) = Head(q)
<1> DEFINE r == RemoveAt(q, i)
           f == SubSeq(q, 1, i - 1)
           b == SubSeq(q, i + 1, Len(q))
<1>1. Len(q) \in Nat /\ DOMAIN q = 1 .. Len(q) /\ i \in 1 .. Len(q)
  OBVIOUS
<1>2. /\ f \in Seq(S) /\ Len(f) = i - 1 /\ \A j \in 1 .. (i - 1) : f[j] = q[j]
  BY <1>1
<1>3. /\ b \in Seq(S) /\ Len(b) = Len(q) - i /\ \A j \in 1 .. (Len(q) - i) : b[j] = q[i + j]
  <2>1. \A j \in 1 .. Len(q) : q[j] \in S
    BY <1>1
  <2>2. CASE i < Len(q)
    <3>1. i + 1 \in 1 .. Len(q) /\ Len(q) \in (i + 1) - 1 .. Len(q)
      BY <1>1, <2>2
    <3>2. /\ b \in Seq(S) /\ Len(b) = Len(q) - (i + 1) + 1
          /\ \A j \in 1 .. (Len(q) - (i + 1) + 1) : b[j] = q[(i + 1) + j - 1]
      BY <1>1, <3>1, SubSeqProperties
    <3>3. Len(q) - (i + 1) + 1 = Len(q) - i
      BY <1>1
    <3>4. \A j \in 1 .. (Len(q) - i) : (i + 1) + j - 1 = i + j
      BY <1>1
    <3>5. QED BY <3>2, <3>3, <3>4
  <2>3. CASE i = Len(q)
    <3>1. b = <<>>
      BY <1>1, <2>3
    <3>2. Len(q) - i = 0
      BY <1>1, <2>3
    <3>3. QED BY <3>1, <3>2
  <2>4. QED BY <1>1, <2>2, <2>3
<1>4. r = f \o b
  BY DEF RemoveAt
<1> HIDE DEF r, f, b
<1>5. /\ r \in Seq(S) /\ Len(r) = Len(q) - 1
      /\ \A j \in 1 .. (Len(q) - 1) : r[j] = IF j < i THEN q[j] ELSE q[j + 1]
  <2>0. /\ r \in Seq(S) /\ Len(r) = Len(f) + Len(b)
        /\ \A j \in 1 .. (Len(f) + Len(b)) : r[j] = IF j <= Len(f) THEN f[j] ELSE b[j - Len(f)]
    BY <1>2, <1>3, <1>4, ConcatProperties
  <2>1. /\ r \in Seq(S) /\ Len(r) = (i - 1) + (Len(q) - i)
        /\ \A j \in 1 .. Len(r) : r[j] = IF j <= i - 1 THEN f[j] ELSE b[j - (i - 1)]
    BY <1>2, <1>3, <2>0
  <2>2. Len(r) = Len(q) - 1
    BY <1>1, <2>1
  <2>3. ASSUME NEW j \in 1 .. (Len(q) - 1) PROVE r[j] = IF j < i THEN q[j] ELSE q[j + 1]
    <3>1. CASE j < i
      BY <1>1, <1>2, <2>1, <2>2, <2>3, <3>1
    <3>2. CASE ~ (j < i)
      <4>1. j - (i - 1) \in 1 .. (Len(q) - i) /\ ~ (j <= i - 1) /\ i + (j - (i - 1)) = j + 1
        BY <1>1, <2>3, <3>2
      <4>2. QED BY <1>3, <2>1, <2>2, <2>3, <3>2, <4>1
    <3>3. QED BY <3>1, <3>2
  <2>4. QED BY <2>1, <2>2, <2>3
<1>6. DOMAIN r = 1 .. (Len(q) - 1)
  BY <1>5
<1>7. OnceIn(r)
  <2>1. ASSUME NEW j \in 1 .. (Len(q) - 1), NEW k \in 1 .. (Len(q) - 1), r[j] = r[k]
        PROVE  j = k
    <3> DEFINE J == IF j < i THEN j ELSE j + 1
               K == IF k < i THEN k ELSE k + 1
    <3>1. J \in DOMAIN q /\ K \in DOMAIN q /\ r[j] = q[J] /\ r[k] = q[K]
      BY <1>1, <1>5
    <3>2. J = K
      BY <2>1, <3>1 DEF OnceIn
    <3>3. QED BY <1>1, <3>2
  <2>2. QED BY <1>6, <2>1 DEF OnceIn
<1>8. ToSet(r) = ToSet(q) \ {q[i]}
  <2>1. ASSUME NEW j \in 1 .. (Len(q) - 1) PROVE r[j] \in ToSet(q) \ {q[i]}
    <3> DEFINE J == IF j < i THEN j ELSE j + 1
    <3>1. J \in DOMAIN q /\ J # i /\ r[j] = q[J]
      BY <1>1, <1>5
    <3>2. QED BY <3>1 DEF OnceIn, ToSet
  <2>2. ASSUME NEW k \in DOMAIN q, q[k] # q[i] PROVE q[k] \in ToSet(r)
    <3> DEFINE j == IF k < i THEN k ELSE k - 1
    <3>1. k # i
      BY <2>2
    <3>2. j \in 1 .. (Len(q) - 1) /\ r[j] = q[k]
      BY <1>1, <1>5, <3>1
    <3>3. QED BY <1>6, <3>2 DEF ToSet
  <2>3. QED BY <1>6, <2>1, <2>2 DEF ToSet
<1>9. ASSUME i # 1 PROVE r # <<>> /\ Head(r) = Head(q)
  <2>1. 1 \in 1 .. (Len(q) - 1) /\ 1 < i
    BY <1>1, <1>9
  <2>2. r[1] = q[1] /\ Len(r) # 0
    BY <1>5, <2>1
  <2>3. QED BY <1>1, <1>5, <2>2
<1>10. QED BY <1>5, <1>7, <1>8, <1>9 DEF r

-----------------------------------------------------------------------------
(* CdpTransport *)

\* The name of the command that ends the writer is no call's.
CloseIsNoCall == "Close" \notin Calls
CapacityIsNatural == Capacity \in Nat

\* The call the writer has in hand.
InHand(w) == IF w.at \in {"Taken", "Registered", "Sending"} THEN {w.call} ELSE {}

\* A call is with the peer, in the writer's hand or once in the queue, and none of it before
\* its caller has put it there.
EachOnce ==
    /\ OnceIn(queue)
    /\ InHand(writer) \cap ToSet(queue) = {}
    /\ sent \cap ToSet(queue) = {}
    /\ sent \cap InHand(writer) = {}
    /\ \A c \in Calls : call[c] \in {"New", "Admitted"} =>
          c \notin ToSet(queue) /\ c \notin sent /\ c \notin InHand(writer)

\* While the connection is up, what the peer may answer has its entry.
EntriesAreKept ==
    /\ lost = {}
    /\ ~ terminal => /\ sent \subseteq pending
                     /\ writer.at \in {"Registered", "Sending"} => writer.call \in pending

\* Who leaves has set the flag, and what is entered after the reader's end is with the writer,
\* which has yet to look at the flag.
EndsAreSeen ==
    /\ writer.at \in {"Clear", "Gone"} => terminal
    /\ cdpReader \in {"Clear", "Gone"} => terminal
    /\ cdpReader = "Gone" => pending \subseteq {c \in InHand(writer) : writer.at = "Registered"}

CdpInv == CdpTypeOK /\ EachOnce /\ EntriesAreKept /\ EndsAreSeen

\* Every step of the client keeps it.
LEMMA CdpInvariance == ASSUME CloseIsNoCall, CapacityIsNatural PROVE CdpSpec => []CdpInv
<1>1. ASSUME CdpInit PROVE CdpInv
  <2>1. CdpTypeOK
    <3>1. <<>> \in Seq(Calls \cup {"Close"}) /\ Len(<<>>) = 0
      OBVIOUS
    <3>2. Len(queue) <= Capacity /\ queue \in Seq(Calls \cup {"Close"})
      BY <1>1, <3>1 DEF CdpInit, CapacityIsNatural
    <3>3. QED BY <1>1, <3>2 DEF CdpInit, CdpTypeOK, At
  <2>2. InHand(writer) = {}
    BY <1>1 DEF CdpInit, InHand, At
  <2>3. EachOnce
    BY <1>1, <2>2, EmptyQueue DEF CdpInit, EachOnce
  <2>4. EntriesAreKept /\ EndsAreSeen
    BY <1>1 DEF CdpInit, EntriesAreKept, EndsAreSeen, At
  <2>5. QED BY <2>1, <2>3, <2>4 DEF CdpInv
<1>2. ASSUME CdpInv, [CdpNext]_cdpVars PROVE CdpInv'
  <2> DEFINE S == Calls \cup {"Close"}
  <2>0. /\ call \in [Calls -> {"New", "Admitted", "Waiting", "Returned", "Dropped"}]
        /\ queue \in Seq(S) /\ Len(queue) <= Capacity /\ Len(queue) \in Nat /\ Capacity \in Nat
        /\ pending \subseteq Calls /\ answered \subseteq Calls /\ sent \subseteq Calls
        /\ lost \subseteq Calls /\ terminal \in BOOLEAN
    BY <1>2 DEF CdpInv, CdpTypeOK, CapacityIsNatural
  <2>1. /\ writer \in [at : {"Receive", "Closing", "Mark", "Clear", "Gone"}]
                      \cup [at : {"Taken", "Registered", "Sending"}, call : Calls]
        /\ cdpReader \in {"Read", "Mark", "Clear", "Gone"}
    BY <1>2 DEF CdpInv, CdpTypeOK
  <2>2. EachOnce /\ EntriesAreKept /\ EndsAreSeen
    BY <1>2 DEF CdpInv
  <2>3. "Close" \notin Calls
    BY DEF CloseIsNoCall
  <2>4. InHand(writer) \subseteq Calls
    BY <2>1 DEF InHand
  <2>5. CASE UNCHANGED cdpVars
    BY <1>2, <2>5
       DEF cdpVars, CdpInv, CdpTypeOK, EachOnce, EntriesAreKept, EndsAreSeen, OnceIn, InHand, ToSet
  <2>6. ASSUME NEW c \in Calls, Begin(c) \/ Return(c) \/ DropCall(c) PROVE CdpInv'
    <3>1. /\ call' \in [Calls -> {"New", "Admitted", "Waiting", "Returned", "Dropped"}]
          /\ \A d \in Calls : call'[d] \in {"New", "Admitted"} => call[d] \in {"New", "Admitted"}
      BY <2>0, <2>6 DEF Begin, Return, DropCall
    <3>2. UNCHANGED <<queue, pending, answered, terminal, writer, cdpReader, sent, lost>>
      BY <2>6 DEF Begin, Return, DropCall
    <3>3. CdpTypeOK'
      BY <2>0, <2>1, <3>1, <3>2 DEF CdpTypeOK
    <3>4. EachOnce'
      BY <2>2, <3>1, <3>2 DEF EachOnce, OnceIn, InHand, ToSet
    <3>5. EntriesAreKept' /\ EndsAreSeen'
      BY <2>2, <3>2 DEF EntriesAreKept, EndsAreSeen, InHand
    <3>6. QED BY <3>3, <3>4, <3>5 DEF CdpInv
  <2>7. ASSUME NEW c \in Calls, Enqueue(c) PROVE CdpInv'
    <3>1. UNCHANGED <<pending, answered, terminal, writer, cdpReader, sent, lost>>
      BY <2>7 DEF Enqueue
    <3>2. /\ call' \in [Calls -> {"New", "Admitted", "Waiting", "Returned", "Dropped"}]
          /\ call'[c] \notin {"New", "Admitted"} /\ \A d \in Calls \ {c} : call'[d] = call[d]
      BY <2>0, <2>7 DEF Enqueue
    <3>3. /\ c \notin ToSet(queue) /\ c \notin sent /\ c \notin InHand(writer)
      BY <2>2, <2>7 DEF Enqueue, EachOnce
    <3>4. /\ queue' \in Seq(S) /\ Len(queue') <= Capacity /\ OnceIn(queue)'
          /\ ToSet(queue') \in {ToSet(queue), ToSet(queue) \cup {c}}
      <4>1. CASE queue' = queue
        BY <2>0, <2>2, <4>1 DEF EachOnce, OnceIn, ToSet
      <4>2. CASE queue' = Append(queue, c) /\ Len(queue) < Capacity
        <5>1. queue' \in Seq(S) /\ Len(queue') = Len(queue) + 1
          BY <2>0, <4>2
        <5>2. OnceIn(queue')
          BY <2>0, <2>2, <3>3, <4>2, PutAtTheEnd DEF EachOnce
        <5>3. ToSet(queue') = ToSet(queue) \cup {c}
          BY <2>0, <4>2, PutAtTheEnd
        <5>4. OnceIn(queue)'
          BY <5>2 DEF OnceIn
        <5>5. QED BY <2>0, <4>2, <5>1, <5>3, <5>4
      <4>3. QED BY <2>7, <4>1, <4>2 DEF Enqueue
    <3>5. CdpTypeOK'
      BY <2>0, <2>1, <3>1, <3>2, <3>4 DEF CdpTypeOK
    <3>6. EachOnce'
      <4>1. InHand(writer') = InHand(writer)
        BY <3>1
      <4>2. QED BY <2>2, <3>1, <3>2, <3>3, <3>4, <4>1 DEF EachOnce
    <3>7. EntriesAreKept' /\ EndsAreSeen'
      BY <2>2, <3>1 DEF EntriesAreKept, EndsAreSeen, InHand
    <3>8. QED BY <3>5, <3>6, <3>7 DEF CdpInv
  <2>8. ASSUME Close PROVE CdpInv'
    <3>1. UNCHANGED <<call, pending, answered, terminal, writer, cdpReader, sent, lost>>
      BY <2>8 DEF Close
    <3>2. queue' = Append(queue, "Close") /\ Len(queue) < Capacity /\ "Close" \notin ToSet(queue)
      BY <2>8 DEF Close
    <3>3. queue' \in Seq(S) /\ Len(queue') = Len(queue) + 1
      BY <2>0, <3>2
    <3>4. OnceIn(queue') /\ ToSet(queue') = ToSet(queue) \cup {"Close"}
      BY <2>0, <2>2, <3>2, PutAtTheEnd DEF EachOnce
    <3>5. CdpTypeOK'
      BY <2>0, <2>1, <3>1, <3>2, <3>3 DEF CdpTypeOK
    <3>6. EachOnce'
      BY <2>0, <2>2, <2>3, <2>4, <3>1, <3>4 DEF EachOnce
    <3>7. EntriesAreKept' /\ EndsAreSeen'
      BY <2>2, <3>1 DEF EntriesAreKept, EndsAreSeen, InHand
    <3>8. QED BY <3>5, <3>6, <3>7 DEF CdpInv
  <2>9. ASSUME Receive PROVE CdpInv'
    <3>1. UNCHANGED <<call, pending, terminal, cdpReader, sent, lost>> /\ writer = At("Receive")
      BY <2>9 DEF Receive
    <3>2. InHand(writer) = {}
      BY <3>1 DEF InHand, At
    <3>3. CASE terminal
      <4>1. writer' = At("Gone") /\ queue' = <<>>
            /\ answered' = answered \cup (ToSet(queue) \cap Calls)
        BY <2>9, <3>3 DEF Receive, WriterGone
      <4>2. InHand(writer') = {}
        BY <4>1 DEF InHand, At
      <4>3. CdpTypeOK'
        BY <2>0, <2>1, <3>1, <4>1 DEF CdpTypeOK, At
      <4>4. EachOnce'
        BY <2>2, <3>1, <4>1, <4>2, EmptyQueue DEF EachOnce
      <4>5. EntriesAreKept' /\ EndsAreSeen'
        BY <2>2, <3>1, <3>2, <3>3, <4>1, <4>2 DEF EntriesAreKept, EndsAreSeen, At
      <4>6. QED BY <4>3, <4>4, <4>5 DEF CdpInv
    <3>4. CASE ~ terminal
      <4>1. /\ queue # <<>> /\ queue' = Tail(queue) /\ answered' = answered
            /\ writer' = IF Head(queue) = "Close" THEN At("Closing") ELSE On("Taken", Head(queue))
        BY <2>9, <3>4 DEF Receive
      <4>2. /\ queue' \in Seq(S) /\ Len(queue') = Len(queue) - 1 /\ OnceIn(queue')
            /\ ToSet(queue') \subseteq ToSet(queue) /\ Head(queue) \notin ToSet(queue')
            /\ Head(queue) \in ToSet(queue) /\ Head(queue) \in S
        BY <2>0, <2>2, <4>1, TakenFromTheFront DEF EachOnce
      <4>3. InHand(writer') \subseteq {Head(queue)}
        BY <4>1 DEF InHand, At, On
      <4>4. CdpTypeOK'
        BY <2>0, <2>1, <3>1, <4>1, <4>2 DEF CdpTypeOK, At, On
      <4>5. EachOnce'
        BY <2>2, <3>1, <4>2, <4>3 DEF EachOnce
      <4>6. EntriesAreKept' /\ EndsAreSeen'
        BY <2>2, <3>1, <3>2, <3>4, <4>1 DEF EntriesAreKept, EndsAreSeen, At, On
      <4>7. QED BY <4>4, <4>5, <4>6 DEF CdpInv
    <3>5. QED BY <2>0, <3>3, <3>4
  <2>10. ASSUME CloseSent PROVE CdpInv'
    <3>1. /\ UNCHANGED <<call, queue, pending, answered, terminal, cdpReader, sent, lost>>
          /\ writer = At("Closing") /\ writer' = At("Mark")
      BY <2>10 DEF CloseSent
    <3>2. InHand(writer) = {} /\ InHand(writer') = {}
      BY <3>1 DEF InHand, At
    <3>3. CdpTypeOK'
      BY <2>0, <2>1, <3>1 DEF CdpTypeOK, At
    <3>4. EachOnce'
      BY <2>2, <3>1, <3>2 DEF EachOnce, OnceIn, ToSet
    <3>5. EntriesAreKept' /\ EndsAreSeen'
      BY <2>2, <3>1, <3>2 DEF EntriesAreKept, EndsAreSeen, At
    <3>6. QED BY <3>3, <3>4, <3>5 DEF CdpInv
  <2>11. ASSUME Register PROVE CdpInv'
    <3>1. /\ UNCHANGED <<call, queue, answered, terminal, cdpReader, sent, lost>>
          /\ writer.at = "Taken" /\ pending' = pending \cup {writer.call}
          /\ writer' = On("Registered", writer.call)
      BY <2>11 DEF Register
    <3>2. InHand(writer') = InHand(writer) /\ InHand(writer) = {writer.call}
          /\ writer.call \in Calls
      BY <2>4, <3>1 DEF InHand, On
    <3>3. CdpTypeOK'
      BY <2>0, <2>1, <3>1, <3>2 DEF CdpTypeOK, On
    <3>4. EachOnce'
      BY <2>2, <3>1, <3>2 DEF EachOnce, OnceIn, ToSet
    <3>5. EntriesAreKept' /\ EndsAreSeen'
      BY <2>2, <3>1, <3>2 DEF EntriesAreKept, EndsAreSeen, On
    <3>6. QED BY <3>3, <3>4, <3>5 DEF CdpInv
  <2>12. ASSUME CheckTerminal \/ Transmit \/ SendEnds \/ WriterFlags \/ WriterClears PROVE CdpInv'
    <3>1. UNCHANGED <<call, cdpReader, lost>> /\ queue' \in {queue, <<>>}
      BY <2>12 DEF CheckTerminal, Transmit, SendEnds, WriterFlags, WriterClears, Forget, Flag
    <3>2. InHand(writer') \subseteq InHand(writer)
      BY <2>12
         DEF CheckTerminal, Transmit, SendEnds, WriterFlags, WriterClears, Forget, InHand, At, On
    <3>3. /\ terminal' \in BOOLEAN /\ answered' \subseteq Calls
          /\ pending' \subseteq pending
          /\ sent' \subseteq Calls /\ sent' \subseteq sent \cup InHand(writer)
      <4>1. writer.at \in {"Registered", "Sending"} => writer.call \in InHand(writer)
        BY DEF InHand
      <4>2. QED
        BY <2>0, <2>4, <2>12, <4>1
           DEF CheckTerminal, Transmit, SendEnds, WriterFlags, WriterClears, Forget, Flag
    <3>4. writer' \in [at : {"Receive", "Closing", "Mark", "Clear", "Gone"}]
                       \cup [at : {"Taken", "Registered", "Sending"}, call : Calls]
      <4>1. writer.at = "Registered" => writer.call \in Calls
        BY <2>1
      <4>2. QED
        BY <2>12, <4>1
           DEF CheckTerminal, Transmit, SendEnds, WriterFlags, WriterClears, Forget, At, On
    <3>5. CdpTypeOK'
      <4>1. queue' \in Seq(S) /\ Len(queue') <= Capacity
        <5>1. <<>> \in Seq(S) /\ Len(<<>>) = 0
          OBVIOUS
        <5>2. CASE queue' = queue
          BY <2>0, <5>2
        <5>3. CASE queue' = <<>>
          BY <2>0, <5>1, <5>3
        <5>4. QED BY <3>1, <5>2, <5>3
      <4>2. pending' \subseteq Calls
        BY <2>0, <3>3
      <4>3. QED BY <2>0, <2>1, <3>1, <3>3, <3>4, <4>1, <4>2 DEF CdpTypeOK
    <3>6. EachOnce'
      <4>1. ToSet(queue') \subseteq ToSet(queue) /\ OnceIn(queue')
        BY <2>2, <3>1, EmptyQueue DEF EachOnce
      <4>2. sent' \cap InHand(writer') = {}
        <5>1. CASE Transmit
          <6>1. InHand(writer') = {}
            BY <5>1 DEF Transmit, InHand, At
          <6>2. QED BY <6>1
        <5>2. CASE sent' = sent
          BY <2>2, <3>2, <5>2 DEF EachOnce
        <5>3. QED BY <2>12, <5>1, <5>2 DEF CheckTerminal, SendEnds, WriterFlags, WriterClears
      <4>3. sent' \cap ToSet(queue') = {} /\ InHand(writer') \cap ToSet(queue') = {}
        BY <2>2, <3>2, <3>3, <4>1 DEF EachOnce
      <4>4. ASSUME NEW c \in Calls, call'[c] \in {"New", "Admitted"}
            PROVE  c \notin ToSet(queue') /\ c \notin sent' /\ c \notin InHand(writer')
        BY <2>2, <3>1, <3>2, <3>3, <4>1, <4>4 DEF EachOnce
      <4>5. QED BY <4>1, <4>2, <4>3, <4>4 DEF EachOnce
    <3>7. EntriesAreKept'
      <4>1. lost' = {}
        BY <2>2, <3>1 DEF EntriesAreKept
      <4>2. ASSUME ~ terminal'
            PROVE  /\ sent' \subseteq pending'
                   /\ writer'.at \in {"Registered", "Sending"} => writer'.call \in pending'
        <5>1. CASE CheckTerminal
          BY <2>2, <4>2, <5>1 DEF CheckTerminal, EndedUnder, EntriesAreKept, On
        <5>2. CASE Transmit
          BY <2>2, <4>2, <5>2 DEF Transmit, EntriesAreKept, At
        <5>3. CASE SendEnds
          <6>1. /\ ~ terminal /\ writer' = At("Mark") /\ pending' = pending \ {writer.call}
                /\ sent' = sent
            BY <4>2, <5>3 DEF SendEnds
          <6>2. writer.call \notin sent
            BY <2>2, <5>3 DEF SendEnds, EachOnce, InHand
          <6>3. QED BY <2>2, <6>1, <6>2 DEF EntriesAreKept, At
        <5>4. CASE WriterFlags
          BY <4>2, <5>4 DEF WriterFlags, Flag
        <5>5. CASE WriterClears
          BY <2>2, <4>2, <5>5 DEF WriterClears, EndsAreSeen, At
        <5>6. QED BY <2>12, <5>1, <5>2, <5>3, <5>4, <5>5
      <4>3. QED BY <4>1, <4>2 DEF EntriesAreKept
    <3>8. EndsAreSeen'
      <4>1. writer'.at \in {"Clear", "Gone"} => terminal'
        BY <2>2, <2>12
           DEF CheckTerminal, Transmit, SendEnds, WriterFlags, WriterClears, Forget, Flag, At, On,
               EndedUnder, EndsAreSeen
      <4>2. terminal => terminal'
        BY <2>12 DEF CheckTerminal, Transmit, SendEnds, WriterFlags, WriterClears, Flag
      <4>3. ASSUME cdpReader = "Gone"
            PROVE  pending' \subseteq {c \in InHand(writer') : writer'.at = "Registered"}
        <5>1. terminal /\ pending \subseteq {c \in InHand(writer) : writer.at = "Registered"}
          BY <2>2, <4>3 DEF EndsAreSeen
        <5>2. CASE writer.at = "Registered"
          <6>1. CheckTerminal
            BY <2>12, <5>2 DEF Transmit, SendEnds, WriterFlags, WriterClears, At
          <6>2. pending' = pending \ {writer.call} /\ pending \subseteq {writer.call}
            BY <5>1, <5>2, <6>1 DEF CheckTerminal, EndedUnder, Forget, InHand
          <6>3. QED BY <6>2
        <5>3. CASE writer.at # "Registered"
          BY <3>3, <5>1, <5>3
        <5>4. QED BY <5>2, <5>3
      <4>4. QED BY <2>2, <3>1, <4>1, <4>2, <4>3 DEF EndsAreSeen
    <3>9. QED BY <3>5, <3>6, <3>7, <3>8 DEF CdpInv
  <2>13. ASSUME NEW c \in Calls, Dispatch(c) PROVE CdpInv'
    <3>1. /\ UNCHANGED <<call, queue, terminal, writer, cdpReader>>
          /\ cdpReader = "Read" /\ c \in sent /\ sent' = sent \ {c} /\ pending' = pending \ {c}
          /\ answered' = IF c \in pending THEN answered \cup {c} ELSE answered
          /\ lost' = IF c \in pending \/ terminal THEN lost ELSE lost \cup {c}
      BY <2>13 DEF Dispatch
    <3>2. CdpTypeOK'
      <4>1. sent' \subseteq Calls /\ pending' \subseteq Calls /\ answered' \subseteq Calls
            /\ lost' \subseteq Calls
        BY <2>0, <3>1
      <4>2. QED BY <2>0, <2>1, <3>1, <4>1 DEF CdpTypeOK
    <3>3. EachOnce'
      BY <2>2, <3>1 DEF EachOnce, OnceIn, ToSet, InHand
    <3>4. EntriesAreKept'
      <4>1. lost' = {}
        BY <2>2, <3>1 DEF EntriesAreKept
      <4>2. writer.at \in {"Registered", "Sending"} => writer.call # c
        BY <2>2, <3>1 DEF EachOnce, InHand
      <4>3. QED BY <2>2, <3>1, <4>1, <4>2 DEF EntriesAreKept
    <3>5. EndsAreSeen'
      BY <2>2, <3>1 DEF EndsAreSeen, InHand
    <3>6. QED BY <3>2, <3>3, <3>4, <3>5 DEF CdpInv
  <2>14. ASSUME ReadEnds \/ ReaderFlags \/ ReaderClears PROVE CdpInv'
    <3>1. /\ UNCHANGED <<call, queue, writer, sent, lost>>
          /\ cdpReader' \in {"Mark", "Clear", "Gone"} /\ terminal' \in BOOLEAN
          /\ (terminal => terminal')
          /\ pending' \subseteq pending /\ answered' \subseteq Calls
          /\ ~ terminal' => pending' = pending
          /\ cdpReader' \in {"Clear", "Gone"} => terminal'
          /\ cdpReader' = "Gone" => pending' = {}
      BY <2>0, <2>2, <2>14 DEF ReadEnds, ReaderFlags, ReaderClears, Flag, EndsAreSeen
    <3>2. CdpTypeOK'
      <4>1. pending' \subseteq Calls
        BY <2>0, <3>1
      <4>2. QED BY <2>0, <2>1, <3>1, <4>1 DEF CdpTypeOK
    <3>3. EachOnce'
      BY <2>2, <3>1 DEF EachOnce, OnceIn, ToSet, InHand
    <3>4. EntriesAreKept'
      BY <2>2, <3>1 DEF EntriesAreKept
    <3>5. EndsAreSeen'
      BY <2>2, <3>1 DEF EndsAreSeen
    <3>6. QED BY <3>2, <3>3, <3>4, <3>5 DEF CdpInv
  <2>15. QED
    BY <1>2, <2>5, <2>6, <2>7, <2>8, <2>9, <2>10, <2>11, <2>12, <2>13, <2>14 DEF CdpNext
<1>3. QED BY <1>1, <1>2, PTL DEF CdpSpec

\* However a connection of the CDP client ends and whoever ends it, every reply finds its call
\* and no call stays in the table or in the queue.
THEOREM CdpForgetsNoCall ==
    ASSUME CloseIsNoCall, CapacityIsNatural
    PROVE  CdpSpec => [](CdpTypeOK /\ NoCallIsForgotten)
<1>1. CdpInv => CdpTypeOK /\ NoCallIsForgotten
  BY DEF CdpInv, NoCallIsForgotten, EntriesAreKept, EndsAreSeen, InHand, At
<1>2. CdpSpec => []CdpInv
  BY CdpInvariance
<1>3. QED BY <1>1, <1>2, PTL

-----------------------------------------------------------------------------
(* BidiTransport *)

\* The queue of commands has a natural bound.
RoomIsNatural == Room \in Nat

\* The calls whose caller has an entry that nobody but its end takes away.
Entered == {c \in BidiCalls : calls[c] \in {"Registered", "Checked", "Waiting"}}

\* Somebody has thrown the entries away.
Cleared ==
    \/ "Leaving" \in {sender, receiver}
    \/ "Gone" \in {sender, receiver} /\ closer \in {"No", "Asked"}
    \/ closer = "Done"

\* Who clears the table has set the flag; a call has its entry until it is settled; and after
\* the clearing only a call that has not yet looked at the flag has one.
Flagged ==
    (sender \in {"Clear", "Leaving"} \/ receiver \in {"Clear", "Leaving"} \/ closer = "Clear")
        => ended
HaveEntries == Entered \subseteq entries \cup settled
NoneIsLeft == Cleared => ended /\ \A c \in entries : calls[c] \notin {"Checked", "Waiting"}

BidiInv == BidiTypeOK /\ Flagged /\ HaveEntries /\ NoneIsLeft

\* Every step of the client keeps it.
LEMMA BidiInvariance == ASSUME RoomIsNatural PROVE BidiSpec => []BidiInv
<1>1. ASSUME BidiInit PROVE BidiInv
  <2>1. <<>> \in Seq(BidiCalls) /\ Len(<<>>) = 0
    OBVIOUS
  <2>2. commands \in Seq(BidiCalls) /\ Len(commands) <= Room
    BY <1>1, <2>1 DEF BidiInit, RoomIsNatural
  <2>3. BidiTypeOK
    BY <1>1, <2>2 DEF BidiInit, BidiTypeOK, TaskStates
  <2>4. Flagged /\ HaveEntries /\ NoneIsLeft
    BY <1>1 DEF BidiInit, Flagged, HaveEntries, Entered, NoneIsLeft, Cleared
  <2>5. QED BY <2>3, <2>4 DEF BidiInv
<1>2. ASSUME BidiInv, [BidiNext]_bidiVars PROVE BidiInv'
  <2>0. /\ calls \in [BidiCalls ->
                {"New", "Admitted", "Registered", "Checked", "Waiting", "Returned", "Dropped"}]
        /\ commands \in Seq(BidiCalls) /\ Len(commands) <= Room /\ Len(commands) \in Nat
        /\ Room \in Nat
        /\ entries \subseteq BidiCalls /\ settled \subseteq BidiCalls /\ asked \subseteq BidiCalls
        /\ accepting_commands \in BOOLEAN /\ ended \in BOOLEAN
    BY <1>2 DEF BidiInv, BidiTypeOK, RoomIsNatural
  <2>1. /\ sender \in TaskStates \cup {"Closing"} /\ receiver \in TaskStates
        /\ closer \in {"No", "Asked", "Aborting", "Mark", "Clear", "Done"}
    BY <1>2 DEF BidiInv, BidiTypeOK
  <2>2. Flagged /\ HaveEntries /\ NoneIsLeft
    BY <1>2 DEF BidiInv
  <2>3. CASE UNCHANGED bidiVars
    BY <1>2, <2>3
       DEF bidiVars, BidiInv, BidiTypeOK, Flagged, HaveEntries, Entered, NoneIsLeft, Cleared
  \* The callers.
  <2>4. ASSUME NEW c \in BidiCalls,
               Admit(c) \/ Enter(c) \/ Recheck(c) \/ Send(c) \/ Answered(c) \/ GiveUp(c)
        PROVE  BidiInv'
    <3>1. UNCHANGED <<accepting_commands, ended, sender, receiver, closer, asked, settled>>
      BY <2>4 DEF Admit, Enter, Recheck, Send, Answered, GiveUp, CallerOnly
    <3>2. /\ \A d \in BidiCalls \ {c} : calls'[d] = calls[d]
          /\ calls' \in [BidiCalls ->
                {"New", "Admitted", "Registered", "Checked", "Waiting", "Returned", "Dropped"}]
      BY <2>0, <2>4 DEF Admit, Enter, Recheck, Send, Answered, GiveUp, Becomes
    <3>3. /\ entries' \subseteq entries \cup {c} /\ entries \ {c} \subseteq entries'
          /\ calls'[c] \in {"Checked", "Waiting"} =>
                calls[c] \in {"Checked", "Waiting"} \/ (~ ended /\ calls[c] = "Registered")
          /\ calls'[c] \in {"Registered", "Checked", "Waiting"} =>
                \/ c \in entries'
                \/ calls[c] \in {"Registered", "Checked", "Waiting"} /\ entries' = entries
          /\ c \in entries' => c \in entries \/ calls'[c] = "Registered"
      BY <2>0, <2>4
         DEF Admit, Enter, Recheck, Send, Answered, GiveUp, Becomes, StillOpen, Open
    <3>4. commands' \in Seq(BidiCalls) /\ Len(commands') <= Room
      <4>1. CASE commands' = commands
        BY <2>0, <4>1
      <4>2. CASE commands' = Append(commands, c) /\ Len(commands) < Room
        BY <2>0, <4>2
      <4>3. QED
        BY <2>4, <4>1, <4>2 DEF Admit, Enter, Recheck, Send, Answered, GiveUp
    <3>5. BidiTypeOK'
      <4>1. entries' \subseteq BidiCalls
        BY <2>0, <3>3
      <4>2. QED BY <2>0, <2>1, <3>1, <3>2, <3>4, <4>1 DEF BidiTypeOK
    <3>6. Flagged'
      BY <2>2, <3>1 DEF Flagged
    <3>7. HaveEntries'
      <4>1. ASSUME NEW d \in BidiCalls, calls'[d] \in {"Registered", "Checked", "Waiting"}
            PROVE  d \in entries' \cup settled'
        <5>1. CASE d = c
          BY <2>2, <3>1, <3>3, <4>1, <5>1 DEF HaveEntries, Entered
        <5>2. CASE d # c
          BY <2>2, <3>1, <3>2, <3>3, <4>1, <5>2 DEF HaveEntries, Entered
        <5>3. QED BY <5>1, <5>2
      <4>2. QED BY <4>1 DEF HaveEntries, Entered
    <3>8. NoneIsLeft'
      <4>1. Cleared' => Cleared
        BY <3>1 DEF Cleared
      <4>2. ASSUME Cleared, NEW d \in entries', calls'[d] \in {"Checked", "Waiting"} PROVE FALSE
        <5>1. ended /\ \A e \in entries : calls[e] \notin {"Checked", "Waiting"}
          BY <2>2, <4>2 DEF NoneIsLeft
        <5>2. CASE d = c
          BY <3>3, <4>2, <5>1, <5>2
        <5>3. CASE d # c
          BY <2>0, <3>2, <3>3, <4>2, <5>1, <5>3
        <5>4. QED BY <5>2, <5>3
      <4>3. Cleared => ended'
        BY <2>2, <3>1 DEF NoneIsLeft
      <4>4. QED BY <4>1, <4>2, <4>3 DEF NoneIsLeft
    <3>9. QED BY <3>5, <3>6, <3>7, <3>8 DEF BidiInv
  \* The steps that neither mark nor end anything for the callers.
  <2>5. ASSUME NEW c \in BidiCalls, Route(c) PROVE BidiInv'
    <3>1. /\ UNCHANGED <<calls, commands, accepting_commands, sender, closer, ended, receiver>>
          /\ asked' = asked \ {c} /\ entries' = entries \ {c}
          /\ settled' = settled \cup ({c} \cap entries)
      BY <2>5 DEF Route, ReceiverOnly
    <3>2. BidiTypeOK'
      <4>1. asked' \subseteq BidiCalls /\ entries' \subseteq BidiCalls
            /\ settled' \subseteq BidiCalls
        BY <2>0, <3>1
      <4>2. QED BY <2>0, <2>1, <3>1, <4>1 DEF BidiTypeOK
    <3>3. Flagged' /\ HaveEntries' /\ NoneIsLeft'
      BY <2>2, <3>1 DEF Flagged, HaveEntries, Entered, NoneIsLeft, Cleared
    <3>4. QED BY <3>2, <3>3 DEF BidiInv
  <2>6. ASSUME Forward \/ SenderEnds \/ CloseFrame \/ SenderLeaves PROVE BidiInv'
    <3>1. /\ UNCHANGED <<calls, accepting_commands, receiver, closer, entries, settled, ended>>
          /\ sender' \in TaskStates \cup {"Closing"}
          /\ sender' \notin {"Clear", "Leaving"}
          /\ sender' = "Gone" => sender = "Leaving"
          /\ asked' \subseteq asked \cup ToSet(commands)
      <4>1. commands # <<>> => Head(commands) \in ToSet(commands)
        <5>1. commands # <<>> => 1 \in DOMAIN commands /\ Head(commands) = commands[1]
          BY <2>0
        <5>2. QED BY <5>1 DEF ToSet
      <4>2. QED
        BY <2>6, <4>1 DEF Forward, SenderEnds, CloseFrame, SenderLeaves, SenderOnly, TaskStates
    <3>2. commands' \in Seq(BidiCalls) /\ Len(commands') <= Room
      <4>1. <<>> \in Seq(BidiCalls) /\ Len(<<>>) = 0
        OBVIOUS
      <4>2. CASE commands # <<>> /\ commands' = Tail(commands)
        <5>1. Tail(commands) \in Seq(BidiCalls) /\ Len(Tail(commands)) = Len(commands) - 1
          BY <2>0, <4>2, HeadTailProperties
        <5>2. QED BY <2>0, <4>2, <5>1
      <4>3. CASE commands' = <<>>
        BY <2>0, <4>1, <4>3
      <4>4. CASE commands' = commands
        BY <2>0, <4>4
      <4>5. QED
        BY <2>6, <4>2, <4>3, <4>4 DEF Forward, SenderEnds, CloseFrame, SenderLeaves
    <3>3. BidiTypeOK'
      <4>1. ToSet(commands) \subseteq BidiCalls
        BY <2>0 DEF ToSet
      <4>2. asked' \subseteq BidiCalls
        BY <2>0, <3>1, <4>1
      <4>3. QED BY <2>0, <2>1, <3>1, <3>2, <4>2 DEF BidiTypeOK
    <3>4. Flagged' /\ HaveEntries'
      BY <2>2, <3>1 DEF Flagged, HaveEntries, Entered
    <3>5. Cleared' => Cleared
      BY <3>1 DEF Cleared
    <3>6. NoneIsLeft'
      BY <2>2, <3>1, <3>5 DEF NoneIsLeft
    <3>7. QED BY <3>3, <3>4, <3>6 DEF BidiInv
  <2>7. ASSUME ReceiverEnds \/ ReceiverLeaves PROVE BidiInv'
    <3>1. /\ UNCHANGED <<calls, commands, accepting_commands, sender, closer, entries, settled,
                         ended, asked>>
          /\ receiver' \in {"Mark", "Gone"} /\ (receiver' = "Gone" => receiver = "Leaving")
      BY <2>7 DEF ReceiverEnds, ReceiverLeaves, ReceiverOnly
    <3>2. BidiTypeOK'
      BY <2>0, <2>1, <3>1 DEF BidiTypeOK, TaskStates
    <3>3. Flagged' /\ HaveEntries'
      BY <2>2, <3>1 DEF Flagged, HaveEntries, Entered
    <3>4. NoneIsLeft'
      BY <2>2, <3>1 DEF NoneIsLeft, Cleared
    <3>5. QED BY <3>2, <3>3, <3>4 DEF BidiInv
  \* The flag, then the table, by any of the three.
  <2>8. ASSUME SenderMarks \/ ReceiverMarks \/ CloserMarks PROVE BidiInv'
    <3>1. UNCHANGED <<calls, commands, accepting_commands, asked>>
      BY <2>8 DEF SenderMarks, ReceiverMarks, CloserMarks, SenderOnly, ReceiverOnly, CloserOnly
    <3>2. \/ /\ ended' = TRUE /\ UNCHANGED <<entries, settled>>
             /\ "Leaving" \in {sender', receiver'} => "Leaving" \in {sender, receiver}
             /\ closer' = "Done" => closer = "Done"
             /\ "Gone" \in {sender', receiver'} => "Gone" \in {sender, receiver}
             /\ closer' \in {"No", "Asked"} => closer = closer'
          \/ /\ ended /\ ended' = ended /\ entries' = {} /\ settled' = settled \cup entries
      <4>1. CASE SenderMarks
        BY <2>2, <4>1 DEF SenderMarks, SenderOnly, Marking, Marks, After, Flagged
      <4>2. CASE ReceiverMarks
        BY <2>2, <4>2 DEF ReceiverMarks, ReceiverOnly, Marking, Marks, After, Flagged
      <4>3. CASE CloserMarks
        BY <2>2, <4>3 DEF CloserMarks, CloserOnly, Marking, Marks, Flagged
      <4>4. QED BY <2>8, <4>1, <4>2, <4>3
    <3>3. /\ sender' \in TaskStates \cup {"Closing"} /\ receiver' \in TaskStates
          /\ closer' \in {"No", "Asked", "Aborting", "Mark", "Clear", "Done"}
      BY <2>1, <2>8
         DEF SenderMarks, ReceiverMarks, CloserMarks, SenderOnly, ReceiverOnly, CloserOnly, After,
             TaskStates
    <3>4. ended' = TRUE /\ entries' \subseteq BidiCalls /\ settled' \subseteq BidiCalls
      BY <2>0, <3>2
    <3>5. BidiTypeOK'
      BY <2>0, <3>1, <3>3, <3>4 DEF BidiTypeOK
    <3>6. Flagged' /\ HaveEntries'
      BY <2>2, <3>1, <3>2, <3>4 DEF Flagged, HaveEntries, Entered
    <3>7. NoneIsLeft'
      <4>1. CASE entries' = {}
        BY <3>4, <4>1 DEF NoneIsLeft
      <4>2. CASE entries' = entries /\ (Cleared' => Cleared)
        BY <2>2, <3>1, <3>4, <4>2 DEF NoneIsLeft
      <4>3. QED BY <3>2, <4>1, <4>2 DEF Cleared
    <3>8. QED BY <3>5, <3>6, <3>7 DEF BidiInv
  \* close_transport()
  <2>9. ASSUME CloseTransport \/ Joined \/ TimedOut PROVE BidiInv'
    <3>1. UNCHANGED <<calls, asked, entries, settled, ended>>
      BY <2>9 DEF CloseTransport, Joined, TimedOut, CloserOnly
    <3>2. /\ sender' \in {sender, "Gone"} /\ receiver' \in {receiver, "Gone"}
          /\ closer' \in {"Asked", "Done", "Mark"} /\ accepting_commands' \in BOOLEAN
          /\ Cleared' => Cleared
      <4>1. CASE CloseTransport
        BY <2>0, <4>1 DEF CloseTransport, Cleared
      <4>2. CASE Joined
        BY <2>0, <4>2 DEF Joined, Cleared
      <4>3. CASE TimedOut
        BY <2>0, <4>3 DEF TimedOut, Cleared
      <4>4. QED BY <2>9, <4>1, <4>2, <4>3
    <3>3. commands' \in Seq(BidiCalls) /\ Len(commands') <= Room
      <4>1. <<>> \in Seq(BidiCalls) /\ Len(<<>>) = 0
        OBVIOUS
      <4>2. CASE commands' = <<>>
        BY <2>0, <4>1, <4>2
      <4>3. CASE commands' = commands
        BY <2>0, <4>3
      <4>4. QED BY <2>9, <4>2, <4>3 DEF CloseTransport, Joined, TimedOut
    <3>4. BidiTypeOK'
      BY <2>0, <2>1, <3>1, <3>2, <3>3 DEF BidiTypeOK, TaskStates
    <3>5. Flagged' /\ HaveEntries'
      BY <2>2, <3>1, <3>2 DEF Flagged, HaveEntries, Entered
    <3>6. NoneIsLeft'
      BY <2>2, <3>1, <3>2 DEF NoneIsLeft
    <3>7. QED BY <3>4, <3>5, <3>6 DEF BidiInv
  <2>10. QED
    BY <1>2, <2>3, <2>4, <2>5, <2>6, <2>7, <2>8, <2>9 DEF BidiNext
<1>3. QED BY <1>1, <1>2, PTL DEF BidiSpec

\* However a connection of the BiDi client ends, with the tasks through, aborted or about to be
\* joined, no caller is left waiting for an answer that cannot come any more.
THEOREM BidiLeavesNobody ==
    ASSUME RoomIsNatural
    PROVE  BidiSpec => [](BidiTypeOK /\ NoCallWaitsForNobody)
<1>1. BidiInv => BidiTypeOK /\ NoCallWaitsForNobody
  <2> SUFFICES ASSUME BidiInv, sender = "Gone", receiver = "Gone",
                      closer \in {"No", "Asked", "Done"}, NEW c \in BidiCalls, calls[c] = "Waiting"
               PROVE  c \in settled
    BY DEF BidiInv, NoCallWaitsForNobody
  <2>1. Cleared
    BY DEF Cleared
  <2>2. c \in entries \cup settled /\ c \notin entries
    BY <2>1 DEF BidiInv, HaveEntries, Entered, NoneIsLeft
  <2>3. QED BY <2>2
<1>2. BidiSpec => []BidiInv
  BY BidiInvariance
<1>3. QED BY <1>1, <1>2, PTL

-----------------------------------------------------------------------------
(* StationClient *)

\* How many requests and pipes there may be.
ClientBounds == MaxPipes \in Nat /\ MaxRequests \in Nat

\* What is under way on a pipe, each request once.
UnderWay(r) == ToSet(r.sent) \cup ToSet(r.replies)
SentOnce(r) == OnceIn(r.sent) /\ OnceIn(r.replies) /\ ToSet(r.sent) \cap ToSet(r.replies) = {}

\* The callers that have not written their request yet.
Unwritten == {"Queued", "Connecting", "Writing"}

\* The mutex: who waits for it once each, the holder at the front.
InTurn ==
    /\ OnceIn(lock) /\ Len(lock) < nextRequest
    /\ \A c \in Sharers : c \in ToSet(lock) <=> sharer[c].at # "Idle"
    /\ \A c \in Sharers : sharer[c].at \in HasLock => Holds(c)

\* Requests: a number each, on a pipe at most once, and not before its caller has written it.
Numbered ==
    /\ \A c \in Sharers : sharer[c].id < nextRequest /\ sharer[c].got \in {0, sharer[c].id}
    /\ \A c \in Sharers : sharer[c].at # "Idle" => sharer[c].id # 0
    /\ \A c, d \in Sharers : c # d /\ sharer[c].id = sharer[d].id => sharer[c].id = 0
    /\ \A p \in Pipes :
          /\ SentOnce(pipe[p])
          /\ \A i \in UnderWay(pipe[p]) : i < nextRequest
          /\ \A c \in Sharers : sharer[c].at \in Unwritten => sharer[c].id \notin UnderWay(pipe[p])

\* A caller waits for the answer to this request.
Awaited(i) == \E c \in Sharers : sharer[c].at = "Reading" /\ sharer[c].id = i

\* Pipes: an unused one is empty, and what is under way on the one in use is awaited or given up.
InStep ==
    /\ stream < nextPipe
    /\ \A p \in Pipes : p >= nextPipe => UnderWay(pipe[p]) = {}
    /\ \A c \in Sharers : sharer[c].at \in {"Writing", "Reading"} => stream # 0
    /\ stream # 0 => \A i \in UnderWay(pipe[stream]) : i \in abandoned \/ Awaited(i)

ClientInv == ClientTypeOK /\ InTurn /\ Numbered /\ InStep

\* A caller and a pipe as the type has them.
SharerStates == [at : {"Idle", "Queued", "Leaving"} \cup HasLock, id : 0..MaxRequests,
                 got : 0..MaxRequests, desynced : BOOLEAN]
PipeStates == [sent : Seq(Ids), replies : Seq(Ids), open : BOOLEAN, cut : BOOLEAN]

\* Nobody but c is touched.
Only(c) == /\ sharer' \in [Sharers -> SharerStates]
           /\ \A d \in Sharers \ {c} : sharer'[d] = sharer[d]

\* A caller that returns, with what it got or found out.
LEMMA CallerReturns ==
    ASSUME sharer \in [Sharers -> SharerStates], MaxRequests \in Nat, NEW c \in Sharers,
           NEW g \in 0 .. MaxRequests,
           \/ sharer' = [sharer EXCEPT ![c] = [@ EXCEPT !.at = "Idle", !.got = g]]
           \/ /\ g = sharer[c].got
              /\ sharer' = [sharer EXCEPT ![c] = [@ EXCEPT !.at = "Idle", !.desynced = TRUE]]
    PROVE  /\ Only(c) /\ sharer'[c].at = "Idle" /\ sharer'[c].id = sharer[c].id
           /\ sharer'[c].got = g
<1> DEFINE m == [sharer[c] EXCEPT !.at = "Idle", !.got = g]
           n == [sharer[c] EXCEPT !.at = "Idle", !.desynced = TRUE]
<1>1. m \in SharerStates /\ m.at = "Idle" /\ m.id = sharer[c].id /\ m.got = g
  BY DEF SharerStates
<1>2. n \in SharerStates /\ n.at = "Idle" /\ n.id = sharer[c].id /\ n.got = sharer[c].got
  BY DEF SharerStates
<1>3. \/ sharer' = [sharer EXCEPT ![c] = m]
      \/ g = sharer[c].got /\ sharer' = [sharer EXCEPT ![c] = n]
  OBVIOUS
<1> HIDE DEF m, n
<1>4. QED BY <1>1, <1>2, <1>3 DEF Only

\* The turns of the callers when one of them goes on without leaving the mutex, ...
LEMMA TurnStays ==
    ASSUME InTurn, NEW c \in Sharers, Only(c), UNCHANGED <<lock, nextRequest>>,
           sharer[c].at # "Idle", sharer'[c].at # "Idle", sharer'[c].at \in HasLock => Holds(c)
    PROVE  InTurn'
BY DEF InTurn, Only, Holds, OnceIn, ToSet

\* ... when it leaves, ...
LEMMA TurnEnds ==
    ASSUME InTurn, NEW c \in Sharers, Only(c), Unlocks(c), UNCHANGED nextRequest,
           lock \in Seq(Sharers), nextRequest \in Nat, sharer[c].at # "Idle", sharer'[c].at = "Idle"
    PROVE  InTurn' /\ lock' \in Seq(Sharers) /\ Len(lock') < nextRequest
<1>1. PICK i \in DOMAIN lock : lock[i] = c /\ lock' = RemoveAt(lock, i)
  BY DEF Unlocks, Without
<1>2. /\ lock' \in Seq(Sharers) /\ Len(lock') = Len(lock) - 1 /\ OnceIn(lock')
      /\ ToSet(lock') = ToSet(lock) \ {c}
      /\ i # 1 => lock' # <<>> /\ Head(lock') = Head(lock)
  BY <1>1, TakenOut DEF InTurn
<1>3. Len(lock) \in Nat /\ Len(lock) < nextRequest
  BY DEF InTurn
<1>4. ASSUME NEW d \in Sharers, sharer'[d].at \in HasLock PROVE Holds(d)'
  <2>1. d # c /\ sharer'[d] = sharer[d]
    BY <1>4 DEF Only, HasLock
  <2>2. lock # <<>> /\ Head(lock) = d /\ Head(lock) = lock[1]
    BY <1>4, <2>1 DEF InTurn, Holds
  <2>3. i # 1
    BY <1>1, <2>1, <2>2
  <2>4. QED BY <1>2, <2>2, <2>3 DEF Holds
<1>5. ASSUME NEW d \in Sharers PROVE d \in ToSet(lock') <=> sharer'[d].at # "Idle"
  BY <1>2 DEF InTurn, Only
<1>6. QED BY <1>2, <1>3, <1>4, <1>5 DEF InTurn, OnceIn, ToSet

\* ... and when it queues once more, to disconnect.
LEMMA TurnAgain ==
    ASSUME InTurn, NEW c \in Sharers, Only(c), lock' \in {Append(rest, c) : rest \in Without(c)},
           UNCHANGED nextRequest, lock \in Seq(Sharers), nextRequest \in Nat,
           sharer[c].at # "Idle", sharer'[c].at = "Leaving"
    PROVE  InTurn' /\ lock' \in Seq(Sharers) /\ Len(lock') < nextRequest
<1>1. PICK i \in DOMAIN lock : lock[i] = c /\ lock' = Append(RemoveAt(lock, i), c)
  BY DEF Without
<1> DEFINE r == RemoveAt(lock, i)
<1>2. /\ r \in Seq(Sharers) /\ Len(r) = Len(lock) - 1 /\ OnceIn(r)
      /\ ToSet(r) = ToSet(lock) \ {c}
      /\ i # 1 => r # <<>> /\ Head(r) = Head(lock)
  BY <1>1, TakenOut DEF InTurn
<1>3. Len(lock) \in Nat /\ Len(lock) < nextRequest
  BY DEF InTurn
<1>4. lock' = Append(r, c)
  BY <1>1
<1> HIDE DEF r
<1>5. lock' \in Seq(Sharers) /\ Len(lock') = Len(lock)
  BY <1>2, <1>3, <1>4
<1>6. OnceIn(lock') /\ ToSet(lock') = ToSet(lock) \cup {c}
  <2>1. c \in ToSet(lock)
    BY <1>1 DEF ToSet
  <2>2. QED BY <1>2, <1>4, <2>1, PutAtTheEnd
<1>7. ASSUME NEW d \in Sharers, sharer'[d].at \in HasLock PROVE Holds(d)'
  <2>1. d # c /\ sharer'[d] = sharer[d]
    BY <1>7 DEF Only, HasLock
  <2>2. lock # <<>> /\ Head(lock) = d /\ Head(lock) = lock[1]
    BY <1>7, <2>1 DEF InTurn, Holds
  <2>3. r # <<>> /\ Head(r) = d
    BY <1>1, <1>2, <2>1, <2>2
  <2>4. lock' # <<>> /\ Head(lock') = Head(r)
    BY <1>2, <1>4, <2>3
  <2>5. QED BY <2>3, <2>4 DEF Holds
<1>8. ASSUME NEW d \in Sharers PROVE d \in ToSet(lock') <=> sharer'[d].at # "Idle"
  <2>1. sharer[c].at # "Idle" /\ c \in ToSet(lock)
    BY DEF InTurn
  <2>2. QED BY <1>6, <2>1 DEF InTurn, Only
<1>9. QED BY <1>3, <1>5, <1>6, <1>7, <1>8 DEF InTurn, OnceIn, ToSet

\* Numbers stay apart while none is given and none is written.
LEMMA NumbersStay ==
    ASSUME Numbered, UNCHANGED nextRequest,
           \A c \in Sharers : /\ sharer'[c].id = sharer[c].id
                              /\ sharer'[c].got \in {0, sharer[c].id}
                              /\ sharer'[c].at # "Idle" => sharer[c].at # "Idle"
                              /\ sharer'[c].at \in Unwritten => sharer[c].at \in Unwritten,
           \A p \in Pipes : SentOnce(pipe'[p]) /\ UnderWay(pipe'[p]) \subseteq UnderWay(pipe[p])
    PROVE  Numbered'
<1>1. ASSUME NEW p \in Pipes
      PROVE  /\ \A i \in UnderWay(pipe'[p]) : i < nextRequest
             /\ \A c \in Sharers : sharer'[c].at \in Unwritten =>
                                     sharer'[c].id \notin UnderWay(pipe'[p])
  BY DEF Numbered
<1>2. /\ \A c \in Sharers : sharer'[c].id < nextRequest' /\ sharer'[c].got \in {0, sharer'[c].id}
      /\ \A c \in Sharers : sharer'[c].at # "Idle" => sharer'[c].id # 0
      /\ \A c, d \in Sharers : c # d /\ sharer'[c].id = sharer'[d].id => sharer'[c].id = 0
  BY DEF Numbered
<1>3. \A p \in Pipes : SentOnce(pipe[p])'
  BY DEF SentOnce, OnceIn, ToSet
<1>4. \A p \in Pipes : UnderWay(pipe[p])' = UnderWay(pipe'[p])
  BY DEF UnderWay, ToSet
<1>5. QED BY <1>1, <1>2, <1>3, <1>4 DEF Numbered

\* The pipe in the mutex stays in step while no request that is under way is left alone.
LEMMA StepStays ==
    ASSUME InStep, UNCHANGED <<stream, nextPipe>>, stream \in 0 .. MaxPipes,
           \A p \in Pipes : UnderWay(pipe'[p]) \subseteq UnderWay(pipe[p]),
           abandoned \subseteq abandoned',
           \A d \in Sharers : /\ sharer'[d].at \in {"Writing", "Reading"} => stream # 0
                              /\ sharer[d].at = "Reading" => \/ sharer'[d] = sharer[d]
                                                             \/ sharer[d].id \in abandoned'
    PROVE  InStep'
<1>1. ASSUME NEW i, i \in abandoned \/ Awaited(i) PROVE i \in abandoned' \/ Awaited(i)'
  BY <1>1 DEF Awaited
<1>2. stream # 0 => stream \in Pipes
  BY DEF Pipes
<1>3. stream # 0 => \A i \in UnderWay(pipe'[stream]) : i \in abandoned \/ Awaited(i)
  BY <1>2 DEF InStep
<1>4. \A o \in Pipes : o >= nextPipe => UnderWay(pipe'[o]) = {}
  BY DEF InStep
<1>5. stream < nextPipe
  BY DEF InStep
<1>6. QED BY <1>1, <1>3, <1>4, <1>5 DEF InStep, UnderWay, ToSet

\* An answer takes its request from one end of the pipe to the other.
LEMMA AnswerMoves ==
    ASSUME NEW r \in PipeStates, SentOnce(r), r.sent # <<>>,
           NEW n \in PipeStates,
           n = [r EXCEPT !.sent = Tail(@), !.replies = Append(@, Head(r.sent))]
    PROVE  SentOnce(n) /\ UnderWay(n) \subseteq UnderWay(r)
<1>1. /\ n.sent = Tail(r.sent) /\ n.replies = Append(r.replies, Head(r.sent))
      /\ r.sent \in Seq(Ids) /\ r.replies \in Seq(Ids)
  BY DEF PipeStates
<1>2. /\ OnceIn(Tail(r.sent)) /\ ToSet(Tail(r.sent)) \subseteq ToSet(r.sent)
      /\ Head(r.sent) \notin ToSet(Tail(r.sent)) /\ Head(r.sent) \in ToSet(r.sent)
      /\ Head(r.sent) \in Ids
  BY <1>1, TakenFromTheFront DEF SentOnce
<1>3. /\ ToSet(Append(r.replies, Head(r.sent))) = ToSet(r.replies) \cup {Head(r.sent)}
      /\ OnceIn(Append(r.replies, Head(r.sent)))
  BY <1>1, <1>2, PutAtTheEnd DEF SentOnce
<1>4. QED BY <1>1, <1>2, <1>3 DEF SentOnce, UnderWay

\* Every step of a caller and of the server keeps the invariant.
LEMMA ClientInvariance == ASSUME ClientBounds PROVE ClientSpec => []ClientInv
<1>1. ASSUME ClientInit PROVE ClientInv
  <2>1. /\ <<>> \in Seq(Sharers) /\ <<>> \in Seq(Ids) /\ Len(<<>>) = 0
        /\ MaxPipes \in Nat /\ MaxRequests \in Nat
    BY DEF ClientBounds
  <2>2. \A p \in Pipes : pipe[p].sent = <<>> /\ pipe[p].replies = <<>>
    BY <1>1 DEF ClientInit
  <2>3. \A c \in Sharers : sharer[c].at = "Idle" /\ sharer[c].id = 0 /\ sharer[c].got = 0
    BY <1>1 DEF ClientInit
  <2>4. lock = <<>> /\ stream = 0 /\ abandoned = {} /\ nextRequest = 1 /\ nextPipe = 1
    BY <1>1 DEF ClientInit
  <2>5. ClientTypeOK
    <3>1. 1 \in 1 .. (MaxRequests + 1) /\ 1 \in 1 .. (MaxPipes + 1) /\ 0 \in 0 .. MaxRequests
          /\ 0 \in 0 .. MaxPipes
      BY <2>1
    <3>2. pipe \in [Pipes -> [sent : Seq(Ids), replies : Seq(Ids), open : BOOLEAN, cut : BOOLEAN]]
      BY <1>1, <2>1 DEF ClientInit
    <3>3. sharer \in [Sharers -> [at : {"Idle", "Queued", "Leaving"} \cup HasLock,
                                  id : 0..MaxRequests, got : 0..MaxRequests, desynced : BOOLEAN]]
      BY <1>1, <3>1 DEF ClientInit
    <3>4. lock \in Seq(Sharers) /\ Len(lock) <= MaxRequests
      BY <2>1, <2>4
    <3>5. QED BY <2>4, <3>1, <3>2, <3>3, <3>4 DEF ClientTypeOK
  <2>6. \A p \in Pipes : SentOnce(pipe[p]) /\ UnderWay(pipe[p]) = {}
    BY <2>2, EmptyQueue DEF SentOnce, UnderWay
  <2>7. InTurn
    BY <2>1, <2>3, <2>4, EmptyQueue DEF InTurn, HasLock
  <2>8. Numbered
    <3>1. \A c \in Sharers : sharer[c].id < nextRequest
      BY <2>3, <2>4
    <3>2. QED BY <2>3, <2>6, <3>1 DEF Numbered
  <2>9. InStep
    BY <2>3, <2>4, <2>6 DEF InStep
  <2>10. QED BY <2>5, <2>7, <2>8, <2>9 DEF ClientInv
<1>2. ASSUME ClientInv, [ClientNext]_clientVars PROVE ClientInv'
  <2>0. /\ lock \in Seq(Sharers) /\ Len(lock) \in Nat /\ Len(lock) <= MaxRequests
        /\ stream \in 0 .. MaxPipes /\ abandoned \subseteq Ids
        /\ pipe \in [Pipes -> PipeStates] /\ sharer \in [Sharers -> SharerStates]
        /\ nextRequest \in 1 .. (MaxRequests + 1) /\ nextPipe \in 1 .. (MaxPipes + 1)
        /\ MaxPipes \in Nat /\ MaxRequests \in Nat
        /\ nextRequest \in Nat /\ nextPipe \in Nat /\ stream \in Nat
    BY <1>2 DEF ClientInv, ClientTypeOK, PipeStates, SharerStates, ClientBounds
  <2>1. InTurn /\ Numbered /\ InStep
    BY <1>2 DEF ClientInv
  \* Two callers are never both between the lock and its release.
  <2>2. ASSUME NEW c \in Sharers, NEW d \in Sharers, sharer[c].at \in HasLock,
               sharer[d].at \in HasLock
        PROVE  c = d
    BY <2>1, <2>2 DEF InTurn, Holds
  <2>3. \A p \in Pipes : SentOnce(pipe[p]) /\ UnderWay(pipe[p]) \subseteq Ids
    BY <2>0, <2>1 DEF Numbered, UnderWay, PipeStates, ToSet
  <2>4. \A c \in Sharers : /\ sharer[c].id \in 0 .. MaxRequests
                           /\ sharer[c].got \in {0, sharer[c].id}
                           /\ sharer[c].at \in {"Idle", "Queued", "Leaving"} \cup HasLock
    BY <2>0, <2>1 DEF SharerStates, Numbered
  <2>5. Pipes = 1 .. MaxPipes
    BY DEF Pipes
  <2>6. CASE UNCHANGED clientVars
    <3>1. UNCHANGED <<lock, stream, pipe, nextRequest, nextPipe, sharer, abandoned>>
      BY <2>6 DEF clientVars
    <3>2. ClientTypeOK' /\ InTurn'
      BY <1>2, <3>1 DEF ClientInv, ClientTypeOK, InTurn, Holds, OnceIn, ToSet
    <3>3. Numbered'
      BY <2>1, <2>3, <2>4, <3>1, NumbersStay
    <3>4. InStep'
      <4>1. \A d \in Sharers : sharer'[d].at \in {"Writing", "Reading"} => stream # 0
        BY <2>1, <3>1 DEF InStep
      <4>2. QED BY <2>0, <2>1, <3>1, <4>1, StepStays
    <3>5. QED BY <3>2, <3>3, <3>4 DEF ClientInv
  <2>7. ASSUME NEW c \in Sharers, CallBegins(c) PROVE ClientInv'
    <3>1. /\ sharer[c].at = "Idle" /\ nextRequest \in Ids /\ nextRequest' = nextRequest + 1
          /\ lock' = Append(lock, c) /\ UNCHANGED <<stream, pipe, nextPipe, abandoned>>
          /\ sharer' = [sharer EXCEPT ![c] = [at |-> "Queued", id |-> nextRequest, got |-> 0,
                                              desynced |-> FALSE]]
      BY <2>7 DEF CallBegins
    <3>2. /\ Only(c) /\ sharer'[c].at = "Queued" /\ sharer'[c].id = nextRequest
          /\ sharer'[c].got = 0
      BY <2>0, <3>1 DEF Only, SharerStates, Ids
    <3>3. nextRequest <= MaxRequests
      BY <2>0, <3>1 DEF Ids
    <3>4. InTurn'
      <4>1. c \notin ToSet(lock)
        BY <2>1, <3>1 DEF InTurn
      <4>2. OnceIn(lock') /\ ToSet(lock') = ToSet(lock) \cup {c} /\ Len(lock') = Len(lock) + 1
        BY <2>0, <2>1, <3>1, <4>1, PutAtTheEnd DEF InTurn
      <4>3. Len(lock') < nextRequest'
        BY <2>0, <2>1, <3>1, <4>2 DEF InTurn
      <4>4. ASSUME NEW d \in Sharers PROVE d \in ToSet(lock') <=> sharer'[d].at # "Idle"
        BY <2>1, <3>2, <4>2 DEF InTurn, Only
      <4>5. ASSUME NEW d \in Sharers, sharer'[d].at \in HasLock PROVE Holds(d)'
        <5>1. sharer[d].at \in HasLock /\ d # c
          BY <3>2, <4>5 DEF Only, HasLock
        <5>2. lock # <<>> /\ Head(lock) = d
          BY <2>1, <5>1 DEF InTurn, Holds
        <5>3. lock' # <<>> /\ Head(lock') = Head(lock)
          BY <2>0, <3>1, <5>2
        <5>4. QED BY <5>2, <5>3 DEF Holds
      <4>6. QED BY <4>2, <4>3, <4>4, <4>5 DEF InTurn, OnceIn, ToSet
    <3>5. Numbered'
      <4>1. ASSUME NEW d \in Sharers
            PROVE  /\ sharer'[d].id < nextRequest' /\ sharer'[d].got \in {0, sharer'[d].id}
                   /\ sharer'[d].at # "Idle" => sharer'[d].id # 0
                   /\ d # c => sharer'[d].id # nextRequest
        <5>1. CASE d = c
          BY <2>0, <3>1, <3>2, <5>1
        <5>2. CASE d # c
          <6>1. sharer'[d] = sharer[d] /\ sharer[d].id < nextRequest /\ sharer[d].id \in Nat
            BY <2>1, <2>4, <3>2, <5>2 DEF Only, Numbered
          <6>2. QED BY <2>0, <2>1, <3>1, <6>1 DEF Numbered
        <5>3. QED BY <5>1, <5>2
      <4>2. ASSUME NEW d \in Sharers, NEW e \in Sharers, d # e, sharer'[d].id = sharer'[e].id
            PROVE  sharer'[d].id = 0
        <5>1. d # c /\ e # c
          BY <3>2, <4>1, <4>2
        <5>2. QED BY <2>1, <3>2, <4>2, <5>1 DEF Only, Numbered
      <4>3. ASSUME NEW p \in Pipes
            PROVE  /\ SentOnce(pipe'[p])
                   /\ \A i \in UnderWay(pipe'[p]) : i < nextRequest'
                   /\ \A d \in Sharers : sharer'[d].at \in Unwritten =>
                                           sharer'[d].id \notin UnderWay(pipe'[p])
        <5>1. pipe'[p] = pipe[p]
          BY <3>1
        <5>2. \A i \in UnderWay(pipe[p]) : i < nextRequest /\ i \in Nat
          BY <2>1, <2>3 DEF Numbered, Ids
        <5>3. \A i \in UnderWay(pipe[p]) : i < nextRequest + 1 /\ i # nextRequest
          BY <2>0, <5>2
        <5>4. QED BY <2>1, <3>1, <3>2, <5>1, <5>3 DEF Numbered, Only
      <4>4. QED
        BY <4>1, <4>2, <4>3 DEF Numbered, SentOnce, UnderWay, OnceIn, ToSet
    <3>6. InStep'
      <4>1. \A d \in Sharers : /\ sharer'[d].at \in {"Writing", "Reading"} => stream # 0
                               /\ sharer[d].at = "Reading" => sharer'[d] = sharer[d]
        BY <2>1, <3>1, <3>2 DEF InStep, Only
      <4>2. QED BY <2>0, <2>1, <3>1, <4>1, StepStays
    <3>7. ClientTypeOK'
      <4>1. lock' \in Seq(Sharers) /\ Len(lock') <= MaxRequests
        BY <2>0, <2>1, <3>1, <3>3 DEF InTurn
      <4>2. nextRequest' \in 1 .. (MaxRequests + 1)
        BY <2>0, <3>1, <3>3
      <4>3. QED BY <1>2, <3>1, <3>2, <4>1, <4>2 DEF ClientInv, ClientTypeOK, Only, SharerStates
    <3>8. QED BY <3>4, <3>5, <3>6, <3>7 DEF ClientInv
  <2>8. ASSUME NEW c \in Sharers, Locks(c) PROVE ClientInv'
    <3>1. /\ sharer[c].at = "Queued" /\ Holds(c)
          /\ UNCHANGED <<lock, stream, pipe, nextRequest, nextPipe, abandoned>>
          /\ sharer' = [sharer EXCEPT ![c].at = IF stream = 0 THEN "Connecting" ELSE "Writing"]
      BY <2>8 DEF Locks, Goes
    <3>2. /\ Only(c) /\ sharer'[c].at = IF stream = 0 THEN "Connecting" ELSE "Writing"
          /\ sharer'[c].id = sharer[c].id /\ sharer'[c].got = sharer[c].got
      BY <2>0, <3>1 DEF Only, SharerStates, HasLock
    <3>3. InTurn'
      BY <2>1, <3>1, <3>2, TurnStays
    <3>4. Numbered'
      BY <2>1, <2>3, <2>4, <3>1, <3>2, NumbersStay DEF Only, Unwritten
    <3>5. InStep'
      <4>1. \A d \in Sharers : /\ sharer'[d].at \in {"Writing", "Reading"} => stream # 0
                               /\ sharer[d].at = "Reading" => sharer'[d] = sharer[d]
        BY <2>1, <3>1, <3>2 DEF InStep, Only
      <4>2. QED BY <2>0, <2>1, <3>1, <4>1, StepStays
    <3>6. ClientTypeOK'
      BY <1>2, <3>1, <3>2 DEF ClientInv, ClientTypeOK, Only, SharerStates
    <3>7. QED BY <3>3, <3>4, <3>5, <3>6 DEF ClientInv
  <2>9. ASSUME NEW c \in Sharers, Connects(c) PROVE ClientInv'
    <3>1. sharer[c].at = "Connecting" /\ UNCHANGED <<nextRequest, abandoned>>
      BY <2>9 DEF Connects
    <3>2. CASE Fails(c) /\ Unlocks(c) /\ UNCHANGED <<stream, pipe, nextPipe>>
      <4>1. /\ Only(c) /\ sharer'[c].at = "Idle" /\ sharer'[c].id = sharer[c].id
            /\ sharer'[c].got = 0
        <5>1. 0 \in 0 .. MaxRequests
          BY <2>0
        <5>2. QED BY <2>0, <3>2, <5>1, CallerReturns DEF Fails, Returns
      <4>2. InTurn' /\ lock' \in Seq(Sharers) /\ Len(lock') < nextRequest
        BY <2>0, <2>1, <3>1, <3>2, <4>1, TurnEnds
      <4>3. Numbered'
        BY <2>1, <2>3, <2>4, <3>1, <3>2, <4>1, NumbersStay DEF Only, Unwritten
      <4>4. InStep'
        <5>1. \A d \in Sharers : /\ sharer'[d].at \in {"Writing", "Reading"} => stream # 0
                                 /\ sharer[d].at = "Reading" => sharer'[d] = sharer[d]
          BY <2>1, <3>1, <4>1 DEF InStep, Only
        <5>2. QED BY <2>0, <2>1, <3>1, <3>2, <5>1, StepStays
      <4>5. ClientTypeOK'
        <5>1. Len(lock') <= MaxRequests
          BY <2>0, <4>2
        <5>2. QED BY <1>2, <3>1, <3>2, <4>1, <4>2, <5>1
              DEF ClientInv, ClientTypeOK, Only, SharerStates
      <4>6. QED BY <4>2, <4>3, <4>4, <4>5 DEF ClientInv
    <3>3. CASE /\ nextPipe \in Pipes
               /\ stream' = nextPipe /\ nextPipe' = nextPipe + 1
               /\ pipe' = [pipe EXCEPT ![nextPipe].open = TRUE]
               /\ Goes(c, "Writing") /\ UNCHANGED lock
      <4>1. /\ Only(c) /\ sharer'[c].at = "Writing" /\ sharer'[c].id = sharer[c].id
            /\ sharer'[c].got = sharer[c].got
        BY <2>0, <3>3 DEF Goes, Only, SharerStates, HasLock
      <4>2. /\ pipe' \in [Pipes -> PipeStates]
            /\ \A p \in Pipes : pipe'[p].sent = pipe[p].sent /\ pipe'[p].replies = pipe[p].replies
        BY <2>0, <3>3 DEF PipeStates
      <4>3. \A p \in Pipes : UnderWay(pipe'[p]) = UnderWay(pipe[p]) /\ SentOnce(pipe'[p])
        BY <2>3, <4>2 DEF UnderWay, SentOnce
      <4>4. InTurn'
        BY <2>1, <3>1, <3>3, <4>1, TurnStays DEF InTurn, HasLock
      <4>5. Numbered'
        BY <2>1, <2>3, <2>4, <3>1, <3>3, <4>1, <4>3, NumbersStay DEF Only, Unwritten
      <4>6. InStep'
        <5>1. stream' < nextPipe' /\ stream' # 0
          BY <2>0, <3>3
        <5>2. \A p \in Pipes : p >= nextPipe' => UnderWay(pipe'[p]) = {}
          BY <2>0, <2>1, <2>5, <3>3, <4>3 DEF InStep
        <5>3. UnderWay(pipe'[stream']) = {}
          <6>1. nextPipe \in Pipes /\ nextPipe >= nextPipe
            BY <2>0, <3>3
          <6>2. UnderWay(pipe[nextPipe]) = {}
            BY <2>1, <6>1 DEF InStep
          <6>3. QED BY <3>3, <4>3, <6>1, <6>2
        <5>4. QED BY <5>1, <5>2, <5>3 DEF InStep, UnderWay, ToSet
      <4>7. ClientTypeOK'
        <5>1. stream' \in 0 .. MaxPipes /\ nextPipe' \in 1 .. (MaxPipes + 1)
          BY <2>0, <2>5, <3>3
        <5>2. QED BY <1>2, <3>1, <3>3, <4>1, <4>2, <5>1
              DEF ClientInv, ClientTypeOK, Only, SharerStates, PipeStates
      <4>8. QED BY <4>4, <4>5, <4>6, <4>7 DEF ClientInv
    <3>4. QED BY <2>9, <3>2, <3>3 DEF Connects
  <2>10. ASSUME NEW c \in Sharers, Writes(c) PROVE ClientInv'
    <3>1. /\ sharer[c].at = "Writing"
          /\ UNCHANGED <<lock, stream, nextRequest, nextPipe, abandoned>>
          /\ pipe' = [pipe EXCEPT ![stream].sent = Append(@, sharer[c].id)]
          /\ sharer' = [sharer EXCEPT ![c].at = "Reading"]
      BY <2>10 DEF Writes, Goes
    <3>2. /\ Only(c) /\ sharer'[c].at = "Reading" /\ sharer'[c].id = sharer[c].id
          /\ sharer'[c].got = sharer[c].got
      BY <2>0, <3>1 DEF Only, SharerStates, HasLock
    <3>3. /\ stream # 0 /\ stream \in Pipes /\ stream < nextPipe
          /\ sharer[c].id \in Ids /\ sharer[c].id < nextRequest
      BY <2>0, <2>1, <2>4, <3>1 DEF InStep, Pipes, Ids, Numbered
    <3>4. /\ pipe' \in [Pipes -> PipeStates]
          /\ pipe'[stream].sent = Append(pipe[stream].sent, sharer[c].id)
          /\ pipe'[stream].replies = pipe[stream].replies
          /\ \A p \in Pipes \ {stream} : pipe'[p] = pipe[p]
      <4>1. pipe[stream] \in PipeStates
        BY <2>0, <3>3
      <4>2. Append(pipe[stream].sent, sharer[c].id) \in Seq(Ids)
        BY <3>3, <4>1 DEF PipeStates
      <4>3. QED BY <2>0, <3>1, <3>3, <4>1, <4>2 DEF PipeStates
    <3>5. sharer[c].id \notin UnderWay(pipe[stream])
      BY <2>1, <3>1, <3>3 DEF Numbered, Unwritten
    <3>6. /\ SentOnce(pipe'[stream])
          /\ UnderWay(pipe'[stream]) = UnderWay(pipe[stream]) \cup {sharer[c].id}
      <4>1. pipe[stream].sent \in Seq(Ids)
        BY <2>0, <3>3 DEF PipeStates
      <4>2. /\ OnceIn(pipe'[stream].sent)
            /\ ToSet(pipe'[stream].sent) = ToSet(pipe[stream].sent) \cup {sharer[c].id}
        BY <2>3, <3>3, <3>4, <3>5, <4>1, PutAtTheEnd DEF SentOnce, UnderWay
      <4>3. QED BY <2>3, <3>3, <3>4, <3>5, <4>2 DEF SentOnce, UnderWay
    <3>7. InTurn'
      BY <2>1, <3>1, <3>2, TurnStays DEF InTurn, HasLock
    <3>8. Numbered'
      <4>1. ASSUME NEW d \in Sharers
            PROVE  /\ sharer'[d].id = sharer[d].id /\ sharer'[d].got = sharer[d].got
                   /\ sharer'[d].at # "Idle" => sharer[d].at # "Idle"
                   /\ sharer'[d].at \in Unwritten => sharer[d].at \in Unwritten /\ d # c
        BY <3>1, <3>2 DEF Only, Unwritten
      <4>2. ASSUME NEW p \in Pipes
            PROVE  /\ SentOnce(pipe'[p])
                   /\ \A i \in UnderWay(pipe'[p]) : i < nextRequest
                   /\ \A d \in Sharers : sharer'[d].at \in Unwritten =>
                                           sharer'[d].id \notin UnderWay(pipe'[p])
        <5>1. CASE p # stream
          BY <2>1, <3>4, <4>1, <5>1 DEF Numbered
        <5>2. CASE p = stream
          <6>1. ASSUME NEW d \in Sharers, sharer'[d].at \in Unwritten
                PROVE  sharer'[d].id \notin UnderWay(pipe'[stream])
            <7>1. d # c /\ sharer[d].id \notin UnderWay(pipe[stream])
              BY <2>1, <3>3, <4>1, <6>1 DEF Numbered
            <7>2. sharer[d].id # sharer[c].id
              BY <2>1, <3>1, <7>1 DEF Numbered
            <7>3. QED BY <3>6, <4>1, <7>1, <7>2
          <6>2. \A i \in UnderWay(pipe[stream]) : i < nextRequest
            BY <2>1, <3>3 DEF Numbered
          <6>3. \A i \in UnderWay(pipe'[stream]) : i < nextRequest
            BY <3>3, <3>6, <6>2
          <6>4. QED BY <3>6, <5>2, <6>1, <6>3
        <5>3. QED BY <5>1, <5>2
      <4>3. /\ \A d \in Sharers : /\ sharer'[d].id < nextRequest'
                                /\ sharer'[d].got \in {0, sharer'[d].id}
            /\ \A d \in Sharers : sharer'[d].at # "Idle" => sharer'[d].id # 0
            /\ \A d, e \in Sharers : d # e /\ sharer'[d].id = sharer'[e].id => sharer'[d].id = 0
        BY <2>1, <3>1, <4>1 DEF Numbered
      <4>4. QED BY <3>1, <4>2, <4>3 DEF Numbered, SentOnce, UnderWay, OnceIn, ToSet
    <3>9. InStep'
      <4>1. \A p \in Pipes : p >= nextPipe' => UnderWay(pipe'[p]) = {}
        BY <2>0, <2>1, <2>5, <3>1, <3>3, <3>4 DEF InStep
      <4>2. ASSUME NEW i \in UnderWay(pipe'[stream]) PROVE i \in abandoned \/ Awaited(i)'
        <5>1. CASE i = sharer[c].id
          BY <3>2, <5>1 DEF Awaited
        <5>2. CASE i # sharer[c].id
          <6>1. i \in abandoned \/ Awaited(i)
            BY <2>1, <3>3, <3>6, <4>2, <5>2 DEF InStep
          <6>2. Awaited(i) => Awaited(i)'
            BY <3>1, <3>2 DEF Awaited, Only
          <6>3. QED BY <6>1, <6>2
        <5>3. QED BY <5>1, <5>2
      <4>3. QED BY <3>1, <3>3, <4>1, <4>2 DEF InStep, UnderWay, ToSet
    <3>10. ClientTypeOK'
      BY <1>2, <3>1, <3>2, <3>4 DEF ClientInv, ClientTypeOK, Only, SharerStates, PipeStates
    <3>11. QED BY <3>7, <3>8, <3>9, <3>10 DEF ClientInv
  <2>11. ASSUME NEW c \in Sharers, Reads(c) PROVE ClientInv'
    <3>1. /\ sharer[c].at = "Reading" /\ pipe[stream].replies # <<>>
          /\ pipe' = [pipe EXCEPT ![stream].replies = Tail(@)] /\ Unlocks(c)
          /\ UNCHANGED <<nextRequest, nextPipe, abandoned>>
      BY <2>11 DEF Reads
    <3>2. \/ /\ Head(pipe[stream].replies) = sharer[c].id /\ stream' = stream
             /\ sharer' = [sharer EXCEPT ![c] = [@ EXCEPT !.at = "Idle", !.got = sharer[c].id]]
          \/ /\ stream' = 0
             /\ sharer' = [sharer EXCEPT ![c] = [@ EXCEPT !.at = "Idle", !.desynced = TRUE]]
      BY <2>11 DEF Reads, Returns
    <3>3. /\ Only(c) /\ sharer'[c].at = "Idle" /\ sharer'[c].id = sharer[c].id
          /\ sharer'[c].got \in {sharer[c].got, sharer[c].id}
      <4>1. sharer[c].id \in 0 .. MaxRequests /\ sharer[c].got \in 0 .. MaxRequests
        BY <2>0 DEF SharerStates
      <4>2. QED BY <2>0, <3>2, <4>1, CallerReturns
    <3>4. stream # 0 /\ stream \in Pipes
      BY <2>0, <2>1, <3>1 DEF InStep, Pipes
    <3>5. /\ pipe' \in [Pipes -> PipeStates] /\ pipe'[stream].sent = pipe[stream].sent
          /\ pipe'[stream].replies = Tail(pipe[stream].replies)
          /\ \A p \in Pipes \ {stream} : pipe'[p] = pipe[p]
      <4>1. pipe[stream] \in PipeStates
        BY <2>0, <3>4
      <4>2. Tail(pipe[stream].replies) \in Seq(Ids)
        BY <3>1, <4>1 DEF PipeStates
      <4>3. QED BY <2>0, <3>1, <3>4, <4>1, <4>2 DEF PipeStates
    <3>6. /\ SentOnce(pipe'[stream]) /\ UnderWay(pipe'[stream]) \subseteq UnderWay(pipe[stream])
          /\ Head(pipe[stream].replies) \notin UnderWay(pipe'[stream])
      <4>1. pipe[stream].replies \in Seq(Ids)
        BY <2>0, <3>4 DEF PipeStates
      <4>2. /\ OnceIn(Tail(pipe[stream].replies))
            /\ ToSet(Tail(pipe[stream].replies)) \subseteq ToSet(pipe[stream].replies)
            /\ Head(pipe[stream].replies) \notin ToSet(Tail(pipe[stream].replies))
            /\ Head(pipe[stream].replies) \in ToSet(pipe[stream].replies)
        BY <2>3, <3>1, <3>4, <4>1, TakenFromTheFront DEF SentOnce
      <4>3. QED BY <2>3, <3>4, <3>5, <4>2 DEF SentOnce, UnderWay
    <3>7. \A p \in Pipes : SentOnce(pipe'[p]) /\ UnderWay(pipe'[p]) \subseteq UnderWay(pipe[p])
      BY <2>3, <3>5, <3>6
    <3>8. InTurn' /\ lock' \in Seq(Sharers) /\ Len(lock') < nextRequest
      BY <2>0, <2>1, <3>1, <3>3, TurnEnds
    <3>9. Numbered'
      BY <2>1, <2>4, <3>1, <3>3, <3>7, NumbersStay DEF Only, Unwritten
    <3>10. InStep'
      <4>1. \A p \in Pipes : p >= nextPipe' => UnderWay(pipe'[p]) = {}
        BY <2>1, <3>1, <3>7 DEF InStep
      <4>2. ASSUME stream' = stream, NEW i \in UnderWay(pipe'[stream])
            PROVE  i \in abandoned \/ Awaited(i)'
        <5>1. Head(pipe[stream].replies) = sharer[c].id
          BY <3>2, <3>4, <4>2
        <5>2. i # sharer[c].id /\ i \in UnderWay(pipe[stream])
          BY <3>6, <4>2, <5>1
        <5>3. i \in abandoned \/ Awaited(i)
          BY <2>1, <3>4, <5>2 DEF InStep
        <5>4. Awaited(i) => Awaited(i)'
          BY <3>3, <5>2 DEF Awaited, Only
        <5>5. QED BY <5>3, <5>4
      <4>3. \A d \in Sharers : sharer'[d].at \in {"Writing", "Reading"} => FALSE
        BY <2>2, <3>1, <3>3 DEF Only, HasLock
      <4>4. stream' \in {stream, 0} /\ stream' < nextPipe'
        BY <2>0, <2>1, <3>1, <3>2 DEF InStep
      <4>5. QED BY <3>1, <4>1, <4>2, <4>3, <4>4 DEF InStep, UnderWay, ToSet
    <3>11. ClientTypeOK'
      <4>1. Len(lock') <= MaxRequests /\ stream' \in 0 .. MaxPipes
        BY <2>0, <3>2, <3>8
      <4>2. QED BY <1>2, <3>1, <3>3, <3>5, <3>8, <4>1
            DEF ClientInv, ClientTypeOK, Only, SharerStates, PipeStates
    <3>12. QED BY <3>8, <3>9, <3>10, <3>11 DEF ClientInv
  \* The pipe is given up.
  <2>12. ASSUME NEW c \in Sharers, CallFails(c) \/ Disconnects(c) PROVE ClientInv'
    <3>1. /\ sharer[c].at \in {"Writing", "Reading", "Leaving"} /\ stream' = 0 /\ Unlocks(c)
          /\ UNCHANGED <<pipe, nextRequest, nextPipe, abandoned>>
          /\ sharer' = [sharer EXCEPT ![c] = [@ EXCEPT !.at = "Idle", !.got = 0]]
          /\ sharer[c].at = "Leaving" => Holds(c)
      BY <2>12 DEF CallFails, Disconnects, Fails, Returns
    <3>2. Only(c) /\ sharer'[c].at = "Idle" /\ sharer'[c].id = sharer[c].id /\ sharer'[c].got = 0
      <4>1. 0 \in 0 .. MaxRequests
        BY <2>0
      <4>2. QED BY <2>0, <3>1, <4>1, CallerReturns
    <3>3. InTurn' /\ lock' \in Seq(Sharers) /\ Len(lock') < nextRequest
      BY <2>0, <2>1, <3>1, <3>2, TurnEnds
    <3>4. Numbered'
      BY <2>1, <2>3, <2>4, <3>1, <3>2, NumbersStay DEF Only, Unwritten
    <3>5. ASSUME NEW d \in Sharers, sharer'[d].at \in {"Writing", "Reading"} PROVE FALSE
      <4>1. d # c /\ sharer[d].at \in HasLock
        BY <3>2, <3>5 DEF Only, HasLock
      <4>2. Holds(d) /\ Holds(c)
        BY <2>1, <3>1, <4>1 DEF InTurn, HasLock
      <4>3. QED BY <4>1, <4>2 DEF Holds
    <3>6. InStep'
      <4>1. 0 < nextPipe
        BY <2>0
      <4>2. \A p \in Pipes : p >= nextPipe => UnderWay(pipe'[p]) = {}
        BY <2>1, <3>1 DEF InStep
      <4>3. stream' = 0 /\ stream' < nextPipe'
        BY <3>1, <4>1
      <4>4. \A d \in Sharers : sharer'[d].at \in {"Writing", "Reading"} => stream' # 0
        BY <3>5
      <4>5. QED BY <3>1, <4>2, <4>3, <4>4 DEF InStep, UnderWay, ToSet
    <3>7. ClientTypeOK'
      <4>1. Len(lock') <= MaxRequests /\ stream' \in 0 .. MaxPipes
        BY <2>0, <3>1, <3>3
      <4>2. QED BY <1>2, <3>1, <3>2, <3>3, <4>1 DEF ClientInv, ClientTypeOK, Only, SharerStates
    <3>8. QED BY <3>3, <3>4, <3>6, <3>7 DEF ClientInv
  <2>13. ASSUME NEW c \in Sharers, CallDropped(c) PROVE ClientInv'
    <3>1. /\ sharer[c].at \in {"Queued"} \cup HasLock
          /\ abandoned' = abandoned \cup {sharer[c].id}
          /\ UNCHANGED <<stream, nextRequest, nextPipe>>
          /\ sharer[c].id \in Ids
      <4>1. sharer[c].id # 0
        BY <2>1, <2>13 DEF CallDropped, HasLock, Numbered
      <4>2. QED BY <2>4, <2>13, <4>1 DEF CallDropped, Ids
    <3>2. /\ pipe' \in [Pipes -> PipeStates]
          /\ \A p \in Pipes : pipe'[p].sent = pipe[p].sent /\ pipe'[p].replies = pipe[p].replies
      <4>1. CASE pipe' = pipe
        BY <2>0, <4>1
      <4>2. CASE /\ sharer[c].at \in {"Writing", "Reading"}
                 /\ pipe' = [pipe EXCEPT ![stream].cut = TRUE]
        <5>1. stream \in Pipes
          BY <2>0, <2>1, <4>2 DEF InStep, Pipes
        <5>2. QED BY <2>0, <4>2, <5>1 DEF PipeStates
      <4>3. QED BY <2>13, <4>1, <4>2 DEF CallDropped
    <3>3. \A p \in Pipes : UnderWay(pipe'[p]) = UnderWay(pipe[p]) /\ SentOnce(pipe'[p])
      BY <2>3, <3>2 DEF UnderWay, SentOnce
    <3>4. \/ sharer' = [sharer EXCEPT ![c] = [@ EXCEPT !.at = "Idle", !.got = 0]] /\ Unlocks(c)
          \/ /\ sharer' = [sharer EXCEPT ![c].at = "Leaving"]
             /\ lock' \in {Append(rest, c) : rest \in Without(c)}
      BY <2>13 DEF CallDropped, Fails, Returns, Goes
    <3>5. /\ Only(c) /\ sharer'[c].at \in {"Idle", "Leaving"} /\ sharer'[c].id = sharer[c].id
          /\ sharer'[c].got \in {0, sharer[c].got}
      <4>1. 0 \in 0 .. MaxRequests
        BY <2>0
      <4>2. CASE sharer' = [sharer EXCEPT ![c] = [@ EXCEPT !.at = "Idle", !.got = 0]]
        BY <2>0, <4>1, <4>2, CallerReturns
      <4>3. CASE sharer' = [sharer EXCEPT ![c].at = "Leaving"]
        BY <2>0, <4>3 DEF Only, SharerStates
      <4>4. QED BY <3>4, <4>2, <4>3
    <3>6. InTurn' /\ lock' \in Seq(Sharers) /\ Len(lock') < nextRequest
      <4>1. sharer[c].at # "Idle"
        BY <3>1 DEF HasLock
      <4>2. CASE sharer' = [sharer EXCEPT ![c] = [@ EXCEPT !.at = "Idle", !.got = 0]] /\ Unlocks(c)
        <5>1. sharer'[c].at = "Idle"
          BY <2>0, <4>2 DEF SharerStates
        <5>2. QED BY <2>0, <2>1, <3>1, <3>5, <4>1, <4>2, <5>1, TurnEnds
      <4>3. CASE /\ sharer' = [sharer EXCEPT ![c].at = "Leaving"]
                 /\ lock' \in {Append(rest, c) : rest \in Without(c)}
        <5>1. sharer'[c].at = "Leaving"
          BY <2>0, <4>3 DEF SharerStates
        <5>2. QED BY <2>0, <2>1, <3>1, <3>5, <4>1, <4>3, <5>1, TurnAgain
      <4>4. QED BY <3>4, <4>2, <4>3
    <3>7. Numbered'
      <4>1. \A d \in Sharers : /\ sharer'[d].id = sharer[d].id
                               /\ sharer'[d].got \in {0, sharer[d].id}
                               /\ sharer'[d].at # "Idle" => sharer[d].at # "Idle"
                               /\ sharer'[d].at \in Unwritten => sharer[d].at \in Unwritten
        BY <2>4, <3>1, <3>5 DEF Only, Unwritten, HasLock
      <4>2. QED BY <2>1, <3>1, <3>3, <4>1, NumbersStay
    <3>8. InStep'
      <4>1. \A d \in Sharers : /\ sharer'[d].at \in {"Writing", "Reading"} => stream # 0
                               /\ sharer[d].at = "Reading" => \/ sharer'[d] = sharer[d]
                                                              \/ sharer[d].id \in abandoned'
        BY <2>1, <3>1, <3>5 DEF InStep, Only
      <4>2. QED BY <2>0, <2>1, <3>1, <3>3, <4>1, StepStays
    <3>9. ClientTypeOK'
      <4>1. Len(lock') <= MaxRequests /\ abandoned' \subseteq Ids
        BY <2>0, <3>1, <3>6
      <4>2. QED BY <1>2, <3>1, <3>2, <3>5, <3>6, <4>1
            DEF ClientInv, ClientTypeOK, Only, SharerStates, PipeStates
    <3>10. QED BY <3>6, <3>7, <3>8, <3>9 DEF ClientInv
  \* The other end.
  <2>14. ASSUME NEW p \in Pipes, ServerAnswers(p) \/ ServerLeaves(p) PROVE ClientInv'
    <3>1. UNCHANGED <<lock, stream, nextRequest, nextPipe, sharer, abandoned>>
      BY <2>14 DEF ServerAnswers, ServerLeaves
    <3>2. /\ pipe' \in [Pipes -> PipeStates] /\ SentOnce(pipe'[p])
          /\ UnderWay(pipe'[p]) \subseteq UnderWay(pipe[p])
          /\ \A o \in Pipes \ {p} : pipe'[o] = pipe[o]
      <4>1. pipe[p] \in PipeStates /\ SentOnce(pipe[p])
        BY <2>0, <2>3
      <4>2. CASE ServerAnswers(p)
        <5> DEFINE n == [pipe[p] EXCEPT !.sent = Tail(@), !.replies = Append(@, Head(pipe[p].sent))]
        <5>1. pipe[p].sent # <<>> /\ pipe' = [pipe EXCEPT ![p] = n]
          BY <4>2 DEF ServerAnswers
        <5>2. /\ Tail(pipe[p].sent) \in Seq(Ids) /\ Head(pipe[p].sent) \in Ids
              /\ Append(pipe[p].replies, Head(pipe[p].sent)) \in Seq(Ids)
          BY <4>1, <5>1 DEF PipeStates
        <5>3. n \in PipeStates
          BY <4>1, <5>2 DEF PipeStates
        <5>4. SentOnce(n) /\ UnderWay(n) \subseteq UnderWay(pipe[p])
          BY <4>1, <5>1, <5>3, AnswerMoves
        <5> HIDE DEF n
        <5>5. /\ pipe' \in [Pipes -> PipeStates] /\ pipe'[p] = n
              /\ \A o \in Pipes \ {p} : pipe'[o] = pipe[o]
          BY <2>0, <5>1, <5>3
        <5>6. QED BY <5>4, <5>5
      <4>3. CASE ServerLeaves(p)
        <5> DEFINE n == [sent |-> <<>>, replies |-> <<>>, open |-> FALSE, cut |-> FALSE]
        <5>1. pipe' = [pipe EXCEPT ![p] = n]
          BY <4>3 DEF ServerLeaves
        <5>2. <<>> \in Seq(Ids)
          OBVIOUS
        <5>3. n \in PipeStates /\ SentOnce(n) /\ UnderWay(n) = {}
          BY <5>2, EmptyQueue DEF PipeStates, SentOnce, UnderWay
        <5> HIDE DEF n
        <5>4. /\ pipe' \in [Pipes -> PipeStates] /\ pipe'[p] = n
              /\ \A o \in Pipes \ {p} : pipe'[o] = pipe[o]
          BY <2>0, <5>1, <5>3
        <5>5. QED BY <5>3, <5>4
      <4>4. QED BY <2>14, <4>2, <4>3
    <3>3. \A o \in Pipes : SentOnce(pipe'[o]) /\ UnderWay(pipe'[o]) \subseteq UnderWay(pipe[o])
      BY <2>3, <3>2
    <3>4. InTurn'
      BY <2>1, <3>1 DEF InTurn, Holds, OnceIn, ToSet
    <3>5. Numbered'
      <4>1. \A c \in Sharers : sharer'[c].got \in {0, sharer[c].id}
        BY <2>4, <3>1
      <4>2. QED BY <2>1, <3>1, <3>3, <4>1, NumbersStay
    <3>6. InStep'
      <4>1. \A d \in Sharers : sharer'[d].at \in {"Writing", "Reading"} => stream # 0
        BY <2>1, <3>1 DEF InStep
      <4>2. QED BY <2>0, <2>1, <3>1, <3>3, <4>1, StepStays
    <3>7. ClientTypeOK'
      BY <1>2, <3>1, <3>2 DEF ClientInv, ClientTypeOK, PipeStates
    <3>8. QED BY <3>4, <3>5, <3>6, <3>7 DEF ClientInv
  <2>15. QED
    BY <1>2, <2>6, <2>7, <2>8, <2>9, <2>10, <2>11, <2>12, <2>13, <2>14 DEF ClientNext
<1>3. QED BY <1>1, <1>2, PTL DEF ClientSpec

\* However many callers share a client, and however many calls fail or time out: a call meets the
\* answer of another only after one was dropped (call()).
THEOREM ClientDesyncsByDrops ==
    ASSUME ClientBounds
    PROVE  ClientSpec => []OnlyDropsDesync
<1>1. ClientInit => OnlyDropsDesync
  BY DEF ClientInit, OnlyDropsDesync, NeverDesynced
<1>2. ASSUME ClientInv, OnlyDropsDesync, [ClientNext]_clientVars PROVE OnlyDropsDesync'
  <2>1. abandoned \subseteq abandoned'
    BY <1>2 DEF ClientNext, CallBegins, Locks, Connects, Writes, Reads, CallFails, CallDropped,
                Disconnects, ServerAnswers, ServerLeaves, clientVars
  <2>2. sharer \in [Sharers -> SharerStates]
    BY <1>2 DEF ClientInv, ClientTypeOK, SharerStates
  \* Who meets another's answer meets that of a call that was dropped: nobody else awaits one.
  <2>3. ASSUME NEW c \in Sharers, Reads(c), ~ UNCHANGED stream PROVE abandoned' # {}
    <3>1. /\ sharer[c].at = "Reading" /\ pipe[stream].replies # <<>> /\ UNCHANGED abandoned
          /\ Head(pipe[stream].replies) # sharer[c].id
      BY <2>3 DEF Reads
    <3>2. stream # 0 /\ stream \in Pipes
      BY <1>2, <3>1 DEF ClientInv, ClientTypeOK, InStep, Pipes, ClientBounds
    <3>3. pipe[stream].replies \in Seq(Ids)
      BY <1>2, <3>2 DEF ClientInv, ClientTypeOK
    <3>4. Head(pipe[stream].replies) \in UnderWay(pipe[stream])
      BY <3>1, <3>3 DEF UnderWay, ToSet
    <3>5. Head(pipe[stream].replies) \in abandoned \/ Awaited(Head(pipe[stream].replies))
      BY <1>2, <3>2, <3>4 DEF ClientInv, InStep
    <3>6. ASSUME NEW d \in Sharers, sharer[d].at = "Reading" PROVE d = c
      BY <1>2, <3>1, <3>6 DEF ClientInv, InTurn, HasLock, Holds
    <3>7. ~ Awaited(Head(pipe[stream].replies))
      BY <3>1, <3>6 DEF Awaited
    <3>8. QED BY <3>1, <3>5, <3>7
  <2>4. ASSUME NEW c \in Sharers, Reads(c), UNCHANGED stream
        PROVE  \A d \in Sharers : sharer'[d].desynced = sharer[d].desynced
    <3>1. \/ sharer' = [sharer EXCEPT ![c] = [@ EXCEPT !.at = "Idle", !.got = sharer[c].id]]
          \/ stream = 0
      BY <2>4 DEF Reads, Returns
    <3>2. stream # 0
      BY <1>2, <2>4 DEF Reads, ClientInv, InStep
    <3>3. sharer' = [sharer EXCEPT ![c] = [@ EXCEPT !.at = "Idle", !.got = sharer[c].id]]
      BY <3>1, <3>2
    <3>4. QED BY <2>2, <3>3 DEF SharerStates
  <2>5. ASSUME NEW c \in Sharers,
               CallBegins(c) \/ Locks(c) \/ Connects(c) \/ Writes(c) \/ CallFails(c)
                   \/ CallDropped(c) \/ Disconnects(c)
        PROVE  \A d \in Sharers : sharer'[d].desynced \in {sharer[d].desynced, FALSE}
    <3>1. \/ sharer' = [sharer EXCEPT ![c] = [at |-> "Queued", id |-> nextRequest, got |-> 0,
                                            desynced |-> FALSE]]
          \/ \E a \in {"Connecting", "Writing", "Reading"} : sharer' = [sharer EXCEPT ![c].at = a]
          \/ sharer' = [sharer EXCEPT ![c].at = "Leaving"]
          \/ sharer' = [sharer EXCEPT ![c] = [@ EXCEPT !.at = "Idle", !.got = 0]]
      <4>1. CASE CallBegins(c)
        BY <4>1 DEF CallBegins
      <4>2. CASE Locks(c) \/ Writes(c)
        BY <4>2 DEF Locks, Writes, Goes
      <4>3. CASE Connects(c)
        BY <4>3 DEF Connects, Goes, Fails, Returns
      <4>4. CASE CallFails(c) \/ Disconnects(c)
        BY <4>4 DEF CallFails, Disconnects, Fails, Returns
      <4>5. CASE CallDropped(c)
        BY <4>5 DEF CallDropped, Goes, Fails, Returns
      <4>6. QED BY <2>5, <4>1, <4>2, <4>3, <4>4, <4>5
    <3>2. CASE sharer' = [sharer EXCEPT ![c] = [at |-> "Queued", id |-> nextRequest, got |-> 0,
                                             desynced |-> FALSE]]
      BY <2>2, <3>2 DEF SharerStates
    <3>3. ASSUME NEW a, sharer' = [sharer EXCEPT ![c].at = a]
          PROVE  \A d \in Sharers : sharer'[d].desynced = sharer[d].desynced
      BY <2>2, <3>3 DEF SharerStates
    <3>4. CASE sharer' = [sharer EXCEPT ![c] = [@ EXCEPT !.at = "Idle", !.got = 0]]
      BY <2>2, <3>4 DEF SharerStates
    <3>5. QED BY <3>1, <3>2, <3>3, <3>4
  <2>6. CASE UNCHANGED sharer
    BY <1>2, <2>1, <2>6 DEF OnlyDropsDesync, NeverDesynced
  <2>7. CASE \A d \in Sharers : sharer'[d].desynced \in {sharer[d].desynced, FALSE}
    BY <1>2, <2>1, <2>7 DEF OnlyDropsDesync, NeverDesynced
  <2>8. CASE \E c \in Sharers : Reads(c)
    BY <2>3, <2>4, <2>7, <2>8 DEF OnlyDropsDesync
  <2>9. CASE \E c \in Sharers :
                CallBegins(c) \/ Locks(c) \/ Connects(c) \/ Writes(c) \/ CallFails(c)
                    \/ CallDropped(c) \/ Disconnects(c)
    BY <2>5, <2>7, <2>9
  <2>10. CASE (\E p \in Pipes : ServerAnswers(p) \/ ServerLeaves(p)) \/ UNCHANGED clientVars
    BY <2>6, <2>10 DEF ServerAnswers, ServerLeaves, clientVars
  <2>11. QED BY <1>2, <2>8, <2>9, <2>10 DEF ClientNext
<1>3. QED BY <1>1, <1>2, ClientInvariance, PTL DEF ClientSpec

\* What is still to come on the pipe in the mutex is awaited, or belongs to a call that was
\* dropped.
THEOREM ClientIsInStep ==
    ASSUME ClientBounds
    PROVE  ClientSpec => []PipeIsInStep
<1>1. ASSUME ClientInv PROVE PipeIsInStep
  <2> DEFINE under == pipe[stream].sent \o pipe[stream].replies
  <2> SUFFICES ASSUME stream # 0, NEW i \in DOMAIN under
               PROVE  under[i] \in abandoned \/ Awaited(under[i])
    BY DEF PipeIsInStep, Awaited
  <2>1. pipe[stream].sent \in Seq(Ids) /\ pipe[stream].replies \in Seq(Ids)
    BY <1>1 DEF ClientInv, ClientTypeOK, Pipes
  <2>2. under[i] \in ToSet(pipe[stream].sent) \cup ToSet(pipe[stream].replies)
    <3> DEFINE s == pipe[stream].sent
               r == pipe[stream].replies
    <3>1. /\ Len(s) \in Nat /\ Len(r) \in Nat /\ DOMAIN s = 1 .. Len(s) /\ DOMAIN r = 1 .. Len(r)
          /\ s \in Seq(Ids) /\ r \in Seq(Ids)
      BY <2>1
    <3> HIDE DEF s, r
    <3>2. /\ i \in 1 .. (Len(s) + Len(r))
          /\ (s \o r)[i] = IF i <= Len(s) THEN s[i] ELSE r[i - Len(s)]
      <4>1. DOMAIN (s \o r) = 1 .. (Len(s) + Len(r))
        BY <3>1
      <4>2. QED BY <3>1, <4>1, ConcatProperties DEF s, r
    <3>3. (s \o r)[i] \in ToSet(s) \cup ToSet(r)
      BY <3>1, <3>2 DEF ToSet
    <3>4. QED BY <3>3 DEF s, r
  <2>3. QED BY <1>1, <2>2 DEF ClientInv, InStep, UnderWay
<1>2. ClientSpec => []ClientInv
  BY ClientInvariance
<1>3. QED BY <1>1, <1>2, PTL

-----------------------------------------------------------------------------
(* PageGuard *)

\* What a browser guarantees of its targets: the page is one, their names are no session's, and
\* what lives inside another target lives in a page or a frame.
OpenersAreSound ==
    /\ Main \in Targets /\ IsFiniteSet(Targets) /\ Opener \in [Targets -> Targets]
    /\ Targets \cap {"Own", "Other", "None", "Root"} = {}
    /\ Kinds \subseteq [Targets -> {"page", "tab", "iframe", "worker"}]
    /\ \A k \in Kinds :
          /\ k[Main] = "page"
          /\ \A t \in Targets : k[t] \in {"iframe", "worker"} => k[Opener[t]] \in {"page", "iframe"}

BacklogIsPositive == Backlog \in Nat \ {0}

\* A session is attached to a target there is.
HeardOnly(on) ==
    {e \in GuardEvents :
        e.kind = "Attached" => e.session \in Targets \cup (IF on = "None" THEN {} ELSE {"Other"})}

Listed == {<<"Fetch", "Supervise">>, <<"Fetch", "Supervise", "Resume">>}
FetchDone == {<<>>, <<"Supervise">>, <<"Supervise", "Resume">>, <<"Resume">>}
SuperviseDone == {<<>>, <<"Resume">>}

\* TargetOf(), for any page the runtime has switched to.
TargetIn(on, s) == CASE s = "Own" -> Main [] s = "Other" -> on [] OTHER -> s

\* What the task still has to do for the target it prepares, and what it has done.
Prepared ==
    handler.at = "Arming" =>
        /\ TargetIn(tab, handler.session) \in Targets
        /\ handler.todo \in Listed \cup FetchDone
        /\ connected /\ life[TargetIn(tab, handler.session)] # "Closed" =>
              /\ kind[TargetIn(tab, handler.session)] \notin {"tab", "worker"}
                 /\ handler.todo \in FetchDone => handler.session \in armed
              /\ kind[TargetIn(tab, handler.session)] # "worker"
                 /\ handler.todo \in SuperviseDone => handler.session \in supervising

Installed == owner \notin {"Blank"} \cup Installing
Reached(on, sessions, t) == \E s \in sessions : TargetIn(on, s) = t

\* Whatever runs has its requests paused and its targets told of.
RunningIsCovered ==
    connected /\ Installed =>
        /\ "Root" \in supervising
        /\ \A t \in Targets :
              life[t] = "Running" /\ kind[t] # "worker" =>
                 /\ kind[t] # "tab" => Reached(tab, armed, t)
                 /\ Reached(tab, supervising, t)

InstallingCovers ==
    /\ connected /\ owner \in Installing \ {"Fetch"} /\ life[Main] = "Running" => "Own" \in armed
    /\ connected /\ owner \in {"RootTree", "Check"}
       /\ life[Main] = "Running" => "Own" \in supervising
    /\ connected /\ owner = "Check" => "Root" \in supervising

\* Before, there is the page and nobody to decide.
NothingElseYet ==
    ~ Installed => handler.at = "None" /\ \A t \in Targets \ {Main} : life[t] = "None"

WorkersHaveOpeners ==
    \A t \in Targets :
        kind[t] = "worker" /\ life[t] \in {"Waiting", "Running"} => life[Opener[t]] = "Running"

\* Who ends the task, and who ends the browser.
EndsAreOwned ==
    /\ closing => owner \in {"Closing", "Over"}
    /\ owner = "Over" => tree = "Gone"
    /\ shutdown => owner \in {"Using", "Degraded", "Clearing", "Closing", "Over"}
    /\ owner = "Clearing" => shutdown
    /\ owner = "Using" /\ shutdown => tab # "None"
    /\ owner = "Switching" => tab \in Targets
    /\ handler.at = "None" => owner \in {"Blank", "Closing", "Over"} \cup Installing
    /\ handler.at = "Aborted" => shutdown
    /\ handler.at = "Ended" => shutdown \/ closing \/ tree = "Gone"
    /\ tree = "Gone" => ~ connected

GuardInv ==
    /\ GuardTypeOK /\ events \in Seq(HeardOnly(tab)) /\ ~ leaked
    /\ Prepared /\ RunningIsCovered /\ InstallingCovers /\ NothingElseYet /\ WorkersHaveOpeners
    /\ EndsAreOwned

\* The steps of any list of the task.
Doings == {"Fetch", "Supervise", "Resume"}

\* A finite set can be put in a row.
LEMMA InARow ==
    ASSUME NEW S, IsFiniteSet(S)
    PROVE  SetToSeq(S) \in Seq(S)
<1>1. Cardinality(S) \in Nat /\ ExistsBijection(1 .. Cardinality(S), S)
  BY FS_CardinalityType
<1>2. PICK f \in Bijection(1 .. Cardinality(S), S) : TRUE
  BY <1>1 DEF ExistsBijection
<1>3. f \in [1 .. Cardinality(S) -> S] /\ IsInjective(f)
  BY <1>2 DEF Bijection, Injection
<1>4. SetToSeq(S) \in [1 .. Cardinality(S) -> S]
  BY <1>3 DEF SetToSeq
<1>5. QED BY <1>1, <1>4, SeqDef

\* What is sent to the task is in its queue, or it is told that it missed something.
LEMMA ToldIsHeard ==
    ASSUME NEW S, Lagged \in S, events \in Seq(S), NEW new \in Seq(S), Told(new), BacklogIsPositive,
           Len(events) <= Backlog
    PROVE  events' \in Seq(S) /\ Len(events') <= Backlog
<1>1. <<Lagged>> \in Seq(S) /\ Len(<<Lagged>>) = 1
  OBVIOUS
<1>2. events \o new \in Seq(S) /\ Len(events \o new) = Len(events) + Len(new)
  BY ConcatProperties
<1>3. Len(events) \in Nat /\ Len(new) \in Nat
  BY LenProperties
<1>4. \/ events' = events \/ events' = <<Lagged>>
      \/ events' = events \o new /\ ~ (Len(events) + Len(new) > Backlog)
  BY DEF Told
<1>5. Backlog \in Nat /\ 1 <= Backlog
  BY DEF BacklogIsPositive
<1>6. events' \in Seq(S)
  BY <1>1, <1>2, <1>4
<1>7. CASE events' = events
  BY <1>6, <1>7
<1>8. CASE events' = <<Lagged>>
  BY <1>1, <1>5, <1>6, <1>8
<1>9. CASE events' = events \o new /\ ~ (Len(events) + Len(new) > Backlog)
  BY <1>2, <1>3, <1>5, <1>6, <1>9
<1>10. QED BY <1>4, <1>7, <1>8, <1>9

\* There are two sessions more than targets.
LEMMA SessionsAreFinite ==
    ASSUME OpenersAreSound
    PROVE  IsFiniteSet(Sessions)
<1>1. IsFiniteSet(Targets \cup {"Own"})
  BY FS_AddElement DEF OpenersAreSound
<1>2. IsFiniteSet((Targets \cup {"Own"}) \cup {"Other"})
  BY <1>1, FS_AddElement
<1>3. Sessions = (Targets \cup {"Own"}) \cup {"Other"}
  BY DEF Sessions
<1>4. QED BY <1>2, <1>3

\* The pauses of some sessions are events the task may hear.
LEMMA PausesAreHeard ==
    ASSUME OpenersAreSound, NEW on, NEW S \in SUBSET Sessions
    PROVE  SetToSeq({Paused(s) : s \in S}) \in Seq(HeardOnly(on))
<1> DEFINE f == [s \in S |-> Paused(s)]
           T == {Paused(s) : s \in S}
<1>1. IsFiniteSet(S)
  BY SessionsAreFinite, FS_Subset
<1>2. f \in Surjection(S, T)
  BY DEF Surjection
<1>3. IsFiniteSet(T)
  BY <1>1, <1>2, FS_Surjection
<1>4. T \subseteq HeardOnly(on)
  BY DEF Paused, HeardOnly, GuardEvents
<1>5. SetToSeq(T) \in Seq(T)
  BY <1>3, InARow
<1>6. QED BY <1>4, <1>5, SeqMonotonic

\* So are their detachments.
LEMMA DetachmentsAreHeard ==
    ASSUME OpenersAreSound, NEW on, NEW S \in SUBSET Sessions
    PROVE  SetToSeq({Detached(s) : s \in S}) \in Seq(HeardOnly(on))
<1> DEFINE f == [s \in S |-> Detached(s)]
           T == {Detached(s) : s \in S}
<1>1. IsFiniteSet(S)
  BY SessionsAreFinite, FS_Subset
<1>2. f \in Surjection(S, T)
  BY DEF Surjection
<1>3. IsFiniteSet(T)
  BY <1>1, <1>2, FS_Surjection
<1>4. T \subseteq HeardOnly(on)
  BY DEF Detached, HeardOnly, GuardEvents
<1>5. SetToSeq(T) \in Seq(T)
  BY <1>3, InARow
<1>6. QED BY <1>4, <1>5, SeqMonotonic

\* A row of one and one more.
LEMMA OneAfterOne ==
    ASSUME NEW a, NEW b
    PROVE  <<a>> \o <<b>> = <<a, b>>
<1> DEFINE S == {a, b}
           s == <<a>>
           t == <<b>>
           u == <<a, b>>
<1>1. s \in Seq(S) /\ t \in Seq(S)
  OBVIOUS
<1>2. u \in Seq(S)
  OBVIOUS
<1>3. Len(s) = 1 /\ Len(t) = 1 /\ Len(u) = 2 /\ s[1] = a /\ t[1] = b /\ u[1] = a /\ u[2] = b
  OBVIOUS
<1> HIDE DEF S, s, t, u
<1>4. s \o t \in Seq(S) /\ Len(s \o t) = Len(s) + Len(t)
      /\ \A i \in 1 .. Len(s) + Len(t) : (s \o t)[i] = IF i <= Len(s) THEN s[i] ELSE t[i - Len(s)]
  BY <1>1, ConcatProperties
<1>5. Len(s \o t) = Len(u) /\ \A i \in 1 .. Len(s \o t) : (s \o t)[i] = u[i]
  BY <1>3, <1>4
<1>6. s \o t = u
  BY <1>1, <1>2, <1>4, <1>5, SeqEqual
<1>7. QED BY <1>6 DEF s, t, u

\* And of two and one.
LEMMA TwoThenOne ==
    ASSUME NEW a, NEW b, NEW c
    PROVE  <<a, b>> \o <<c>> = <<a, b, c>>
<1> DEFINE S == {a, b, c}
           s == <<a, b>>
           t == <<c>>
           u == <<a, b, c>>
<1>1. s \in Seq(S)
  OBVIOUS
<1>2. t \in Seq(S)
  OBVIOUS
<1>3. u \in Seq(S)
  OBVIOUS
<1>4. Len(s) = 2 /\ Len(t) = 1 /\ Len(u) = 3 /\ s[1] = a /\ t[1] = c /\ u[1] = a /\ u[2] = b
      /\ s[2] = b /\ u[3] = c
  OBVIOUS
<1> HIDE DEF S, s, t, u
<1>5. s \o t \in Seq(S) /\ Len(s \o t) = Len(s) + Len(t)
      /\ \A i \in 1 .. Len(s) + Len(t) : (s \o t)[i] = IF i <= Len(s) THEN s[i] ELSE t[i - Len(s)]
  BY <1>1, <1>2, ConcatProperties
<1>6. Len(s \o t) = Len(u) /\ \A i \in 1 .. Len(s \o t) : (s \o t)[i] = u[i]
  BY <1>4, <1>5
<1>7. s \o t = u
  BY <1>1, <1>3, <1>5, <1>6, SeqEqual
<1>8. QED BY <1>7 DEF s, t, u

\* The lists of arm_guarded_target().
LEMMA TodoIsListed ==
    ASSUME NEW e
    PROVE  /\ Todo(e) \in Listed \cup FetchDone
           /\ Todo(e) \in FetchDone => kind[TargetOf(e.session)] \in {"tab", "worker"}
           /\ Todo(e) \in SuperviseDone => kind[TargetOf(e.session)] = "worker"
<1> DEFINE k == kind[TargetOf(e.session)]
           first == CASE k = "tab" -> <<"Supervise">> [] k = "worker" -> <<>>
                      [] OTHER -> <<"Fetch", "Supervise">>
           last == IF e.waiting THEN <<"Resume">> ELSE <<>>
<1>0. k = kind[TargetOf(e.session)]
  OBVIOUS
<1>1. Todo(e) = first \o last
  BY DEF Todo
<1>2. \/ k = "tab" /\ first = <<"Supervise">>
      \/ k = "worker" /\ first = <<>>
      \/ k \notin {"tab", "worker"} /\ first = <<"Fetch", "Supervise">>
  OBVIOUS
<1>3. last = <<"Resume">> \/ last = <<>>
  OBVIOUS
<1>4. <<"Supervise">> \in Seq(Doings)
  BY DEF Doings
<1>5. <<"Fetch", "Supervise">> \in Seq(Doings)
  BY DEF Doings
<1>6. <<>> \in Seq(Doings)
  OBVIOUS
<1>7. <<"Resume">> \in Seq(Doings)
  BY DEF Doings
<1> HIDE DEF k, first, last
<1>8. CASE last = <<>>
  <2>1. Todo(e) = first
    BY <1>1, <1>2, <1>4, <1>5, <1>6, <1>8, ConcatEmptySeq
  <2>2. QED BY <1>0, <1>2, <2>1 DEF Listed, FetchDone, SuperviseDone
<1>9. CASE last = <<"Resume">>
  <2>1. <<>> \o <<"Resume">> = <<"Resume">>
    BY <1>7, ConcatEmptySeq
  <2>2. <<"Supervise">> \o <<"Resume">> = <<"Supervise", "Resume">>
    BY OneAfterOne
  <2>3. <<"Fetch", "Supervise">> \o <<"Resume">> = <<"Fetch", "Supervise", "Resume">>
    BY TwoThenOne
  <2>4. \/ k = "tab" /\ Todo(e) = <<"Supervise", "Resume">>
        \/ k = "worker" /\ Todo(e) = <<"Resume">>
        \/ k \notin {"tab", "worker"} /\ Todo(e) = <<"Fetch", "Supervise", "Resume">>
    BY <1>1, <1>2, <1>9, <2>1, <2>2, <2>3
  <2>5. QED BY <1>0, <2>4 DEF Listed, FetchDone, SuperviseDone
<1>10. QED BY <1>3, <1>8, <1>9

\* What is left of a list that was begun.
LEMMA ListsShrink ==
    ASSUME NEW l \in Listed \cup FetchDone, l # <<>>
    PROVE  /\ Tail(l) \in Listed \cup FetchDone
           /\ Tail(l) \in FetchDone => l \in FetchDone \/ Head(l) = "Fetch"
           /\ Tail(l) \in SuperviseDone => l \in SuperviseDone \/ Head(l) = "Supervise"
           /\ Head(l) = "Resume" => l \in FetchDone \cap SuperviseDone
<1>1. l \in {<<"Supervise">>, <<"Resume">>, <<"Fetch", "Supervise">>, <<"Supervise", "Resume">>,
            <<"Fetch", "Supervise", "Resume">>}
  BY DEF Listed, FetchDone
<1>2. /\ Tail(<<"Supervise">>) = <<>> /\ Head(<<"Supervise">>) = "Supervise"
      /\ Tail(<<"Resume">>) = <<>> /\ Head(<<"Resume">>) = "Resume"
  OBVIOUS
<1>3. /\ Tail(<<"Fetch", "Supervise">>) = <<"Supervise">>
      /\ Head(<<"Fetch", "Supervise">>) = "Fetch"
  OBVIOUS
<1>4. /\ Tail(<<"Supervise", "Resume">>) = <<"Resume">>
      /\ Head(<<"Supervise", "Resume">>) = "Supervise"
  OBVIOUS
<1>5. /\ Tail(<<"Fetch", "Supervise", "Resume">>) = <<"Supervise", "Resume">>
      /\ Head(<<"Fetch", "Supervise", "Resume">>) = "Fetch"
  OBVIOUS
<1>6. CASE l = <<"Supervise">>
  BY <1>2, <1>6 DEF Listed, FetchDone, SuperviseDone
<1>7. CASE l = <<"Resume">>
  BY <1>2, <1>7 DEF Listed, FetchDone, SuperviseDone
<1>8. CASE l = <<"Fetch", "Supervise">>
  BY <1>3, <1>8 DEF Listed, FetchDone, SuperviseDone
<1>9. CASE l = <<"Supervise", "Resume">>
  BY <1>4, <1>9 DEF Listed, FetchDone, SuperviseDone
<1>10. CASE l = <<"Fetch", "Supervise", "Resume">>
  BY <1>5, <1>10 DEF Listed, FetchDone, SuperviseDone
<1>11. QED BY <1>1, <1>6, <1>7, <1>8, <1>9, <1>10

\* The lists are lists of steps.
LEMMA ListsAreOfSteps == Listed \cup FetchDone \subseteq Seq(Doings)
<1>1. <<"Supervise">> \in Seq(Doings)
  BY DEF Doings
<1>2. <<"Fetch", "Supervise">> \in Seq(Doings)
  BY DEF Doings
<1>3. <<>> \in Seq(Doings)
  OBVIOUS
<1>4. <<"Resume">> \in Seq(Doings)
  BY DEF Doings
<1>5. <<"Supervise", "Resume">> \in Seq(Doings)
  BY DEF Doings
<1>6. <<"Fetch", "Supervise", "Resume">> \in Seq(Doings)
  BY DEF Doings
<1>7. QED BY <1>1, <1>2, <1>3, <1>4, <1>5, <1>6 DEF Listed, FetchDone

\* EndsAreOwned is kept by every step.
LEMMA EndsStayOwned ==
    ASSUME OpenersAreSound, GuardTypeOK, EndsAreOwned, [GuardNext]_guardVars
    PROVE  EndsAreOwned'
<1> USE DEF EndsAreOwned, Task
<1>1. CASE BrowserStep
  <2>1. UNCHANGED <<closing, owner, tree, shutdown, tab, handler>> /\ (~ connected => ~ connected')
    <3>1. CASE \E t \in Targets : Opens(t)
      BY <3>1 DEF Opens, ownerVars
    <3>2. CASE \E t \in Targets : Closes(t)
      BY <3>2 DEF Closes, ownerVars
    <3>3. CASE \E t \in Targets : Cancels(t)
      BY <3>3 DEF Cancels, taskVars, ownerVars
    <3>4. CASE \E t \in Targets, url \in RequestUrls : Asks(t, url)
      BY <3>4 DEF Asks, ownerVars
    <3>5. CASE ConnectionLost
      BY <3>5 DEF ConnectionLost, taskVars, ownerVars
    <3>6. CASE Crowds
      BY <3>6 DEF Crowds, browserVars, ownerVars
    <3>7. QED BY <1>1, <3>1, <3>2, <3>3, <3>4, <3>5, <3>6 DEF BrowserStep
  <2>2. tree = "Gone" => ~ connected'
    BY <2>1
  <2>3. QED BY <2>1, <2>2
<1>2. CASE HandlerStep
  <2>1. CASE NoticesLoss
    BY <2>1 DEF NoticesLoss, Turns, browserVars, ownerVars
  <2>2. CASE Obeys
    BY <2>2 DEF Obeys, Turns, browserVars, ownerVars
  <2>3. CASE Receives
    <3>1. handler'.at \notin {"None", "Aborted", "Ended"} /\ handler.at # "None"
      BY <2>3 DEF Receives, Receiving, Takes, Turns, Doing
    <3>2. QED BY <2>3, <3>1 DEF Receives, browserVars, ownerVars
  <2>4. CASE Arms
    <3>1. handler'.at \notin {"None", "Aborted", "Ended"} /\ handler.at # "None"
      BY <2>4 DEF Arms, Turns, GuardTypeOK
    <3>2. QED BY <2>4, <3>1 DEF Arms, ownerVars
  <2>5. CASE Decides
    <3>1. handler'.at \notin {"None", "Aborted", "Ended"} /\ handler.at # "None"
      BY <2>5 DEF Decides, Turns
    <3>2. QED BY <2>5, <3>1 DEF Decides, ownerVars
  <2>6. CASE Loses
    BY <2>6 DEF Loses, Turns, browserVars
  <2>7. CASE Terminates
    BY <2>7 DEF Terminates, Gone, Turns, ownerVars
  <2>8. QED BY <1>2, <2>1, <2>2, <2>3, <2>4, <2>5, <2>6, <2>7 DEF HandlerStep
<1>3. CASE OwnerStep
  <2>1. CASE Begins
    BY <2>1 DEF Begins, browserVars, taskVars, Installing
  <2>2. CASE Installs
    BY <2>2 DEF Installs, Following, Installing
  <2>3. CASE Spawns
    BY <2>3 DEF Spawns, browserVars, Installing
  <2>4. CASE InstallFails
    BY <2>4 DEF InstallFails, browserVars, taskVars, Installing
  <2>5. CASE \E t \in Targets : Attaches(t)
    BY <2>5 DEF Attaches, browserVars, Installing, OpenersAreSound
  <2>6. CASE AttachFails
    BY <2>6 DEF AttachFails, browserVars, taskVars, Installing
  <2>7. CASE Switches
    BY <2>7 DEF Switches, Turns, browserVars, Installing, OpenersAreSound
  <2>8. CASE Releases
    BY <2>8 DEF Releases, Holding, browserVars, Installing
  <2>9. CASE Clears
    BY <2>9 DEF Clears, Turns, browserVars, Installing
  <2>10. CASE ClearDropped
    BY <2>10 DEF ClearDropped, Turns, browserVars, Installing
  <2>11. CASE Closed
    BY <2>11 DEF Closed, Gone, taskVars, Installing
  <2>12. QED BY <1>3, <2>1, <2>2, <2>3, <2>4, <2>5, <2>6, <2>7, <2>8, <2>9, <2>10, <2>11
                DEF OwnerStep
<1>4. CASE UNCHANGED guardVars
  BY <1>4 DEF guardVars, browserVars, taskVars, ownerVars
<1>5. QED BY <1>1, <1>2, <1>3, <1>4 DEF GuardNext

\* Which targets the sessions are of.
LEMMA TargetsOfSessions ==
    ASSUME OpenersAreSound
    PROVE  /\ \A on, t : t \in Targets => TargetIn(on, t) = t
           /\ \A on : TargetIn(on, "Own") = Main /\ TargetIn(on, "Other") = on
           /\ \A on : TargetIn(on, "Root") = "Root"
           /\ \A on, s : s \in Sessions /\ s # "Other" => TargetIn(on, s) \in Targets
           /\ "Root" \notin Targets \cup Sessions
  BY DEF TargetIn, OpenersAreSound, Sessions

CoverInv == RunningIsCovered /\ InstallingCovers /\ NothingElseYet /\ WorkersHaveOpeners

\* Steps that neither the browser nor the progress of the runtime is moved by.
LEMMA CoverIsLeft ==
    ASSUME CoverInv, UNCHANGED <<kind, life, armed, supervising, tab>>, connected' => connected,
           Installed' <=> Installed, ~ Installed => UNCHANGED <<owner, handler>>
    PROVE  CoverInv'
  BY DEF CoverInv, RunningIsCovered, InstallingCovers, NothingElseYet, WorkersHaveOpeners,
     Installed,
     Installing

\* What a browser says of its targets' kinds.
LEMMA KindsOfTargets ==
    ASSUME OpenersAreSound, kind \in Kinds
    PROVE  /\ kind \in [Targets -> {"page", "tab", "iframe", "worker"}] /\ kind[Main] = "page"
           /\ \A t \in Targets :
                 /\ kind[t] \in {"iframe", "worker"} => kind[Opener[t]] \in {"page", "iframe"}
                 /\ Opener[t] \in Targets
           /\ Main \in Targets
  BY DEF OpenersAreSound

\* A target whose opener runs is announced to somebody.
LEMMA OpenedIsAnnounced ==
    ASSUME OpenersAreSound, kind \in Kinds, RunningIsCovered, connected, Installed,
           NEW t \in Targets, life[Opener[t]] = "Running"
    PROVE  Supervisors(t) # {}
<1>1. "Root" \in supervising
  BY DEF RunningIsCovered
<1>2. CASE kind[t] \in {"page", "tab"} /\ kind[Opener[t]] # "tab"
  BY <1>1, <1>2 DEF Supervisors
<1>3. CASE ~ (kind[t] \in {"page", "tab"} /\ kind[Opener[t]] # "tab")
  <2>1. Opener[t] \in Targets /\ kind[Opener[t]] # "worker"
    BY <1>3, KindsOfTargets
  <2>2. PICK s \in supervising : TargetIn(tab, s) = Opener[t]
    BY <2>1 DEF RunningIsCovered, Reached
  <2>3. s # "Root" /\ TargetOf(s) = Opener[t]
    BY <2>1, <2>2, TargetsOfSessions DEF TargetOf, TargetIn
  <2>4. s \in Supervisors(t)
    BY <1>3, <2>2, <2>3 DEF Supervisors
  <2>5. QED BY <2>4
<1>4. QED BY <1>2, <1>3

\* Opening a target.
LEMMA OpensCovered ==
    ASSUME OpenersAreSound, GuardTypeOK, CoverInv, NEW t \in Targets, Opens(t)
    PROVE  CoverInv'
<1>0. /\ UNCHANGED <<kind, armed, supervising, connected, tab, owner, handler>>
      /\ life[t] = "None" /\ life[Opener[t]] = "Running" /\ Installed
      /\ life' = [life EXCEPT ![t] = "Running"] \/ life' = [life EXCEPT ![t] = "Waiting"]
      /\ Supervisors(t) # {} => life' = [life EXCEPT ![t] = "Waiting"]
  BY DEF Opens, Installed, ownerVars
<1>1. life \in [Targets -> {"None", "Waiting", "Running", "Closed"}] /\ kind \in Kinds
  BY DEF GuardTypeOK
<1>2. connected => life' = [life EXCEPT ![t] = "Waiting"]
  BY <1>0, <1>1, OpenedIsAnnounced DEF CoverInv
<1>3. RunningIsCovered'
  BY <1>0, <1>1, <1>2 DEF CoverInv, RunningIsCovered, Installed
<1>4. InstallingCovers' /\ NothingElseYet'
  BY <1>0 DEF CoverInv, InstallingCovers, NothingElseYet, Installed, Installing
<1>5. WorkersHaveOpeners'
  BY <1>0, <1>1, KindsOfTargets DEF CoverInv, WorkersHaveOpeners
<1>6. QED BY <1>3, <1>4, <1>5 DEF CoverInv

\* Closing one.
LEMMA ClosesCovered ==
    ASSUME OpenersAreSound, GuardTypeOK, CoverInv, NEW t \in Targets, Closes(t)
    PROVE  CoverInv'
<1> DEFINE gone == {s \in Sessions : TargetIn(tab, s) = t}
<1>0. /\ UNCHANGED <<kind, connected, tab, owner, handler>> /\ life' = [life EXCEPT ![t] = "Closed"]
      /\ \A u \in Targets \ {t} :
            Opener[u] = t /\ kind[u] = "worker" => life[u] \in {"None", "Closed"}
      /\ armed' = armed \ gone /\ supervising' = supervising \ gone
      /\ life[t] \in {"Waiting", "Running"}
  BY DEF Closes, TargetOf, TargetIn, ownerVars
<1>1. life \in [Targets -> {"None", "Waiting", "Running", "Closed"}] /\ kind \in Kinds
  BY DEF GuardTypeOK
<1>2. "Root" \notin gone /\ ("Own" \in gone => t = Main)
  BY TargetsOfSessions
<1>3. \A u \in Targets \ {t} : \A S : Reached(tab, S, u) => Reached(tab, S \ gone, u)
  BY DEF Reached
<1> HIDE DEF gone
<1>4. RunningIsCovered'
  BY <1>0, <1>1, <1>2, <1>3 DEF CoverInv, RunningIsCovered, Installed
<1>5. InstallingCovers'
  BY <1>0, <1>1, <1>2, KindsOfTargets DEF CoverInv, InstallingCovers
<1>6. NothingElseYet'
  BY <1>0, <1>1, KindsOfTargets DEF CoverInv, NothingElseYet, Installed
<1>7. WorkersHaveOpeners'
  BY <1>0, <1>1, KindsOfTargets DEF CoverInv, WorkersHaveOpeners
<1>8. QED BY <1>4, <1>5, <1>6, <1>7 DEF CoverInv

\* Preparing one.
LEMMA ArmsCovered ==
    ASSUME OpenersAreSound, GuardTypeOK, CoverInv, Prepared, Arms
    PROVE  CoverInv'
<1> DEFINE t == TargetIn(tab, handler.session)
<1>0. /\ UNCHANGED <<kind, connected, tab, owner>> /\ Installed /\ handler.at = "Arming"
      /\ armed \subseteq armed' /\ supervising \subseteq supervising'
  BY DEF Arms, CoverInv, NothingElseYet, ownerVars
<1>1. life \in [Targets -> {"None", "Waiting", "Running", "Closed"}] /\ kind \in Kinds
  BY DEF GuardTypeOK
<1>2. CASE life' = life
  BY <1>0, <1>2
     DEF CoverInv, RunningIsCovered, Reached, InstallingCovers, NothingElseYet, WorkersHaveOpeners,
     Installed, Installing
<1>3. CASE life' # life
  <2>1. /\ handler.todo # <<>> /\ Answers(handler.session) /\ Head(handler.todo) = "Resume"
        /\ life' = [life EXCEPT ![t] = "Running"]
    BY <1>3 DEF Arms, TargetOf, TargetIn
  <2>2. handler.todo \in FetchDone \cap SuperviseDone
    BY <1>0, <2>1, ListsShrink DEF Prepared
  <2>3. connected /\ life[t] \in {"Waiting", "Running"} /\ t \in Targets
    BY <1>0, <2>1 DEF Answers, TargetOf, TargetIn, Prepared
  <2>4. /\ kind[t] \notin {"tab", "worker"} => Reached(tab, armed', t)
        /\ kind[t] # "worker" => Reached(tab, supervising', t)
    BY <1>0, <2>2, <2>3 DEF Prepared, Reached
  <2> HIDE DEF t
  <2>5. RunningIsCovered'
    BY <1>0, <1>1, <2>1, <2>3, <2>4 DEF CoverInv, RunningIsCovered, Reached, Installed
  <2>6. InstallingCovers' /\ NothingElseYet'
    BY <1>0 DEF CoverInv, InstallingCovers, NothingElseYet, Installed, Installing
  <2>7. WorkersHaveOpeners'
    BY <1>0, <1>1, <2>1, <2>3, KindsOfTargets DEF CoverInv, WorkersHaveOpeners
  <2>8. QED BY <2>5, <2>6, <2>7 DEF CoverInv
<1>4. QED BY <1>2, <1>3

\* Installing the policy.
LEMMA InstallsCovered ==
    ASSUME OpenersAreSound, GuardTypeOK, CoverInv, Begins \/ Installs \/ Spawns \/ InstallFails
    PROVE  CoverInv'
<1>0. UNCHANGED <<kind, life, connected, tab>>
  BY DEF Begins, Installs, Spawns, InstallFails, browserVars
<1>1. WorkersHaveOpeners'
  BY <1>0 DEF CoverInv, WorkersHaveOpeners
<1>2. CASE Begins
  BY <1>0, <1>1, <1>2
     DEF Begins, browserVars, taskVars, CoverInv, RunningIsCovered, InstallingCovers,
     NothingElseYet, Installed, Installing
<1>3. CASE Installs
  <2>1. /\ owner \in {"Fetch", "OwnTree", "RootTree"} /\ handler' = handler
        /\ owner = "Fetch" => owner' = "OwnTree" /\ "Own" \in armed'
        /\ owner = "OwnTree" => owner' = "RootTree" /\ armed' = armed /\ "Own" \in supervising'
        /\ owner = "RootTree" => /\ owner' = "Check" /\ armed' = armed
                                 /\ supervising' = supervising \cup {"Root"}
    BY <1>3 DEF Installs, Following, Installing
  <2>2. RunningIsCovered' /\ NothingElseYet'
    BY <1>0, <2>1 DEF CoverInv, RunningIsCovered, NothingElseYet, Installed, Installing
  <2>3. InstallingCovers'
    BY <1>0, <2>1 DEF CoverInv, InstallingCovers, Installing
  <2>4. QED BY <1>1, <2>2, <2>3 DEF CoverInv
<1>4. CASE Spawns
  <2>1. UNCHANGED <<armed, supervising>> /\ owner = "Check" /\ owner' = "Using" /\ connected
    BY <1>4 DEF Spawns, browserVars
  <2>2. "Root" \in supervising /\ (\A t \in Targets : life[t] = "Running" => t = Main)
    BY <2>1 DEF CoverInv, InstallingCovers, NothingElseYet, Installed, Installing
  <2>3. life[Main] = "Running" => Reached(tab, armed, Main) /\ Reached(tab, supervising, Main)
    BY <2>1, TargetsOfSessions DEF CoverInv, InstallingCovers, Reached, Installing
  <2>4. RunningIsCovered'
    BY <1>0, <2>1, <2>2, <2>3 DEF RunningIsCovered
  <2>5. InstallingCovers' /\ NothingElseYet'
    BY <2>1 DEF InstallingCovers, NothingElseYet, Installed, Installing
  <2>6. QED BY <1>1, <2>4, <2>5 DEF CoverInv
<1>5. CASE InstallFails
  BY <1>0, <1>1, <1>5
     DEF InstallFails, CoverInv, RunningIsCovered, InstallingCovers, NothingElseYet,
     Installed, Installing
<1>6. QED BY <1>2, <1>3, <1>4, <1>5

\* The connection lost, or the browser gone.
LEMMA LostIsCovered ==
    ASSUME OpenersAreSound, GuardTypeOK, CoverInv, UNCHANGED kind, ~ connected',
           Installed' <=> Installed, ~ Installed => UNCHANGED handler,
           \/ life' = life
           \/ life' = [t \in Targets |-> IF life[t] = "Waiting" THEN "Running" ELSE life[t]]
    PROVE  CoverInv'
<1>1. RunningIsCovered' /\ InstallingCovers'
  BY DEF RunningIsCovered, InstallingCovers
<1>2. NothingElseYet'
  BY DEF CoverInv, NothingElseYet
<1>3. WorkersHaveOpeners'
  BY KindsOfTargets DEF CoverInv, WorkersHaveOpeners, GuardTypeOK
<1>4. QED BY <1>1, <1>2, <1>3 DEF CoverInv

\* Switching to another page.
LEMMA AttachesCovered ==
    ASSUME OpenersAreSound, CoverInv, NEW t \in Targets, Attaches(t)
    PROVE  CoverInv'
<1>0. /\ UNCHANGED <<kind, life, armed, supervising, connected>> /\ tab = "None"
      /\ owner = "Using" /\ owner' = "Switching"
  BY DEF Attaches, browserVars
<1>1. \A u \in Targets : \A S : Reached("None", S, u) => Reached(tab', S, u)
  BY DEF Reached, TargetIn, OpenersAreSound
<1>2. RunningIsCovered'
  BY <1>0, <1>1 DEF CoverInv, RunningIsCovered, Installed, Installing
<1>3. InstallingCovers' /\ NothingElseYet'
  BY <1>0 DEF InstallingCovers, NothingElseYet, Installed, Installing
<1>4. WorkersHaveOpeners'
  BY <1>0 DEF CoverInv, WorkersHaveOpeners
<1>5. QED BY <1>2, <1>3, <1>4 DEF CoverInv

\* CoverInv is kept by every step.
LEMMA CoverStays ==
    ASSUME OpenersAreSound, GuardTypeOK, CoverInv, Prepared, EndsAreOwned, [GuardNext]_guardVars
    PROVE  CoverInv'
<1>a. Installed \/ handler.at = "None"
  BY DEF CoverInv, NothingElseYet
<1>1. CASE BrowserStep
  <2>1. CASE \E t \in Targets : Opens(t)
    BY <2>1, OpensCovered
  <2>2. CASE \E t \in Targets : Closes(t)
    BY <2>2, ClosesCovered
  <2>3. CASE \E t \in Targets : Cancels(t)
    BY <2>3, CoverIsLeft DEF Cancels, taskVars, ownerVars, Installed
  <2>4. CASE \E t \in Targets, url \in RequestUrls : Asks(t, url)
    BY <2>4, CoverIsLeft DEF Asks, ownerVars, Installed
  <2>5. CASE ConnectionLost
    BY <2>5, LostIsCovered DEF ConnectionLost, taskVars, ownerVars, Installed
  <2>6. CASE Crowds
    BY <2>6, CoverIsLeft DEF Crowds, browserVars, ownerVars, Installed
  <2>7. QED BY <1>1, <2>1, <2>2, <2>3, <2>4, <2>5, <2>6 DEF BrowserStep
<1>2. CASE HandlerStep
  <2>1. CASE NoticesLoss
    BY <1>a, <2>1, CoverIsLeft DEF NoticesLoss, Task, browserVars, ownerVars, Installed
  <2>2. CASE Obeys
    BY <1>a, <2>2, CoverIsLeft DEF Obeys, Task, browserVars, ownerVars, Installed
  <2>3. CASE Receives
    BY <1>a, <2>3, CoverIsLeft DEF Receives, Receiving, Task, browserVars, ownerVars, Installed
  <2>4. CASE Arms
    BY <2>4, ArmsCovered
  <2>5. CASE Decides
    BY <1>a, <2>5, CoverIsLeft DEF Decides, ownerVars, Installed
  <2>6. CASE Loses
    BY <1>a, <2>6, CoverIsLeft DEF Loses, Task, browserVars, Installed
  <2>7. CASE Terminates
    BY <1>a, <2>7, LostIsCovered DEF Terminates, Gone, Task, ownerVars, Installed
  <2>8. QED BY <1>2, <2>1, <2>2, <2>3, <2>4, <2>5, <2>6, <2>7 DEF HandlerStep
<1>3. CASE OwnerStep
  <2>1. CASE Begins \/ Installs \/ Spawns \/ InstallFails
    BY <2>1, InstallsCovered
  <2>2. CASE \E t \in Targets : Attaches(t)
    BY <2>2, AttachesCovered
  <2>3. CASE AttachFails
    BY <2>3, CoverIsLeft DEF AttachFails, browserVars, taskVars, Installed, Installing
  <2>4. CASE Switches
    BY <2>4, CoverIsLeft DEF Switches, browserVars, Installed, Installing
  <2>5. CASE Releases
    BY <2>5, CoverIsLeft DEF Releases, browserVars, Installed, Installing
  <2>6. CASE Clears
    BY <2>6, CoverIsLeft DEF Clears, browserVars, Installed, Installing
  <2>7. CASE ClearDropped
    BY <2>7, CoverIsLeft DEF ClearDropped, browserVars, Installed, Installing
  <2>8. CASE Closed
    BY <2>8, LostIsCovered DEF Closed, Gone, taskVars, Installed, Installing
  <2>9. QED BY <1>3, <2>1, <2>2, <2>3, <2>4, <2>5, <2>6, <2>7, <2>8 DEF OwnerStep
<1>4. CASE UNCHANGED guardVars
  BY <1>4, CoverIsLeft DEF guardVars, browserVars, taskVars, ownerVars, Installed
<1>5. QED BY <1>1, <1>2, <1>3, <1>4 DEF GuardNext

\* Steps that leave the task as it is and take nothing from a target that stays.
LEMMA PreparedIsLeft ==
    ASSUME Prepared, UNCHANGED <<kind, handler, tab>>, connected' => connected,
           connected' => /\ armed \subseteq armed' /\ supervising \subseteq supervising'
                         /\ \A t \in Targets : life[t] = "Closed" => life'[t] = "Closed"
    PROVE  Prepared'
  BY DEF Prepared

\* An event of a target that the task prepares.
LEMMA ReceivesPrepares ==
    ASSUME OpenersAreSound, GuardTypeOK, events \in Seq(HeardOnly(tab)), Receives
    PROVE  Prepared'
<1>1. /\ events # <<>> /\ Takes(Head(events)) /\ handler.at = "Receiving"
      /\ UNCHANGED <<kind, life, armed, supervising, connected, tab>>
  BY DEF Receives, Receiving, Task, browserVars, ownerVars
<1>2. Head(events) \in HeardOnly(tab)
  BY <1>1, HeadTailProperties
<1> DEFINE e == Head(events)
<1>3. handler'.at = "Arming" =>
         e.kind = "Attached" /\ handler' = Doing("Arming", e.session, Todo(e))
  BY <1>1, <1>2 DEF Takes, Turns, Task, Doing, HeardOnly, GuardEvents, Lagged
<1>4. e.kind = "Attached" => TargetIn(tab, e.session) \in Targets
  BY <1>2, TargetsOfSessions DEF HeardOnly, GuardEvents, TargetIn, GuardTypeOK
<1>5. TargetOf(e.session) = TargetIn(tab, e.session)
  BY DEF TargetOf, TargetIn
<1> HIDE DEF e
<1>6. QED BY <1>1, <1>3, <1>4, <1>5, TodoIsListed DEF Prepared, Doing

\* What the task does for a target goes from the list into the sets.
LEMMA ArmsPrepares ==
    ASSUME GuardTypeOK, Prepared, Arms
    PROVE  Prepared'
<1> DEFINE s == handler.session
<1>1. UNCHANGED <<kind, connected, tab>> /\ handler.at = "Arming"
  BY DEF Arms, ownerVars
<1>2. CASE handler.todo = <<>> \/ ~ Answers(s)
  <2>1. handler'.at # "Arming"
    BY <1>2 DEF Arms, Turns, Task
  <2>2. QED BY <2>1 DEF Prepared
<1>3. CASE handler.todo # <<>> /\ Answers(s)
  <2>1. /\ handler' = [handler EXCEPT !.todo = Tail(@)]
        /\ armed' = IF Head(handler.todo) = "Fetch" THEN armed \cup {s} ELSE armed
        /\ supervising' =
              IF Head(handler.todo) = "Supervise" THEN supervising \cup {s} ELSE supervising
        /\ life' = life \/ life' = [life EXCEPT ![TargetOf(s)] = "Running"]
    BY <1>3 DEF Arms, Turns
  <2>2. /\ handler'.at = "Arming" /\ handler'.session = s /\ handler'.todo = Tail(handler.todo)
    BY <1>1, <2>1 DEF GuardTypeOK
  <2>3. connected /\ life[TargetIn(tab, s)] # "Closed"
    BY <1>3 DEF Answers, TargetOf, TargetIn
  <2>4. handler.todo \in Listed \cup FetchDone /\ TargetIn(tab, s) \in Targets
    BY <1>1 DEF Prepared
  <2>5. QED BY <1>1, <1>3, <2>1, <2>2, <2>3, <2>4, ListsShrink DEF Prepared
<1>4. QED BY <1>2, <1>3

\* Prepared is kept by every step.
LEMMA PreparedStays ==
    ASSUME OpenersAreSound, GuardTypeOK, events \in Seq(HeardOnly(tab)), CoverInv, Prepared,
           [GuardNext]_guardVars
    PROVE  Prepared'
<1>1. CASE BrowserStep
  <2>1. ASSUME NEW t \in Targets, Opens(t)
        PROVE  Prepared'
    <3>1. /\ UNCHANGED <<kind, handler, tab, connected, armed, supervising>> /\ life[t] = "None"
          /\ life' = [life EXCEPT ![t] = "Running"] \/ life' = [life EXCEPT ![t] = "Waiting"]
      BY <2>1 DEF Opens, ownerVars
    <3>2. \A u \in Targets : life[u] = "Closed" => life'[u] = "Closed"
      BY <3>1 DEF GuardTypeOK
    <3>3. QED BY <3>1, <3>2, PreparedIsLeft
  <2>2. ASSUME NEW t \in Targets, Closes(t)
        PROVE  Prepared'
    <3>1. /\ UNCHANGED <<kind, handler, tab, connected>> /\ life' = [life EXCEPT ![t] = "Closed"]
          /\ armed' = armed \ {s \in Sessions : TargetIn(tab, s) = t}
          /\ supervising' = supervising \ {s \in Sessions : TargetIn(tab, s) = t}
      BY <2>2 DEF Closes, TargetOf, TargetIn, ownerVars
    <3>2. life \in [Targets -> {"None", "Waiting", "Running", "Closed"}]
      BY DEF GuardTypeOK
    <3>3. QED BY <3>1, <3>2 DEF Prepared
  <2>3. CASE \E t \in Targets : Cancels(t)
    BY <2>3, PreparedIsLeft DEF Cancels, taskVars, ownerVars
  <2>4. CASE \E t \in Targets, url \in RequestUrls : Asks(t, url)
    BY <2>4, PreparedIsLeft DEF Asks, ownerVars
  <2>5. CASE ConnectionLost
    BY <2>5, PreparedIsLeft DEF ConnectionLost, taskVars, ownerVars
  <2>6. CASE Crowds
    BY <2>6, PreparedIsLeft DEF Crowds, browserVars, ownerVars
  <2>7. QED BY <1>1, <2>1, <2>2, <2>3, <2>4, <2>5, <2>6 DEF BrowserStep
<1>2. CASE HandlerStep
  <2>1. CASE NoticesLoss
    BY <2>1 DEF NoticesLoss, Turns, Task, Prepared
  <2>2. CASE Obeys
    BY <2>2 DEF Obeys, Turns, Task, Prepared
  <2>3. CASE Receives
    BY <2>3, ReceivesPrepares
  <2>4. CASE Arms
    BY <2>4, ArmsPrepares
  <2>5. CASE Decides
    BY <2>5 DEF Decides, Turns, Task, Prepared
  <2>6. CASE Loses
    BY <2>6 DEF Loses, Turns, Task, Prepared
  <2>7. CASE Terminates
    BY <2>7 DEF Terminates, Turns, Task, Prepared
  <2>8. QED BY <1>2, <2>1, <2>2, <2>3, <2>4, <2>5, <2>6, <2>7 DEF HandlerStep
<1>3. CASE OwnerStep
  <2>1. CASE Begins \/ InstallFails \/ AttachFails
    BY <2>1, PreparedIsLeft DEF Begins, InstallFails, AttachFails, browserVars, taskVars
  <2>2. CASE Installs
    BY <2>2, PreparedIsLeft DEF Installs
  <2>3. CASE Spawns
    BY <2>3 DEF Spawns, Task, Prepared
  <2>4. ASSUME NEW t \in Targets, Attaches(t)
        PROVE  Prepared'
    <3>1. UNCHANGED <<kind, life, armed, supervising, connected, handler>> /\ tab = "None"
      BY <2>4 DEF Attaches, browserVars
    <3>2. \A s : TargetIn("None", s) \in Targets => TargetIn(tab', s) = TargetIn("None", s)
      BY DEF TargetIn, OpenersAreSound
    <3>3. QED BY <3>1, <3>2 DEF Prepared
  <2>5. CASE Switches \/ Clears \/ ClearDropped
    <3>1. handler'.at # "Arming"
      BY <2>5 DEF Switches, Clears, ClearDropped, Turns, Task
    <3>2. QED BY <3>1 DEF Prepared
  <2>6. CASE Releases
    BY <2>6, PreparedIsLeft DEF Releases, browserVars
  <2>7. CASE Closed
    BY <2>7, PreparedIsLeft DEF Closed, Gone, taskVars
  <2>8. QED BY <1>3, <2>1, <2>2, <2>3, <2>4, <2>5, <2>6, <2>7 DEF OwnerStep
<1>4. CASE UNCHANGED guardVars
  BY <1>4, PreparedIsLeft DEF guardVars, browserVars, taskVars, ownerVars
<1>5. QED BY <1>1, <1>2, <1>3, <1>4 DEF GuardNext

\* No step sends what is not allowed.
LEMMA NothingLeaks ==
    ASSUME OpenersAreSound, GuardTypeOK, CoverInv, ~ leaked, [GuardNext]_guardVars
    PROVE  ~ leaked'
<1>1. ASSUME NEW t \in Targets, NEW url \in RequestUrls, Asks(t, url), connected
      PROVE  Holders(t) # {}
  <2>1. kind \in Kinds /\ armed \subseteq Sessions
    BY DEF GuardTypeOK
  <2>2. life[t] = "Running" /\ kind[t] # "tab" /\ (t = Main => Installed)
    BY <1>1 DEF Asks, Installed
  <2>3. Installed
    BY <2>2 DEF CoverInv, NothingElseYet
  <2>4. PICK u \in Targets : u = Asker(t) /\ life[u] = "Running" /\ kind[u] \notin {"tab", "worker"}
    BY <2>1, <2>2, KindsOfTargets DEF Asker, CoverInv, WorkersHaveOpeners
  <2>5. PICK s \in armed : TargetIn(tab, s) = u
    BY <1>1, <2>3, <2>4 DEF CoverInv, RunningIsCovered, Reached
  <2>6. s \in Holders(t)
    BY <2>4, <2>5 DEF Holders, TargetOf, TargetIn
  <2>7. QED BY <2>6
<1>2. CASE BrowserStep
  <2>1. CASE \E t \in Targets : Opens(t) \/ Closes(t) \/ Cancels(t)
    BY <2>1 DEF Opens, Closes, Cancels
  <2>2. CASE \E t \in Targets, url \in RequestUrls : Asks(t, url)
    BY <1>1, <2>2 DEF Asks
  <2>3. CASE ConnectionLost \/ Crowds
    BY <2>3 DEF ConnectionLost, Crowds, browserVars
  <2>4. QED BY <1>2, <2>1, <2>2, <2>3 DEF BrowserStep
<1>3. CASE HandlerStep
  <2>1. CASE NoticesLoss \/ Obeys \/ Receives \/ Loses
    BY <2>1 DEF NoticesLoss, Obeys, Receives, Loses, browserVars
  <2>2. CASE Arms \/ Terminates
    BY <2>2 DEF Arms, Terminates, Gone
  <2>3. CASE Decides
    BY <2>3 DEF Decides
  <2>4. QED BY <1>3, <2>1, <2>2, <2>3 DEF HandlerStep
<1>4. CASE OwnerStep
  <2>1. CASE Begins \/ Installs \/ Spawns \/ InstallFails \/ AttachFails
    BY <2>1 DEF Begins, Installs, Spawns, InstallFails, AttachFails, browserVars
  <2>2. CASE \E t \in Targets : Attaches(t)
    BY <2>2 DEF Attaches, browserVars
  <2>3. CASE Switches \/ Releases \/ Clears \/ ClearDropped \/ Closed
    BY <2>3 DEF Switches, Releases, Clears, ClearDropped, Closed, Gone, browserVars
  <2>4. QED BY <1>4, <2>1, <2>2, <2>3 DEF OwnerStep
<1>5. CASE UNCHANGED guardVars
  BY <1>5 DEF guardVars, browserVars
<1>6. QED BY <1>2, <1>3, <1>4, <1>5 DEF GuardNext

HandlerStates ==
    [at : {"None", "Receiving", "Losing", "Terminating", "Ended", "Aborted"}]
    \cup [at : {"Arming", "Answering"}, session : Sessions, todo : Seq(Doings)]

\* The domains of what the browser changes, and of the rest.
BrowserTypes ==
    /\ life \in [Targets -> {"None", "Waiting", "Running", "Closed"}]
    /\ request \in [Targets -> [url : RequestUrls \cup {"None"}, at : SUBSET Sessions]]
    /\ armed \subseteq Sessions /\ supervising \subseteq Sessions \cup {"Root"}
EventTypes == events \in Seq(HeardOnly(tab)) /\ Len(events) <= Backlog
TaskTypes == handler \in HandlerStates /\ guarded \subseteq Sessions
PlainTypes ==
    /\ kind \in Kinds /\ connected \in BOOLEAN /\ tree \in {"Up", "Gone"} /\ leaked \in BOOLEAN
    /\ shutdown \in BOOLEAN /\ healthy \in BOOLEAN /\ closing \in BOOLEAN
    /\ tab \in Targets \cup {"None"} /\ page \in {"Policy", "Switched"}
    /\ owner \in {"Blank", "Using", "Switching", "Clearing", "Degraded", "Closing", "Over"}
                \cup Installing

\* They are GuardTypeOK together.
LEMMA TypesAreAll ==
    /\ GuardTypeOK /\ events \in Seq(HeardOnly(tab))
       <=> BrowserTypes /\ EventTypes /\ TaskTypes /\ PlainTypes
<1>1. HeardOnly(tab) \subseteq GuardEvents
  BY DEF HeardOnly
<1>2. events \in Seq(HeardOnly(tab)) => events \in Seq(GuardEvents)
  BY <1>1, SeqMonotonic
<1>3. QED
  BY <1>2, Zenon
     DEF GuardTypeOK, BrowserTypes, EventTypes, TaskTypes, PlainTypes, HandlerStates, Doings

\* No sessions, or none left.
LEMMA NoRequestIsTyped == NoRequest \in [url : RequestUrls \cup {"None"}, at : SUBSET Sessions]
  BY DEF NoRequest

\* What the browser has stays of its kind.
LEMMA BrowserStaysTyped ==
    ASSUME OpenersAreSound, BrowserTypes, TaskTypes, Prepared, [GuardNext]_guardVars
    PROVE  BrowserTypes'
<1>1. CASE BrowserStep
  <2>1. CASE \E t \in Targets : Opens(t)
    BY <2>1 DEF Opens, BrowserTypes
  <2>2. CASE \E t \in Targets : Closes(t)
    BY <2>2, NoRequestIsTyped DEF Closes, BrowserTypes
  <2>3. CASE \E t \in Targets : Cancels(t)
    BY <2>3, NoRequestIsTyped DEF Cancels, BrowserTypes
  <2>4. ASSUME NEW t \in Targets, NEW url \in RequestUrls, Asks(t, url)
        PROVE  BrowserTypes'
    <3>1. /\ UNCHANGED <<life, armed, supervising>>
          /\ \/ request' = request
             \/ request' = [request EXCEPT ![t] = [url |-> url, at |-> Holders(t)]]
      BY <2>4 DEF Asks, BrowserTypes
    <3>2. [url |-> url, at |-> Holders(t)]
             \in [url : RequestUrls \cup {"None"}, at : SUBSET Sessions]
      BY DEF Holders, BrowserTypes
    <3>3. QED BY <3>1, <3>2 DEF BrowserTypes
  <2>5. CASE ConnectionLost
    <3>1. life' \in [Targets -> {"None", "Waiting", "Running", "Closed"}]
      BY <2>5 DEF ConnectionLost, BrowserTypes
    <3>2. QED BY <2>5, <3>1, NoRequestIsTyped DEF ConnectionLost, BrowserTypes
  <2>6. CASE Crowds
    BY <2>6 DEF Crowds, browserVars, BrowserTypes
  <2>7. QED BY <1>1, <2>1, <2>2, <2>3, <2>4, <2>5, <2>6 DEF BrowserStep
<1>2. CASE HandlerStep
  <2>1. CASE NoticesLoss \/ Obeys \/ Receives \/ Loses
    BY <2>1 DEF NoticesLoss, Obeys, Receives, Loses, browserVars, BrowserTypes
  <2>2. CASE Arms
    <3>1. handler.session \in Sessions
      BY <2>2 DEF Arms, TaskTypes, HandlerStates
    <3>2. QED BY <2>2, <3>1 DEF Arms, BrowserTypes
  <2>3. CASE Decides
    <3>1. /\ UNCHANGED <<life, armed, supervising>>
          /\ \/ request' = request
             \/ \E t \in Targets, S \in SUBSET Sessions :
                   request' = [request EXCEPT ![t] = [@ EXCEPT !.at = S]]
             \/ \E t \in Targets : request' = [request EXCEPT ![t] = NoRequest]
      BY <2>3 DEF Decides, Held, BrowserTypes
    <3>2. QED BY <3>1, NoRequestIsTyped DEF BrowserTypes
  <2>4. CASE Terminates
    BY <2>4, NoRequestIsTyped DEF Terminates, Gone, BrowserTypes
  <2>5. QED BY <1>2, <2>1, <2>2, <2>3, <2>4 DEF HandlerStep
<1>3. CASE OwnerStep
  <2>1. CASE Begins \/ Spawns \/ InstallFails \/ AttachFails
    BY <2>1 DEF Begins, Spawns, InstallFails, AttachFails, browserVars, BrowserTypes
  <2>2. CASE Installs
    BY <2>2 DEF Installs, BrowserTypes, Sessions
  <2>3. CASE \E t \in Targets : Attaches(t)
    BY <2>3 DEF Attaches, browserVars, BrowserTypes
  <2>4. CASE Switches \/ Releases \/ Clears \/ ClearDropped
    BY <2>4 DEF Switches, Releases, Clears, ClearDropped, browserVars, BrowserTypes
  <2>5. CASE Closed
    BY <2>5, NoRequestIsTyped DEF Closed, Gone, BrowserTypes
  <2>6. QED BY <1>3, <2>1, <2>2, <2>3, <2>4, <2>5 DEF OwnerStep
<1>4. CASE UNCHANGED guardVars
  BY <1>4 DEF guardVars, browserVars, BrowserTypes
<1>5. QED BY <1>1, <1>2, <1>3, <1>4 DEF GuardNext

\* The queue holds only what the task may hear, and no more than the channel keeps.
LEMMA EventsStayTyped ==
    ASSUME OpenersAreSound, BacklogIsPositive, BrowserTypes, EventTypes, PlainTypes,
           [GuardNext]_guardVars
    PROVE  EventTypes'
<1> DEFINE H == HeardOnly(tab)
<1>a. Lagged \in H
  BY DEF HeardOnly, GuardEvents, Lagged
<1>b. \A new \in Seq(H) : Told(new) => events' \in Seq(H) /\ Len(events') <= Backlog
  BY <1>a, ToldIsHeard DEF EventTypes
<1>c. \A e \in H : <<e>> \in Seq(H)
  OBVIOUS
<1>d. ASSUME UNCHANGED tab, events' = events \/ \E new \in Seq(H) : Told(new)
      PROVE  EventTypes'
  BY <1>b, <1>d DEF EventTypes
<1> HIDE DEF H
<1>1. CASE BrowserStep
  <2>1. ASSUME NEW t \in Targets, Opens(t)
        PROVE  EventTypes'
    <3>1. \A s \in Supervisors(t) : Attached(t, s, TRUE) \in H
      BY DEF Supervisors, Attached, BrowserTypes, H, HeardOnly, GuardEvents, Sessions
    <3>2. events' = events \/ \E s \in Supervisors(t) : Told(<<Attached(t, s, TRUE)>>)
      BY <2>1 DEF Opens
    <3>3. QED BY <1>c, <1>d, <2>1, <3>1, <3>2 DEF Opens, ownerVars
  <2>2. ASSUME NEW t \in Targets, Closes(t)
        PROVE  EventTypes'
    <3>1. SetToSeq({Detached(s) : s \in {s \in Sessions : TargetOf(s) = t}}) \in Seq(H)
      BY DetachmentsAreHeard DEF H
    <3>2. QED BY <1>d, <2>2, <3>1 DEF Closes, ownerVars
  <2>3. CASE \E t \in Targets : Cancels(t)
    BY <1>d, <2>3 DEF Cancels, taskVars, ownerVars
  <2>4. ASSUME NEW t \in Targets, NEW url \in RequestUrls, Asks(t, url)
        PROVE  EventTypes'
    <3>1. Holders(t) \in SUBSET Sessions
      BY DEF Holders, BrowserTypes
    <3>2. SetToSeq({Paused(s) : s \in Holders(t)}) \in Seq(H)
      BY <3>1, PausesAreHeard DEF H
    <3>3. QED BY <1>d, <2>4, <3>2 DEF Asks, ownerVars
  <2>5. CASE ConnectionLost
    BY <1>d, <2>5 DEF ConnectionLost, taskVars, ownerVars
  <2>6. CASE Crowds
    <3>1. events' = <<Lagged>> /\ UNCHANGED tab
      BY <2>6 DEF Crowds, ownerVars
    <3>2. <<Lagged>> \in Seq(H) /\ Len(<<Lagged>>) = 1
      BY <1>a
    <3>3. QED BY <3>1, <3>2 DEF EventTypes, BacklogIsPositive, H
  <2>7. QED BY <1>1, <2>1, <2>2, <2>3, <2>4, <2>5, <2>6 DEF BrowserStep
<1>2. CASE HandlerStep
  <2>1. CASE Receives
    <3>1. events' = Tail(events) /\ events # <<>> /\ UNCHANGED tab
      BY <2>1 DEF Receives, ownerVars
    <3>2. Tail(events) \in Seq(H) /\ Len(Tail(events)) = Len(events) - 1
      BY <3>1, HeadTailProperties DEF EventTypes, H
    <3>3. Len(events) \in Nat
      BY LenProperties DEF EventTypes
    <3>4. QED BY <3>1, <3>2, <3>3 DEF EventTypes, BacklogIsPositive, H
  <2>2. CASE NoticesLoss \/ Obeys \/ Arms \/ Decides \/ Loses \/ Terminates
    BY <1>d, <2>2 DEF NoticesLoss, Obeys, Arms, Decides, Loses, Terminates, ownerVars
  <2>3. QED BY <1>2, <2>1, <2>2 DEF HandlerStep
<1>3. CASE OwnerStep
  <2>1. CASE Begins \/ Spawns \/ InstallFails \/ AttachFails
    BY <1>d, <2>1 DEF Begins, Spawns, InstallFails, AttachFails, taskVars
  <2>2. CASE Installs
    <3>1. Attached(Main, "Root", FALSE) \in H
      BY DEF Attached, H, HeardOnly, GuardEvents, Sessions, OpenersAreSound
    <3>2. QED BY <1>c, <1>d, <2>2, <3>1 DEF Installs
  <2>3. ASSUME NEW t \in Targets, Attaches(t)
        PROVE  EventTypes'
    <3>1. tab = "None" /\ tab' = t
          /\ (events' = events \/ Told(<<Attached("Other", "Root", FALSE)>>))
      BY <2>3 DEF Attaches
    <3>2. t # "None"
      BY DEF OpenersAreSound
    <3>3. H \subseteq HeardOnly(t) /\ Attached("Other", "Root", FALSE) \in HeardOnly(t)
      BY <3>1, <3>2 DEF H, HeardOnly, Attached, GuardEvents, Sessions
    <3>4. events \in Seq(HeardOnly(t))
      BY <3>3, SeqMonotonic DEF EventTypes, H
    <3>a. \A e \in HeardOnly(t) : <<e>> \in Seq(HeardOnly(t))
      OBVIOUS
    <3>5. <<Attached("Other", "Root", FALSE)>> \in Seq(HeardOnly(t))
      BY <3>3, <3>a
    <3>6. Lagged \in HeardOnly(t)
      BY <1>a, <3>3
    <3>7. events' \in Seq(HeardOnly(t)) /\ Len(events') <= Backlog
      BY <3>1, <3>4, <3>5, <3>6, ToldIsHeard DEF EventTypes
    <3>8. QED BY <3>1, <3>7 DEF EventTypes
  <2>4. CASE Switches \/ Releases \/ Clears \/ ClearDropped \/ Closed
    BY <1>d, <2>4 DEF Switches, Releases, Clears, ClearDropped, Closed, taskVars
  <2>5. QED BY <1>3, <2>1, <2>2, <2>3, <2>4 DEF OwnerStep
<1>4. CASE UNCHANGED guardVars
  BY <1>4, <1>d DEF guardVars, taskVars, ownerVars
<1>5. QED BY <1>1, <1>2, <1>3, <1>4 DEF GuardNext

\* The task is in one of its states.
LEMMA TaskStaysTyped ==
    ASSUME OpenersAreSound, TaskTypes, EventTypes, Prepared, [GuardNext]_guardVars
    PROVE  TaskTypes'
<1>a. \A pc \in {"None", "Receiving", "Losing", "Terminating", "Ended", "Aborted"} :
         Task(pc) \in HandlerStates
  BY DEF Task, HandlerStates
<1>b. \A pc \in {"Arming", "Answering"}, s \in Sessions, todo \in Seq(Doings) :
         Doing(pc, s, todo) \in HandlerStates
  BY DEF Doing, HandlerStates
<1>1. CASE BrowserStep
  BY <1>1 DEF BrowserStep, Opens, Closes, Cancels, Asks, ConnectionLost, Crowds, taskVars, TaskTypes
<1>2. CASE HandlerStep
  <2>1. CASE NoticesLoss \/ Obeys \/ Loses \/ Terminates
    BY <1>a, <2>1 DEF NoticesLoss, Obeys, Loses, Terminates, Turns, TaskTypes
  <2>2. CASE Receives
    <3> DEFINE e == Head(events)
    <3>1. Takes(e) /\ e \in HeardOnly(tab)
      BY <2>2, HeadTailProperties DEF Receives, EventTypes
    <3>2. e.kind \in {"Attached", "Detached", "Paused"} => e.session \in Sessions
      BY <3>1 DEF HeardOnly, GuardEvents, Lagged
    <3>3. e.kind \in {"Attached", "Detached", "Paused", "Lagged"}
      BY <3>1 DEF HeardOnly, GuardEvents, Lagged
    <3>4. <<>> \in Seq(Doings)
      OBVIOUS
    <3>5. Todo(e) \in Seq(Doings)
      BY TodoIsListed, ListsAreOfSteps
    <3> HIDE DEF e
    <3>6. QED BY <1>a, <1>b, <3>1, <3>2, <3>3, <3>4, <3>5 DEF Takes, Turns, TaskTypes
  <2>3. CASE Arms
    <3>1. guarded' = guarded /\ handler.at = "Arming" /\ handler.todo \in Listed \cup FetchDone
      BY <2>3 DEF Arms, Prepared
    <3>2. CASE handler.todo = <<>> \/ ~ Answers(handler.session)
      BY <1>a, <2>3, <3>1, <3>2 DEF Arms, Turns, TaskTypes
    <3>3. CASE handler.todo # <<>> /\ Answers(handler.session)
      <4>1. handler' = [handler EXCEPT !.todo = Tail(@)]
        BY <2>3, <3>3 DEF Arms, Turns
      <4>2. Tail(handler.todo) \in Seq(Doings)
        BY <3>1, <3>3, ListsShrink, ListsAreOfSteps
      <4>3. QED BY <3>1, <4>1, <4>2 DEF TaskTypes, HandlerStates
    <3>4. QED BY <3>2, <3>3
  <2>4. CASE Decides
    BY <1>a, <2>4 DEF Decides, Turns, TaskTypes
  <2>5. QED BY <1>2, <2>1, <2>2, <2>3, <2>4 DEF HandlerStep
<1>3. CASE OwnerStep
  <2>1. CASE Begins \/ InstallFails \/ AttachFails \/ Closed
    BY <2>1 DEF Begins, InstallFails, AttachFails, Closed, taskVars, TaskTypes
  <2>2. CASE Installs \/ Releases
    BY <2>2 DEF Installs, Releases, TaskTypes
  <2>3. CASE Spawns
    BY <1>a, <2>3 DEF Spawns, TaskTypes, Sessions
  <2>4. CASE \E t \in Targets : Attaches(t)
    BY <2>4 DEF Attaches, TaskTypes
  <2>5. CASE Switches \/ Clears \/ ClearDropped
    BY <1>a, <2>5 DEF Switches, Clears, ClearDropped, Turns, TaskTypes
  <2>6. QED BY <1>3, <2>1, <2>2, <2>3, <2>4, <2>5 DEF OwnerStep
<1>4. CASE UNCHANGED guardVars
  BY <1>4 DEF guardVars, taskVars, TaskTypes
<1>5. QED BY <1>1, <1>2, <1>3, <1>4 DEF GuardNext

\* The rest is flags and places.
LEMMA FlagsStayTyped ==
    ASSUME PlainTypes, [GuardNext]_guardVars
    PROVE  PlainTypes'
<1> USE DEF PlainTypes
<1>1. CASE BrowserStep
  <2>1. CASE \E t \in Targets : Opens(t) \/ Closes(t) \/ Cancels(t)
    BY <2>1 DEF Opens, Closes, Cancels, taskVars, ownerVars
  <2>2. CASE \E t \in Targets, url \in RequestUrls : Asks(t, url)
    BY <2>2 DEF Asks, ownerVars
  <2>3. CASE ConnectionLost \/ Crowds
    BY <2>3 DEF ConnectionLost, Crowds, browserVars, taskVars, ownerVars
  <2>4. QED BY <1>1, <2>1, <2>2, <2>3 DEF BrowserStep
<1>2. CASE HandlerStep
  <2>1. CASE NoticesLoss \/ Obeys \/ Receives
    BY <2>1 DEF NoticesLoss, Obeys, Receives, browserVars, ownerVars
  <2>2. CASE Arms \/ Loses \/ Terminates
    BY <2>2 DEF Arms, Loses, Terminates, Gone, browserVars, ownerVars
  <2>3. CASE Decides
    BY <2>3 DEF Decides, ownerVars
  <2>4. QED BY <1>2, <2>1, <2>2, <2>3 DEF HandlerStep
<1>3. CASE OwnerStep
  <2>1. CASE Begins \/ Installs \/ Spawns \/ InstallFails
    BY <2>1 DEF Begins, Installs, Spawns, InstallFails, Installing, Following, browserVars, taskVars
  <2>2. CASE \E t \in Targets : Attaches(t)
    BY <2>2 DEF Attaches, browserVars
  <2>3. CASE AttachFails \/ Switches \/ Releases
    BY <2>3 DEF AttachFails, Switches, Releases, browserVars, taskVars
  <2>4. CASE Clears \/ ClearDropped \/ Closed
    BY <2>4 DEF Clears, ClearDropped, Closed, Gone, browserVars, taskVars
  <2>5. QED BY <1>3, <2>1, <2>2, <2>3, <2>4 DEF OwnerStep
<1>4. CASE UNCHANGED guardVars
  BY <1>4 DEF guardVars, browserVars, taskVars, ownerVars
<1>5. QED BY <1>1, <1>2, <1>3, <1>4 DEF GuardNext

\* A browser whose page has no policy yet.
LEMMA GuardBegins ==
    ASSUME OpenersAreSound, BacklogIsPositive, GuardInit
    PROVE  GuardInv
<1>1. BrowserTypes
  BY NoRequestIsTyped DEF GuardInit, BrowserTypes
<1>2. <<>> \in Seq(HeardOnly(tab)) /\ Len(<<>>) = 0
  BY EmptySeq
<1>3. EventTypes
  BY <1>2 DEF GuardInit, EventTypes, BacklogIsPositive
<1>4. TaskTypes /\ PlainTypes
  BY DEF GuardInit, Task, TaskTypes, HandlerStates, PlainTypes
<1>5. CoverInv
  BY KindsOfTargets
     DEF GuardInit, Task, CoverInv, RunningIsCovered, InstallingCovers, NothingElseYet,
     WorkersHaveOpeners, Installed, Installing
<1>6. Prepared /\ EndsAreOwned
  BY DEF GuardInit, Task, Prepared, EndsAreOwned
<1>7. ~ leaked
  BY DEF GuardInit
<1>8. QED BY <1>1, <1>3, <1>4, <1>5, <1>6, <1>7, TypesAreAll DEF GuardInv, CoverInv

\* The invariant of a guarded browser.
LEMMA GuardInvariance ==
    ASSUME OpenersAreSound, BacklogIsPositive
    PROVE  GuardSpec => []GuardInv
<1>1. GuardInit => GuardInv
  BY GuardBegins
<1>2. ASSUME GuardInv, [GuardNext]_guardVars
      PROVE  GuardInv'
  <2>1. GuardTypeOK /\ events \in Seq(HeardOnly(tab)) /\ CoverInv /\ Prepared /\ EndsAreOwned
        /\ ~ leaked
    BY <1>2 DEF GuardInv, CoverInv
  <2>2. BrowserTypes /\ EventTypes /\ TaskTypes /\ PlainTypes
    BY <2>1, TypesAreAll
  <2>3. BrowserTypes' /\ EventTypes' /\ TaskTypes' /\ PlainTypes'
    BY <1>2, <2>1, <2>2, BrowserStaysTyped, EventsStayTyped, TaskStaysTyped, FlagsStayTyped
  <2>4. (GuardTypeOK /\ events \in Seq(HeardOnly(tab)))'
    BY <2>3, TypesAreAll, PTL
  <2>5. CoverInv' /\ Prepared' /\ EndsAreOwned' /\ ~ leaked'
    BY <1>2, <2>1, CoverStays, PreparedStays, EndsStayOwned, NothingLeaks
  <2>6. QED BY <2>4, <2>5 DEF GuardInv, CoverInv
<1>3. QED BY <1>1, <1>2, PTL DEF GuardSpec

\* As long as the browser has its client no target sends what the policy does not allow, however
\* targets open, ask and close, the task falls behind or ends, and the page is switched or let go.
THEOREM GuardSendsNothingForbidden ==
    ASSUME OpenersAreSound, BacklogIsPositive
    PROVE  GuardSpec => [](GuardTypeOK /\ NothingForbiddenIsSent)
<1>1. GuardSpec => []GuardInv
  BY GuardInvariance
<1>2. GuardInv => GuardTypeOK /\ NothingForbiddenIsSent
  BY DEF GuardInv, NothingForbiddenIsSent
<1>3. QED BY <1>1, <1>2, PTL

\* A browser that lost its client has the task or the runtime to end it, unless the page of the
\* policy was given up before.
THEOREM GuardAnswersLoss ==
    ASSUME OpenersAreSound, BacklogIsPositive
    PROVE  GuardSpec => []LossIsAnswered
<1>1. GuardSpec => []GuardInv
  BY GuardInvariance
<1>2. GuardInv => LossIsAnswered
  <2>1. GuardTypeOK =>
        handler.at \in {"None", "Receiving", "Arming", "Answering", "Losing", "Terminating",
                                       "Ended", "Aborted"}
    BY DEF GuardTypeOK
  <2>2. QED BY <2>1 DEF GuardInv, EndsAreOwned, LossIsAnswered
<1>3. QED BY <1>1, <1>2, PTL

(* What the task is told of, and when it has decided *)

Behind == \E i \in 1 .. Len(events) : events[i] = Lagged

\* The task is there, or about to be, has its client and has missed nothing.
Serving ==
    /\ connected /\ ~ shutdown /\ ~ Behind
    /\ owner \in Installing \/ handler.at \in {"Receiving", "Arming", "Answering"}

Tapped == (armed \cup supervising) \ {"Root"}

\* A session by which the browser pauses or tells something is one of a target there is.
TappedAreAlive ==
    \A s \in Tapped : /\ TargetIn(tab, s) \in Targets
                      /\ life[TargetIn(tab, s)] \in {"Waiting", "Running"}

\* A request is held by sessions of the target that answers for it.
AskersRun ==
    \A t \in Targets :
        request[t] # NoRequest =>
            /\ life[t] = "Running" /\ request[t].at # {}
            /\ \A s \in request[t].at : s \in armed /\ TargetIn(tab, s) = Asker(t)

\* Before the policy is installed nobody waits and nobody is known.
Untouched ==
    /\ ~ Installed =>
          /\ guarded = {} /\ Tapped \subseteq {"Own"}
          /\ \A t \in Targets : life[t] # "Waiting" /\ request[t] = NoRequest
    /\ owner = "Blank" => events = <<>>

\* Who is said to be detached has closed.
DetachedAreClosed ==
    Serving => \A i \in 1 .. Len(events) :
        events[i].kind = "Detached" =>
            /\ TargetIn(tab, events[i].session) \in Targets
            /\ life[TargetIn(tab, events[i].session)] = "Closed"

\* The task knows every session the browser tells or pauses by.
TappedAreKnown ==
    /\ Serving /\ Installed => Tapped \subseteq guarded
    /\ handler.at = "Arming" => handler.session \in guarded

\* It has not heard of a target that has not opened.
NewAreUnheard ==
    Serving => \A t \in Targets :
        life[t] = "None" =>
            /\ t \notin guarded
            /\ \A i \in 1 .. Len(events) : events[i].kind = "Attached" => events[i].session # t

\* The event by which the task will hear of a target, with nothing before it that would make it
\* pass the event over.
AnnouncedAt(t, i) ==
    /\ events[i].kind = "Attached" /\ events[i].session = t /\ events[i].waiting
    /\ Knows(events[i].parent) /\ t \notin guarded
    /\ \A j \in 1 .. i - 1 :
          /\ events[j].kind = "Attached" => events[j].session # t
          /\ events[j].kind = "Detached" => events[j].session # events[i].parent

Resuming == {<<"Fetch", "Supervise", "Resume">>, <<"Supervise", "Resume">>, <<"Resume">>}

\* Whoever waits is announced, or about to be let go.
WaiterIsTold(t) ==
    \/ \E i \in 1 .. Len(events) : AnnouncedAt(t, i)
    \/ handler.at = "Arming" /\ handler.session = t /\ handler.todo \in Resuming
WaitingAreTold == Serving => \A t \in Targets : life[t] = "Waiting" => WaiterIsTold(t)

Places(q, e) == {i \in 1 .. Len(q) : q[i] = e}
Count(q, e) == Cardinality(Places(q, e))
Answering(s) == IF handler.at = "Answering" /\ handler.session = s THEN 1 ELSE 0

\* A session holds no more requests than there are pauses of it to be answered.
PausesAreTold ==
    Serving => \A s \in Sessions : Cardinality(Held(s)) <= Count(events, Paused(s)) + Answering(s)

ToldInv ==
    /\ TappedAreAlive /\ AskersRun /\ Untouched /\ DetachedAreClosed /\ TappedAreKnown
    /\ NewAreUnheard /\ WaitingAreTold /\ PausesAreTold

\* What has come is behind what was there.
Adds(new) ==
    /\ Len(events') = Len(events) + Len(new)
    /\ \A i \in 1 .. Len(events) : events'[i] = events[i]
    /\ \A i \in 1 .. Len(new) : events'[Len(events) + i] = new[i]

\* A task that missed something still has missed it when more comes.
LEMMA ToldStaysBehind ==
    ASSUME NEW S, events \in Seq(S), NEW new \in Seq(S), Told(new), Behind
    PROVE  Behind'
<1>1. CASE events' = events
  BY <1>1 DEF Behind
<1>2. CASE events' = <<Lagged>>
  <2>1. Len(events') = 1 /\ events'[1] = Lagged
    BY <1>2
  <2>2. QED BY <2>1 DEF Behind
<1>3. CASE events' = events \o new
  <2>1. Len(events') = Len(events) + Len(new) /\ \A i \in 1 .. Len(events) : events'[i] = events[i]
    BY <1>3, ConcatProperties
  <2>2. Len(events) \in Nat /\ Len(new) \in Nat
    BY LenProperties
  <2>3. QED BY <2>1, <2>2 DEF Behind
<1>4. QED BY <1>1, <1>2, <1>3 DEF Told

\* What is sent to a task that misses nothing is at the end of its queue.
LEMMA ToldIsAdded ==
    ASSUME NEW S, events \in Seq(S), NEW new \in Seq(S), Told(new), Serving, ~ Behind'
    PROVE  events' \in Seq(S) /\ Adds(new)
<1>1. Subscribed
  BY DEF Serving, Subscribed
<1>2. Len(events) \in Nat /\ Len(new) \in Nat
  BY LenProperties
<1>3. CASE new = <<>>
  <2>1. events' = events /\ Len(new) = 0
    BY <1>3 DEF Told
  <2>2. QED BY <1>2, <2>1 DEF Adds
<1>4. CASE new # <<>> /\ events' = <<Lagged>>
  <2>1. Len(events') = 1 /\ events'[1] = Lagged
    BY <1>4
  <2>2. QED BY <2>1 DEF Behind
<1>5. CASE events' = events \o new
  <2>1. /\ Len(events') = Len(events) + Len(new) /\ events' \in Seq(S)
        /\ \A i \in 1 .. Len(events) + Len(new) :
              events'[i] = IF i <= Len(events) THEN events[i] ELSE new[i - Len(events)]
    BY <1>5, ConcatProperties
  <2>2. \A i \in 1 .. Len(new) : Len(events) + i \in 1 .. Len(events) + Len(new)
                                 /\ ~ (Len(events) + i <= Len(events))
                                 /\ Len(events) + i - Len(events) = i
    BY <1>2
  <2>3. \A i \in 1 .. Len(events) : i \in 1 .. Len(events) + Len(new) /\ i <= Len(events)
    BY <1>2
  <2>4. QED BY <2>1, <2>2, <2>3 DEF Adds
<1>6. QED BY <1>1, <1>3, <1>4, <1>5 DEF Told

\* An event has finitely many places.
LEMMA PlacesAreFinite ==
    ASSUME NEW S, NEW q \in Seq(S), NEW e
    PROVE  IsFiniteSet(Places(q, e)) /\ Count(q, e) \in Nat
<1>1. Len(q) \in Nat
  BY LenProperties
<1>2. IsFiniteSet(1 .. Len(q)) /\ Places(q, e) \in SUBSET (1 .. Len(q))
  BY <1>1, FS_Interval DEF Places
<1>3. QED BY <1>2, FS_Subset, FS_CardinalityType DEF Count

\* What comes takes no place away and has one of its own.
LEMMA AddingCounts ==
    ASSUME NEW S, events \in Seq(S), NEW new \in Seq(S), events' \in Seq(S), Adds(new), NEW e
    PROVE  /\ Count(events, e) <= Count(events', e)
           /\ (\E i \in 1 .. Len(new) : new[i] = e) => Count(events, e) + 1 <= Count(events', e)
<1>1. Len(events) \in Nat /\ Len(new) \in Nat
  BY LenProperties
<1>2. IsFiniteSet(Places(events', e)) /\ IsFiniteSet(Places(events, e))
      /\ Count(events', e) \in Nat /\ Count(events, e) \in Nat
  BY PlacesAreFinite
<1>3. Places(events, e) \in SUBSET Places(events', e)
  BY <1>1 DEF Adds, Places
<1>4. Count(events, e) <= Count(events', e)
  BY <1>2, <1>3, FS_Subset DEF Count
<1>5. ASSUME NEW i \in 1 .. Len(new), new[i] = e
      PROVE  Count(events, e) + 1 <= Count(events', e)
  <2>1. Places(events, e) \cup {Len(events) + i} \in SUBSET Places(events', e)
    BY <1>1, <1>3, <1>5 DEF Adds, Places
  <2>2. Len(events) + i \notin Places(events, e)
    BY <1>1 DEF Places
  <2>3. Cardinality(Places(events, e) \cup {Len(events) + i}) = Count(events, e) + 1
    BY <1>2, <2>2, FS_AddElement DEF Count
  <2>4. QED BY <1>2, <2>1, <2>3, FS_Subset DEF Count
<1>6. QED BY <1>4, <1>5

\* Taking the first event away takes no other.
LEMMA TakingCounts ==
    ASSUME NEW S, NEW q \in Seq(S), q # <<>>, NEW e
    PROVE  Count(q, e) <= Count(Tail(q), e) + (IF Head(q) = e THEN 1 ELSE 0)
<1> DEFINE P == Places(Tail(q), e)
           Q == Places(q, e) \ {1}
           f == [i \in P |-> i + 1]
<1>1. /\ Tail(q) \in Seq(S) /\ Len(Tail(q)) = Len(q) - 1
      /\ \A i \in 1 .. Len(Tail(q)) : Tail(q)[i] = q[i + 1]
      /\ Head(q) = q[1] /\ Len(q) \in Nat /\ Len(q) > 0
  BY HeadTailProperties, LenProperties, EmptySeq
<1>2. f \in Surjection(P, Q)
  <2>1. \A i \in P : i + 1 \in Q
    BY <1>1 DEF Places
  <2>2. \A j \in Q : j - 1 \in P /\ f[j - 1] = j
    <3>1. \A j \in Q : j - 1 \in P /\ (j - 1) + 1 = j
      BY <1>1 DEF Places
    <3>2. QED BY <3>1
  <2>3. f \in [P -> Q]
    BY <2>1
  <2>4. QED BY <2>2, <2>3 DEF Surjection
<1>3. IsFiniteSet(P) /\ Cardinality(P) = Count(Tail(q), e) /\ Cardinality(P) \in Nat
  BY <1>1, PlacesAreFinite DEF Count
<1>4. IsFiniteSet(Places(q, e)) /\ Count(q, e) \in Nat
  BY PlacesAreFinite
<1>5. Cardinality(Q) <= Cardinality(P)
  BY <1>2, <1>3, FS_Surjection
<1>6. Cardinality(Q) = IF 1 \in Places(q, e) THEN Count(q, e) - 1 ELSE Count(q, e)
  BY <1>4, FS_RemoveElement DEF Count
<1>7. 1 \in Places(q, e) <=> Head(q) = e
  BY <1>1 DEF Places
<1>8. QED BY <1>3, <1>4, <1>5, <1>6, <1>7

\* A set put in a row is all in it.
LEMMA RowHasAll ==
    ASSUME NEW S, IsFiniteSet(S)
    PROVE  /\ SetToSeq(S) \in Seq(S)
           /\ \A e \in S : \E i \in 1 .. Len(SetToSeq(S)) : SetToSeq(S)[i] = e
<1> DEFINE n == Cardinality(S)
           row == SetToSeq(S)
<1>1. n \in Nat /\ ExistsBijection(1 .. n, S)
  BY FS_CardinalityType
<1>2. PICK f \in Bijection(1 .. n, S) : TRUE
  BY <1>1 DEF ExistsBijection
<1>3. f \in [1 .. n -> S] /\ IsInjective(f)
  BY <1>2 DEF Bijection, Injection
<1>4. row \in [1 .. n -> S] /\ IsInjective(row)
  BY <1>3 DEF SetToSeq
<1>5. Cardinality(1 .. n) = n
  BY <1>1, FS_Interval
<1>6. row \in Injection(1 .. n, S)
  BY <1>4 DEF Injection, IsInjective
<1>7. row \in Surjection(1 .. n, S)
  BY <1>5, <1>6, FS_Injection
<1>8. row \in Seq(S) /\ Len(row) = n
  BY <1>1, <1>4, SeqDef, LenProperties
<1>9. QED BY <1>7, <1>8 DEF Surjection

\* A row of pauses.
LEMMA RowOfPauses ==
    ASSUME OpenersAreSound, NEW S \in SUBSET Sessions
    PROVE  LET row == SetToSeq({Paused(s) : s \in S}) IN
           /\ \A i \in 1 .. Len(row) : row[i].kind = "Paused"
           /\ \A s \in S : \E i \in 1 .. Len(row) : row[i] = Paused(s)
<1> DEFINE f == [s \in S |-> Paused(s)]
           T == {Paused(s) : s \in S}
           row == SetToSeq(T)
<1>1. IsFiniteSet(S)
  BY SessionsAreFinite, FS_Subset
<1>2. f \in Surjection(S, T)
  BY DEF Surjection
<1>3. IsFiniteSet(T)
  BY <1>1, <1>2, FS_Surjection
<1>4. row \in Seq(T) /\ \A e \in T : \E i \in 1 .. Len(row) : row[i] = e
  BY <1>3, RowHasAll
<1>5. \A i \in 1 .. Len(row) : row[i] \in T
  BY <1>4, ElementOfSeq
<1>6. \A e \in T : e.kind = "Paused"
  BY DEF Paused
<1>7. QED BY <1>4, <1>5, <1>6

\* A row of detachments.
LEMMA RowOfDetachments ==
    ASSUME OpenersAreSound, NEW S \in SUBSET Sessions
    PROVE  LET row == SetToSeq({Detached(s) : s \in S}) IN
           \A i \in 1 .. Len(row) : row[i].kind = "Detached" /\ row[i].session \in S
<1> DEFINE f == [s \in S |-> Detached(s)]
           T == {Detached(s) : s \in S}
           row == SetToSeq(T)
<1>1. IsFiniteSet(S)
  BY SessionsAreFinite, FS_Subset
<1>2. f \in Surjection(S, T)
  BY DEF Surjection
<1>3. IsFiniteSet(T)
  BY <1>1, <1>2, FS_Surjection
<1>4. row \in Seq(T)
  BY <1>3, RowHasAll
<1>5. \A i \in 1 .. Len(row) : row[i] \in T
  BY <1>4, ElementOfSeq
<1>6. \A e \in T : e.kind = "Detached" /\ e.session \in S
  BY DEF Detached
<1>7. QED BY <1>5, <1>6

\* Steps that take no session of a target that stays.
LEMMA AliveIsLeft ==
    ASSUME TappedAreAlive, UNCHANGED tab, armed' \subseteq armed, supervising' \subseteq supervising,
           \A t \in Targets : life[t] \in {"Waiting", "Running"} => life'[t] \in {"Waiting", "Running"}
    PROVE  TappedAreAlive'
  BY DEF TappedAreAlive, Tapped

\* TappedAreAlive is kept by every step.
LEMMA AliveStays ==
    ASSUME OpenersAreSound, GuardTypeOK, Prepared, TappedAreAlive, [GuardNext]_guardVars
    PROVE  TappedAreAlive'
<1>a. life \in [Targets -> {"None", "Waiting", "Running", "Closed"}]
  BY DEF GuardTypeOK
<1>1. CASE BrowserStep
  <2>1. ASSUME NEW t \in Targets, Opens(t)
        PROVE  TappedAreAlive'
    <3>1. /\ UNCHANGED <<armed, supervising, tab>> /\ life[t] = "None"
          /\ \A u \in Targets \ {t} : life'[u] = life[u]
      BY <1>a, <2>1 DEF Opens, ownerVars
    <3>2. QED BY <3>1, AliveIsLeft
  <2>2. ASSUME NEW t \in Targets, Closes(t)
        PROVE  TappedAreAlive'
    <3>1. /\ UNCHANGED tab /\ \A u \in Targets \ {t} : life'[u] = life[u]
          /\ armed' = armed \ {s \in Sessions : TargetIn(tab, s) = t}
          /\ supervising' = supervising \ {s \in Sessions : TargetIn(tab, s) = t}
      BY <1>a, <2>2 DEF Closes, TargetOf, TargetIn, ownerVars
    <3>2. Tapped \subseteq Sessions
      BY DEF Tapped, GuardTypeOK
    <3>3. \A s \in Tapped' : s \in Tapped /\ TargetIn(tab, s) # t
      BY <3>1, <3>2 DEF Tapped
    <3>4. QED BY <3>1, <3>3 DEF TappedAreAlive
  <2>3. CASE \E t \in Targets : Cancels(t)
    BY <2>3, AliveIsLeft DEF Cancels, ownerVars
  <2>4. CASE \E t \in Targets, url \in RequestUrls : Asks(t, url)
    BY <2>4, AliveIsLeft DEF Asks, ownerVars
  <2>5. CASE ConnectionLost
    <3>1. armed' = {} /\ supervising' = {}
      BY <2>5 DEF ConnectionLost
    <3>2. QED BY <3>1 DEF TappedAreAlive, Tapped
  <2>6. CASE Crowds
    BY <2>6, AliveIsLeft DEF Crowds, browserVars, ownerVars
  <2>7. QED BY <1>1, <2>1, <2>2, <2>3, <2>4, <2>5, <2>6 DEF BrowserStep
<1>2. CASE HandlerStep
  <2>1. CASE NoticesLoss \/ Obeys \/ Receives
    BY <2>1, AliveIsLeft DEF NoticesLoss, Obeys, Receives, browserVars, ownerVars
  <2>2. CASE Arms
    <3> DEFINE s == handler.session
    <3>1. UNCHANGED tab /\ TargetIn(tab, s) \in Targets
      BY <2>2 DEF Arms, Prepared, ownerVars
    <3>2. CASE UNCHANGED <<armed, supervising, life>>
      BY <3>1, <3>2, AliveIsLeft
    <3>3. CASE Answers(s) /\ ~ UNCHANGED <<armed, supervising, life>>
      <4>1. /\ armed' \subseteq armed \cup {s} /\ supervising' \subseteq supervising \cup {s}
            /\ life' = life \/ life' = [life EXCEPT ![TargetIn(tab, s)] = "Running"]
        BY <2>2, <3>3 DEF Arms, TargetOf, TargetIn
      <4>2. life[TargetIn(tab, s)] \in {"Waiting", "Running"}
        BY <3>3 DEF Answers, TargetOf, TargetIn
      <4>3. life'[TargetIn(tab, s)] \in {"Waiting", "Running"}
            /\ \A u \in Targets :
                  life[u] \in {"Waiting", "Running"} => life'[u] \in {"Waiting", "Running"}
        BY <1>a, <3>1, <4>1, <4>2
      <4>4. Tapped' \subseteq Tapped \cup {s}
        BY <4>1 DEF Tapped
      <4> HIDE DEF s
      <4>5. QED BY <3>1, <4>3, <4>4 DEF TappedAreAlive
    <3>4. QED BY <2>2, <3>2, <3>3 DEF Arms
  <2>3. CASE Decides
    BY <2>3, AliveIsLeft DEF Decides, ownerVars
  <2>4. CASE Loses \/ Terminates
    BY <2>4, AliveIsLeft DEF Loses, Terminates, Gone, browserVars, ownerVars
  <2>5. QED BY <1>2, <2>1, <2>2, <2>3, <2>4 DEF HandlerStep
<1>3. CASE OwnerStep
  <2>1. CASE Begins \/ Spawns \/ InstallFails \/ AttachFails
    BY <2>1, AliveIsLeft DEF Begins, Spawns, InstallFails, AttachFails, browserVars, taskVars
  <2>2. CASE Installs
    <3>1. /\ UNCHANGED <<life, tab>> /\ armed' \subseteq armed \cup {"Own"}
          /\ supervising' \subseteq supervising \cup {"Own", "Root"}
      BY <2>2 DEF Installs
    <3>2. TargetIn(tab, "Own") = Main /\ Main \in Targets
      BY TargetsOfSessions DEF OpenersAreSound
    <3>3. life[Main] \in {"Waiting", "Running"}
      BY <2>2 DEF Installs, Answers, TargetOf
    <3>4. Tapped' \subseteq Tapped \cup {"Own"}
      BY <3>1 DEF Tapped
    <3>5. QED BY <3>1, <3>2, <3>3, <3>4 DEF TappedAreAlive
  <2>3. ASSUME NEW t \in Targets, Attaches(t)
        PROVE  TappedAreAlive'
    <3>1. UNCHANGED <<life, armed, supervising>> /\ tab = "None"
      BY <2>3 DEF Attaches, browserVars
    <3>2. \A s : TargetIn("None", s) \in Targets => TargetIn(tab', s) = TargetIn("None", s)
      BY DEF TargetIn, OpenersAreSound
    <3>3. QED BY <3>1, <3>2 DEF TappedAreAlive, Tapped
  <2>4. CASE Switches \/ Releases
    BY <2>4, AliveIsLeft DEF Switches, Releases, browserVars
  <2>5. CASE Clears \/ ClearDropped \/ Closed
    BY <2>5, AliveIsLeft DEF Clears, ClearDropped, Closed, Gone, browserVars
  <2>6. QED BY <1>3, <2>1, <2>2, <2>3, <2>4, <2>5 DEF OwnerStep
<1>4. CASE UNCHANGED guardVars
  BY <1>4, AliveIsLeft DEF guardVars, browserVars, ownerVars
<1>5. QED BY <1>1, <1>2, <1>3, <1>4 DEF GuardNext

\* Steps that hold no request and stop nobody.
LEMMA AskersAreLeft ==
    ASSUME AskersRun, UNCHANGED <<kind, tab>>, armed \subseteq armed',
           \A t \in Targets : /\ life[t] = "Running" => life'[t] = "Running"
                              /\ request'[t] = request[t] \/ request'[t] = NoRequest
    PROVE  AskersRun'
  BY DEF AskersRun, Asker

\* A closed target holds nobody's request.
LEMMA ClosesAskers ==
    ASSUME OpenersAreSound, GuardTypeOK, AskersRun, NEW t \in Targets, Closes(t)
    PROVE  AskersRun'
<1>1. /\ UNCHANGED <<kind, tab>> /\ request' = [request EXCEPT ![t] = NoRequest]
      /\ armed' = armed \ {s \in Sessions : TargetIn(tab, s) = t}
      /\ life' = [life EXCEPT ![t] = "Closed"]
  BY DEF Closes, TargetOf, TargetIn, ownerVars
<1>2. /\ life \in [Targets -> {"None", "Waiting", "Running", "Closed"}] /\ armed \subseteq Sessions
      /\ request \in [Targets -> [url : RequestUrls \cup {"None"}, at : SUBSET Sessions]]
  BY DEF GuardTypeOK
<1>3. \A u \in Targets \ {t} : Opener[u] = t /\ kind[u] = "worker" => life[u] \in {"None", "Closed"}
  BY DEF Closes
<1>4. request'[t] = NoRequest
      /\ \A u \in Targets \ {t} : request'[u] = request[u] /\ life'[u] = life[u]
  BY <1>1, <1>2
<1>5. ASSUME NEW u \in Targets, request'[u] # NoRequest
      PROVE  /\ life'[u] = "Running" /\ request'[u].at # {}
             /\ \A s \in request'[u].at : s \in armed' /\ TargetIn(tab', s) = Asker(u)'
  <2>1. u # t /\ request'[u] = request[u] /\ life'[u] = "Running" /\ Asker(u)' = Asker(u)
    BY <1>1, <1>4, <1>5 DEF AskersRun, Asker
  <2>2. Asker(u) # t
    BY <1>3, <1>4, <2>1 DEF Asker
  <2>3. QED BY <1>1, <1>2, <1>5, <2>1, <2>2 DEF AskersRun
<1>6. QED BY <1>5 DEF AskersRun

\* AskersRun is kept by every step.
LEMMA AskersStay ==
    ASSUME OpenersAreSound, GuardTypeOK, Prepared, TappedAreAlive, AskersRun, [GuardNext]_guardVars
    PROVE  AskersRun'
<1>a. /\ life \in [Targets -> {"None", "Waiting", "Running", "Closed"}]
      /\ request \in [Targets -> [url : RequestUrls \cup {"None"}, at : SUBSET Sessions]]
  BY DEF GuardTypeOK
<1>1. CASE BrowserStep
  <2>1. ASSUME NEW t \in Targets, Opens(t)
        PROVE  AskersRun'
    <3>1. /\ UNCHANGED <<kind, armed, request, tab>> /\ life[t] = "None"
          /\ \A u \in Targets \ {t} : life'[u] = life[u]
      BY <1>a, <2>1 DEF Opens, ownerVars
    <3>2. QED BY <3>1, AskersAreLeft
  <2>2. CASE \E t \in Targets : Closes(t)
    BY <2>2, ClosesAskers
  <2>3. CASE \E t \in Targets : Cancels(t)
    BY <1>a, <2>3, AskersAreLeft DEF Cancels, ownerVars
  <2>4. ASSUME NEW t \in Targets, NEW url \in RequestUrls, Asks(t, url)
        PROVE  AskersRun'
    <3>1. /\ UNCHANGED <<kind, life, armed, tab>> /\ life[t] = "Running" /\ request[t] = NoRequest
          /\ \A u \in Targets \ {t} : request'[u] = request[u]
          /\ request'[t] = IF Holders(t) = {} THEN request[t] ELSE [url |-> url, at |-> Holders(t)]
      BY <1>a, <2>4 DEF Asks, ownerVars
    <3>2. \A s \in Holders(t) : s \in armed /\ TargetIn(tab, s) = Asker(t)
      BY DEF Holders, TargetOf, TargetIn
    <3>3. \A u \in Targets : Asker(u)' = Asker(u)
      BY <3>1 DEF Asker
    <3>4. QED BY <3>1, <3>2, <3>3 DEF AskersRun
  <2>5. CASE ConnectionLost
    <3>1. \A t \in Targets : request'[t] = NoRequest
      BY <2>5 DEF ConnectionLost
    <3>2. QED BY <3>1 DEF AskersRun
  <2>6. CASE Crowds
    BY <2>6, AskersAreLeft DEF Crowds, browserVars, ownerVars
  <2>7. QED BY <1>1, <2>1, <2>2, <2>3, <2>4, <2>5, <2>6 DEF BrowserStep
<1>2. CASE HandlerStep
  <2>1. CASE NoticesLoss \/ Obeys \/ Receives \/ Loses
    BY <2>1, AskersAreLeft DEF NoticesLoss, Obeys, Receives, Loses, browserVars, ownerVars
  <2>2. CASE Arms
    <3>1. /\ UNCHANGED <<kind, request, tab>> /\ armed \subseteq armed'
          /\ life' = life \/ life' = [life EXCEPT ![TargetOf(handler.session)] = "Running"]
      BY <2>2 DEF Arms, ownerVars
    <3>2. \A t \in Targets : life[t] = "Running" => life'[t] = "Running"
      BY <1>a, <3>1
    <3>3. QED BY <3>1, <3>2, AskersAreLeft
  <2>3. CASE Decides
    <3>1. UNCHANGED <<kind, life, armed, tab>>
      BY <2>3 DEF Decides, ownerVars
    <3>2. CASE request' = request
      BY <3>1, <3>2, AskersAreLeft
    <3>3. CASE request' # request
      <4> DEFINE s == handler.session
      <4>1. PICK t \in Held(s) :
               request' = [request EXCEPT ![t] =
                              IF request[t].url = "In" /\ request[t].at \ {s} # {}
                              THEN [@ EXCEPT !.at = request[t].at \ {s}] ELSE NoRequest]
        BY <2>3, <3>3 DEF Decides
      <4>2. t \in Targets /\ s \in request[t].at
        BY DEF Held
      <4>3. \A u \in Targets \ {t} : request'[u] = request[u]
        BY <1>a, <4>1
      <4>4. request[t] # NoRequest
        BY <4>2 DEF NoRequest
      <4>5. \/ request'[t] = NoRequest
            \/ request'[t].at # {} /\ request'[t].at \subseteq request[t].at
        BY <1>a, <4>1, <4>2
      <4>6. \A u \in Targets : Asker(u)' = Asker(u)
        BY <3>1 DEF Asker
      <4>7. QED BY <3>1, <4>2, <4>3, <4>4, <4>5, <4>6 DEF AskersRun
    <3>4. QED BY <3>2, <3>3
  <2>4. CASE Terminates
    <3>1. \A t \in Targets : request'[t] = NoRequest
      BY <2>4 DEF Terminates, Gone
    <3>2. QED BY <3>1 DEF AskersRun
  <2>5. QED BY <1>2, <2>1, <2>2, <2>3, <2>4 DEF HandlerStep
<1>3. CASE OwnerStep
  <2>1. CASE Begins \/ Installs \/ Spawns
    BY <2>1, AskersAreLeft DEF Begins, Installs, Spawns, browserVars
  <2>2. CASE InstallFails \/ AttachFails
    BY <2>2, AskersAreLeft DEF InstallFails, AttachFails, browserVars
  <2>3. ASSUME NEW t \in Targets, Attaches(t)
        PROVE  AskersRun'
    <3>1. UNCHANGED <<kind, life, armed, request>> /\ tab = "None"
      BY <2>3 DEF Attaches, browserVars
    <3>2. \A s : TargetIn("None", s) \in Targets => TargetIn(tab', s) = TargetIn("None", s)
      BY DEF TargetIn, OpenersAreSound
    <3>3. \A s \in armed : TargetIn(tab, s) \in Targets
      BY DEF TappedAreAlive, Tapped, GuardTypeOK, OpenersAreSound, Sessions
    <3>4. QED BY <3>1, <3>2, <3>3 DEF AskersRun, Asker
  <2>4. CASE Switches \/ Releases \/ Clears \/ ClearDropped
    BY <2>4, AskersAreLeft DEF Switches, Releases, Clears, ClearDropped, browserVars
  <2>5. CASE Closed
    <3>1. \A t \in Targets : request'[t] = NoRequest
      BY <2>5 DEF Closed, Gone
    <3>2. QED BY <3>1 DEF AskersRun
  <2>6. QED BY <1>3, <2>1, <2>2, <2>3, <2>4, <2>5 DEF OwnerStep
<1>4. CASE UNCHANGED guardVars
  BY <1>4, AskersAreLeft DEF guardVars, browserVars, ownerVars
<1>5. QED BY <1>1, <1>2, <1>3, <1>4 DEF GuardNext

\* The policy is installed once.
LEMMA InstalledStays ==
    ASSUME Installed, [GuardNext]_guardVars
    PROVE  Installed'
<1>1. CASE BrowserStep
  BY <1>1 DEF BrowserStep, Opens, Closes, Cancels, Asks, ConnectionLost, Crowds, ownerVars, Installed
<1>2. CASE HandlerStep
  BY <1>2 DEF HandlerStep, NoticesLoss, Obeys, Receives, Arms, Decides, Loses, Terminates,
              ownerVars, Installed
<1>3. CASE OwnerStep
  BY <1>3 DEF OwnerStep, Begins, Installs, Spawns, InstallFails, Attaches, AttachFails, Switches,
              Releases, Clears, ClearDropped, Closed, Installed, Installing
<1>4. CASE UNCHANGED guardVars
  BY <1>4 DEF guardVars, ownerVars, Installed
<1>5. QED BY <1>1, <1>2, <1>3, <1>4 DEF GuardNext

\* Before the policy is installed only the page closes, and only the runtime goes on.
LEMMA UntouchedSteps ==
    ASSUME OpenersAreSound, NothingElseYet, Untouched, ~ Installed, [GuardNext]_guardVars
    PROVE  \/ \E t \in Targets : Closes(t)
           \/ ConnectionLost \/ Crowds \/ Begins \/ Installs \/ Spawns \/ InstallFails
           \/ UNCHANGED guardVars
<1>1. handler.at = "None" /\ (\A t \in Targets \ {Main} : life[t] = "None")
      /\ \A t \in Targets : request[t] = NoRequest
  BY DEF NothingElseYet, Untouched
<1>2. CASE BrowserStep
  <2>1. \A t \in Targets : ~ Opens(t) /\ ~ Cancels(t)
    BY <1>1 DEF Opens, Cancels, Installed
  <2>2. \A t \in Targets, url \in RequestUrls : ~ Asks(t, url)
    BY <1>1 DEF Asks, Installed
  <2>3. QED BY <1>2, <2>1, <2>2 DEF BrowserStep
<1>3. ~ HandlerStep
  BY <1>1 DEF HandlerStep, NoticesLoss, Obeys, Receives, Receiving, Arms, Decides, Loses,
              Terminates, Task
<1>4. CASE OwnerStep
  BY <1>4 DEF OwnerStep, Attaches, AttachFails, Switches, Releases, Clears, ClearDropped, Closed,
              Installed, Installing
<1>5. QED BY <1>2, <1>3, <1>4 DEF GuardNext

\* Untouched is kept by every step.
LEMMA UntouchedStays ==
    ASSUME OpenersAreSound, GuardTypeOK, NothingElseYet, Untouched, [GuardNext]_guardVars
    PROVE  Untouched'
<1>a. life \in [Targets -> {"None", "Waiting", "Running", "Closed"}]
  BY DEF GuardTypeOK
<1>1. CASE Installed
  <2>1. Installed'
    BY <1>1, InstalledStays
  <2>2. QED BY <2>1 DEF Untouched, Installed
<1>2. CASE ~ Installed
  <2>0. handler.at = "None"
    BY <1>2 DEF NothingElseYet
  <2>1. ASSUME NEW t \in Targets, Closes(t)
        PROVE  Untouched'
    <3>1. /\ UNCHANGED <<owner, guarded>>
          /\ armed' \subseteq armed /\ supervising' \subseteq supervising
          /\ \A u \in Targets : life'[u] = life[u] \/ life'[u] = "Closed"
          /\ \A u \in Targets : request'[u] = request[u] \/ request'[u] = NoRequest
      BY <1>a, <2>1 DEF Closes, ownerVars, GuardTypeOK
    <3>2. owner = "Blank" => events' = events
      BY <2>0, <2>1 DEF Closes, Told, Subscribed, Installing
    <3>3. QED BY <1>2, <3>1, <3>2 DEF Untouched, Installed, Tapped
  <2>2. CASE ConnectionLost
    BY <1>a, <1>2, <2>2 DEF ConnectionLost, taskVars, ownerVars, Untouched, Installed, Tapped
  <2>3. CASE Crowds
    <3>1. owner # "Blank"
      BY <2>0, <2>3 DEF Crowds, Subscribed, Installing
    <3>2. QED BY <1>2, <2>3, <3>1 DEF Crowds, browserVars, ownerVars, Untouched, Installed, Tapped
  <2>4. CASE Begins
    BY <1>2, <2>4 DEF Begins, browserVars, taskVars, Untouched, Installed, Tapped
  <2>5. CASE Installs
    BY <1>2, <2>5 DEF Installs, Following, Installing, Untouched, Installed, Tapped
  <2>6. CASE Spawns \/ InstallFails
    BY <2>6 DEF Spawns, InstallFails, Untouched, Installed, Installing
  <2>7. CASE UNCHANGED guardVars
    BY <2>7 DEF guardVars, browserVars, taskVars, ownerVars, Untouched, Installed, Tapped
  <2>8. QED BY <1>2, <2>1, <2>2, <2>3, <2>4, <2>5, <2>6, <2>7, UntouchedSteps
<1>3. QED BY <1>1, <1>2

\* Nothing the task decides by is moved.
TaskIsLeft ==
    /\ UNCHANGED <<kind, life, request, armed, supervising, events, handler, guarded, tab>>
    /\ Installed' <=> Installed

\* A task that will still decide has been there, or is about to be, and this is what happened.
LEMMA ServingSteps ==
    ASSUME OpenersAreSound, GuardTypeOK, EventTypes, EndsAreOwned, NothingElseYet,
           [GuardNext]_guardVars, Serving'
    PROVE  \/ Begins
           \/ Serving /\ \/ \E t \in Targets : Opens(t) \/ Closes(t) \/ Cancels(t) \/ Attaches(t)
                         \/ \E t \in Targets, url \in RequestUrls : Asks(t, url)
                         \/ Receives \/ Arms \/ Decides \/ Installs \/ Spawns \/ TaskIsLeft
<1>a. /\ connected' /\ ~ shutdown' /\ ~ Behind'
      /\ owner' \in Installing \/ handler'.at \in {"Receiving", "Arming", "Answering"}
  BY DEF Serving
<1>b. events \in Seq(HeardOnly(tab))
  BY DEF EventTypes
<1>c. UNCHANGED events => ~ Behind
  BY <1>a DEF Behind
<1>d. \A S : \A e \in S : <<e>> \in Seq(S)
  OBVIOUS
<1>1. CASE BrowserStep
  <2>1. ASSUME NEW t \in Targets, Opens(t)
        PROVE  Serving
    <3>1. UNCHANGED <<connected, shutdown, owner, handler>>
      BY <2>1 DEF Opens, ownerVars
    <3>2. ~ Behind
      <4>1. CASE events' = events
        BY <1>c, <4>1
      <4>2. CASE \E s \in Supervisors(t) : Told(<<Attached(t, s, TRUE)>>)
        <5>1. PICK s \in Supervisors(t) : Told(<<Attached(t, s, TRUE)>>)
          BY <4>2
        <5>2. <<Attached(t, s, TRUE)>> \in Seq(HeardOnly(tab))
          <6>1. s \in Sessions \cup {"Root"}
            BY DEF Supervisors, GuardTypeOK
          <6>2. Attached(t, s, TRUE) \in HeardOnly(tab)
            BY <6>1 DEF Attached, HeardOnly, GuardEvents, Sessions
          <6>3. QED BY <1>d, <6>2
        <5>3. QED BY <1>a, <1>b, <5>1, <5>2, ToldStaysBehind
      <4>3. QED BY <2>1, <4>1, <4>2 DEF Opens
    <3>3. QED BY <1>a, <3>1, <3>2 DEF Serving
  <2>2. ASSUME NEW t \in Targets, Closes(t)
        PROVE  Serving
    <3>1. UNCHANGED <<connected, shutdown, owner, handler>>
      BY <2>2 DEF Closes, ownerVars
    <3>2. ~ Behind
      <4>1. Told(SetToSeq({Detached(s) : s \in {s \in Sessions : TargetOf(s) = t}}))
        BY <1>a, <2>2, <3>1 DEF Closes
      <4>2. SetToSeq({Detached(s) : s \in {s \in Sessions : TargetOf(s) = t}}) \in Seq(HeardOnly(tab))
        BY DetachmentsAreHeard
      <4>3. QED BY <1>a, <1>b, <4>1, <4>2, ToldStaysBehind
    <3>3. QED BY <1>a, <3>1, <3>2 DEF Serving
  <2>3. ASSUME NEW t \in Targets, Cancels(t)
        PROVE  Serving
    BY <1>a, <1>c, <2>3 DEF Cancels, taskVars, ownerVars, Serving
  <2>4. ASSUME NEW t \in Targets, NEW url \in RequestUrls, Asks(t, url)
        PROVE  Serving
    <3>1. UNCHANGED <<connected, shutdown, owner, handler>>
      BY <2>4 DEF Asks, ownerVars
    <3>2. Holders(t) \in SUBSET Sessions
      BY DEF Holders, GuardTypeOK
    <3>3. SetToSeq({Paused(s) : s \in Holders(t)}) \in Seq(HeardOnly(tab))
      BY <3>2, PausesAreHeard
    <3>4. ~ Behind
      BY <1>a, <1>b, <2>4, <3>3, ToldStaysBehind DEF Asks
    <3>5. QED BY <1>a, <3>1, <3>4 DEF Serving
  <2>5. ~ ConnectionLost
    BY <1>a DEF ConnectionLost
  <2>6. ~ Crowds
    <3>1. Crowds => Len(events') = 1 /\ events'[1] = Lagged
      BY DEF Crowds
    <3>2. QED BY <1>a, <3>1 DEF Behind
  <2>7. QED BY <1>1, <2>1, <2>2, <2>3, <2>4, <2>5, <2>6 DEF BrowserStep
<1>2. CASE HandlerStep
  <2>0. handler.at # "None" => owner \notin Installing
    BY DEF NothingElseYet, Installed
  <2>1. ~ (NoticesLoss \/ Obeys \/ Loses \/ Terminates)
    <3>1. ASSUME NoticesLoss \/ Obeys \/ Loses \/ Terminates
          PROVE  FALSE
      <4>1. owner' = owner /\ handler.at # "None"
            /\ handler'.at \notin {"Receiving", "Arming", "Answering"}
        BY <3>1 DEF NoticesLoss, Obeys, Loses, Terminates, Turns, Task, ownerVars
      <4>2. QED BY <1>a, <2>0, <4>1
    <3>2. QED BY <3>1
  <2>2. CASE Receives
    <3>1. /\ UNCHANGED <<connected, shutdown, owner>> /\ handler.at = "Receiving"
          /\ events # <<>> /\ events' = Tail(events) /\ Takes(Head(events))
      BY <2>2 DEF Receives, Receiving, Task, browserVars, ownerVars
    <3>2. Head(events) # Lagged
      BY <1>a, <2>0, <3>1 DEF Takes, Turns, Lagged, Task
    <3>3. /\ Len(Tail(events)) = Len(events) - 1 /\ Head(events) = events[1]
          /\ \A i \in 1 .. Len(Tail(events)) : Tail(events)[i] = events[i + 1]
          /\ Len(events) \in Nat
      BY <1>b, <3>1, HeadTailProperties, LenProperties
    <3>4. ASSUME NEW i \in 1 .. Len(events), events[i] = Lagged
          PROVE  FALSE
      <4>1. i # 1
        BY <3>2, <3>3, <3>4
      <4>2. i - 1 \in 1 .. Len(Tail(events)) /\ (i - 1) + 1 = i
        BY <3>3, <4>1
      <4>3. events'[i - 1] = Lagged
        BY <3>1, <3>3, <3>4, <4>2
      <4>4. QED BY <1>a, <3>1, <4>2, <4>3 DEF Behind
    <3>5. QED BY <1>a, <2>2, <3>1, <3>4 DEF Serving, Behind
  <2>3. CASE Arms
    BY <1>a, <1>c, <2>3 DEF Arms, ownerVars, Serving
  <2>4. CASE Decides
    BY <1>a, <1>c, <2>4 DEF Decides, ownerVars, Serving
  <2>5. QED BY <1>2, <2>1, <2>2, <2>3, <2>4 DEF HandlerStep
<1>3. CASE OwnerStep
  <2>1. CASE Begins
    BY <2>1
  <2>2. CASE Installs
    <3>1. UNCHANGED <<connected, shutdown, handler>> /\ owner \in Installing
      BY <2>2 DEF Installs
    <3>2. ~ Behind
      <4>1. CASE events' = events
        BY <1>c, <4>1
      <4>2. CASE Told(<<Attached(Main, "Root", FALSE)>>)
        <5>1. Attached(Main, "Root", FALSE) \in HeardOnly(tab)
          BY DEF Attached, HeardOnly, GuardEvents, Sessions, OpenersAreSound
        <5>2. <<Attached(Main, "Root", FALSE)>> \in Seq(HeardOnly(tab))
          BY <1>d, <5>1
        <5>3. QED BY <1>a, <1>b, <4>2, <5>2, ToldStaysBehind
      <4>3. QED BY <2>2, <4>1, <4>2 DEF Installs
    <3>3. QED BY <1>a, <2>2, <3>1, <3>2 DEF Serving
  <2>3. CASE Spawns
    BY <1>a, <1>c, <2>3 DEF Spawns, browserVars, Serving, Installing
  <2>4. ~ InstallFails
    BY <1>a DEF InstallFails, browserVars
  <2>5. ASSUME NEW t \in Targets, Attaches(t)
        PROVE  Serving
    <3>1. UNCHANGED <<connected, shutdown, handler>> /\ owner' = "Switching"
          /\ tab = "None" /\ tab' = t
      BY <2>5 DEF Attaches, browserVars
    <3>2. ~ Behind
      <4>1. CASE events' = events
        BY <1>c, <4>1
      <4>2. CASE Told(<<Attached("Other", "Root", FALSE)>>)
        <5>1. Attached("Other", "Root", FALSE) \in GuardEvents
          BY DEF Attached, GuardEvents, Sessions
        <5>2. <<Attached("Other", "Root", FALSE)>> \in Seq(GuardEvents)
          BY <1>d, <5>1
        <5>3. QED BY <1>a, <4>2, <5>2, ToldStaysBehind DEF GuardTypeOK
      <4>3. QED BY <2>5, <4>1, <4>2 DEF Attaches
    <3>3. QED BY <1>a, <3>1, <3>2 DEF Serving, Installing
  <2>6. CASE AttachFails
    <3>1. TaskIsLeft /\ UNCHANGED <<connected, shutdown>> /\ Installed
      BY <2>6 DEF AttachFails, browserVars, taskVars, TaskIsLeft, Installed, Installing
    <3>2. QED BY <1>a, <1>c, <3>1 DEF Serving, TaskIsLeft, Installed
  <2>7. ~ (Switches \/ Clears \/ Closed)
    BY <1>a DEF Switches, Clears, Closed, Gone, EndsAreOwned
  <2>8. CASE Releases
    <3>1. UNCHANGED <<kind, life, request, armed, supervising, events, handler, guarded, tab,
                      connected>>
          /\ Installed /\ Installed'
      BY <2>8 DEF Releases, browserVars, Installed, Installing
    <3>2. UNCHANGED shutdown
      BY <1>a, <2>8 DEF Releases
    <3>3. QED BY <1>a, <1>c, <3>1, <3>2 DEF Serving, TaskIsLeft, Installed
  <2>9. ~ ClearDropped
    BY <1>a DEF ClearDropped, EndsAreOwned
  <2>10. QED BY <1>3, <2>1, <2>2, <2>3, <2>4, <2>5, <2>6, <2>7, <2>8, <2>9 DEF OwnerStep
<1>4. CASE UNCHANGED guardVars
  BY <1>a, <1>c, <1>4 DEF guardVars, browserVars, taskVars, ownerVars, Serving, TaskIsLeft, Installed
<1>5. QED BY <1>1, <1>2, <1>3, <1>4 DEF GuardNext

\* Every event has been there or has come.
LEMMA WhereHeard ==
    ASSUME NEW S, NEW T, events \in Seq(S), NEW new \in Seq(T), Adds(new)
    PROVE  \A i \in 1 .. Len(events') :
              \/ i \in 1 .. Len(events) /\ events'[i] = events[i]
              \/ \E j \in 1 .. Len(new) : i = Len(events) + j /\ events'[i] = new[j]
<1>1. Len(events) \in Nat /\ Len(new) \in Nat /\ Len(events') = Len(events) + Len(new)
  BY LenProperties DEF Adds
<1>2. ASSUME NEW i \in 1 .. Len(events'), i \notin 1 .. Len(events)
      PROVE  \E j \in 1 .. Len(new) : i = Len(events) + j /\ events'[i] = new[j]
  <2>1. i - Len(events) \in 1 .. Len(new) /\ i = Len(events) + (i - Len(events))
    BY <1>1, <1>2
  <2>2. QED BY <2>1 DEF Adds
<1>3. QED BY <1>2 DEF Adds

\* A row of one.
LEMMA OneHeard ==
    ASSUME NEW S, NEW e \in S
    PROVE  <<e>> \in Seq(S) /\ Len(<<e>>) = 1 /\ \A i \in 1 .. Len(<<e>>) : <<e>>[i] = e
<1> DEFINE r == <<e>>
<1>1. r \in Seq(S) /\ Len(r) = 1 /\ r[1] = e
  OBVIOUS
<1> HIDE DEF r
<1>2. \A i \in 1 .. Len(r) : r[i] = e
  BY <1>1
<1>3. QED BY <1>1, <1>2 DEF r

\* The same, for one that has come.
LEMMA WhereOne ==
    ASSUME NEW S, NEW T, events \in Seq(S), NEW e \in T, Adds(<<e>>)
    PROVE  \A i \in 1 .. Len(events') :
              (i \in 1 .. Len(events) /\ events'[i] = events[i]) \/ events'[i] = e
<1> DEFINE r == <<e>>
<1>1. r \in Seq(T) /\ \A i \in 1 .. Len(r) : r[i] = e
  BY OneHeard
<1>2. Adds(r)
  OBVIOUS
<1> HIDE DEF r
<1>3. QED BY <1>1, <1>2, WhereHeard

\* What a new target is heard of.
LEMMA OpensTells ==
    ASSUME OpenersAreSound, GuardTypeOK, EventTypes, Serving, Serving', NEW t \in Targets, Opens(t)
    PROVE  /\ UNCHANGED <<kind, request, armed, supervising, handler, guarded, tab, owner>>
           /\ life[t] = "None" /\ Installed /\ life'[t] # "None"
           /\ \A u \in Targets \ {t} : life'[u] = life[u]
           /\ \/ events' = events /\ life'[t] = "Running"
              \/ \E s \in Supervisors(t) :
                    Attached(t, s, TRUE) \in HeardOnly(tab) /\ Adds(<<Attached(t, s, TRUE)>>)
<1>1. ~ Behind' /\ events \in Seq(HeardOnly(tab))
  BY DEF Serving, EventTypes
<1>2. life \in [Targets -> {"None", "Waiting", "Running", "Closed"}]
  BY DEF GuardTypeOK
<1>3. /\ UNCHANGED <<kind, request, armed, supervising, handler, guarded, tab, owner>>
      /\ life[t] = "None" /\ Installed
      /\ life' = [life EXCEPT ![t] = "Running"] \/ life' = [life EXCEPT ![t] = "Waiting"]
  BY DEF Opens, Installed, ownerVars
<1>4. CASE Supervisors(t) = {}
  BY <1>2, <1>3, <1>4 DEF Opens
<1>5. CASE Supervisors(t) # {}
  <2>1. PICK s \in Supervisors(t) : Told(<<Attached(t, s, TRUE)>>)
    BY <1>5 DEF Opens
  <2>2. s \in Sessions \cup {"Root"}
    BY DEF Supervisors, GuardTypeOK
  <2>3. Attached(t, s, TRUE) \in HeardOnly(tab)
    BY <2>2 DEF Attached, HeardOnly, GuardEvents, Sessions
  <2>4. Adds(<<Attached(t, s, TRUE)>>)
    BY <1>1, <2>1, <2>3, OneHeard, ToldIsAdded
  <2>5. QED BY <1>2, <1>3, <2>3, <2>4
<1>6. QED BY <1>4, <1>5

\* What is heard of one that closes.
LEMMA ClosesTells ==
    ASSUME OpenersAreSound, GuardTypeOK, EventTypes, Serving, Serving', NEW t \in Targets, Closes(t)
    PROVE  /\ UNCHANGED <<kind, handler, guarded, tab, owner>>
           /\ armed' \subseteq armed /\ supervising' \subseteq supervising
           /\ life[t] \in {"Waiting", "Running"} /\ life'[t] = "Closed"
           /\ \A u \in Targets \ {t} : life'[u] = life[u] /\ request'[u] = request[u]
           /\ request'[t] = NoRequest
           /\ \E new \in Seq(HeardOnly(tab)) :
                 Adds(new) /\ \A i \in 1 .. Len(new) :
                                 new[i].kind = "Detached" /\ TargetIn(tab, new[i].session) = t
<1>1. ~ Behind' /\ events \in Seq(HeardOnly(tab)) /\ connected'
  BY DEF Serving, EventTypes
<1>2. /\ life \in [Targets -> {"None", "Waiting", "Running", "Closed"}]
      /\ request \in [Targets -> [url : RequestUrls \cup {"None"}, at : SUBSET Sessions]]
  BY DEF GuardTypeOK
<1> DEFINE gone == {s \in Sessions : TargetOf(s) = t}
           row == SetToSeq({Detached(s) : s \in gone})
<1>3. /\ UNCHANGED <<kind, handler, guarded, tab, owner, connected>> /\ Told(row)
      /\ armed' \subseteq armed /\ supervising' \subseteq supervising
      /\ life[t] \in {"Waiting", "Running"} /\ life' = [life EXCEPT ![t] = "Closed"]
      /\ request' = [request EXCEPT ![t] = NoRequest]
  BY <1>1 DEF Closes, ownerVars
<1>4. row \in Seq(HeardOnly(tab))
  BY DetachmentsAreHeard
<1>5. \A i \in 1 .. Len(row) : row[i].kind = "Detached" /\ row[i].session \in gone
  BY RowOfDetachments
<1>6. \A s \in gone : TargetIn(tab, s) = t
  BY DEF TargetOf, TargetIn
<1> HIDE DEF gone, row
<1>7. Adds(row)
  BY <1>1, <1>3, <1>4, ToldIsAdded
<1>8. QED BY <1>2, <1>3, <1>4, <1>5, <1>6, <1>7

\* What is heard of a request.
LEMMA AsksTells ==
    ASSUME OpenersAreSound, GuardTypeOK, EventTypes, Serving, Serving', NEW t \in Targets,
           NEW url \in RequestUrls, Asks(t, url)
    PROVE  /\ UNCHANGED <<kind, life, armed, supervising, handler, guarded, tab, owner>>
           /\ request[t] = NoRequest
           /\ \A u \in Targets \ {t} : request'[u] = request[u]
           /\ request'[t] = IF Holders(t) = {} THEN NoRequest ELSE [url |-> url, at |-> Holders(t)]
           /\ \E new \in Seq(HeardOnly(tab)) :
                 /\ Adds(new) /\ \A i \in 1 .. Len(new) : new[i].kind = "Paused"
                 /\ \A s \in Holders(t) : \E i \in 1 .. Len(new) : new[i] = Paused(s)
<1>1. ~ Behind' /\ events \in Seq(HeardOnly(tab))
  BY DEF Serving, EventTypes
<1>2. request \in [Targets -> [url : RequestUrls \cup {"None"}, at : SUBSET Sessions]]
  BY DEF GuardTypeOK
<1> DEFINE row == SetToSeq({Paused(s) : s \in Holders(t)})
<1>3. /\ UNCHANGED <<kind, life, armed, supervising, handler, guarded, tab, owner>> /\ Told(row)
      /\ request[t] = NoRequest
      /\ request' = [request EXCEPT ![t] = IF Holders(t) = {} THEN @
                                           ELSE [url |-> url, at |-> Holders(t)]]
  BY DEF Asks, ownerVars
<1>4. Holders(t) \in SUBSET Sessions
  BY DEF Holders, GuardTypeOK
<1>5. row \in Seq(HeardOnly(tab))
  BY <1>4, PausesAreHeard
<1>6. /\ \A i \in 1 .. Len(row) : row[i].kind = "Paused"
      /\ \A s \in Holders(t) : \E i \in 1 .. Len(row) : row[i] = Paused(s)
  BY <1>4, RowOfPauses
<1> HIDE DEF row
<1>7. Adds(row)
  BY <1>1, <1>3, <1>5, ToldIsAdded
<1>8. QED BY <1>2, <1>3, <1>5, <1>6, <1>7

\* What is heard when the root or the page switched to is attached.
LEMMA RootTells ==
    ASSUME OpenersAreSound, GuardTypeOK, EventTypes, Serving, Serving',
           Installs \/ \E t \in Targets : Attaches(t)
    PROVE  /\ UNCHANGED <<kind, life, request, handler, guarded>>
           /\ \/ events' = events
              \/ \E s \in {Main, "Other"} :
                    /\ Attached(s, "Root", FALSE) \in GuardEvents
                    /\ Adds(<<Attached(s, "Root", FALSE)>>)
                    /\ s = Main => Installs
<1>1. ~ Behind' /\ events \in Seq(GuardEvents)
  BY DEF Serving, GuardTypeOK
<1>2. \A s \in {Main, "Other"} : Attached(s, "Root", FALSE) \in GuardEvents
  BY DEF Attached, GuardEvents, Sessions, OpenersAreSound
<1>3. \A s \in {Main, "Other"} :
         Told(<<Attached(s, "Root", FALSE)>>) => Adds(<<Attached(s, "Root", FALSE)>>)
  BY <1>1, <1>2, OneHeard, ToldIsAdded
<1>4. CASE Installs
  BY <1>2, <1>3, <1>4 DEF Installs
<1>5. CASE \E t \in Targets : Attaches(t)
  <2>1. Main # "Other"
    BY DEF OpenersAreSound
  <2>2. QED BY <1>2, <1>3, <1>5, <2>1 DEF Attaches, browserVars
<1>6. QED BY <1>4, <1>5

\* The event the task takes, and what is left.
LEMMA ReceivesFirst ==
    ASSUME EventTypes, Receives
    PROVE  /\ UNCHANGED <<browserVars, tab, owner, shutdown>> /\ handler.at = "Receiving"
           /\ Takes(Head(events)) /\ Head(events) \in HeardOnly(tab)
           /\ events # <<>> /\ events' = Tail(events)
           /\ 1 \in 1 .. Len(events) /\ events[1] = Head(events)
           /\ \A i \in 1 .. Len(events') : i + 1 \in 1 .. Len(events) /\ events'[i] = events[i + 1]
           /\ \A i \in 1 .. Len(events) : i # 1 =>
                 i - 1 \in 1 .. Len(events') /\ (i - 1) + 1 = i /\ events'[i - 1] = events[i]
<1>1. /\ UNCHANGED <<browserVars, tab, owner, shutdown>> /\ handler.at = "Receiving"
      /\ Takes(Head(events)) /\ events # <<>> /\ events' = Tail(events)
  BY DEF Receives, Receiving, Task, ownerVars
<1>2. /\ Head(events) \in HeardOnly(tab) /\ Len(events) \in Nat /\ Len(events) > 0
      /\ Head(events) = events[1] /\ Len(events') = Len(events) - 1
      /\ \A i \in 1 .. Len(events') : events'[i] = events[i + 1]
  BY <1>1, HeadTailProperties, LenProperties, EmptySeq DEF EventTypes
<1>3. \A i \in 1 .. Len(events') : i + 1 \in 1 .. Len(events)
  BY <1>2
<1>4. \A i \in 1 .. Len(events) : i # 1 => i - 1 \in 1 .. Len(events') /\ (i - 1) + 1 = i
  BY <1>2
<1>5. 1 \in 1 .. Len(events)
  BY <1>2
<1>6. QED BY <1>1, <1>2, <1>3, <1>4, <1>5

\* Steps after which an event of a detachment is one there was, or of a target that has closed.
LEMMA DetachedAreLeft ==
    ASSUME Serving, DetachedAreClosed,
           \A t \in Targets : life[t] = "Closed" => life'[t] = "Closed",
           \A s : TargetIn(tab, s) \in Targets => TargetIn(tab', s) = TargetIn(tab, s),
           \A i \in 1 .. Len(events') :
              events'[i].kind = "Detached" =>
                 \/ \E j \in 1 .. Len(events) : events'[i] = events[j]
                 \/ /\ TargetIn(tab', events'[i].session) \in Targets
                    /\ life'[TargetIn(tab', events'[i].session)] = "Closed"
    PROVE  DetachedAreClosed'
  BY DEF DetachedAreClosed

\* DetachedAreClosed is kept by every step.
LEMMA DetachedStay ==
    ASSUME OpenersAreSound, GuardTypeOK, EventTypes, EndsAreOwned, NothingElseYet, Untouched,
           DetachedAreClosed, [GuardNext]_guardVars
    PROVE  DetachedAreClosed'
<1>1. SUFFICES ASSUME Serving'
               PROVE  DetachedAreClosed'
  BY DEF DetachedAreClosed
<1>a. life \in [Targets -> {"None", "Waiting", "Running", "Closed"}]
      /\ events \in Seq(HeardOnly(tab)) /\ events \in Seq(GuardEvents)
  BY DEF GuardTypeOK, EventTypes
<1>b. UNCHANGED tab => \A s : TargetIn(tab', s) = TargetIn(tab, s)
  OBVIOUS
<1>c. UNCHANGED events =>
         \A i \in 1 .. Len(events') : \E j \in 1 .. Len(events) : events'[i] = events[j]
  OBVIOUS
<1>2. CASE Begins
  <2>1. events' = <<>>
    BY <1>2 DEF Begins, taskVars, Untouched
  <2>2. Len(events') = 0
    BY <2>1
  <2>3. QED BY <2>2 DEF DetachedAreClosed
<1>3. ASSUME Serving, NEW t \in Targets, Opens(t)
      PROVE  DetachedAreClosed'
  <2>1. /\ UNCHANGED tab /\ life[t] = "None" /\ \A u \in Targets \ {t} : life'[u] = life[u]
    BY <1>1, <1>3, OpensTells
  <2>2. CASE events' = events
    BY <1>3, <1>b, <1>c, <2>1, <2>2, DetachedAreLeft
  <2>3. ASSUME NEW s \in Supervisors(t), Attached(t, s, TRUE) \in HeardOnly(tab),
               Adds(<<Attached(t, s, TRUE)>>)
        PROVE  DetachedAreClosed'
    <3>1. \A i \in 1 .. Len(events') : (\E j \in 1 .. Len(events) : events'[i] = events[j])
                                       \/ events'[i] = Attached(t, s, TRUE)
      BY <1>a, <2>3, WhereOne
    <3>2. Attached(t, s, TRUE).kind # "Detached"
      BY DEF Attached
    <3>3. QED BY <1>3, <1>b, <2>1, <3>1, <3>2, DetachedAreLeft
  <2>4. QED BY <1>1, <1>3, <2>2, <2>3, OpensTells
<1>4. ASSUME Serving, NEW t \in Targets, Closes(t)
      PROVE  DetachedAreClosed'
  <2>1. /\ UNCHANGED tab /\ life'[t] = "Closed" /\ \A u \in Targets \ {t} : life'[u] = life[u]
    BY <1>1, <1>4, ClosesTells
  <2>2. PICK new \in Seq(HeardOnly(tab)) :
           Adds(new) /\ \A i \in 1 .. Len(new) :
                           new[i].kind = "Detached" /\ TargetIn(tab, new[i].session) = t
    BY <1>1, <1>4, ClosesTells
  <2>3. ASSUME NEW i \in 1 .. Len(events')
        PROVE  \/ \E j \in 1 .. Len(events) : events'[i] = events[j]
               \/ TargetIn(tab', events'[i].session) = t
    <3>1. Adds(new)
      BY <2>2
    <3>2. \/ i \in 1 .. Len(events) /\ events'[i] = events[i]
          \/ \E j \in 1 .. Len(new) : i = Len(events) + j /\ events'[i] = new[j]
      BY <1>a, <3>1, WhereHeard
    <3>3. QED BY <1>b, <2>1, <2>2, <3>2
  <2>4. QED BY <1>4, <1>b, <2>1, <2>3, DetachedAreLeft
<1>5. ASSUME Serving, NEW t \in Targets, Cancels(t)
      PROVE  DetachedAreClosed'
  BY <1>5, <1>b, <1>c, DetachedAreLeft DEF Cancels, taskVars, ownerVars
<1>6. ASSUME Serving, NEW t \in Targets, NEW url \in RequestUrls, Asks(t, url)
      PROVE  DetachedAreClosed'
  <2>1. UNCHANGED <<tab, life>>
    BY <1>1, <1>6, AsksTells
  <2>2. PICK new \in Seq(HeardOnly(tab)) :
           Adds(new) /\ \A i \in 1 .. Len(new) : new[i].kind = "Paused"
    BY <1>1, <1>6, AsksTells
  <2>3. \A i \in 1 .. Len(events') :
           (\E j \in 1 .. Len(events) : events'[i] = events[j]) \/ events'[i].kind = "Paused"
    BY <1>a, <2>2, WhereHeard
  <2>4. QED BY <1>6, <1>b, <2>1, <2>3, DetachedAreLeft
<1>7. CASE Serving /\ (Installs \/ \E t \in Targets : Attaches(t))
  <2>1. UNCHANGED life
    BY <1>1, <1>7, RootTells
  <2>2. \A s : TargetIn(tab, s) \in Targets => TargetIn(tab', s) = TargetIn(tab, s)
    BY <1>7 DEF Installs, Attaches, TargetIn, OpenersAreSound
  <2>3. CASE events' = events
    BY <1>7, <1>c, <2>1, <2>2, <2>3, DetachedAreLeft
  <2>4. ASSUME NEW s \in {Main, "Other"}, Attached(s, "Root", FALSE) \in GuardEvents,
               Adds(<<Attached(s, "Root", FALSE)>>)
        PROVE  DetachedAreClosed'
    <3>1. \A i \in 1 .. Len(events') : (\E j \in 1 .. Len(events) : events'[i] = events[j])
                                       \/ events'[i] = Attached(s, "Root", FALSE)
      BY <1>a, <2>4, WhereOne
    <3>2. Attached(s, "Root", FALSE).kind # "Detached"
      BY DEF Attached
    <3>3. QED BY <1>7, <2>1, <2>2, <3>1, <3>2, DetachedAreLeft
  <2>5. QED BY <1>1, <1>7, <2>3, <2>4, RootTells
<1>8. CASE Serving /\ Receives
  <2>1. UNCHANGED <<life, tab>> /\ \A i \in 1 .. Len(events') :
           \E j \in 1 .. Len(events) : events'[i] = events[j]
    BY <1>8, ReceivesFirst DEF browserVars
  <2>2. QED BY <1>8, <1>b, <2>1, DetachedAreLeft
<1>9. CASE Serving /\ Arms
  <2>1. /\ UNCHANGED <<events, tab>>
        /\ \/ life' = life
           \/ /\ Answers(handler.session)
              /\ life' = [life EXCEPT ![TargetOf(handler.session)] = "Running"]
    BY <1>9 DEF Arms, ownerVars
  <2>2. \A t \in Targets : life[t] = "Closed" => life'[t] = "Closed"
    BY <1>a, <2>1 DEF Answers
  <2>3. QED BY <1>9, <1>b, <1>c, <2>1, <2>2, DetachedAreLeft
<1>10. CASE Serving /\ Decides
  BY <1>10, <1>b, <1>c, DetachedAreLeft DEF Decides, ownerVars
<1>11. CASE Serving /\ (Spawns \/ TaskIsLeft)
  <2>1. UNCHANGED <<events, tab, life>>
    BY <1>11 DEF Spawns, TaskIsLeft, browserVars
  <2>2. QED BY <1>11, <1>b, <1>c, <2>1, DetachedAreLeft
<1>12. QED BY <1>1, <1>2, <1>3, <1>4, <1>5, <1>6, <1>7, <1>8, <1>9, <1>10, <1>11, ServingSteps

\* Steps after which a target that has not opened is as unheard of as it was.
LEMMA NewAreLeft ==
    ASSUME Serving, NewAreUnheard,
           \A t \in Targets :
              life'[t] = "None" => life[t] = "None" /\ (t \in guarded' => t \in guarded),
           \A i \in 1 .. Len(events') :
              events'[i].kind = "Attached" =>
                 \/ \E j \in 1 .. Len(events) : events'[i] = events[j]
                 \/ events'[i].session \in Targets => life'[events'[i].session] # "None"
    PROVE  NewAreUnheard'
  BY DEF NewAreUnheard

\* NewAreUnheard is kept by every step.
LEMMA NewStay ==
    ASSUME OpenersAreSound, GuardTypeOK, EventTypes, Prepared, EndsAreOwned, NothingElseYet, Untouched,
           NewAreUnheard, [GuardNext]_guardVars
    PROVE  NewAreUnheard'
<1>1. SUFFICES ASSUME Serving'
               PROVE  NewAreUnheard'
  BY DEF NewAreUnheard
<1>a. life \in [Targets -> {"None", "Waiting", "Running", "Closed"}]
      /\ events \in Seq(HeardOnly(tab)) /\ events \in Seq(GuardEvents)
  BY DEF GuardTypeOK, EventTypes
<1>c. UNCHANGED events =>
         \A i \in 1 .. Len(events') : \E j \in 1 .. Len(events) : events'[i] = events[j]
  OBVIOUS
<1>2. CASE Begins
  <2>1. events' = <<>> /\ guarded' = {}
    BY <1>2 DEF Begins, taskVars, Untouched, Installed
  <2>2. Len(events') = 0
    BY <2>1
  <2>3. QED BY <2>1, <2>2 DEF NewAreUnheard
<1>3. ASSUME Serving, NEW t \in Targets, Opens(t)
      PROVE  NewAreUnheard'
  <2>1. UNCHANGED guarded /\ life'[t] # "None" /\ \A u \in Targets \ {t} : life'[u] = life[u]
    BY <1>1, <1>3, OpensTells
  <2>2. CASE events' = events
    BY <1>3, <1>c, <2>1, <2>2, NewAreLeft
  <2>3. ASSUME NEW s \in Supervisors(t), Attached(t, s, TRUE) \in HeardOnly(tab),
               Adds(<<Attached(t, s, TRUE)>>)
        PROVE  NewAreUnheard'
    <3>1. \A i \in 1 .. Len(events') : (\E j \in 1 .. Len(events) : events'[i] = events[j])
                                       \/ events'[i] = Attached(t, s, TRUE)
      BY <1>a, <2>3, WhereOne
    <3>2. Attached(t, s, TRUE).session = t
      BY DEF Attached
    <3>3. QED BY <1>3, <2>1, <3>1, <3>2, NewAreLeft
  <2>4. QED BY <1>1, <1>3, <2>2, <2>3, OpensTells
<1>4. ASSUME Serving, NEW t \in Targets, Closes(t)
      PROVE  NewAreUnheard'
  <2>1. UNCHANGED guarded /\ life'[t] = "Closed" /\ \A u \in Targets \ {t} : life'[u] = life[u]
    BY <1>1, <1>4, ClosesTells
  <2>2. PICK new \in Seq(HeardOnly(tab)) : Adds(new) /\ \A i \in 1 .. Len(new) : new[i].kind = "Detached"
    BY <1>1, <1>4, ClosesTells
  <2>3. \A i \in 1 .. Len(events') :
           (\E j \in 1 .. Len(events) : events'[i] = events[j]) \/ events'[i].kind = "Detached"
    BY <1>a, <2>2, WhereHeard
  <2>4. QED BY <1>4, <2>1, <2>3, NewAreLeft
<1>5. ASSUME Serving, NEW t \in Targets, Cancels(t)
      PROVE  NewAreUnheard'
  BY <1>5, <1>c, NewAreLeft DEF Cancels, taskVars
<1>6. ASSUME Serving, NEW t \in Targets, NEW url \in RequestUrls, Asks(t, url)
      PROVE  NewAreUnheard'
  <2>1. UNCHANGED <<guarded, life>>
    BY <1>1, <1>6, AsksTells
  <2>2. PICK new \in Seq(HeardOnly(tab)) : Adds(new) /\ \A i \in 1 .. Len(new) : new[i].kind = "Paused"
    BY <1>1, <1>6, AsksTells
  <2>3. \A i \in 1 .. Len(events') :
           (\E j \in 1 .. Len(events) : events'[i] = events[j]) \/ events'[i].kind = "Paused"
    BY <1>a, <2>2, WhereHeard
  <2>4. QED BY <1>6, <2>1, <2>3, NewAreLeft
<1>7. CASE Serving /\ (Installs \/ \E t \in Targets : Attaches(t))
  <2>1. UNCHANGED <<life, guarded>>
    BY <1>1, <1>7, RootTells
  <2>2. Installs => life[Main] \in {"Waiting", "Running"}
    BY DEF Installs, Answers, TargetOf
  <2>3. CASE events' = events
    BY <1>7, <1>c, <2>1, <2>3, NewAreLeft
  <2>4. ASSUME NEW s \in {Main, "Other"}, Attached(s, "Root", FALSE) \in GuardEvents,
               Adds(<<Attached(s, "Root", FALSE)>>), s = Main => Installs
        PROVE  NewAreUnheard'
    <3>1. \A i \in 1 .. Len(events') : (\E j \in 1 .. Len(events) : events'[i] = events[j])
                                       \/ events'[i] = Attached(s, "Root", FALSE)
      BY <1>a, <2>4, WhereOne
    <3>2. Attached(s, "Root", FALSE).session = s
      BY DEF Attached
    <3>3. s \in Targets => life'[s] # "None"
      BY <2>1, <2>2, <2>4 DEF OpenersAreSound
    <3>4. QED BY <1>7, <2>1, <3>1, <3>2, <3>3, NewAreLeft
  <2>5. QED BY <1>1, <1>7, <2>3, <2>4, RootTells
<1>8. CASE Serving /\ Receives
  <2>1. /\ UNCHANGED life /\ Takes(Head(events)) /\ events[1] = Head(events) /\ 1 \in 1 .. Len(events)
        /\ \A i \in 1 .. Len(events') : \E j \in 1 .. Len(events) : events'[i] = events[j]
    BY <1>8, ReceivesFirst DEF browserVars
  <2>2. \A t \in guarded' :
           t \in guarded \/ (Head(events).kind = "Attached" /\ t = Head(events).session)
    <3>1. Head(events) \in HeardOnly(tab)
      BY <1>8, ReceivesFirst
    <3>2. Head(events).kind \in {"Attached", "Detached", "Paused", "Lagged"}
      BY <3>1 DEF HeardOnly, GuardEvents, Lagged
    <3>3. \/ guarded' \subseteq guarded
          \/ Head(events).kind = "Attached" /\ guarded' = guarded \cup {Head(events).session}
      BY <2>1, <3>2 DEF Takes
    <3>4. QED BY <3>3
  <2>3. \A t \in Targets : life'[t] = "None" => life[t] = "None" /\ (t \in guarded' => t \in guarded)
    BY <1>8, <2>1, <2>2 DEF NewAreUnheard
  <2>4. QED BY <1>8, <2>1, <2>3, NewAreLeft
<1>9. CASE Serving /\ Arms
  <2>1. /\ UNCHANGED <<events, guarded>>
        /\ \/ life' = life
           \/ /\ Answers(handler.session)
              /\ life' = [life EXCEPT ![TargetOf(handler.session)] = "Running"]
    BY <1>9 DEF Arms, ownerVars
  <2>2. \A t \in Targets : life'[t] = "None" => life[t] = "None"
    BY <1>a, <2>1 DEF Answers
  <2>3. QED BY <1>9, <1>c, <2>1, <2>2, NewAreLeft
<1>10. CASE Serving /\ Decides
  BY <1>10, <1>c, NewAreLeft DEF Decides
<1>11. CASE Serving /\ (Spawns \/ TaskIsLeft)
  <2>1. UNCHANGED <<events, life>> /\ guarded' \subseteq guarded \cup {"Own"} /\ "Own" \notin Targets
    BY <1>11 DEF Spawns, TaskIsLeft, browserVars, OpenersAreSound
  <2>2. QED BY <1>11, <1>c, <2>1, NewAreLeft
<1>12. QED BY <1>1, <1>2, <1>3, <1>4, <1>5, <1>6, <1>7, <1>8, <1>9, <1>10, <1>11, ServingSteps

\* The target the task prepares is one it knows.
LEMMA PreparedIsKnown ==
    ASSUME GuardTypeOK, EventTypes, handler.at = "Arming" => handler.session \in guarded,
           [GuardNext]_guardVars
    PROVE  handler'.at = "Arming" => handler'.session \in guarded'
<1>1. CASE BrowserStep
  <2>1. UNCHANGED <<handler, guarded>>
    BY <1>1 DEF BrowserStep, Opens, Closes, Cancels, Asks, ConnectionLost, Crowds, taskVars
  <2>2. QED BY <2>1
<1>2. CASE HandlerStep
  <2>1. CASE NoticesLoss \/ Obeys \/ Decides \/ Loses \/ Terminates
    <3>1. handler'.at # "Arming"
      BY <2>1 DEF NoticesLoss, Obeys, Decides, Loses, Terminates, Turns, Task
    <3>2. QED BY <3>1
  <2>2. CASE Receives
    <3>1. Takes(Head(events)) /\ handler.at = "Receiving"
      BY <2>2, ReceivesFirst
    <3>2. handler'.at = "Arming" =>
             handler' = Doing("Arming", Head(events).session, Todo(Head(events)))
             /\ guarded' = guarded \cup {Head(events).session}
      BY <3>1 DEF Takes, Turns, Task, Doing
    <3>3. QED BY <3>2 DEF Doing
  <2>3. CASE Arms
    <3>1. handler.at = "Arming" /\ UNCHANGED guarded
      BY <2>3 DEF Arms
    <3>2. handler'.at # "Arming" \/ handler' = [handler EXCEPT !.todo = Tail(@)]
      BY <2>3 DEF Arms, Turns, Task
    <3>3. handler' = [handler EXCEPT !.todo = Tail(@)] => handler'.session = handler.session
      BY <3>1 DEF GuardTypeOK
    <3>4. QED BY <3>1, <3>2, <3>3
  <2>4. QED BY <1>2, <2>1, <2>2, <2>3 DEF HandlerStep
<1>3. CASE OwnerStep
  <2>1. CASE Spawns \/ Switches \/ Clears \/ ClearDropped
    <3>1. handler'.at # "Arming" \/ handler'.at = "Ended"
      BY <2>1 DEF Spawns, Switches, Clears, ClearDropped, Turns, Task
    <3>2. QED BY <3>1
  <2>2. CASE Begins \/ InstallFails \/ AttachFails \/ Closed
    BY <2>2 DEF Begins, InstallFails, AttachFails, Closed, taskVars
  <2>3. CASE Installs \/ Releases
    BY <2>3 DEF Installs, Releases
  <2>4. CASE \E t \in Targets : Attaches(t)
    BY <2>4 DEF Attaches
  <2>5. QED BY <1>3, <2>1, <2>2, <2>3, <2>4 DEF OwnerStep
<1>4. CASE UNCHANGED guardVars
  BY <1>4 DEF guardVars, taskVars
<1>5. QED BY <1>1, <1>2, <1>3, <1>4 DEF GuardNext

\* TappedAreKnown is kept by every step.
LEMMA KnownStay ==
    ASSUME OpenersAreSound, GuardTypeOK, EventTypes, Prepared, EndsAreOwned, NothingElseYet, Untouched,
           TappedAreAlive, DetachedAreClosed, TappedAreKnown, [GuardNext]_guardVars
    PROVE  TappedAreKnown'
<1>1. handler'.at = "Arming" => handler'.session \in guarded'
  BY PreparedIsKnown DEF TappedAreKnown
<1>2. SUFFICES ASSUME Serving', Installed'
               PROVE  Tapped' \subseteq guarded'
  BY <1>1 DEF TappedAreKnown
<1>3. ASSUME Serving, Installed, armed' \subseteq armed, supervising' \subseteq supervising,
             UNCHANGED guarded
      PROVE  Tapped' \subseteq guarded'
  BY <1>3 DEF TappedAreKnown, Tapped
<1>4. CASE Begins \/ Installs
  BY <1>2, <1>4 DEF Begins, Installs, Following, Installed, Installing
<1>5. ASSUME Serving, NEW t \in Targets, Opens(t) \/ Closes(t) \/ Cancels(t)
      PROVE  Tapped' \subseteq guarded'
  <2>1. UNCHANGED <<guarded, owner>> /\ armed' \subseteq armed /\ supervising' \subseteq supervising
    BY <1>5 DEF Opens, Closes, Cancels, taskVars, ownerVars
  <2>2. QED BY <1>2, <1>3, <1>5, <2>1 DEF Installed
<1>6. ASSUME Serving, NEW t \in Targets, NEW url \in RequestUrls, Asks(t, url)
      PROVE  Tapped' \subseteq guarded'
  BY <1>2, <1>3, <1>6 DEF Asks, ownerVars, Installed
<1>7. ASSUME Serving, NEW t \in Targets, Attaches(t)
      PROVE  Tapped' \subseteq guarded'
  BY <1>2, <1>3, <1>7 DEF Attaches, browserVars, Installed, Installing
<1>8. CASE Serving /\ Receives
  <2>1. /\ UNCHANGED <<armed, supervising, tab, life, owner>> /\ Takes(Head(events))
        /\ events[1] = Head(events) /\ 1 \in 1 .. Len(events) /\ Head(events) \in HeardOnly(tab)
    BY <1>8, ReceivesFirst DEF browserVars
  <2>2. Tapped' = Tapped /\ Tapped \subseteq guarded
    BY <1>2, <1>8, <2>1 DEF TappedAreKnown, Tapped, Installed
  <2>3. Head(events).kind \in {"Attached", "Detached", "Paused", "Lagged"}
    BY <2>1 DEF HeardOnly, GuardEvents, Lagged
  <2>4. CASE Head(events).kind = "Detached"
    <3>1. life[TargetIn(tab, Head(events).session)] = "Closed"
      BY <1>8, <2>1, <2>4 DEF DetachedAreClosed
    <3>2. Head(events).session \notin Tapped
      BY <3>1 DEF TappedAreAlive
    <3>3. guarded' = guarded \ {Head(events).session}
      BY <2>1, <2>4 DEF Takes
    <3>4. QED BY <2>2, <3>2, <3>3
  <2>5. CASE Head(events).kind # "Detached"
    <3>1. guarded \subseteq guarded'
      BY <2>1, <2>3, <2>5 DEF Takes
    <3>2. QED BY <2>2, <3>1
  <2>6. QED BY <2>4, <2>5
<1>9. CASE Serving /\ Arms
  <2>1. /\ UNCHANGED <<guarded, owner>> /\ handler.session \in guarded
        /\ armed' \subseteq armed \cup {handler.session}
        /\ supervising' \subseteq supervising \cup {handler.session}
    BY <1>9 DEF Arms, ownerVars, TappedAreKnown
  <2>2. QED BY <1>2, <1>9, <2>1 DEF TappedAreKnown, Tapped, Installed
<1>10. CASE Serving /\ Decides
  BY <1>2, <1>3, <1>10 DEF Decides, ownerVars, Installed
<1>11. CASE Spawns
  <2>1. Tapped \subseteq {"Own"} /\ guarded' = {"Own"} /\ Tapped' = Tapped
    BY <1>11 DEF Spawns, browserVars, Untouched, Installed, Installing, Tapped
  <2>2. QED BY <2>1
<1>12. CASE Serving /\ TaskIsLeft
  BY <1>2, <1>3, <1>12 DEF TaskIsLeft
<1>13. QED BY <1>2, <1>4, <1>5, <1>6, <1>7, <1>8, <1>9, <1>10, <1>11, <1>12, ServingSteps

\* What is there stays there, in its place.
Keeps == \A i \in 1 .. Len(events) : i \in 1 .. Len(events') /\ events'[i] = events[i]

\* So it does when something comes.
LEMMA AddsKeeps ==
    ASSUME NEW S, events \in Seq(S), NEW T, NEW new \in Seq(T), Adds(new)
    PROVE  Keeps
<1>1. Len(events) \in Nat /\ Len(new) \in Nat
  BY LenProperties
<1>2. QED BY <1>1 DEF Adds, Keeps

\* An announcement stays one while the task has not come to it.
LEMMA AnnouncedStays ==
    ASSUME NEW t, NEW i \in 1 .. Len(events), AnnouncedAt(t, i), Keeps, guarded \subseteq guarded',
           t \notin guarded'
    PROVE  AnnouncedAt(t, i)' /\ i \in 1 .. Len(events')
<1>1. \A j \in 1 .. i - 1 : j \in 1 .. Len(events)
  OBVIOUS
<1>2. QED BY <1>1 DEF AnnouncedAt, Keeps, Knows

\* Who was told of stays so.
LEMMA WaiterIsLeft ==
    ASSUME Serving, WaitingAreTold, Keeps, UNCHANGED <<handler, guarded>>, NEW t \in Targets,
           life[t] = "Waiting"
    PROVE  WaiterIsTold(t)'
<1>1. CASE \E i \in 1 .. Len(events) : AnnouncedAt(t, i)
  <2>1. PICK i \in 1 .. Len(events) : AnnouncedAt(t, i)
    BY <1>1
  <2>2. t \notin guarded'
    BY <2>1 DEF AnnouncedAt
  <2>3. AnnouncedAt(t, i)' /\ i \in 1 .. Len(events')
    BY <2>1, <2>2, AnnouncedStays
  <2>4. QED BY <2>3 DEF WaiterIsTold
<1>2. CASE handler.at = "Arming" /\ handler.session = t /\ handler.todo \in Resuming
  BY <1>2 DEF WaiterIsTold
<1>3. QED BY <1>1, <1>2 DEF WaitingAreTold, WaiterIsTold

\* A list that ends with the order to go on still does when its first step is done.
LEMMA ResumingGoesOn ==
    ASSUME NEW l \in Resuming, Head(l) # "Resume"
    PROVE  l # <<>> /\ Tail(l) \in Resuming
<1>1. /\ Tail(<<"Fetch", "Supervise", "Resume">>) = <<"Supervise", "Resume">>
      /\ Tail(<<"Supervise", "Resume">>) = <<"Resume">>
      /\ Head(<<"Resume">>) = "Resume"
  OBVIOUS
<1>2. l = <<"Fetch", "Supervise", "Resume">> => l # <<>>
  OBVIOUS
<1>3. l = <<"Supervise", "Resume">> => l # <<>>
  OBVIOUS
<1>4. l \in {<<"Fetch", "Supervise", "Resume">>, <<"Supervise", "Resume">>}
  BY <1>1 DEF Resuming
<1>5. QED BY <1>1, <1>2, <1>3, <1>4 DEF Resuming

\* The list for one that waits ends with it.
LEMMA WaitersResume ==
    ASSUME NEW e, e.waiting
    PROVE  Todo(e) \in Resuming
<1> DEFINE k == kind[TargetOf(e.session)]
           first == CASE k = "tab" -> <<"Supervise">> [] k = "worker" -> <<>>
                      [] OTHER -> <<"Fetch", "Supervise">>
<1>1. Todo(e) = first \o <<"Resume">>
  BY DEF Todo
<1>2. first = <<"Supervise">> \/ first = <<>> \/ first = <<"Fetch", "Supervise">>
  OBVIOUS
<1> HIDE DEF k, first
<1>3. <<"Resume">> \in Seq(Doings)
  BY DEF Doings
<1>4. <<>> \o <<"Resume">> = <<"Resume">>
  BY <1>3, ConcatEmptySeq
<1>5. <<"Supervise">> \o <<"Resume">> = <<"Supervise", "Resume">>
  BY OneAfterOne
<1>6. <<"Fetch", "Supervise">> \o <<"Resume">> = <<"Fetch", "Supervise", "Resume">>
  BY TwoThenOne
<1>7. QED BY <1>1, <1>2, <1>4, <1>5, <1>6 DEF Resuming

\* A target that opens and waits is announced.
LEMMA OpenerIsTold ==
    ASSUME OpenersAreSound, GuardTypeOK, EventTypes, TappedAreAlive, DetachedAreClosed, TappedAreKnown,
           NewAreUnheard, Serving, Serving', NEW t \in Targets, Opens(t), life'[t] = "Waiting"
    PROVE  WaiterIsTold(t)'
<1>1. /\ UNCHANGED guarded /\ life[t] = "None" /\ Installed
      /\ \/ events' = events /\ life'[t] = "Running"
         \/ \E s \in Supervisors(t) :
               Attached(t, s, TRUE) \in HeardOnly(tab) /\ Adds(<<Attached(t, s, TRUE)>>)
  BY OpensTells
<1>2. PICK s \in Supervisors(t) :
         Attached(t, s, TRUE) \in HeardOnly(tab) /\ Adds(<<Attached(t, s, TRUE)>>)
  BY <1>1
<1> DEFINE e == Attached(t, s, TRUE)
           r == <<e>>
<1>3. Len(events) \in Nat /\ Len(r) = 1 /\ r[1] = e /\ Adds(r)
  BY <1>2, LenProperties DEF EventTypes
<1>4. PICK n \in Nat : n = Len(events) + 1
  BY <1>3
<1>a. n \in 1 .. Len(events') /\ events'[n] = e /\ \A j \in 1 .. n - 1 : j \in 1 .. Len(events)
  <2> HIDE DEF e, r
  <2>1. Len(events') = n /\ events'[n] = r[1]
    BY <1>3, <1>4 DEF Adds
  <2>2. n \in 1 .. n /\ n - 1 = Len(events)
    BY <1>3, <1>4
  <2>3. QED BY <1>3, <2>1, <2>2
<1>b. \A j \in 1 .. n - 1 : events'[j] = events[j]
  BY <1>3, <1>a DEF Adds
<1>5. t \notin guarded
      /\ \A j \in 1 .. Len(events) : events[j].kind = "Attached" => events[j].session # t
  BY <1>1 DEF NewAreUnheard
<1>6. s \in supervising
  BY DEF Supervisors
<1>7. Knows(s) /\ \A j \in 1 .. Len(events) : events[j].kind = "Detached" => events[j].session # s
  <2>1. CASE s = "Root"
    <3>1. \A on : TargetIn(on, "Root") \notin Targets
      BY TargetsOfSessions
    <3>2. QED BY <2>1, <3>1 DEF Knows, DetachedAreClosed
  <2>2. CASE s # "Root"
    <3>1. s \in Tapped
      BY <1>6, <2>2 DEF Tapped
    <3>2. s \in guarded /\ life[TargetIn(tab, s)] # "Closed"
      BY <1>1, <3>1 DEF TappedAreKnown, TappedAreAlive
    <3>3. QED BY <3>2 DEF Knows, DetachedAreClosed
  <2>3. QED BY <2>1, <2>2
<1>8. e.kind = "Attached" /\ e.session = t /\ e.waiting /\ e.parent = s
  BY DEF Attached
<1> HIDE DEF e, r
<1>9. \A j \in 1 .. n - 1 :
         /\ events'[j].kind = "Attached" => events'[j].session # t
         /\ events'[j].kind = "Detached" => events'[j].session # s
  BY <1>5, <1>7, <1>a, <1>b
<1>10. AnnouncedAt(t, n)'
  BY <1>1, <1>5, <1>7, <1>8, <1>9, <1>a DEF AnnouncedAt, Knows
<1>11. QED BY <1>10, <1>a DEF WaiterIsTold

\* Taking an event brings an announcement nearer, or is it.
LEMMA ReceivesTold ==
    ASSUME OpenersAreSound, GuardTypeOK, EventTypes, WaitingAreTold, Serving, Serving', Receives,
           NothingElseYet, NEW t \in Targets, life[t] = "Waiting"
    PROVE  WaiterIsTold(t)'
<1>1. /\ handler.at = "Receiving" /\ Takes(Head(events)) /\ Head(events) \in HeardOnly(tab)
      /\ 1 \in 1 .. Len(events) /\ events[1] = Head(events)
      /\ \A i \in 1 .. Len(events') : i + 1 \in 1 .. Len(events) /\ events'[i] = events[i + 1]
      /\ \A i \in 1 .. Len(events) : i # 1 =>
            i - 1 \in 1 .. Len(events') /\ (i - 1) + 1 = i /\ events'[i - 1] = events[i]
      /\ UNCHANGED owner
  BY ReceivesFirst
<1>2. PICK i \in 1 .. Len(events) : AnnouncedAt(t, i)
  BY <1>1 DEF WaitingAreTold, WaiterIsTold
<1> DEFINE e == Head(events)
<1>3. e.kind \in {"Attached", "Detached", "Paused", "Lagged"}
  BY <1>1 DEF HeardOnly, GuardEvents, Lagged
<1>4. CASE i = 1
  <2>1. e.kind = "Attached" /\ e.session = t /\ e.waiting /\ Knows(e.parent) /\ t \notin guarded
    BY <1>1, <1>2, <1>4 DEF AnnouncedAt
  <2>2. handler' = Task("Losing") \/ handler' = Doing("Arming", t, Todo(e))
    BY <1>1, <2>1 DEF Takes, Turns
  <2>3. handler' # Task("Losing")
    <3>1. owner \notin Installing
      BY <1>1 DEF NothingElseYet, Installed
    <3>2. QED BY <1>1, <3>1 DEF Serving, Task
  <2>4. QED BY <2>1, <2>2, <2>3, WaitersResume DEF WaiterIsTold, Doing
<1>5. CASE i # 1
  <2>1. \A j \in 1 .. (i - 1) - 1 : j + 1 \in 1 .. i - 1 /\ j \in 1 .. Len(events')
    BY <1>1, <1>5
  <2>2. 1 \in 1 .. i - 1
    BY <1>5
  <2>3. /\ e.kind = "Attached" => e.session # t
        /\ e.kind = "Detached" => e.session # events[i].parent
    BY <1>1, <1>2, <2>2 DEF AnnouncedAt
  <2>4. t \notin guarded' /\ (events[i].parent = "Root" \/ events[i].parent \in guarded')
    <3>1. t \notin guarded /\ Knows(events[i].parent)
      BY <1>2 DEF AnnouncedAt
    <3>2. \/ guarded' = guarded
          \/ guarded' = guarded \cup {e.session} /\ e.kind = "Attached"
          \/ guarded' = guarded \ {e.session} /\ e.kind = "Detached"
      BY <1>1, <1>3 DEF Takes
    <3>3. QED BY <2>3, <3>1, <3>2 DEF Knows
  <2>5. AnnouncedAt(t, i - 1)'
    <3>1. ASSUME NEW j \in 1 .. (i - 1) - 1
          PROVE  /\ events'[j].kind = "Attached" => events'[j].session # t
                 /\ events'[j].kind = "Detached" => events'[j].session # events[i].parent
      <4>1. events'[j] = events[j + 1] /\ j + 1 \in 1 .. i - 1
        BY <1>1, <2>1
      <4>2. \A k \in 1 .. i - 1 :
               /\ events[k].kind = "Attached" => events[k].session # t
               /\ events[k].kind = "Detached" => events[k].session # events[i].parent
        BY <1>2 DEF AnnouncedAt
      <4>3. QED BY <4>1, <4>2
    <3>2. events'[i - 1] = events[i]
      BY <1>1, <1>5
    <3>3. events[i].kind = "Attached" /\ events[i].session = t /\ events[i].waiting
      BY <1>2 DEF AnnouncedAt
    <3>4. QED BY <2>4, <3>1, <3>2, <3>3 DEF AnnouncedAt, Knows
  <2>6. QED BY <1>1, <1>5, <2>5 DEF WaiterIsTold
<1>6. QED BY <1>4, <1>5

\* Nothing to do is not an order to go on.
LEMMA EmptyIsNotResuming == <<>> \notin Resuming
<1>1. <<>> # <<"Fetch", "Supervise", "Resume">>
  OBVIOUS
<1>2. <<>> # <<"Supervise", "Resume">>
  OBVIOUS
<1>3. <<>> # <<"Resume">>
  OBVIOUS
<1>4. QED BY <1>1, <1>2, <1>3 DEF Resuming

\* What the task does for one target leaves the others announced, and lets that one go in the end.
LEMMA ArmsTold ==
    ASSUME OpenersAreSound, GuardTypeOK, WaitingAreTold, Serving, Serving', Arms, NothingElseYet,
           NEW t \in Targets, life'[t] = "Waiting"
    PROVE  WaiterIsTold(t)'
<1>a. life \in [Targets -> {"None", "Waiting", "Running", "Closed"}]
  BY DEF GuardTypeOK
<1>1. /\ UNCHANGED <<events, guarded, owner>> /\ handler.at = "Arming"
      /\ life' = life \/ life' = [life EXCEPT ![TargetOf(handler.session)] = "Running"]
  BY DEF Arms, ownerVars
<1>2. life[t] = "Waiting"
  BY <1>a, <1>1
<1>3. CASE \E i \in 1 .. Len(events) : AnnouncedAt(t, i)
  BY <1>1, <1>3 DEF WaiterIsTold, AnnouncedAt, Knows
<1>4. CASE handler.session = t /\ handler.todo \in Resuming
  <2>1. handler.todo # <<>>
    BY <1>4, EmptyIsNotResuming
  <2>2. Answers(t)
    <3>1. ~ Answers(t) => handler' = Task("Losing")
      BY <1>4, <2>1 DEF Arms, Turns
    <3>2. owner \notin Installing
      BY <1>1 DEF NothingElseYet, Installed
    <3>3. QED BY <1>1, <3>1, <3>2 DEF Serving, Task
  <2>3. /\ handler' = [handler EXCEPT !.todo = Tail(@)]
        /\ life' = IF Head(handler.todo) = "Resume" THEN [life EXCEPT ![TargetOf(t)] = "Running"]
                   ELSE life
    BY <1>4, <2>1, <2>2 DEF Arms, Turns
  <2>4. TargetOf(t) = t
    BY DEF TargetOf, OpenersAreSound
  <2>5. Head(handler.todo) # "Resume"
    BY <1>a, <1>2, <2>3, <2>4
  <2>6. Tail(handler.todo) \in Resuming
    BY <1>4, <2>5, ResumingGoesOn
  <2>7. handler'.at = "Arming" /\ handler'.session = t /\ handler'.todo = Tail(handler.todo)
    BY <1>1, <1>4, <2>3 DEF GuardTypeOK
  <2>8. QED BY <2>6, <2>7 DEF WaiterIsTold
<1>5. QED BY <1>1, <1>2, <1>3, <1>4 DEF WaitingAreTold, WaiterIsTold

\* WaitingAreTold is kept by every step.
LEMMA WaitingStay ==
    ASSUME OpenersAreSound, GuardTypeOK, EventTypes, EndsAreOwned, NothingElseYet, Untouched,
           TappedAreAlive, DetachedAreClosed, TappedAreKnown, NewAreUnheard, WaitingAreTold,
           [GuardNext]_guardVars
    PROVE  WaitingAreTold'
<1>1. SUFFICES ASSUME Serving', NEW t \in Targets, life'[t] = "Waiting"
               PROVE  WaiterIsTold(t)'
  BY DEF WaitingAreTold
<1>a. life \in [Targets -> {"None", "Waiting", "Running", "Closed"}]
      /\ events \in Seq(HeardOnly(tab)) /\ events \in Seq(GuardEvents)
  BY DEF GuardTypeOK, EventTypes
<1>b. UNCHANGED events => Keeps
  BY DEF Keeps
<1>2. CASE Begins
  BY <1>1, <1>2 DEF Begins, browserVars, Untouched, Installed
<1>3. ASSUME Serving, NEW u \in Targets, Opens(u)
      PROVE  WaiterIsTold(t)'
  <2>1. CASE u = t
    BY <1>1, <1>3, <2>1, OpenerIsTold
  <2>2. CASE u # t
    <3>1. UNCHANGED <<handler, guarded>> /\ life'[t] = life[t]
      BY <1>1, <1>3, <2>2, OpensTells
    <3>2. Keeps
      BY <1>1, <1>3, <1>a, <1>b, OpensTells, OneHeard, AddsKeeps
    <3>3. QED BY <1>1, <1>3, <3>1, <3>2, WaiterIsLeft
  <2>3. QED BY <2>1, <2>2
<1>4. ASSUME Serving, NEW u \in Targets, Closes(u)
      PROVE  WaiterIsTold(t)'
  <2>1. UNCHANGED <<handler, guarded>> /\ life'[u] = "Closed"
        /\ \A v \in Targets \ {u} : life'[v] = life[v]
    BY <1>1, <1>4, ClosesTells
  <2>2. PICK new \in Seq(HeardOnly(tab)) : Adds(new)
    BY <1>1, <1>4, ClosesTells
  <2>3. Keeps
    BY <1>a, <2>2, AddsKeeps
  <2>4. QED BY <1>1, <1>4, <2>1, <2>3, WaiterIsLeft
<1>5. ASSUME Serving, NEW u \in Targets, Cancels(u)
      PROVE  WaiterIsTold(t)'
  BY <1>1, <1>5, <1>b, WaiterIsLeft DEF Cancels, taskVars
<1>6. ASSUME Serving, NEW u \in Targets, NEW url \in RequestUrls, Asks(u, url)
      PROVE  WaiterIsTold(t)'
  <2>1. UNCHANGED <<handler, guarded, life>>
    BY <1>1, <1>6, AsksTells
  <2>2. PICK new \in Seq(HeardOnly(tab)) : Adds(new)
    BY <1>1, <1>6, AsksTells
  <2>3. Keeps
    BY <1>a, <2>2, AddsKeeps
  <2>4. QED BY <1>1, <1>6, <2>1, <2>3, WaiterIsLeft
<1>7. CASE Serving /\ (Installs \/ \E u \in Targets : Attaches(u))
  <2>1. UNCHANGED <<life, handler, guarded>>
    BY <1>1, <1>7, RootTells
  <2>2. Keeps
    BY <1>1, <1>7, <1>a, <1>b, RootTells, OneHeard, AddsKeeps
  <2>3. QED BY <1>1, <1>7, <2>1, <2>2, WaiterIsLeft
<1>8. CASE Serving /\ Receives
  <2>1. UNCHANGED life
    BY <1>8, ReceivesFirst DEF browserVars
  <2>2. QED BY <1>1, <1>8, <2>1, ReceivesTold
<1>9. CASE Serving /\ Arms
  BY <1>1, <1>9, ArmsTold
<1>10. CASE Serving /\ Decides
  <2>1. UNCHANGED <<life, events, guarded>> /\ handler.at = "Answering"
    BY <1>10 DEF Decides
  <2>2. QED BY <1>1, <1>10, <2>1 DEF WaitingAreTold, WaiterIsTold, AnnouncedAt, Knows
<1>11. CASE Serving /\ Spawns
  <2>1. UNCHANGED life /\ ~ Installed
    BY <1>11 DEF Spawns, browserVars, Installed, Installing
  <2>2. QED BY <1>1, <2>1 DEF Untouched
<1>12. CASE Serving /\ TaskIsLeft
  <2>1. UNCHANGED <<life, handler, guarded, events>>
    BY <1>12 DEF TaskIsLeft
  <2>2. QED BY <1>1, <1>12, <1>b, <2>1, WaiterIsLeft
<1>13. QED BY <1>1, <1>2, <1>3, <1>4, <1>5, <1>6, <1>7, <1>8, <1>9, <1>10, <1>11, <1>12, ServingSteps

\* What a session holds is finite.
LEMMA HeldIsFinite ==
    ASSUME OpenersAreSound
    PROVE  \A s : IsFiniteSet(Held(s)) /\ Cardinality(Held(s)) \in Nat
<1>1. \A s : Held(s) \in SUBSET Targets
  BY DEF Held
<1>2. QED BY <1>1, FS_Subset, FS_CardinalityType DEF OpenersAreSound

\* The same for what is held after a step.
LEMMA HeldStaysFinite ==
    ASSUME OpenersAreSound
    PROVE  \A s : IsFiniteSet(Held(s)') /\ Cardinality(Held(s)') \in Nat
<1>1. \A s : Held(s)' \in SUBSET Targets
  BY DEF Held
<1>2. QED BY <1>1, FS_Subset, FS_CardinalityType DEF OpenersAreSound

\* A session that holds no more than it did, with as many pauses to be answered.
LEMMA SessionIsLeft ==
    ASSUME OpenersAreSound, EventTypes, EventTypes', NEW s \in Sessions,
           Cardinality(Held(s)) <= Count(events, Paused(s)) + Answering(s),
           Held(s)' \subseteq Held(s),
           Count(events, Paused(s)) + Answering(s) <= Count(events', Paused(s)) + Answering(s)'
    PROVE  Cardinality(Held(s)') <= Count(events', Paused(s)) + Answering(s)'
<1>1. Count(events, Paused(s)) \in Nat /\ Count(events', Paused(s)) \in Nat
  BY PlacesAreFinite DEF EventTypes
<1>2. Answering(s) \in Nat /\ Answering(s)' \in Nat
  BY DEF Answering
<1>3. Cardinality(Held(s)) \in Nat /\ Cardinality(Held(s)') \in Nat
      /\ Cardinality(Held(s)') <= Cardinality(Held(s))
  BY HeldIsFinite, HeldStaysFinite, FS_Subset
<1>4. QED BY <1>1, <1>2, <1>3

\* Steps that give no session a request and leave the task as it is.
LEMMA PausesAreLeft ==
    ASSUME OpenersAreSound, EventTypes, EventTypes', Serving, PausesAreTold, UNCHANGED handler,
           \A s \in Sessions : Held(s)' \subseteq Held(s),
           UNCHANGED events \/ \E new \in Seq(GuardEvents) : Adds(new), GuardTypeOK
    PROVE  PausesAreTold'
<1>1. ASSUME NEW s \in Sessions
      PROVE  Count(events, Paused(s)) + Answering(s) <= Count(events', Paused(s)) + Answering(s)'
  <2>1. events \in Seq(GuardEvents) /\ events' \in Seq(GuardEvents)
    <3>1. HeardOnly(tab)' \subseteq GuardEvents
      BY DEF HeardOnly
    <3>2. QED BY <3>1, SeqMonotonic DEF GuardTypeOK, EventTypes
  <2>2. Count(events, Paused(s)) \in Nat /\ Count(events', Paused(s)) \in Nat
    BY <2>1, PlacesAreFinite
  <2>3. Count(events, Paused(s)) <= Count(events', Paused(s))
    <3>1. CASE UNCHANGED events
      BY <2>2, <3>1
    <3>2. CASE \E new \in Seq(GuardEvents) : Adds(new)
      BY <2>1, <3>2, AddingCounts
    <3>3. QED BY <3>1, <3>2
  <2>4. Answering(s)' = Answering(s) /\ Answering(s) \in Nat
    BY DEF Answering
  <2>5. QED BY <2>2, <2>3, <2>4
<1>2. QED BY <1>1, SessionIsLeft DEF PausesAreTold

\* Sessions hold what they held when the requests they hold stay or go.
LEMMA HeldGoes ==
    ASSUME UNCHANGED <<kind, tab>>,
           \A t \in Targets : request'[t] = request[t] \/ request'[t] = NoRequest
    PROVE  \A s : Held(s)' \subseteq Held(s)
  BY DEF Held, Asker, TargetOf, NoRequest

\* A request is paused for each session that holds it.
LEMMA AsksPaused ==
    ASSUME OpenersAreSound, GuardTypeOK, EventTypes, EventTypes', PausesAreTold, Serving, Serving',
           NEW t \in Targets, NEW url \in RequestUrls, Asks(t, url)
    PROVE  PausesAreTold'
<1>1. /\ UNCHANGED <<kind, tab, handler>> /\ request[t] = NoRequest
      /\ \A u \in Targets \ {t} : request'[u] = request[u]
      /\ request'[t] = IF Holders(t) = {} THEN NoRequest ELSE [url |-> url, at |-> Holders(t)]
  BY AsksTells
<1>2. PICK new \in Seq(HeardOnly(tab)) :
         Adds(new) /\ \A s \in Holders(t) : \E i \in 1 .. Len(new) : new[i] = Paused(s)
  BY AsksTells
<1>a. HeardOnly(tab) \subseteq GuardEvents
  BY DEF HeardOnly
<1>b. events \in Seq(GuardEvents) /\ new \in Seq(GuardEvents) /\ events' \in Seq(GuardEvents)
  BY <1>1, <1>a, SeqMonotonic DEF EventTypes
<1>3. ASSUME NEW s \in Sessions, s \notin Holders(t)
      PROVE  Cardinality(Held(s)') <= Count(events', Paused(s)) + Answering(s)'
  <2>1. Held(s)' \subseteq Held(s)
    BY <1>1, <1>3 DEF Held, Asker, TargetOf, NoRequest
  <2>2. Count(events, Paused(s)) <= Count(events', Paused(s))
        /\ Count(events, Paused(s)) \in Nat /\ Count(events', Paused(s)) \in Nat
    BY <1>2, <1>b, AddingCounts, PlacesAreFinite
  <2>3. Answering(s)' = Answering(s) /\ Answering(s) \in Nat
    BY <1>1 DEF Answering
  <2>4. QED BY <2>1, <2>2, <2>3, SessionIsLeft DEF PausesAreTold
<1>4. ASSUME NEW s \in Sessions, s \in Holders(t)
      PROVE  Cardinality(Held(s)') <= Count(events', Paused(s)) + Answering(s)'
  <2>1. Held(s)' \subseteq Held(s) \cup {t}
    BY <1>1 DEF Held, Asker, TargetOf
  <2>2. Cardinality(Held(s)') <= Cardinality(Held(s)) + 1
    <3>1. IsFiniteSet(Held(s)) /\ Cardinality(Held(s)) \in Nat /\ Cardinality(Held(s)') \in Nat
      BY HeldIsFinite, HeldStaysFinite
    <3>2. IsFiniteSet(Held(s) \cup {t}) /\ Cardinality(Held(s) \cup {t}) \in Nat
          /\ Cardinality(Held(s) \cup {t}) <= Cardinality(Held(s)) + 1
      <4>1. /\ IsFiniteSet(Held(s) \cup {t})
            /\ \/ Cardinality(Held(s) \cup {t}) = Cardinality(Held(s))
               \/ Cardinality(Held(s) \cup {t}) = Cardinality(Held(s)) + 1
        BY <3>1, FS_AddElement
      <4>2. QED BY <3>1, <4>1
    <3>3. Cardinality(Held(s)') <= Cardinality(Held(s) \cup {t})
      BY <2>1, <3>2, FS_Subset
    <3>4. QED BY <3>1, <3>2, <3>3
  <2>3. Count(events, Paused(s)) + 1 <= Count(events', Paused(s))
        /\ Count(events, Paused(s)) \in Nat /\ Count(events', Paused(s)) \in Nat
    BY <1>2, <1>4, <1>b, AddingCounts, PlacesAreFinite
  <2>4. Answering(s)' = Answering(s) /\ Answering(s) \in Nat
    BY <1>1 DEF Answering
  <2>5. Cardinality(Held(s)) <= Count(events, Paused(s)) + Answering(s)
    BY DEF PausesAreTold
  <2>6. Cardinality(Held(s)) \in Nat /\ Cardinality(Held(s)') \in Nat
    BY HeldIsFinite, HeldStaysFinite
  <2>7. QED BY <2>2, <2>3, <2>4, <2>5, <2>6
<1>5. QED BY <1>3, <1>4 DEF PausesAreTold

\* The pause the task takes is the one it answers, unless nobody holds anything by that session.
LEMMA ReceivesPaused ==
    ASSUME OpenersAreSound, GuardTypeOK, EventTypes, EventTypes', NothingElseYet, AskersRun,
           TappedAreKnown, PausesAreTold, Serving, Receives
    PROVE  PausesAreTold'
<1>1. /\ UNCHANGED <<kind, request, tab>> /\ handler.at = "Receiving" /\ Takes(Head(events))
      /\ events # <<>> /\ events' = Tail(events) /\ Head(events) \in HeardOnly(tab)
  BY ReceivesFirst DEF browserVars
<1>2. Head(events).kind \in {"Attached", "Detached", "Paused", "Lagged"}
  BY <1>1 DEF HeardOnly, GuardEvents, Lagged
<1>3. SUFFICES ASSUME NEW s \in Sessions
               PROVE  Cardinality(Held(s)') <= Count(events', Paused(s)) + Answering(s)'
  BY DEF PausesAreTold
<1>4. Held(s)' = Held(s)
  BY <1>1 DEF Held, Asker, TargetOf
<1>5. Count(events, Paused(s))
         <= Count(events', Paused(s)) + (IF Head(events) = Paused(s) THEN 1 ELSE 0)
      /\ Count(events, Paused(s)) \in Nat /\ Count(events', Paused(s)) \in Nat
  BY <1>1, TakingCounts, PlacesAreFinite DEF EventTypes
<1>6. Answering(s) = 0 /\ Answering(s)' \in Nat
  BY <1>1 DEF Answering
<1>7. CASE Head(events) # Paused(s)
  BY <1>4, <1>5, <1>6, <1>7, SessionIsLeft DEF PausesAreTold
<1>8. CASE Head(events) = Paused(s) /\ s \in guarded
  <2>1. Head(events).kind = "Paused" /\ Head(events).session = s
    BY <1>8 DEF Paused
  <2>2. handler' = Doing("Answering", s, <<>>)
    BY <1>1, <1>8, <2>1 DEF Takes, Turns
  <2>3. Answering(s)' = 1
    BY <2>2 DEF Answering, Doing
  <2>4. QED BY <1>4, <1>5, <1>6, <1>8, <2>3, SessionIsLeft DEF PausesAreTold
<1>9. CASE s \notin guarded
  <2>1. Installed
    BY <1>1 DEF NothingElseYet
  <2>2. s \notin armed
    BY <1>9, <2>1 DEF TappedAreKnown, Tapped, Sessions, OpenersAreSound
  <2>3. Held(s) = {}
    <3>1. \A t \in Targets : s \in request[t].at => request[t] # NoRequest
      BY DEF NoRequest
    <3>2. QED BY <2>2, <3>1 DEF Held, AskersRun
  <2>4. Cardinality(Held(s)') = 0
    BY <1>4, <2>3, FS_EmptySet
  <2>5. QED BY <1>5, <1>6, <2>4
<1>10. QED BY <1>7, <1>8, <1>9

\* A pause that is answered holds the request no more.
LEMMA DecidesPaused ==
    ASSUME OpenersAreSound, GuardTypeOK, EventTypes, EventTypes', NothingElseYet, PausesAreTold,
           Serving, Serving', Decides
    PROVE  PausesAreTold'
<1> DEFINE a == handler.session
<1>1. UNCHANGED <<kind, tab, events, owner>> /\ handler.at = "Answering"
  BY DEF Decides, ownerVars
<1>2. /\ handler' = Task("Receiving")
      /\ \E t \in Held(a) :
            request' = [request EXCEPT ![t] =
                           IF request[t].url = "In" /\ request[t].at \ {a} # {}
                           THEN [@ EXCEPT !.at = request[t].at \ {a}] ELSE NoRequest]
  <2>1. owner \notin Installing
    BY <1>1 DEF NothingElseYet, Installed
  <2>2. handler' # Task("Losing")
    BY <1>1, <2>1 DEF Serving, Task
  <2>3. QED BY <2>2 DEF Decides, Turns
<1>3. PICK t \in Held(a) :
         request' = [request EXCEPT ![t] = IF request[t].url = "In" /\ request[t].at \ {a} # {}
                                           THEN [@ EXCEPT !.at = request[t].at \ {a}] ELSE NoRequest]
  BY <1>2
<1>4. t \in Targets /\ a \in request[t].at
      /\ request \in [Targets -> [url : RequestUrls \cup {"None"}, at : SUBSET Sessions]]
  BY DEF Held, GuardTypeOK
<1>5. /\ \A u \in Targets \ {t} : request'[u] = request[u]
      /\ request'[t].at \subseteq request[t].at \ {a}
  BY <1>3, <1>4 DEF NoRequest
<1>6. PICK b : b = a
  OBVIOUS
<1> HIDE DEF a
<1>7. SUFFICES ASSUME NEW s \in Sessions
               PROVE  Cardinality(Held(s)') <= Count(events', Paused(s)) + Answering(s)'
  BY DEF PausesAreTold
<1>8. Held(s)' \subseteq Held(s) /\ (s = b => t \notin Held(s)')
  BY <1>1, <1>4, <1>5, <1>6 DEF Held, Asker, TargetOf
<1>9. /\ Count(events, Paused(s)) \in Nat /\ Count(events', Paused(s)) = Count(events, Paused(s))
      /\ Answering(s)' = 0
  BY <1>1, <1>2, PlacesAreFinite DEF EventTypes, Answering, Task
<1>10. Cardinality(Held(s)) <= Count(events, Paused(s)) + Answering(s)
  BY DEF PausesAreTold
<1>11. CASE s # b
  <2>1. Answering(s) = 0
    BY <1>6, <1>11 DEF Answering, a
  <2>2. QED BY <1>8, <1>9, <1>10, <2>1, SessionIsLeft
<1>12. CASE s = b
  <2>1. Answering(s) = 1
    BY <1>1, <1>6, <1>12 DEF Answering, a
  <2>2. t \in Held(s) /\ Held(s)' \subseteq Held(s) \ {t}
    BY <1>3, <1>6, <1>8, <1>12
  <2>3. Cardinality(Held(s)) \in Nat /\ IsFiniteSet(Held(s)) /\ Cardinality(Held(s)') \in Nat
    BY HeldIsFinite, HeldStaysFinite
  <2>4. IsFiniteSet(Held(s) \ {t}) /\ Cardinality(Held(s) \ {t}) = Cardinality(Held(s)) - 1
    BY <2>2, <2>3, FS_RemoveElement
  <2>5. Cardinality(Held(s)') <= Cardinality(Held(s)) - 1
    BY <2>2, <2>4, FS_Subset
  <2>6. QED BY <1>9, <1>10, <2>1, <2>3, <2>5
<1>13. QED BY <1>11, <1>12

\* PausesAreTold is kept by every step.
LEMMA PausesStay ==
    ASSUME OpenersAreSound, GuardTypeOK, EventTypes, EventTypes', EndsAreOwned, NothingElseYet,
           Untouched, TappedAreAlive, AskersRun, TappedAreKnown, PausesAreTold, [GuardNext]_guardVars
    PROVE  PausesAreTold'
<1>1. SUFFICES ASSUME Serving'
               PROVE  PausesAreTold'
  BY DEF PausesAreTold
<1>a. HeardOnly(tab) \subseteq GuardEvents
  BY DEF HeardOnly
<1>b. \A new \in Seq(HeardOnly(tab)) : new \in Seq(GuardEvents)
  BY <1>a, SeqMonotonic
<1>2. CASE Begins
  <2>1. \A t \in Targets : request'[t] = NoRequest
    BY <1>2 DEF Begins, browserVars, Untouched, Installed
  <2>2. \A s : Held(s)' = {}
    BY <2>1 DEF Held, NoRequest
  <2>3. \A s : Cardinality(Held(s)') = 0
    BY <2>2, FS_EmptySet
  <2>4. \A s : Count(events', Paused(s)) \in Nat /\ Answering(s)' \in Nat
    BY PlacesAreFinite DEF EventTypes, Answering
  <2>5. QED BY <2>3, <2>4 DEF PausesAreTold
<1>3. ASSUME Serving, NEW t \in Targets, Opens(t)
      PROVE  PausesAreTold'
  <2>1. UNCHANGED <<kind, request, handler, tab>>
    BY <1>1, <1>3, OpensTells
  <2>2. UNCHANGED events \/ \E new \in Seq(GuardEvents) : Adds(new)
    BY <1>1, <1>3, <1>b, OpensTells, OneHeard
  <2>3. QED BY <1>3, <2>1, <2>2, HeldGoes, PausesAreLeft
<1>4. ASSUME Serving, NEW t \in Targets, Closes(t)
      PROVE  PausesAreTold'
  <2>1. /\ UNCHANGED <<kind, handler, tab>> /\ request'[t] = NoRequest
        /\ \A u \in Targets \ {t} : request'[u] = request[u]
        /\ \E new \in Seq(HeardOnly(tab)) : Adds(new)
    BY <1>1, <1>4, ClosesTells
  <2>2. \E new \in Seq(GuardEvents) : Adds(new)
    BY <1>b, <2>1
  <2>3. \A u \in Targets : request'[u] = request[u] \/ request'[u] = NoRequest
    BY <2>1
  <2>4. QED BY <1>4, <2>1, <2>2, <2>3, HeldGoes, PausesAreLeft
<1>5. ASSUME Serving, NEW t \in Targets, Cancels(t)
      PROVE  PausesAreTold'
  <2>1. UNCHANGED <<kind, events, handler, tab>>
        /\ \A u \in Targets : request'[u] = request[u] \/ request'[u] = NoRequest
    BY <1>5 DEF Cancels, taskVars, ownerVars, GuardTypeOK
  <2>2. QED BY <1>5, <2>1, HeldGoes, PausesAreLeft
<1>6. ASSUME Serving, NEW t \in Targets, NEW url \in RequestUrls, Asks(t, url)
      PROVE  PausesAreTold'
  BY <1>1, <1>6, AsksPaused
<1>7. CASE Serving /\ Installs
  <2>1. UNCHANGED <<kind, request, handler, tab>>
    BY <1>7 DEF Installs
  <2>2. UNCHANGED events \/ \E new \in Seq(GuardEvents) : Adds(new)
    BY <1>1, <1>7, RootTells, OneHeard
  <2>3. QED BY <1>7, <2>1, <2>2, HeldGoes, PausesAreLeft
<1>8. ASSUME Serving, NEW t \in Targets, Attaches(t)
      PROVE  PausesAreTold'
  <2>1. UNCHANGED <<kind, request, handler>> /\ tab = "None"
    BY <1>8 DEF Attaches, browserVars
  <2>2. UNCHANGED events \/ \E new \in Seq(GuardEvents) : Adds(new)
    BY <1>1, <1>8, RootTells, OneHeard
  <2>3. ASSUME NEW s \in Sessions
        PROVE  Held(s)' \subseteq Held(s)
    <3>1. CASE s = "Other"
      <4>1. "Other" \notin armed
        BY <2>1, TargetsOfSessions DEF TappedAreAlive, Tapped, OpenersAreSound
      <4>2. \A u \in Targets : "Other" \notin request[u].at
        BY <4>1 DEF AskersRun, NoRequest
      <4>3. QED BY <2>1, <3>1, <4>2 DEF Held
    <3>2. CASE s # "Other"
      BY <2>1, <3>2 DEF Held, Asker, TargetOf
    <3>3. QED BY <3>1, <3>2
  <2>4. QED BY <1>8, <2>1, <2>2, <2>3, PausesAreLeft
<1>9. CASE Serving /\ Receives
  BY <1>9, ReceivesPaused
<1>10. CASE Serving /\ Arms
  <2>1. /\ UNCHANGED <<kind, request, tab, events>> /\ handler.at = "Arming"
        /\ handler'.at # "Answering"
    BY <1>10 DEF Arms, Turns, Task, ownerVars, GuardTypeOK
  <2>2. \A s : Answering(s) = 0 /\ Answering(s)' = 0 /\ Held(s)' = Held(s)
    BY <2>1 DEF Answering, Held, Asker, TargetOf
  <2>3. \A s : /\ Cardinality(Held(s)') = Cardinality(Held(s))
               /\ Count(events', Paused(s)) = Count(events, Paused(s))
    BY <2>1, <2>2
  <2>4. QED BY <1>10, <2>2, <2>3 DEF PausesAreTold
<1>11. CASE Serving /\ Decides
  BY <1>1, <1>11, DecidesPaused
<1>12. CASE Serving /\ Spawns
  <2>1. \A t \in Targets : request'[t] = NoRequest
    BY <1>12 DEF Spawns, browserVars, Untouched, Installed, Installing
  <2>2. \A s : Held(s)' = {}
    BY <2>1 DEF Held, NoRequest
  <2>3. \A s : Cardinality(Held(s)') = 0
    BY <2>2, FS_EmptySet
  <2>4. \A s : Count(events', Paused(s)) \in Nat /\ Answering(s)' \in Nat
    BY PlacesAreFinite DEF EventTypes, Answering
  <2>5. QED BY <2>3, <2>4 DEF PausesAreTold
<1>13. CASE Serving /\ TaskIsLeft
  <2>1. UNCHANGED <<kind, request, events, handler, tab>>
    BY <1>13 DEF TaskIsLeft
  <2>2. QED BY <1>13, <2>1, HeldGoes, PausesAreLeft
<1>14. QED
  BY <1>1, <1>2, <1>3, <1>4, <1>5, <1>6, <1>7, <1>8, <1>9, <1>10, <1>11, <1>12, <1>13, ServingSteps

\* A browser whose page has no policy yet has told nobody anything.
LEMMA ToldBegins ==
    ASSUME OpenersAreSound, GuardInit
    PROVE  ToldInv
<1>1. /\ armed = {} /\ supervising = {} /\ events = <<>> /\ guarded = {} /\ owner = "Blank"
      /\ handler.at = "None" /\ request = [t \in Targets |-> NoRequest]
      /\ life = [t \in Targets |-> IF t = Main THEN "Running" ELSE "None"]
  BY DEF GuardInit, Task
<1>2. \A i \in 1 .. Len(events) : FALSE
  BY <1>1
<1>3. Tapped = {}
  BY <1>1 DEF Tapped
<1>4. TappedAreAlive /\ AskersRun /\ Untouched /\ TappedAreKnown
  BY <1>1, <1>3 DEF TappedAreAlive, AskersRun, Untouched, TappedAreKnown, Installed
<1>5. DetachedAreClosed /\ NewAreUnheard
  BY <1>1, <1>2 DEF DetachedAreClosed, NewAreUnheard
<1>6. WaitingAreTold
  BY <1>1 DEF WaitingAreTold
<1>7. \A s : Held(s) = {}
  BY <1>1 DEF Held, NoRequest
<1>8. \A s : Cardinality(Held(s)) = 0
  BY <1>7, FS_EmptySet
<1>9. \A s : Count(events, Paused(s)) \in Nat /\ Answering(s) \in Nat
  <2>1. <<>> \in Seq({})
    BY EmptySeq
  <2>2. QED BY <1>1, <2>1, PlacesAreFinite DEF Answering
<1>10. PausesAreTold
  BY <1>8, <1>9 DEF PausesAreTold
<1>11. QED BY <1>4, <1>5, <1>6, <1>10 DEF ToldInv

\* Whoever waits for the task is one it will come to: when it has nothing left to do, no target
\* is held before it runs and no request is paused.
THEOREM GuardLeavesNobody ==
    ASSUME OpenersAreSound, BacklogIsPositive
    PROVE  GuardSpec => []NobodyIsLeftWaiting
<1>1. GuardSpec => []GuardInv
  BY GuardInvariance
<1>2. GuardInit => ToldInv
  BY ToldBegins
<1>3. ASSUME GuardInv, GuardInv', ToldInv, [GuardNext]_guardVars
      PROVE  ToldInv'
  <2>1. /\ GuardTypeOK /\ EventTypes /\ Prepared /\ EndsAreOwned /\ NothingElseYet /\ EventTypes'
        /\ TappedAreAlive /\ AskersRun /\ Untouched /\ DetachedAreClosed /\ TappedAreKnown
        /\ NewAreUnheard /\ WaitingAreTold /\ PausesAreTold
    BY <1>3 DEF GuardInv, ToldInv, EventTypes, GuardTypeOK
  <2>2. TappedAreAlive' /\ AskersRun' /\ Untouched'
    BY <1>3, <2>1, AliveStays, AskersStay, UntouchedStays
  <2>3. DetachedAreClosed' /\ TappedAreKnown' /\ NewAreUnheard'
    BY <1>3, <2>1, DetachedStay, KnownStay, NewStay
  <2>4. WaitingAreTold' /\ PausesAreTold'
    BY <1>3, <2>1, WaitingStay, PausesStay
  <2>5. QED BY <2>2, <2>3, <2>4 DEF ToldInv
<1>4. GuardInv /\ ToldInv => NobodyIsLeftWaiting
  <2> SUFFICES ASSUME GuardInv, ToldInv, Receiving, events = <<>>, NEW t \in Targets
               PROVE  life[t] # "Waiting" /\ request[t] = NoRequest
    BY DEF NobodyIsLeftWaiting
  <2>1. Len(events) = 0 /\ handler.at = "Receiving" /\ events \in Seq(HeardOnly(tab))
    BY DEF Receiving, Task, GuardInv
  <2>2. Serving
    BY <2>1 DEF Serving, Behind, Receiving
  <2>3. life[t] # "Waiting"
    BY <2>1, <2>2 DEF ToldInv, WaitingAreTold, WaiterIsTold
  <2>4. ASSUME request[t] # NoRequest
        PROVE  FALSE
    <3>1. PICK s \in request[t].at : TargetIn(tab, s) = Asker(t)
      BY <2>4 DEF ToldInv, AskersRun
    <3>2. s \in Sessions
      BY DEF GuardInv, GuardTypeOK
    <3>3. t \in Held(s)
      BY <3>1 DEF Held, TargetOf, TargetIn
    <3>4. Places(events, Paused(s)) = {}
      BY <2>1 DEF Places
    <3>5. Count(events, Paused(s)) = 0 /\ Answering(s) = 0
      BY <2>1, <3>4, FS_EmptySet DEF Count, Answering
    <3>6. Cardinality(Held(s)) \in Nat /\ IsFiniteSet(Held(s)) /\ Cardinality(Held(s)) <= 0
      BY <2>2, <3>2, <3>5, HeldIsFinite DEF ToldInv, PausesAreTold
    <3>7. Held(s) = {}
      BY <3>6, FS_EmptySet
    <3>8. QED BY <3>3, <3>7
  <2>5. QED BY <2>3, <2>4
<1>5. QED BY <1>1, <1>2, <1>3, <1>4, PTL DEF GuardSpec
=============================================================================
