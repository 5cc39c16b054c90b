--------------------------- MODULE QueueScheduler ---------------------------
(***************************************************************************)
(* The queue scheduling service: one process that hands out queue numbers, *)
(* releases them in batches and answers released numbers with an Admission *)
(* Grant.  Its durable state is one snapshot key and one leased issuance   *)
(* key per identity in etcd; the process is single threaded, so a request  *)
(* or a frame is one step, split by what etcd did with each call.          *)
(*                                                                         *)
(* A lost answer does not say whether etcd applied the write.  A crash in  *)
(* the middle of a request is such a step followed by Crash.               *)
(***************************************************************************)
EXTENDS Integers, Sequences, FiniteSets, FiniteSetsExt

CONSTANTS
    Identities,      \* identity_jti of the login attempts
    IdentityExpiry,  \* [Identities -> Nat]: exp of the Identity Token
    NumberTtl,       \* queued_number_ttl
    GrantWindow,     \* admit_grace
    Leeway,          \* jws_clock_leeway
    LeaseBucket,     \* lease_bucket_seconds
    ReleaseStep,     \* release_step
    MaxAllowance,    \* bound on min(gateway, realm) budget read from etcd
    MaxNumber,       \* largest value of next_number (2^64 - 1 in the code)
    MaxTime,         \* bound on the clock
    MaxStepBack,     \* how far the wall clock may step back (0: never)
    MaxLate          \* bound on timed out writes that etcd may still apply later

ASSUME ConstantsAssumption ==
    /\ IdentityExpiry \in [Identities -> Nat]
    /\ NumberTtl \in Nat \ {0}
    /\ GrantWindow \in Nat \ {0}
    /\ Leeway \in Nat
    /\ LeaseBucket \in Nat \ {0}
    /\ ReleaseStep \in Nat
    /\ MaxAllowance \in Nat
    /\ MaxNumber \in Nat \ {0}
    /\ MaxTime \in Nat
    /\ MaxStepBack \in Nat
    /\ MaxLate \in Nat

VARIABLES
    clock,      \* elapsed time, by which etcd expires leases
    drift,      \* how far the process's wall clock is behind
    up,         \* the process is running
    core,       \* QueueCore: watermarks and release ledger in memory
    uncertain,  \* issuance_state_uncertain_
    allowance,  \* budgets_: the aggregate of the last budget poll, 0 if unknown
    leases,     \* issuance_leases_: expiry bucket -> etcd lease
    snap,       \* etcd: the snapshot key
    issuance,   \* etcd: the issuance keys
    late,       \* writes that timed out and that etcd may still apply
    tokens,     \* queue number tokens handed to clients
    grants,     \* Admission Grants handed to clients
    progress    \* released_number last answered by /v1/queue/progress

memory    == <<core, uncertain, allowance, leases>>
etcd      == <<snap, issuance, late>>
handedOut == <<tokens, grants, progress>>
time      == <<clock, drift>>
queueVars == <<time, up, memory, etcd, handedOut>>

(* system_clock::now() of the process. *)
Wall == clock - drift

-----------------------------------------------------------------------------
(* QueueReleaseBatch and QueueSnapshot; admit_rate is derived, so left out. *)
Batch    == [first : Nat, last : Nat, at : Int]
Snapshot == [released : Nat, next : Nat, pruned : Nat, batches : Seq(Batch)]

NoSnapshot == [released |-> 0, next |-> 0, pruned |-> 0, batches |-> <<>>]
EmptyCore  == [released |-> 0, next |-> 1, pruned |-> 0, batches |-> <<>>]

(* An issuance mapping: number, issued_at and the lease it hangs on. *)
Mapping   == [number : Nat, issued_at : Int, lease : Int]
NoMapping == [number |-> 0, issued_at |-> 0, lease |-> 0]

NoLeases == [b \in {} |-> 0]

Mapped(i) == issuance[i] # NoMapping

(* QueueSnapshot::validate: the batches cover (pruned, released] exactly,  *)
(* without a gap, in the order of their times.                             *)
Valid(s) ==
    /\ s.released < s.next
    /\ s.pruned <= s.released
    /\ \A k \in 1..Len(s.batches) :
         LET b == s.batches[k] IN
         /\ b.first = IF k = 1 THEN s.pruned + 1 ELSE s.batches[k-1].last + 1
         /\ b.first <= b.last
         /\ b.last <= s.released
         /\ k > 1 => s.batches[k-1].at <= b.at
    /\ s.released = IF s.batches = <<>> THEN s.pruned
                                        ELSE s.batches[Len(s.batches)].last

WindowOver(b, now) == now > b.at + GrantWindow + Leeway

(* Mutant of Prune: the pruned mark is left behind. *)
PruneWithoutMark(s, now) ==
    [s EXCEPT !.batches = SelectSeq(@, LAMBDA b : ~WindowOver(b, now))]

(* prune_release_batches: drop the leading batches whose window is over. *)
Prune(s, now) ==
    LET over == { k \in 0..Len(s.batches) :
                    \A j \in 1..k : WindowOver(s.batches[j], now) }
        n    == CHOOSE k \in over : \A j \in over : j <= k
    IN  [released |-> s.released,
         next     |-> s.next,
         pruned   |-> IF n = 0 THEN s.pruned ELSE s.batches[n].last,
         batches  |-> SubSeq(s.batches, n + 1, Len(s.batches))]

(* restore refuses a snapshot with a release from the future. *)
Restorable(s, now) ==
    /\ Valid(s)
    /\ \A k \in 1..Len(s.batches) : s.batches[k].at <= now + Leeway

(* Mutant of BatchSize: the newest number always waits for a later one. *)
BatchSizeKeepsNewest ==
    Min({allowance, ReleaseStep,
         IF core.next < 2 + core.released THEN 0 ELSE core.next - 2 - core.released})

(* release_batch: the size of the next batch, and the core after it. *)
BatchSize ==
    Min({allowance, ReleaseStep, core.next - 1 - core.released})

WithBatch(s, n, now) ==
    [released |-> s.released + n,
     next     |-> s.next,
     pruned   |-> s.pruned,
     batches  |-> Append(s.batches, [first |-> s.released + 1,
                                     last  |-> s.released + n,
                                     at    |-> now])]

(* release_eligibility of a number, as the batch that released it. *)
Eligible(s, number, now) ==
    { s.batches[k] : k \in { j \in 1..Len(s.batches) :
                               /\ s.batches[j].first <= number
                               /\ number <= s.batches[j].last
                               /\ ~WindowOver(s.batches[j], now) } }

-----------------------------------------------------------------------------
QueueInit ==
    /\ clock = 0
    /\ drift = 0
    /\ up = FALSE
    /\ core = EmptyCore
    /\ uncertain = FALSE
    /\ allowance = 0
    /\ leases = NoLeases
    /\ snap = NoSnapshot
    /\ issuance = [i \in Identities |-> NoMapping]
    /\ late = {}
    /\ tokens = {}
    /\ grants = {}
    /\ progress = 0

-----------------------------------------------------------------------------
(* Issuing a number: QueueTicketing::issue over EtcdQueueStore.            *)

(* The checks before anything is sent.  An identity that is valid only by  *)
(* the leeway, and the last number, are refused with an exception, which   *)
(* the HTTP server turns into a 500 with no effect.                        *)
IssueReady(i) ==
    /\ up
    /\ ~uncertain
    /\ Wall < IdentityExpiry[i]
    /\ core.next # MaxNumber

(* Expiry rounded up to the lease bucket. *)
Bucket(i) ==
    ((IdentityExpiry[i] + LeaseBucket - 1) \div LeaseBucket) * LeaseBucket

(* Cached leases that have not expired by the wall clock. *)
CachedBuckets == { b \in DOMAIN leases : b > Wall }

(* The leases after a grant for the bucket of i; its TTL is Bucket - Wall. *)
LeasesWith(i) ==
    [b \in CachedBuckets \cup {Bucket(i)} |->
        IF b \in CachedBuckets THEN leases[b] ELSE b + drift]

NewMapping(i) ==
    [number |-> core.next, issued_at |-> Wall, lease |-> LeasesWith(i)[Bucket(i)]]

(* Mutant of Committed: the number is used without being counted. *)
CommittedUncounted == core

Committed == [core EXCEPT !.next = @ + 1]

(* Mutant of TxnWrites: the transaction without its compare. *)
TxnAlwaysWrites(i) == TRUE

(* The write of the issuing transaction: only if i has no mapping yet. *)
TxnWrites(i) == ~Mapped(i)

LeaseAlive(i) == NewMapping(i).lease > clock

ApplyTxn(i) ==
    /\ snap'     = IF TxnWrites(i) THEN Committed ELSE snap
    /\ issuance' = IF TxnWrites(i) THEN [issuance EXCEPT ![i] = NewMapping(i)]
                                   ELSE issuance

(* recovered_issue_result on a mapping and a snapshot read back. *)
Recoverable(m, s) ==
    /\ m # NoMapping
    /\ Valid(s)
    /\ m.number < s.next

Token(i, m) ==
    [id |-> i, number |-> m.number, iat |-> m.issued_at,
     exp |-> Min({IdentityExpiry[i], m.issued_at + NumberTtl})]

(* The end of issue: restore the returned snapshot and sign the token; a   *)
(* restore that throws leaves the core as it was and answers 500.          *)
Deliver(i, m, s) ==
    IF Restorable(s, Wall)
      THEN /\ core' = Prune(s, Wall)
           /\ tokens' = tokens \cup {Token(i, m)}
      ELSE UNCHANGED <<core, tokens>>

(* The lease grant failed: nothing is sent, the answer is 503. *)
IssueWithoutLease(i) ==
    /\ IssueReady(i)
    /\ Bucket(i) \notin CachedBuckets
    /\ leases' = [b \in CachedBuckets |-> leases[b]]
    /\ UNCHANGED <<time, up, core, uncertain, allowance, etcd, handedOut>>

(* The transaction was answered: a fresh number, or the one of before. *)
IssueAnswered(i) ==
    /\ IssueReady(i)
    /\ LeaseAlive(i) \/ ~TxnWrites(i)
    /\ leases' = LeasesWith(i)
    /\ ApplyTxn(i)
    /\ IF TxnWrites(i) \/ Recoverable(issuance[i], snap)
         THEN /\ Deliver(i, issuance'[i], snap')
              /\ UNCHANGED uncertain
         ELSE /\ uncertain' = TRUE
              /\ UNCHANGED <<core, tokens>>
    /\ UNCHANGED <<time, up, allowance, late, grants, progress>>

(* The transaction was not answered, or refused for a dead lease.  The     *)
(* mapping is read back: if it is there the number stands, otherwise the   *)
(* process stops issuing and saving for good.                              *)
IssueUnanswered(i) ==
    /\ IssueReady(i)
    /\ leases' = LeasesWith(i)
    /\ \/ /\ LeaseAlive(i) \/ ~TxnWrites(i)
          /\ ApplyTxn(i)
          /\ UNCHANGED late
       \/ /\ UNCHANGED <<snap, issuance>>
          /\ \/ UNCHANGED late
             \/ /\ Cardinality(late) < MaxLate
                /\ late' = late \cup {[id |-> {i}, map |-> NewMapping(i),
                                       snap |-> Committed]}
    /\ \/ /\ Recoverable(issuance'[i], snap')   \* read back
          /\ Deliver(i, issuance'[i], snap')
          /\ UNCHANGED uncertain
       \/ /\ uncertain' = TRUE                  \* no mapping, or no answer
          /\ UNCHANGED <<core, tokens>>
    /\ UNCHANGED <<time, up, allowance, grants, progress>>

-----------------------------------------------------------------------------
(* The frame: QueueService::tick.                                          *)

(* refresh_budgets: the sum over gateways and realms, 0 when unreadable. *)
RefreshBudgets ==
    /\ up
    /\ allowance' \in 0..MaxAllowance
    /\ UNCHANGED <<time, up, core, uncertain, leases, etcd, handedOut>>

ClockWentBack ==
    core.batches # <<>> /\ Wall < core.batches[Len(core.batches)].at

Released == Prune(WithBatch(core, BatchSize, Wall), Wall)

(* release_frame with nothing to release only prunes. *)
ReleaseNothing ==
    /\ up
    /\ BatchSize = 0
    /\ core' = Prune(core, Wall)
    /\ UNCHANGED <<time, up, uncertain, allowance, leases, etcd, handedOut>>

(* release_batch throws when time ran backwards; the exception leaves tick *)
(* and ends the process.                                                   *)
ReleaseClockBack ==
    /\ up
    /\ BatchSize > 0
    /\ ClockWentBack
    /\ up' = FALSE
    /\ core' = EmptyCore
    /\ uncertain' = FALSE
    /\ allowance' = 0
    /\ leases' = NoLeases
    /\ UNCHANGED <<time, etcd, handedOut>>

(* The snapshot was saved before anything of the batch can be seen. *)
ReleaseSaved ==
    /\ up
    /\ ~uncertain
    /\ BatchSize > 0
    /\ ~ClockWentBack
    /\ core' = Released
    /\ snap' = Released
    /\ UNCHANGED <<time, up, uncertain, allowance, leases, issuance, late, handedOut>>

(* Mutant of ReleaseNotSaved: the batch stays in memory though the save failed. *)
ReleaseNotSavedKept ==
    /\ up
    /\ BatchSize > 0
    /\ ~ClockWentBack
    /\ core' = Released
    /\ UNCHANGED <<time, up, uncertain, allowance, leases, etcd, handedOut>>

(* The save failed, or was not answered: the core takes the batch back,    *)
(* whether or not etcd has it.  An uncertain process does not even send.   *)
ReleaseNotSaved ==
    /\ up
    /\ BatchSize > 0
    /\ ~ClockWentBack
    /\ core' = Prune(core, Wall)
    /\ \/ UNCHANGED <<snap, late>>
       \/ /\ ~uncertain
          /\ snap' = Released
          /\ UNCHANGED late
       \/ /\ ~uncertain
          /\ Cardinality(late) < MaxLate
          /\ late' = late \cup {[id |-> {}, map |-> NoMapping, snap |-> Released]}
          /\ UNCHANGED snap
    /\ UNCHANGED <<time, up, uncertain, allowance, leases, issuance, handedOut>>

-----------------------------------------------------------------------------
(* What clients ask.                                                       *)

(* GET /v1/queue/tickets/me: a released number inside its window is        *)
(* answered with the grant that its release batch determines.              *)
Query(t) ==
    /\ up
    /\ Wall <= t.exp + Leeway
    /\ t.iat <= Wall + Leeway
    /\ \E b \in Eligible(core, t.number, Wall) :
         /\ b.at <= t.exp
         /\ grants' = grants \cup
              {[id |-> t.id, number |-> t.number, at |-> b.at,
                exp |-> Min({t.exp, b.at + GrantWindow})]}
    /\ UNCHANGED <<time, up, memory, etcd, tokens, progress>>

(* GET /v1/queue/progress *)
Progress ==
    /\ up
    /\ progress' = core.released
    /\ UNCHANGED <<time, up, memory, etcd, tokens, grants>>

-----------------------------------------------------------------------------
(* Process life cycle.                                                     *)

Crash ==
    /\ up
    /\ up' = FALSE
    /\ core' = EmptyCore
    /\ uncertain' = FALSE
    /\ allowance' = 0
    /\ leases' = NoLeases
    /\ UNCHANGED <<time, etcd, handedOut>>

(* load_snapshot accepts an empty store, or a valid snapshot above every   *)
(* mapping in which no number is mapped twice.                             *)
Loadable ==
    IF snap = NoSnapshot
      THEN \A i \in Identities : ~Mapped(i)
      ELSE /\ Valid(snap)
           /\ \A i \in Identities : Mapped(i) =>
                /\ issuance[i].number \in 1..(snap.next - 1)
                /\ issuance[i].issued_at < IdentityExpiry[i]
           /\ \A i, j \in Identities :
                Mapped(i) /\ Mapped(j) /\ i # j
                  => issuance[i].number # issuance[j].number

(* QueueService::start, which fails on any other durable state. *)
Start ==
    /\ ~up
    /\ Loadable
    /\ IF snap = NoSnapshot
         THEN core' = EmptyCore
         ELSE /\ Restorable(snap, Wall)
              /\ core' = Prune(snap, Wall)
    /\ up' = TRUE
    /\ UNCHANGED <<time, uncertain, allowance, leases, etcd, handedOut>>

-----------------------------------------------------------------------------
(* The environment: etcd and the clocks.                                   *)

(* etcd drops a mapping once its lease has run out. *)
LeaseExpires(i) ==
    /\ Mapped(i)
    /\ clock >= issuance[i].lease
    /\ issuance' = [issuance EXCEPT ![i] = NoMapping]
    /\ UNCHANGED <<time, up, memory, snap, late, handedOut>>

(* etcd applies a write whose sender gave up on it. *)
ApplyLate(w) ==
    /\ late' = late \ {w}
    /\ IF \E i \in w.id : Mapped(i) \/ w.map.lease <= clock
         THEN UNCHANGED <<snap, issuance>>
         ELSE /\ snap' = w.snap
              /\ issuance' = [i \in Identities |->
                                IF i \in w.id THEN w.map ELSE issuance[i]]
    /\ UNCHANGED <<time, up, memory, handedOut>>

Tick ==
    /\ clock < MaxTime
    /\ clock' = clock + 1
    /\ UNCHANGED <<drift, up, memory, etcd, handedOut>>

(* The wall clock is set back, or catches up again. *)
ClockSet ==
    /\ drift' \in 0..MaxStepBack
    /\ drift' # drift
    /\ drift' <= clock
    /\ UNCHANGED <<clock, up, memory, etcd, handedOut>>

-----------------------------------------------------------------------------
Issue(i) == IssueWithoutLease(i) \/ IssueAnswered(i) \/ IssueUnanswered(i)

ReleaseFrame ==
    ReleaseNothing \/ ReleaseClockBack \/ ReleaseSaved \/ ReleaseNotSaved

QueueNext ==
    \/ \E i \in Identities : Issue(i) \/ LeaseExpires(i)
    \/ \E t \in tokens : Query(t)
    \/ RefreshBudgets
    \/ ReleaseFrame
    \/ Progress
    \/ Crash
    \/ Start
    \/ \E w \in late : ApplyLate(w)
    \/ Tick
    \/ ClockSet

QueueSpec == QueueInit /\ [][QueueNext]_queueVars

(* The release loop runs every release_interval and the budget poll every  *)
(* budget_interval; etcd answers a save, and the budgets are positive,     *)
(* infinitely often.  A frame that meets a clock set back ends the process.*)
FairSpec ==
    /\ QueueSpec
    /\ SF_queueVars(RefreshBudgets /\ allowance' > 0)
    /\ SF_queueVars(ReleaseSaved \/ ReleaseClockBack)

-----------------------------------------------------------------------------
SnapshotType(s) ==
    /\ s \in Snapshot
    /\ s.next <= MaxNumber
    /\ s.released <= MaxNumber

(* Types and bounds: next_number stays within its width because the last   *)
(* number is never handed out.                                             *)
TypeOK ==
    /\ clock \in 0..MaxTime
    /\ drift \in 0..MaxStepBack
    /\ up \in BOOLEAN
    /\ uncertain \in BOOLEAN
    /\ SnapshotType(core)
    /\ SnapshotType(snap)
    /\ allowance \in 0..MaxAllowance
    /\ \A b \in DOMAIN leases : b \in Nat /\ leases[b] \in Nat
    /\ issuance \in [Identities -> Mapping]
    /\ \A w \in late : w.map \in Mapping /\ SnapshotType(w.snap)
    /\ progress \in Nat

(* No two identities ever hold tokens with the same queue number, whatever *)
(* was lost, crashed or restarted between the two issues (ADR-0006: an     *)
(* allocation never continues from an old watermark in memory).            *)
UniqueNumbers ==
    \A t, u \in tokens : t.number = u.number => t.id = u.id

(* Repeating the issue for an identity, over lost answers and restarts,    *)
(* gives the same token: the issuance mapping outlives the identity.       *)
StableNumber ==
    \A t, u \in tokens : t.id = u.id => t = u

(* The grants of one number all carry the window of one release: neither   *)
(* polling nor a restart, nor a release saved without an answer, opens a   *)
(* second one.                                                             *)
OneWindow ==
    \A g, h \in grants : g.number = h.number => g.at = h.at

(* A client only ever holds a grant for a number that the durable snapshot *)
(* has released: no crash can lose a release somebody has seen.            *)
GrantsReleased ==
    \A g \in grants : g.number <= snap.released

(* Whatever moment the process dies at, the durable state is one the next  *)
(* start accepts: load_snapshot and restore do not throw.                  *)
RestartAccepted ==
    /\ Loadable
    /\ snap # NoSnapshot => Restorable(snap, Wall)

(* The released number shown to clients never goes back, over crashes and  *)
(* over releases that were rolled back in memory.                          *)
ProgressMonotone == [][progress' >= progress]_queueVars

(* A release that somebody has seen is kept as it was: the three above.    *)
ReleasesKept == [](OneWindow /\ GrantsReleased) /\ ProgressMonotone

(* A number that was issued is released in the end, unless the process     *)
(* dies or has lost track of its issuance state.                           *)
EventuallyReleased ==
    \A n \in 1..(MaxNumber - 1) :
        (up /\ core.next > n) ~> (core.released >= n \/ ~up \/ uncertain)
=============================================================================
