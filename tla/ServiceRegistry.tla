-------------------------- MODULE ServiceRegistry --------------------------
(***************************************************************************)
(* EtcdServiceRegistry with the publisher and the budget reporter of one   *)
(* service instance, and the watch of a resolver elsewhere.                *)
(*                                                                         *)
(* In the service the frame thread registers and puts budgets while the    *)
(* worker of the registry refreshes the lease; the locks are not held      *)
(* during a request.  A request to etcd is answered, or fails and is       *)
(* applied now, later or never.  The value of the instance key is the      *)
(* incarnation of the service.  A behaviour has either budgets or a watch: *)
(* neither looks at the key of the other.                                  *)
(***************************************************************************)
EXTENDS Naturals, FiniteSets

CONSTANTS
    None,
    Leases,          \* lease ids, used again once nothing refers to them
    MaxIncarnations, \* lives of the service
    Capacity,        \* conn_capacity
    ThresholdPct,    \* change_threshold, in percent
    MaxChanges,      \* changes of the free budget
    MaxFaults        \* failed requests, crashes and leases that run out

ASSUME RegistryAssumption ==
    /\ Leases \subseteq Nat /\ Capacity \in Nat
    /\ None \notin Nat \cup [lease : Leases, leased : Nat \cup {None}]
    /\ None \notin [instance : Nat \cup {None}, published : BOOLEAN]
    /\ None \notin [instance : Nat \cup {None}]
    /\ None \notin [pc : {"read", "events"}, next : Nat \cup {None}, old : Nat \cup {None}]

VARIABLES
    kv,         \* etcd: the instance key and the budget key
    live,       \* etcd: the leases that live
    pending,    \* etcd: puts that failed at the client and may still be applied
    inc,        \* the life of the service
    running,    \* whether its registry is there
    leaving,    \* whether it is being taken down
    register,   \* register_instance under way: its lease, or None
    reg,        \* the registration: lease and leased budget, or None
    refresh,    \* refresh_registration under way, or None
    put,        \* put_leased under way, or None
    reporter,   \* InstanceBudgetReporter
    free,       \* the free connections of the service
    reports,    \* whether this is a service that reports budgets
    watch,      \* the watch of the resolver, or None
    deliver,    \* watch(): the instance found at first, not yet handed over
    poll,       \* poll_once under way, or None
    view,       \* the instance that the resolver knows
    overtaken,  \* whether a poll overtook the first delivery
    changes, faults

etcd == <<kv, live, pending>>
service == <<inc, running, leaving, register, reg, refresh, put, reporter, free, changes>>
resolver == <<reports, watch, deliver, poll, view, overtaken>>
registry == <<etcd, service, resolver, faults>>

NewReporter == [attempted |-> None, ok |-> FALSE, confirmed |-> None, waited |-> FALSE]

RegistryInit ==
    /\ kv = [inst |-> None, budget |-> None] /\ live = {} /\ pending = {}
    /\ inc = 0 /\ running = FALSE /\ leaving = FALSE /\ register = None /\ reg = None /\ refresh = None
    /\ put = None /\ reporter = NewReporter /\ free = Capacity /\ changes = 0
    /\ reports \in BOOLEAN
    /\ watch = None /\ deliver = None /\ poll = None /\ view = None /\ overtaken = FALSE
    /\ faults = 0

-----------------------------------------------------------------------------
(* etcd. *)
Entry(value, lease) == [value |-> value, lease |-> lease]

(* Keys go with their lease. *)
Kept(keys, lease) ==
    [k \in DOMAIN keys |->
       IF keys[k] = None THEN None ELSE IF keys[k].lease = lease THEN None ELSE keys[k]]

(* A put binds the key to the lease of the put, whatever it was bound to.  *)
PutIn(keys, k, entry) ==
    IF entry.lease \in live THEN [keys EXCEPT ![k] = entry] ELSE keys

Fault == faults < MaxFaults /\ faults' = faults + 1

(* A put as its caller sees it: Then(TRUE) after an answer, and Then(FALSE)*)
(* after a failure, be it that the put was lost, or applied, or late.      *)
Try(k, entry, Then(_)) ==
    \/ /\ kv' = PutIn(kv, k, entry) /\ Then(entry.lease \in live)
       /\ UNCHANGED <<live, pending, faults>>
    \/ /\ Fault /\ Then(FALSE) /\ UNCHANGED <<kv, live, pending>>
    \/ /\ Fault /\ Then(FALSE)
       /\ kv' = PutIn(kv, k, entry) /\ UNCHANGED <<live, pending>>
    \/ /\ Fault /\ Then(FALSE)
       /\ pending' = pending \cup {[key |-> k, entry |-> entry]} /\ UNCHANGED <<kv, live>>

LatePut ==
    \E p \in pending :
      /\ pending' = pending \ {p}
      /\ kv' = PutIn(kv, p.key, p.entry)
      /\ UNCHANGED <<live, service, resolver, faults>>

(* A lease is granted; an id that something still refers to is not given.  *)
Unused ==
    Leases \ (live \cup {p.entry.lease : p \in pending} \cup
              (IF reg = None THEN {} ELSE {reg.lease}) \cup
              (IF put = None THEN {} ELSE {put.lease}) \cup
              (IF refresh = None THEN {} ELSE {refresh.lease, refresh.old}))

Grant(l) ==
    /\ l \in Unused
    /\ \A other \in Unused : l <= other
    /\ live' = live \cup {l}

Revoke(l) ==
    /\ live' = live \ {l} /\ kv' = Kept(kv, l)
    /\ UNCHANGED pending

(* revoke_lease, whose result nobody looks at: it may have failed. *)
Revoked(l) ==
    \/ Revoke(l) /\ UNCHANGED faults
    \/ Fault /\ UNCHANGED etcd

(* A lease that nobody keeps alive runs out; one in use does so only when  *)
(* its refresh comes too late.                                             *)
InUse(l) ==
    l \in {register} \cup (IF reg = None THEN {} ELSE {reg.lease}) \cup
         (IF refresh = None THEN {} ELSE {refresh.lease, refresh.old})

Expire(l) ==
    /\ l \in live
    /\ IF InUse(l) THEN Fault ELSE UNCHANGED faults
    /\ Revoke(l)
    /\ UNCHANGED <<service, resolver>>

-----------------------------------------------------------------------------
(* ServicePublisher::tick and register_instance: a lease, and the instance *)
(* key under it if there is none.                                          *)
RegisterStart ==
    /\ running /\ ~leaving /\ reg = None /\ register = None
    /\ \E l \in Leases : Grant(l) /\ register' = l
    /\ UNCHANGED <<kv, pending, inc, running, leaving, reg, refresh, put, reporter, free, changes, faults, resolver>>

Registered == [lease |-> register, leased |-> None]

RegisterTxn ==
    /\ register # None
    /\ kv.inst = None /\ register \in live
    /\ kv' = [kv EXCEPT !.inst = Entry(inc, register)]
    /\ reg' = Registered /\ register' = None
    /\ UNCHANGED <<live, pending, inc, running, leaving, refresh, put, reporter, free, changes, faults, resolver>>

(* AlreadyExists, or no answer: the lease is given back. *)
RegisterFails ==
    /\ register # None
    /\ \/ (kv.inst # None \/ register \notin live) /\ Revoked(register)
       \/ Fault /\ Revoke(register)
    /\ register' = None
    /\ UNCHANGED <<inc, running, leaving, reg, refresh, put, reporter, free, changes, resolver>>

-----------------------------------------------------------------------------
(* refresh_registration: both keys are put under a new lease, which then   *)
(* takes the place of the old one.                                         *)
RefreshStart ==
    /\ reg # None /\ refresh = None
    /\ \E l \in Leases : Grant(l) /\
         refresh' = [pc |-> "inst", lease |-> l, old |-> reg.lease, leased |-> reg.leased]
    /\ UNCHANGED <<kv, pending, inc, running, leaving, register, reg, put, reporter, free, changes, faults, resolver>>

At(pc) == IF refresh = None THEN FALSE ELSE refresh.pc = pc

RefreshInstance ==
    LET Then(ok) == refresh' = [refresh EXCEPT !.pc =
                      IF ~ok THEN "failed" ELSE IF @ = "inst" /\ refresh.leased # None
                        THEN "budget" ELSE "swap"]
    IN  /\ At("inst")
        /\ Try("inst", Entry(inc, refresh.lease), Then)
        /\ UNCHANGED <<inc, running, leaving, register, reg, put, reporter, free, changes, resolver>>

RefreshBudget ==
    LET Then(ok) == refresh' = [refresh EXCEPT !.pc = IF ok THEN "swap" ELSE "failed"]
    IN  /\ At("budget")
        /\ Try("budget", Entry(refresh.leased, refresh.lease), Then)
        /\ UNCHANGED <<inc, running, leaving, register, reg, put, reporter, free, changes, resolver>>

(* Mutant of RefreshSwap: the leased value is the one that was copied. *)
RefreshSwapCopy ==
    /\ At("swap")
    /\ reg' = IF reg = None THEN None ELSE [lease |-> refresh.lease, leased |-> refresh.leased]
    /\ refresh' = [refresh EXCEPT !.pc = IF reg = None THEN "failed" ELSE "old"]
    /\ UNCHANGED <<etcd, inc, running, leaving, register, put, reporter, free, changes,
                   faults, resolver>>

(* A registration that was taken back meanwhile is left alone. *)
RefreshSwap ==
    /\ At("swap")
    /\ reg' = IF reg = None THEN None ELSE [reg EXCEPT !.lease = refresh.lease]
    /\ refresh' = [refresh EXCEPT !.pc = IF reg = None THEN "failed" ELSE "old"]
    /\ UNCHANGED <<etcd, inc, running, leaving, register, put, reporter, free, changes,
                   faults, resolver>>

RefreshEnd ==
    /\ \/ At("old") /\ Revoked(refresh.old)
       \/ At("failed") /\ Revoked(refresh.lease)
    /\ refresh' = None
    /\ UNCHANGED <<inc, running, leaving, register, reg, put, reporter, free, changes, resolver>>

-----------------------------------------------------------------------------
(* InstanceBudgetReporter, for the free connections. *)
BeyondThreshold(previous, next) ==
    LET difference == IF previous > next THEN previous - next ELSE next - previous
    IN  /\ previous # next
        /\ \/ previous = 0 \/ next = 0
           \/ difference * 100 >= ThresholdPct * previous

(* BudgetPublishPolicy::should_publish. *)
ShouldPublish(confirmed, next, waited) ==
    IF confirmed = None THEN TRUE
    ELSE /\ confirmed # next
         /\ BeyondThreshold(confirmed, next) \/ next = Capacity \/ waited

Publishes ==
    IF reporter.attempted = free THEN ~reporter.ok /\ reporter.waited
    ELSE ShouldPublish(reporter.confirmed, free, reporter.waited)

(* min_interval has passed since the last attempt. *)
Wait ==
    /\ running /\ ~reporter.waited /\ reporter.attempted # None
    /\ reporter' = [reporter EXCEPT !.waited = TRUE]
    /\ UNCHANGED <<etcd, inc, running, leaving, register, reg, refresh, put, free, changes,
                   faults, resolver>>

Change ==
    /\ running /\ reports /\ changes < MaxChanges
    /\ \E n \in 0..Capacity : n # free /\ free' = n
    /\ changes' = changes + 1
    /\ UNCHANGED <<etcd, inc, running, leaving, register, reg, refresh, put, reporter,
                   faults, resolver>>

(* publish and put_leased: the lease is read, the put is made, and then    *)
(* the value is remembered.                                                *)
PutStart ==
    /\ running /\ reports /\ reg # None /\ put = None /\ Publishes
    /\ put' = [pc |-> "put", lease |-> reg.lease, value |-> free]
    /\ UNCHANGED <<etcd, inc, running, leaving, register, reg, refresh, reporter, free, changes, faults, resolver>>

(* Mutant of PutSent: the put has no lease. *)
PutForever ==
    /\ put # None
    /\ put.pc = "put"
    /\ kv' = [kv EXCEPT !.budget = Entry(put.value, None)]
    /\ put' = [put EXCEPT !.pc = "done"]
    /\ UNCHANGED <<live, pending, faults, inc, running, leaving, register, reg, refresh, reporter, free,
                   changes, resolver>>

PutSent ==
    LET Then(ok) == put' = [put EXCEPT !.pc = IF ok THEN "done" ELSE "failed"]
    IN  /\ put # None
        /\ put.pc = "put"
        /\ Try("budget", Entry(put.value, put.lease), Then)
        /\ UNCHANGED <<inc, running, leaving, register, reg, refresh, reporter, free, changes, resolver>>

PutEnd ==
    /\ put # None
    /\ put.pc # "put"
    /\ LET ok == put.pc = "done" IN
       /\ reg' = IF ok THEN [reg EXCEPT !.leased = put.value] ELSE reg
       /\ reporter' = [attempted |-> put.value, ok |-> ok, waited |-> FALSE,
                       confirmed |-> IF ok THEN put.value ELSE reporter.confirmed]
    /\ put' = None
    /\ UNCHANGED <<etcd, inc, running, leaving, register, refresh, free, changes, faults, resolver>>

-----------------------------------------------------------------------------
(* The registry comes and goes with its host.  unregister_instance runs on *)
(* the frame thread, whatever the worker is doing; the worker is joined    *)
(* after that.                                                             *)
Launch ==
    /\ ~running /\ inc < MaxIncarnations
    /\ running' = TRUE /\ inc' = inc + 1
    /\ UNCHANGED <<etcd, leaving, register, reg, refresh, put, reporter, free, changes, faults, resolver>>

Unregister ==
    /\ running /\ ~leaving /\ register = None /\ put = None
    /\ IF reg = None THEN UNCHANGED <<etcd, faults>> ELSE Revoked(reg.lease)
    /\ leaving' = TRUE /\ reg' = None
    /\ UNCHANGED <<inc, running, register, refresh, put, reporter, free, changes, resolver>>

Down ==
    /\ running' = FALSE /\ leaving' = FALSE
    /\ register' = None /\ reg' = None /\ refresh' = None /\ put' = None
    /\ reporter' = NewReporter /\ free' = Capacity
    /\ UNCHANGED <<inc, changes, resolver>>

Joined == leaving /\ refresh = None /\ Down /\ UNCHANGED <<etcd, faults>>

Crash == running /\ Fault /\ Down /\ UNCHANGED etcd

-----------------------------------------------------------------------------
(* The resolver.  A range request that fails changes nothing. *)
Found == IF kv.inst = None THEN None ELSE kv.inst.value

(* watch: what is found at first is kept, and handed over after that.  If  *)
(* the first request fails there is nothing to hand over.                  *)
Watch ==
    /\ watch = None /\ ~reports
    /\ \/ /\ watch' = [instance |-> Found, published |-> FALSE]
          /\ deliver' = [instance |-> Found]
          /\ UNCHANGED faults
       \/ /\ Fault
          /\ watch' = [instance |-> None, published |-> FALSE]
          /\ UNCHANGED deliver
    /\ UNCHANGED <<etcd, service, reports, poll, view, overtaken>>

Delivered ==
    /\ deliver # None
    /\ view' = IF deliver.instance = None THEN view ELSE deliver.instance
    /\ watch' = [watch EXCEPT !.published = TRUE]
    /\ deliver' = None
    /\ UNCHANGED <<etcd, service, reports, poll, overtaken, faults>>

(* poll_once, of which there is one at a time: the range request, and the  *)
(* difference to what the watch knows, which is handed over after the lock *)
(* is released.                                                            *)
PollRead ==
    /\ watch # None /\ poll = None
    /\ poll' = [pc |-> "read", next |-> Found, old |-> None]
    /\ UNCHANGED <<etcd, service, reports, watch, deliver, view, overtaken, faults>>

(* Mutant of PollDiff: readiness is not withdrawn. *)
PollDiffReady ==
    /\ poll # None
    /\ poll.pc = "read"
    /\ poll' = [poll EXCEPT !.pc = "events", !.old = watch.instance]
    /\ watch' = [watch EXCEPT !.instance = poll.next]
    /\ overtaken' = (overtaken \/ deliver # None)
    /\ UNCHANGED <<etcd, service, reports, deliver, view, faults>>

PollDiff ==
    /\ poll # None
    /\ poll.pc = "read"
    /\ poll' = [poll EXCEPT !.pc = "events", !.old = watch.instance]
    /\ watch' = [instance |-> poll.next, published |-> FALSE]
    /\ overtaken' = (overtaken \/ deliver # None)
    /\ UNCHANGED <<etcd, service, reports, deliver, view, faults>>

(* Mutant of PollEvents: the Added of a changed instance comes first. *)
PollEventsSwapped ==
    /\ poll # None
    /\ poll.pc = "events"
    /\ view' = IF poll.next = poll.old THEN view
               ELSE IF poll.old = None THEN poll.next ELSE None
    /\ watch' = [watch EXCEPT !.published = TRUE]
    /\ poll' = None
    /\ UNCHANGED <<etcd, service, reports, deliver, overtaken, faults>>

(* Removed for an instance that is gone or has changed, then Added. *)
PollEvents ==
    /\ poll # None
    /\ poll.pc = "events"
    /\ view' = IF poll.next = poll.old THEN view ELSE poll.next
    /\ watch' = [watch EXCEPT !.published = TRUE]
    /\ poll' = None
    /\ UNCHANGED <<etcd, service, reports, deliver, overtaken, faults>>

-----------------------------------------------------------------------------
Publisher == RegisterStart \/ RegisterTxn \/ RegisterFails
Refresher == RefreshStart \/ RefreshInstance \/ RefreshBudget \/ RefreshSwap \/ RefreshEnd
Poller == PollRead \/ PollDiff \/ PollEvents
Putter == PutStart \/ PutSent \/ PutEnd

Elsewhere == Watch \/ Delivered \/ Poller

(* A put lasts a second at most and a refresh comes every few: it cannot   *)
(* meet one each time (the reason for SF).                                 *)
PutLive == put # None /\ (put.lease \in live) /\ PutSent

-----------------------------------------------------------------------------
Shown ==
    /\ kv.inst # None
    /\ kv.inst.value = inc
    /\ reports => kv.budget # None /\ kv.budget.value = free

(* While the service runs, etcd shows it and its present budget in the     *)
(* end, whatever put was lost, late or raced with a refresh; and what it   *)
(* leaves behind is gone in the end: a budget never outlives its instance  *)
(* for good.                                                               *)
ShownWhileRunning ==
    /\ <>[](running => Shown)
    /\ <>[](~running => kv.inst = None /\ kv.budget = None)

(* The resolver is ready only while it has all that the watch knows: the   *)
(* realm takes a ready resolver for the truth about the scene services.    *)
(* That a poll overtakes the first delivery is left out: see the README.   *)
ReadyMeansComplete ==
    watch # None /\ ~overtaken => (watch.published => view = watch.instance)

(* And the resolver has the service that etcd shows, in the end, whatever  *)
(* registrations came and went between two polls.                          *)
EventuallyResolved == <>[](reports \/ overtaken \/ view = Found)
=============================================================================
