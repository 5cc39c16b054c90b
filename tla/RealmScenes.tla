---------------------------- MODULE RealmScenes ----------------------------
(***************************************************************************)
(* RealmScenes: the scene worker of a realm with its peers, over the scene *)
(* services and the player data store.                                     *)
(*                                                                         *)
(* A job is a coroutine: the steps between two waits are one step here.    *)
(* Every session belongs to the one character that is modelled; a session  *)
(* that is selected displaces the one before it.  The number of a session  *)
(* stands for the incarnation of the realm and the binding.  The stream of *)
(* scene events and the static mode are left out.                          *)
(***************************************************************************)
EXTENDS SceneService, Sequences

CONSTANTS
    MaxSessions, MaxSeq, MaxVersion,
    MaxJobs,         \* requests of clients
    MaxOutstanding,  \* requests of a session that are under way (9)
    MaxFaults,       \* crashes, losses and failures
    Faulty,          \* the instances that they happen to
    Kinds            \* and their kinds

VARIABLES
    session,   \* what the worker keeps of a session; see NewSession
    job,       \* the job of a session that runs, or None
    told,      \* the answers of the requests
    peer,      \* the connection to each instance: incarnation and generation
    slot,      \* what the worker knows of each instance
    owns,      \* ownership_: the shard records that were read
    routes,    \* routes_: the instance a shard was last seen on
    demand,    \* demand_: the shards that were asked for
    topo,      \* the shard that topology works on, or None
    late,      \* requests still at an instance after the realm gave them up
    requests, faults, avail

worker == <<session, job, told, owns, routes, demand, topo, requests>>
links == <<peer, slot, late, avail, faults>>
vars == <<worker, links, database, scene>>

Sessions == 1..MaxSessions

(* Faults happen from the first request on. *)
Fault(kind) ==
    /\ kind \in Kinds /\ faults < MaxFaults /\ requests > 0
    /\ faults' = faults + 1

NoShards == [sh \in Shards |-> None]

NewSession ==
    [selected |-> FALSE, alive |-> FALSE, tracked |-> FALSE, reclaimed |-> FALSE,
     waiting |-> <<>>, record |-> None, active |-> FALSE, confirm |-> FALSE,
     unresolved |-> None, source |-> None, lastOwned |-> None, retire |-> NoShards,
     chat |-> None, drainFrom |-> None, drainCmd |-> None]

NewSlot == [ready |-> FALSE, draining |-> FALSE, hosted |-> NoShards]

NewJob(id, cmd, i, drain) ==
    [id |-> id, cmd |-> cmd, budget |-> i, drain |-> drain, stage |-> "Queued",
     late |-> FALSE, pc |-> "start", op |-> None, then |-> None, to |-> None,
     conn |-> None, write |-> None, read |-> None, replay |-> FALSE, code |-> None]

(* Both instances have started and are connected; each has the shard that  *)
(* it is preferred for.                                                    *)
Init ==
    /\ InitStore /\ InitScenes
    /\ session = [s \in Sessions |-> NewSession]
    /\ job = [s \in Sessions |-> None]
    /\ told = {} /\ owns = shards /\ routes = [sh \in Shards |-> sh]
    /\ demand = {} /\ topo = None /\ late = {} /\ requests = 0 /\ faults = 0
    /\ peer = [i \in Instances |-> [inc |-> 1, gen |-> 0]]
    /\ slot = [i \in Instances |->
         [NewSlot EXCEPT !.ready = TRUE,
            !.hosted = [sh \in Shards |-> IF sh # i THEN None
                                          ELSE [version |-> 1, empty |-> TRUE]]]]
    /\ avail = [i \in Instances |-> TRUE]

-----------------------------------------------------------------------------
(* Sessions. *)
Owned(x, s) ==
    /\ x.record # None
    /\ x.record.owner # None
    /\ x.record.owner.binding = s

Routed(x) == IF x.record = None THEN 1
             ELSE IF x.record.loc = None THEN 1 ELSE x.record.loc.shard

Unavailable(x) == IF x.active THEN [x EXCEPT !.active = FALSE, !.chat = None] ELSE x

Shown(x) == [shard |-> x.record.loc.shard, epoch |-> x.record.epoch]

(* Mutant of Committed: the place the character left is not cleaned up. *)
CommittedOnly(x, value) ==
    [x EXCEPT !.record = value, !.lastOwned = value, !.unresolved = None,
              !.confirm = TRUE, !.source = None]

(* committed: the place the character left has to be cleaned up. *)
Committed(x, value) ==
    [x EXCEPT !.record = value, !.lastOwned = value, !.unresolved = None,
              !.confirm = TRUE, !.source = None,
              !.retire = IF x.source = None THEN @
                         ELSE [@ EXCEPT ![x.source.loc.shard] = x.source]]

Tracked(s) ==
    /\ session[s].tracked
    /\ ~(session[s].reclaimed /\ session[s].retire = NoShards)

(* A character is worked for by one of its sessions at a time. *)
Free(s) ==
    /\ job[s] = None
    /\ \A t \in Sessions \ {s} :
         Tracked(t) => job[t] = None /\ session[t].unresolved = None

(* What happens on the frame thread. *)
Select(s) ==
    /\ ~session[s].selected
    /\ \A t \in 1..(s - 1) : session[t].selected
    /\ IF \E t \in Sessions : session[t].alive \/ Tracked(t)
         THEN Fault("select") ELSE UNCHANGED faults
    /\ session' = [t \in Sessions |->
         IF t = s THEN [NewSession EXCEPT !.selected = TRUE, !.alive = TRUE]
         ELSE [session[t] EXCEPT !.alive = FALSE]]
    /\ UNCHANGED <<job, told, owns, routes, demand, topo, requests, peer, slot, late,
                   avail, database, scene>>

Closed(s) ==
    /\ session[s].alive
    /\ session' = [session EXCEPT ![s].alive = FALSE]
    /\ UNCHANGED <<job, told, owns, routes, demand, topo, requests, links, database, scene>>

(* A client enters first, counts its commands and may repeat an old one. *)
Commands ==
    LET Seqs == {n \in 1..MaxSeq : n <= LastSeq(stored) + 1}
    IN  [type : {"enter"}, seq : Seqs, arg : {None}]
        \cup [type : {"move"}, seq : Seqs \ {1}, arg : Positions]
        \cup [type : {"transfer"}, seq : Seqs \ {1}, arg : Shards]

Outstanding(s) == Len(session[s].waiting) + (IF job[s] = None THEN 0 ELSE 1)

(* handle. *)
Request(s, cmd) ==
    LET shard == IF cmd = None THEN Routed(session[s])
                 ELSE IF cmd.type = "transfer" THEN cmd.arg ELSE Routed(session[s])
        j == NewJob(requests + 1, cmd, routes[shard], FALSE)
    IN  /\ session[s].alive /\ requests < MaxJobs
        /\ requests' = requests + 1
        /\ demand' = demand \cup {shard}
        /\ IF Outstanding(s) >= MaxOutstanding
             THEN /\ told' = told \cup {[job |-> j.id, cmd |-> cmd, kind |-> "refused"]}
                  /\ UNCHANGED session
             ELSE /\ session' = [session EXCEPT ![s].tracked = TRUE,
                                                ![s].waiting = Append(@, j)]
                  /\ UNCHANGED told
        /\ UNCHANGED <<job, owns, routes, topo, links, database, scene>>

Answer(s, j, kind) ==
    IF j.drain \/ j.late \/ ~session[s].alive THEN told
    ELSE told \cup {[job |-> j.id, cmd |-> j.cmd, kind |-> kind]}

(* Mutant of TimedOut: a job that was given up is not stopped. *)
TimedOutOnly(j) == [j EXCEPT !.late = TRUE]

TimedOut(j) ==
    [j EXCEPT !.late = TRUE, !.stage = IF @ = "Writing" THEN @ ELSE "Cancelled"]

(* complete, past the deadline of a request: before the write the job is   *)
(* stopped and the refusal is certain; from then on nobody knows.          *)
Timeout(s) ==
    LET Told(j) == Answer(s, j, IF j.stage = "Writing" THEN "unknown" ELSE "refused")
    IN  /\ session[s].alive /\ Fault("timeout")
        /\ \/ /\ job[s] # None /\ ~job[s].late /\ ~job[s].drain
              /\ told' = Told(job[s])
              /\ job' = [job EXCEPT ![s] = TimedOut(@)]
              /\ UNCHANGED session
           \/ \E n \in DOMAIN session[s].waiting :
                /\ ~session[s].waiting[n].late
                /\ told' = Told(session[s].waiting[n])
                /\ session' = [session EXCEPT ![s].waiting[n] = TimedOut(@)]
                /\ UNCHANGED job
        /\ UNCHANGED <<owns, routes, demand, topo, requests, peer, slot, late, avail, database, scene>>

-----------------------------------------------------------------------------
(* Steps of a job.  A step gives the session and the job after it, as a    *)
(* pair; a job that is "done" has the code of its answer.                  *)
Pair(x, j) == [x |-> x, j |-> j]
Done(x, j, code) == Pair(x, [j EXCEPT !.pc = "done", !.code = code])

Call(x, j, op, to, then) ==
    Pair(x, [j EXCEPT !.pc = "send", !.op = op, !.to = to, !.then = then])

(* The request of a call, from the write before it is committed and from   *)
(* the record and its last result afterwards.                              *)
Message(s, conn) ==
    LET j == job[s]  r == session[s].record
    IN  IF j.then = "write"
          THEN [conn |-> conn, epoch |-> EpochAfter(j.write), binding |-> s,
                shard |-> j.write.loc.shard, version |-> j.write.owner.version,
                cmd |-> j.cmd, loc |-> j.write.loc]
          ELSE [conn |-> conn, epoch |-> r.epoch, binding |-> s,
                shard |-> r.loc.shard, version |-> r.owner.version,
                cmd |-> r.last.cmd, loc |-> r.last.loc]

(* The incarnation that a call is meant for. *)
MeantFor(s) ==
    IF job[s].then = "write" THEN job[s].write.owner.inc ELSE session[s].record.owner.inc

(* execute, from the checks of a command to its proposal. *)
ToPropose(s, x, j) ==
    LET shard == IF j.cmd.type = "transfer" THEN j.cmd.arg ELSE Routed(x)
        away == ~(x.active \/ j.drain) \/ ~Owned(x, s)
        unowned == IF owns[shard] = None THEN TRUE ELSE owns[shard].owner = None
    IN  IF \/ j.cmd.type # "enter" /\ away
           \/ unowned
        THEN Done(x, j, "refused")
        ELSE IF j.cmd.type = "transfer" /\ shard = x.record.loc.shard
          THEN Done(x, [j EXCEPT !.budget = routes[shard]], "refused")
        ELSE Pair(x, [j EXCEPT !.pc = "propose", !.budget = routes[shard]])

(* restore: PREPARE and ACTIVATE, each a call.  What a failure means       *)
(* depends on what the job is about to do.                                 *)
RestoreFailed(s, x, j, then, stale) ==
    LET y == [Unavailable(x) EXCEPT !.confirm = IF stale THEN FALSE ELSE @]
    IN  CASE then = "finish" -> Done(Unavailable(x), j, "unknown")
          [] then = "state" -> Done(y, j, "ok")
          [] then = "replay" -> Done(y, j, IF stale THEN "ok" ELSE "unknown")
          [] then = "command" -> IF stale THEN ToPropose(s, y, j) ELSE Done(y, j, "unknown")

Restored(s, x, j) ==
    LET y == [x EXCEPT !.confirm = FALSE]
    IN  CASE j.then \in {"finish", "replay"} -> Done(y, j, "ok")
          [] j.then = "state" -> Pair(y, [j EXCEPT !.pc = "snapshot"])
          [] j.then = "command" -> ToPropose(s, y, j)

ToRestore(s, x, j, then) ==
    IF Owned(x, s) THEN Call(x, j, "prepare", x.record.owner.inst, then)
    ELSE RestoreFailed(s, x, j, then, TRUE)

(* execute, once the record of the character was read and nothing is       *)
(* unresolved.                                                             *)
Execute(s, x, j) ==
    LET last == x.record.last
        replayed == IF last = None THEN FALSE ELSE j.cmd = last.cmd
    IN  IF j.cmd = None
          THEN IF Owned(x, s) /\ x.confirm THEN ToRestore(s, x, j, "state")
               ELSE IF x.active THEN Pair(x, [j EXCEPT !.pc = "snapshot"])
               ELSE Done(x, j, "ok")
        ELSE IF replayed
          THEN IF Owned(x, s) THEN ToRestore(s, x, j, "replay") ELSE Done(x, j, "ok")
        ELSE IF j.cmd.seq # LastSeq(x.record) + 1 THEN Done(x, j, "refused")
        ELSE IF x.confirm THEN ToRestore(s, x, j, "command")
        ELSE ToPropose(s, x, j)

(* finish. *)
Finish(s, x, j, outcome, state) ==
    LET y == Committed(x, state)
    IN  IF outcome \notin {"Committed", "Replayed"}
          THEN Done([x EXCEPT !.source = None], j, "refused")
        ELSE IF ~x.alive THEN Done(y, j, "ok")
        ELSE IF j.cmd.type = "move" /\ ~j.replay
          THEN Call(y, j, "confirm", y.record.owner.inst, "finish")
        ELSE ToRestore(s, [y EXCEPT !.active = FALSE, !.chat = None], j, "finish")

(* The reply of a call. *)
Replied(s, x, j, ok) ==
    CASE j.then = "write" ->
           IF ok /\ x.alive /\ j.stage = "Reading"
             THEN Pair([x EXCEPT !.unresolved = j.write,
                          !.source = IF j.cmd.type # "move" /\ Owned(x, s)
                                       THEN x.record ELSE @],
                       [j EXCEPT !.pc = "commit", !.stage = "Writing"])
             ELSE Done(x, j, "refused")
      [] j.op = "prepare" /\ j.then # "write" ->
           IF ok THEN Call(x, j, "activate", j.to, j.then)
           ELSE RestoreFailed(s, x, j, j.then, TRUE)
      [] j.op = "activate" ->
           IF ok THEN Restored(s, [x EXCEPT !.active = TRUE, !.chat = Shown(x)], j)
           ELSE RestoreFailed(s, x, j, j.then, TRUE)
      [] j.op = "confirm" ->
           IF ok THEN Done([x EXCEPT !.confirm = FALSE], j, "ok")
           ELSE Done(Unavailable(x), j, "unknown")

(* A call that got no reply. *)
Unanswered(s, x, j) ==
    CASE j.then = "write" -> Done(x, j, "refused")
      [] j.op = "confirm" -> Done(Unavailable(x), j, "unknown")
      [] OTHER -> RestoreFailed(s, x, j, j.then, FALSE)

(* process: what a job that is done leaves. *)
Settled(s, x, j) ==
    LET shown == /\ x.alive /\ x.active /\ x.unresolved = None /\ ~x.confirm
                 /\ Owned(x, s)
        y == [x EXCEPT !.chat = IF shown THEN Shown(x) ELSE None]
        moved == j.code = "ok" /\ x.active /\ ~x.confirm
        stays == /\ j.code # "unknown" /\ x.unresolved = None /\ ~x.confirm
                 /\ x.record # None /\ x.record.owner # None /\ x.drainFrom # None
                 /\ x.record.owner.inst = x.drainFrom
    IN  IF j.drain /\ (moved \/ stays)
          THEN [y EXCEPT !.drainFrom = None, !.drainCmd = None] ELSE y

Resume(s, r) ==
    IF r.j.pc = "done"
      THEN /\ session' = [session EXCEPT ![s] = Settled(s, r.x, r.j)]
           /\ job' = [job EXCEPT ![s] = None]
           /\ told' = Answer(s, r.j, r.j.code)
      ELSE /\ session' = [session EXCEPT ![s] = r.x]
           /\ job' = [job EXCEPT ![s] = r.j]
           /\ UNCHANGED told

At(s, pc) == IF job[s] = None THEN FALSE ELSE job[s].pc = pc

-----------------------------------------------------------------------------
(* Actions of the jobs. *)
(* execute reads the record; a write that is unresolved comes first. *)
Run(s, x0, j0) ==
    LET j == [j0 EXCEPT !.stage = "Reading"]
        r == [x0 EXCEPT !.record = stored]
        x == IF Owned(r, s) THEN r ELSE Unavailable(r)
        u == x.unresolved
    IN  /\ demand' = IF x0.alive /\ stored.loc # None
                       THEN demand \cup {stored.loc.shard} ELSE demand
        /\ Resume(s, IF ~x0.alive THEN Done(x0, j0, "ok")
                     ELSE IF j0.stage = "Cancelled" THEN Done(x0, j0, "refused")
                     ELSE IF u = None THEN Execute(s, x, j)
                     ELSE IF Resolved(u, stored) THEN Execute(s, Committed(x, stored), j)
                     ELSE IF j.cmd = u.cmd
                       THEN Pair(x, [j EXCEPT !.pc = "commit", !.stage = "Writing",
                                              !.replay = TRUE])
                     ELSE Done(x, j, "unknown"))

Start(s) ==
    /\ Tracked(s) /\ Free(s) /\ session[s].waiting # <<>>
    /\ LET j == Head(session[s].waiting)
           transfer == IF j.cmd = None THEN FALSE ELSE j.cmd.type = "transfer"
       IN  Run(s, [session[s] EXCEPT !.waiting = Tail(@),
                                     !.chat = IF transfer THEN None ELSE @], j)
    /\ UNCHANGED <<owns, routes, topo, requests, links, database, scene>>

(* The write is put together for the incarnation that is connected. *)
Propose(s) ==
    LET j == job[s]  x == session[s]  i == j.budget
        shard == IF j.cmd.type = "transfer" THEN j.cmd.arg ELSE Routed(x)
        here == IF owns[shard] = None THEN FALSE
                ELSE owns[shard].owner = [inst |-> i, inc |-> peer[i].inc]
        owner == [binding |-> s, inst |-> i, inc |-> peer[i].inc,
                  version |-> owns[shard].version]
        loc == CASE j.cmd.type = "enter" ->
                      IF x.record.loc = None THEN Location(1, 0) ELSE x.record.loc
                 [] j.cmd.type = "transfer" -> Location(shard, 0)
                 [] OTHER -> Location(shard, j.cmd.arg)
        w == [job |-> j.id, cmd |-> j.cmd, epoch |-> x.record.epoch,
              expected |-> x.record.owner, owner |-> owner, loc |-> loc]
    IN  /\ At(s, "propose")
        /\ Resume(s,
             IF peer[i].inc = None \/ ~here THEN Done(x, j, "refused")
             ELSE IF j.cmd.type = "move" /\ x.record.owner # owner THEN Done(x, j, "refused")
             ELSE Call(x, [j EXCEPT !.write = w],
                       IF j.cmd.type = "move" THEN "propose" ELSE "prepare", i, "write"))
        /\ UNCHANGED <<owns, routes, demand, topo, requests, links, database, scene>>

Connected(i) ==
    /\ peer[i].inc # None
    /\ scene[i].inc = peer[i].inc /\ peer[i].gen \in scene[i].open

(* The instance receives a call and reads the record of its shard. *)
Send(s) ==
    /\ At(s, "send")
    /\ LET i == job[s].to IN
       /\ Connected(i) /\ peer[i].inc = MeantFor(s)
       /\ job' = [job EXCEPT ![s].pc = "serve", ![s].conn = peer[i].gen,
                             ![s].read = shards[Message(s, 0).shard]]
    /\ UNCHANGED <<session, told, owns, routes, demand, topo, requests, links, database, scene>>

(* A call for an incarnation that is gone is stale; one that cannot be     *)
(* connected has no reply.                                                 *)
Unsent(s) ==
    /\ At(s, "send")
    /\ LET i == job[s].to IN
       /\ peer[i].inc # MeantFor(s)
       /\ Resume(s, IF peer[i].inc = None THEN Unanswered(s, session[s], job[s])
                    ELSE Replied(s, session[s], job[s], FALSE))
    /\ UNCHANGED <<owns, routes, demand, topo, requests, links, database, scene>>

Served(s) ==
    /\ At(s, "serve")
    /\ LET j == job[s]  i == j.to
           r == Serve(i, scene[i], j.op, Message(s, j.conn), j.read)
       IN  /\ Connected(i) /\ peer[i].gen = j.conn
           /\ scene' = [scene EXCEPT ![i] = r.scene]
           /\ Resume(s, Replied(s, session[s], j, r.ok))
    /\ UNCHANGED <<owns, routes, demand, topo, requests, links, database>>

(* The connection broke: the request may still be served. *)
Broken(s) ==
    /\ At(s, "serve")
    /\ LET j == job[s] IN
       /\ peer[j.to].gen # j.conn
       /\ late' = late \cup {[to |-> j.to, op |-> j.op, msg |-> Message(s, j.conn),
                              read |-> j.read]}
       /\ Resume(s, Unanswered(s, session[s], j))
    /\ UNCHANGED <<owns, routes, demand, topo, requests, peer, slot, avail, faults,
                   database, scene>>

LateServed(m) ==
    /\ m \in late
    /\ late' = late \ {m}
    /\ scene' = IF m.msg.conn \in scene[m.to].open
                  THEN [scene EXCEPT ![m.to] =
                          Serve(m.to, @, m.op, m.msg, m.read).scene]
                  ELSE scene
    /\ UNCHANGED <<worker, peer, slot, avail, faults, database>>

(* commit: the write is unresolved until its outcome is known. *)
Commit(s) ==
    LET w == session[s].unresolved
        x == [session[s] EXCEPT !.unresolved = None]
    IN  /\ At(s, "commit")
        /\ \/ /\ ApplyCommit(w)
              /\ Resume(s, Finish(s, x, job[s], CommitOutcome(w), stored'))
              /\ UNCHANGED <<limbo, faults>>
           \/ /\ Fault("uncertain")
              /\ UncertainCommit(w)
              /\ job' = [job EXCEPT ![s].pc = "readback"]
              /\ UNCHANGED <<session, told>>
        /\ UNCHANGED <<owns, routes, demand, topo, requests, peer, slot, late, avail,
                       shards, instances, scene>>

(* commit, once the outcome was lost: the write is looked for. *)
Readback(s) ==
    LET w == session[s].unresolved
        x == [session[s] EXCEPT !.unresolved = None]
    IN  /\ At(s, "readback")
        /\ Resume(s, IF Resolved(w, stored) THEN Finish(s, x, job[s], "Committed", stored)
                     ELSE Done(session[s], job[s], "unknown"))
        /\ UNCHANGED <<owns, routes, demand, topo, requests, links, database, scene>>

(* snapshot: the members are asked for, and the session has to be one. *)
Snapshot(s) ==
    LET x == session[s]  i == x.record.owner.inst
        h == scene[i].hosted[x.record.loc.shard]
        present == IF ~Connected(i) \/ h = None THEN FALSE
                   ELSE IF h.active = None THEN FALSE ELSE h.active.epoch = x.record.epoch
    IN  /\ At(s, "snapshot")
        /\ Resume(s, Done(IF present THEN x ELSE Unavailable(x), job[s], "ok"))
        /\ UNCHANGED <<owns, routes, demand, topo, requests, links, database, scene>>

-----------------------------------------------------------------------------
(* What a session leaves behind. *)
RemoveMessage(s, old, conn) ==
    [conn |-> conn, epoch |-> old.epoch, binding |-> s, shard |-> old.loc.shard,
     version |-> old.owner.version, cmd |-> old.last.cmd, loc |-> old.loc]

(* retire: REMOVE, unless the shard or the incarnation is gone. *)
Retire(s) ==
    \E sh \in Shards :
      /\ session[s].retire[sh] # None
      /\ \A t \in Shards : t < sh => session[s].retire[t] = None
      /\ LET old == session[s].retire[sh]
             i == old.owner.inst
             gone == IF owns[sh] = None THEN FALSE
                     ELSE \/ owns[sh].version # old.owner.version
                          \/ owns[sh].owner # [inst |-> i, inc |-> old.owner.inc]
             r == Serve(i, scene[i], "remove", RemoveMessage(s, old, peer[i].gen), shards[sh])
             Erased == session' = [session EXCEPT ![s].retire[sh] = None]
         IN  \/ /\ gone \/ peer[i].inc # old.owner.inc
                /\ Erased /\ UNCHANGED scene
             \/ /\ ~gone /\ peer[i].inc = old.owner.inc /\ Connected(i)
                /\ scene' = [scene EXCEPT ![i] = r.scene]
                /\ IF r.ok THEN Erased ELSE UNCHANGED session
      /\ UNCHANGED <<job, told, owns, routes, demand, topo, requests, links, database>>

Cleaning(s) ==
    /\ Tracked(s) /\ ~session[s].alive /\ ~session[s].reclaimed
    /\ job[s] = None /\ session[s].waiting = <<>>

(* cleanup: the unresolved write is settled, by writing it again. *)
CleanupSettle(s) ==
    LET w == session[s].unresolved
        x == [session[s] EXCEPT !.record = stored']
    IN  /\ Cleaning(s) /\ w # None
        /\ ApplyCommit(w)
        /\ session' = [session EXCEPT ![s] =
             CASE CommitOutcome(w) \in {"Committed", "Replayed"} -> Committed(x, stored')
               [] CommitOutcome(w) = "StaleBinding" -> [x EXCEPT !.unresolved = None]
               [] OTHER -> x]
        /\ UNCHANGED <<job, told, owns, routes, demand, topo, requests, links, limbo,
                       shards, instances, scene>>

(* cleanup: the binding is revoked and its place retired. *)
CleanupRevoke(s) ==
    LET x == session[s]
        old == IF Owned(x, s) THEN x.record ELSE x.lastOwned
    IN  /\ Cleaning(s) /\ x.unresolved = None
        /\ IF Owned(x, s) THEN Revoke(x.record.epoch, x.record.owner) ELSE UNCHANGED stored
        /\ session' = [session EXCEPT ![s].reclaimed = TRUE,
             ![s].retire = IF old = None THEN @ ELSE [@ EXCEPT ![old.loc.shard] = old]]
        /\ UNCHANGED <<job, told, owns, routes, demand, topo, requests, links, limbo,
                       committed, shards, instances, scene>>

-----------------------------------------------------------------------------
(* The instances, as the realm sees them. *)
Report(v) ==
    [sh \in Shards |->
       IF v.hosted[sh] = None THEN None
       ELSE [version |-> v.known[sh].version,
             empty |-> v.hosted[sh].active = None /\ v.hosted[sh].prepared = None]]

Current(i) == instances[i] # None /\ instances[i].inc = scene[i].inc

(* Peer::connect, with the STATUS that tells the incarnation. *)
PeerConnect(i) ==
    LET v == Status(i, scene[i])
    IN  /\ avail[i] /\ peer[i].inc = None /\ Current(i) /\ ~Complete(v)
        /\ scene' = [scene EXCEPT ![i] = [v EXCEPT !.open = v.open \cup {peer[i].gen}]]
        /\ peer' = [peer EXCEPT ![i].inc = v.inc]
        /\ UNCHANGED <<worker, slot, late, avail, faults, database>>

(* Peer::disconnect, and run, which makes the sessions that live there     *)
(* unavailable.                                                            *)
Disconnect(i) ==
    /\ peer' = [peer EXCEPT ![i] = [inc |-> None, gen |-> @.gen + 1]]
    /\ session' = [s \in Sessions |->
         LET x == session[s] IN
         IF x.record = None THEN x
         ELSE IF x.record.owner = None THEN x
         ELSE IF x.record.owner.inst = i THEN Unavailable(x) ELSE x]
    /\ UNCHANGED <<job, told, owns, routes, demand, topo, requests, slot, late,
                   database, scene>>

PeerReset(i) ==
    /\ peer[i].inc # None
    /\ \/ ~Connected(i) /\ UNCHANGED faults
       \/ i \in Faulty /\ Connected(i) /\ Fault("reset")
    /\ Disconnect(i) /\ UNCHANGED avail

Hangup(i, conn) ==
    /\ peer[i].inc = None \/ peer[i].gen # conn
    /\ SceneClosed(i, conn)
    /\ UNCHANGED <<worker, links, database>>

(* health.  What an instance hosts is looked at once it drains, which only  *)
(* the faulty ones do.                                                     *)
Health(i) ==
    LET v == Status(i, scene[i])
        ok == Connected(i) /\ Current(i)
    IN  /\ scene' = IF ok THEN [scene EXCEPT ![i] = v] ELSE scene
        /\ slot' = [slot EXCEPT ![i] =
             IF ok THEN [@ EXCEPT !.ready = ~Complete(v), !.draining = v.draining,
                                  !.hosted = IF i \in Faulty THEN Report(v) ELSE slot[i].hosted]
             ELSE [@ EXCEPT !.ready = FALSE]]
        /\ UNCHANGED <<worker, peer, late, avail, faults, database>>

(* remember: a newer record of a shard; sessions it leaves behind become   *)
(* unavailable.                                                            *)
Newer(sh, record) ==
    LET old == owns[sh] IN
    IF old = None THEN TRUE
    ELSE ~(\/ old.version > record.version
           \/ old.version = record.version /\ old.draining /\ ~record.draining)

Remember(sh, record) ==
    LET Left(x) ==
          IF ~x.active \/ x.record = None THEN FALSE
          ELSE IF x.record.owner = None THEN FALSE
          ELSE /\ x.record.loc.shard = sh
               /\ \/ record.version # x.record.owner.version
                  \/ record.owner # [inst |-> x.record.owner.inst, inc |-> x.record.owner.inc]
    IN  IF Newer(sh, record)
          THEN /\ owns' = [owns EXCEPT ![sh] = record]
               /\ routes' = IF record.owner = None THEN routes
                            ELSE [routes EXCEPT ![sh] = record.owner.inst]
               /\ session' = [s \in Sessions |->
                    IF Left(session[s]) THEN Unavailable(session[s]) ELSE session[s]]
          ELSE UNCHANGED <<owns, routes, session>>

(* Mutant of PendingOn: the sessions that live there are not asked. *)
PendingJobs(i) == \E s \in Sessions : job[s] # None /\ job[s].budget = i

(* pending_on: an instance that some session still depends on. *)
PendingOn(i) ==
    \E s \in Sessions :
      LET x == session[s] IN
      \/ job[s] # None /\ job[s].budget = i
      \/ \E n \in DOMAIN x.waiting : x.waiting[n].budget = i
      \/ Tracked(s) /\
           (\/ x.drainFrom = i
            \/ x.alive /\ Owned(x, s) /\ x.record.owner.inst = i
            \/ \E sh \in Shards : x.retire[sh] # None /\ x.retire[sh].owner.inst = i
            \/ x.unresolved # None /\
                 (\/ x.unresolved.owner.inst = i
                  \/ x.unresolved.expected # None /\ x.unresolved.expected.inst = i))

Candidate(i) == avail[i] /\ slot[i].ready /\ ~slot[i].draining /\ peer[i].inc # None

(* topology: the change of a shard record that is due. *)
Released(sh, current) ==
    LET i == current.owner.inst IN
    IF current.draining /\ ~PendingOn(i) /\ slot[i].hosted[sh] # None
      THEN IF slot[i].hosted[sh] = [version |-> current.version, empty |-> TRUE]
             THEN {[version |-> current.version + 1, owner |-> None, draining |-> FALSE]}
             ELSE {}
      ELSE {}

Assigned(sh, current) ==
    LET version == IF current = None THEN 1 ELSE current.version + 1
        ready == {i \in Instances : Candidate(i)}
        chosen == IF current = None THEN ready \cap {sh}
                  ELSE {i \in ready : \A k \in ready : i <= k}
    IN  {[version |-> version, owner |-> [inst |-> i, inc |-> peer[i].inc],
          draining |-> FALSE] : i \in chosen}

Desired(sh, current) ==
    IF current = None THEN Assigned(sh, current)
    ELSE IF current.owner = None
      THEN IF sh \in demand THEN Assigned(sh, current) ELSE {}
    ELSE LET i == current.owner.inst
             failed == \/ ~avail[i]
                       \/ peer[i].inc # None /\ peer[i].inc # current.owner.inc
         IN  IF failed THEN Assigned(sh, current) ELSE Released(sh, current)

(* topology: a shard record is read and a change decided on; the record is *)
(* exchanged in a later step.                                              *)
Topology(sh) ==
    LET current == shards[sh]
        desired == {d \in Desired(sh, current) : d.version <= MaxVersion}
    IN  /\ topo = None
        /\ IF current = None THEN UNCHANGED <<owns, routes, session>>
           ELSE Remember(sh, current)
        /\ topo' = IF desired = {} THEN None
                   ELSE [shard |-> sh, current |-> current,
                         desired |-> CHOOSE d \in desired : TRUE]
        /\ UNCHANGED <<job, told, demand, requests, links, database, scene>>

TopologyExchange ==
    /\ topo # None
    /\ ExchangeShard(topo.shard, topo.current, topo.desired)
    /\ IF ShardMatches(topo.shard, topo.current, topo.desired)
         THEN /\ Remember(topo.shard, topo.desired)
              /\ demand' = demand \ {topo.shard}
         ELSE UNCHANGED <<owns, routes, session, demand>>
    /\ topo' = None
    /\ UNCHANGED <<job, told, requests, links, stored, instances, limbo, committed, scene>>

(* drain: a session is moved off an instance that drains, by a transfer    *)
(* that is repeated until it is known to have succeeded.                   *)
DrainTargets(x, origin) ==
    {sh \in Shards \ {x.record.loc.shard} :
       IF owns[sh] = None THEN FALSE
       ELSE /\ owns[sh].owner # None
            /\ ~owns[sh].draining
            /\ owns[sh].owner.inst # origin /\ Candidate(owns[sh].owner.inst)}

Draining(s) ==
    LET x == session[s] IN
    /\ Tracked(s) /\ Free(s) /\ x.alive /\ x.waiting = <<>> /\ Owned(x, s)

Drained(x) ==
    IF x.drainCmd = None THEN FALSE
    ELSE /\ x.active /\ x.unresolved = None /\ ~x.confirm
         /\ x.record.loc.shard = x.drainCmd.arg /\ x.record.last.cmd.seq >= x.drainCmd.seq

Drain(s) ==
    LET x == session[s]
        origin == IF x.drainFrom # None THEN x.drainFrom ELSE x.record.owner.inst
        cmds == IF x.drainCmd # None THEN {x.drainCmd}
                ELSE {Command("transfer", LastSeq(x.record) + 1, sh) :
                        sh \in DrainTargets(x, origin)}
        To(cmd) == IF x.unresolved # None THEN x.unresolved.owner.inst
                   ELSE IF x.drainCmd # None /\ x.record.last.cmd = cmd THEN x.record.owner.inst
                   ELSE IF owns[cmd.arg] = None THEN None
                   ELSE IF owns[cmd.arg].owner = None THEN None ELSE owns[cmd.arg].owner.inst
        Settle == /\ session' = [session EXCEPT ![s].drainFrom = None, ![s].drainCmd = None]
                  /\ UNCHANGED <<job, told, demand>>
        Repeat == \E cmd \in cmds :
                    /\ To(cmd) # None /\ cmd.seq <= MaxSeq
                    /\ Run(s, [x EXCEPT !.drainFrom = origin, !.drainCmd = cmd, !.chat = None],
                           NewJob(0, cmd, To(cmd), TRUE))
    IN  /\ Draining(s)
        /\ x.drainFrom = None => x.unresolved = None /\ ~x.confirm /\ slot[origin].draining
        /\ IF Drained(x) THEN Settle ELSE Repeat
        /\ UNCHANGED <<owns, routes, topo, requests, links, database, scene>>

-----------------------------------------------------------------------------
(* Faults. *)
(* The endpoint is withdrawn: the peer hangs up. *)
Discovery(i) ==
    /\ avail[i] /\ peer[i].inc # None /\ Fault("discovery")
    /\ avail' = [avail EXCEPT ![i] = FALSE]
    /\ Disconnect(i)

Crash(i) ==
    /\ Fault("crash") /\ SceneCrash(i)
    /\ UNCHANGED <<worker, peer, slot, late, avail>>

Operator(i) ==
    /\ BeginDraining(i) /\ Current(i) /\ Fault("drain")
    /\ UNCHANGED <<worker, peer, slot, late, avail>>

ServiceStep(i) ==
    \/ SceneStarts(i) /\ UNCHANGED <<worker, links>>
    \/ FenceDraining(i) /\ UNCHANGED <<worker, links>>
    \/ \E sh \in Shards :
         Expire(i, sh) /\ Fault("expire") /\ UNCHANGED <<worker, peer, slot, late, avail>>
    \/ \E conn \in 0..peer[i].gen : Hangup(i, conn)
    \/ PeerConnect(i) \/ PeerReset(i) \/ Health(i)
    \/ i \in Faulty /\ (Discovery(i) \/ Crash(i) \/ Operator(i))

(* The realm goes down without cleaning up, and starts again. *)
RealmCrash ==
    /\ Fault("realm")
    /\ session' = [s \in Sessions |->
         IF session[s].selected THEN [NewSession EXCEPT !.selected = TRUE] ELSE NewSession]
    /\ job' = [s \in Sessions |-> None]
    /\ owns' = NoShards /\ routes' = [sh \in Shards |-> sh] /\ demand' = {} /\ topo' = None
    /\ peer' = [i \in Instances |-> [inc |-> None, gen |-> peer[i].gen + 1]]
    /\ slot' = [i \in Instances |-> NewSlot]
    /\ UNCHANGED <<told, late, requests, avail, database, scene>>

JobStep(s) ==
    \/ Start(s) \/ Propose(s) \/ Send(s) \/ Unsent(s) \/ Served(s)
    \/ Broken(s) \/ Commit(s) \/ Readback(s) \/ Snapshot(s) \/ Timeout(s)
    \/ Drain(s)

Next ==
    \/ \E s \in Sessions :
         \/ Select(s) \/ Closed(s) \/ JobStep(s)
         \/ Retire(s) \/ CleanupSettle(s) \/ CleanupRevoke(s)
         \/ \E cmd \in Commands \cup {None} : Request(s, cmd)
    \/ \E m \in late : LateServed(m)
    \/ \E w \in limbo : LateCommit(w) /\ UNCHANGED <<worker, links, scene>>
    \/ \E sh \in Shards : Topology(sh)
    \/ TopologyExchange
    \/ \E i \in Instances : ServiceStep(i)
    \/ RealmCrash

Spec == Init /\ [][Next]_vars

-----------------------------------------------------------------------------
(* Safety. *)

(* A member that a scene shows was committed: no client sees a place that  *)
(* the player data does not have in its past.                              *)
ActiveCommitted ==
    \A i \in Instances, sh \in Shards :
      LET h == scene[i].hosted[sh] IN
      IF h = None THEN TRUE
      ELSE IF h.active = None THEN TRUE
      ELSE \E c \in committed :
             /\ c.result.cmd = h.active.cmd /\ c.result.epoch = h.active.epoch
             /\ c.result.loc = h.active.loc /\ c.result.owner.binding = h.active.binding

(* A request that was refused was not written, and never will be: only     *)
(* "outcome unknown" leaves that open, also when the deadline passes while *)
(* the job is about to write.                                              *)
RefusedNotWritten ==
    \A t \in told : t.kind = "refused" => \A c \in committed : c.job # t.job

(* A command that was answered with success is in the player data. *)
ToldTrue ==
    \A t \in told :
      t.kind = "ok" /\ t.cmd # None => \E c \in committed : c.result.cmd = t.cmd

(* A client can rely on what it was answered. *)
AnswersTrue == RefusedNotWritten /\ ToldTrue

(* A member that is shown, over a connection that works, by a shard that   *)
(* is still in its version, and that is not the binding of the character.  *)
Ghost(i, sh) ==
    LET h == scene[i].hosted[sh] IN
    IF h = None \/ ~Connected(i) THEN FALSE
    ELSE IF h.active = None THEN FALSE
    ELSE /\ h.active.conn = peer[i].gen /\ h.active.version = shards[sh].version
         /\ ~(/\ stored.owner # None
              /\ stored.epoch = h.active.epoch /\ stored.owner.binding = h.active.binding)

(* Somebody still has to take it away. *)
Handled(sh) ==
    \E s \in Sessions :
      LET x == session[s] IN
      /\ Tracked(s)
      /\ \/ job[s] # None \/ x.unresolved # None
         \/ ~x.alive /\ ~x.reclaimed
         \/ x.retire[sh] # None

(* Its session was bound to the same shard again: only the last of two     *)
(* bindings of a shard is retired.                                         *)
Rebound(i, sh) ==
    LET a == scene[i].hosted[sh].active IN
    \E c \in committed :
      /\ c.result.owner.binding = a.binding
      /\ c.result.loc.shard = sh /\ c.result.epoch > a.epoch

(* When its session ends or moves on, the scene takes the member away:     *)
(* over a connection that works a member is the current binding of the     *)
(* character, or its removal is under way.                                 *)
LeavesNoMember == \A i \in Instances, sh \in Shards : Ghost(i, sh) => Handled(sh)

(* The same, but for a session that was bound to the same shard twice. *)
NoGhost ==
    \A i \in Instances, sh \in Shards :
      Ghost(i, sh) => Handled(sh) \/ Rebound(i, sh)

(* A shard is not released while the binding of a session that is alive    *)
(* points at it: draining moves everybody off first.                       *)
LiveNotReleased ==
    stored.owner # None /\ session[stored.owner.binding].alive
    => LET r == shards[stored.loc.shard]
       IN  ~(r.owner = None /\ r.version = stored.owner.version + 1)
=============================================================================
