---------------------------- MODULE SceneService ----------------------------
(***************************************************************************)
(* The scene services: SceneShard under DynamicSceneModule.  A request is  *)
(* handled in two steps: a worker reads the shard record, and the frame    *)
(* merges what was read and lets the shard handle the request.  In between *)
(* the record may change.                                                  *)
(*                                                                         *)
(* With one character a shard has at most one active, one prepared and one *)
(* candidate member.  Coordinates are positions, all within one move.      *)
(***************************************************************************)
EXTENDS SceneStore

CONSTANTS Positions

ASSUME PositionsAssumption == Positions \subseteq Nat

VARIABLE scene   \* each instance; see NewInstance

(* hosted: shards_; open: the connections of the realm, by number. *)
NewInstance(inc) ==
    [inc |-> inc, known |-> [sh \in Shards |-> None],
     hosted |-> [sh \in Shards |-> None],
     draining |-> FALSE, fenced |-> FALSE, open |-> {}]

NewShard(draining) ==
    [active |-> None, prepared |-> None, candidate |-> None, draining |-> draining]

InitScenes ==
    scene = [i \in Instances |->
      [NewInstance(1) EXCEPT !.open = {0}, !.known = shards,
         !.hosted = [sh \in Shards |-> IF sh = i THEN NewShard(FALSE) ELSE None]]]

-----------------------------------------------------------------------------
(* SceneShard::handle.  A request m names the connection, the route (epoch,*)
(* binding, shard, version), the command and the place.                    *)
SameBinding(a, m) ==
    IF a = None THEN FALSE
    ELSE /\ a.conn = m.conn /\ a.epoch = m.epoch /\ a.binding = m.binding
         /\ a.version = m.version

ReceiptMatches(a, m) == IF SameBinding(a, m) THEN a.cmd = m.cmd ELSE FALSE

Matches(a, m) == IF ReceiptMatches(a, m) THEN a.loc = m.loc ELSE FALSE

Ok(h) == [shard |-> h, ok |-> TRUE]
No(h) == [shard |-> h, ok |-> FALSE]

Prepare(h, m) ==
    LET behind == /\ h.active # None
                  /\ ~(SameBinding(h.active, m) /\ m.cmd.seq > h.active.cmd.seq)
                  /\ m.epoch <= h.active.epoch
    IN  IF Matches(h.active, m) \/ Matches(h.prepared, m) THEN Ok(h)
        ELSE IF \/ behind
                \/ h.prepared # None /\ m.epoch <= h.prepared.epoch
                \/ h.draining
          THEN No(h)
        ELSE Ok([h EXCEPT !.prepared = m])

Activate(h, m) ==
    IF ReceiptMatches(h.active, m) THEN Ok(h)
    ELSE IF ReceiptMatches(h.prepared, m)
      THEN Ok([h EXCEPT !.active = h.prepared, !.prepared = None, !.candidate = None])
    ELSE No(h)

(* Mutant of ProposeMove: the candidate is shown at once. *)
ProposeShown(h, m) ==
    IF SameBinding(h.active, m) /\ m.cmd.seq = h.active.cmd.seq + 1
      THEN Ok([h EXCEPT !.active = m]) ELSE No(h)

ProposeMove(h, m) ==
    IF /\ SameBinding(h.active, m) /\ m.cmd.seq = h.active.cmd.seq + 1
       /\ (h.candidate # None => Matches(h.candidate, m))
      THEN Ok([h EXCEPT !.candidate = m]) ELSE No(h)

Confirm(h, m) ==
    IF Matches(h.active, m) THEN Ok(h)
    ELSE IF Matches(h.candidate, m)
      THEN Ok([h EXCEPT !.active = h.candidate, !.candidate = None])
    ELSE No(h)

Without(a, m) == IF SameBinding(a, m) THEN None ELSE a

Remove(h, m) ==
    Ok([h EXCEPT !.active = Without(@, m), !.prepared = Without(@, m),
                 !.candidate = Without(@, m)])

Handle(h, op, m) ==
    CASE op = "prepare" -> Prepare(h, m)
      [] op = "activate" -> Activate(h, m)
      [] op = "propose" -> ProposeMove(h, m)
      [] op = "confirm" -> Confirm(h, m)
      [] op = "remove" -> Remove(h, m)

(* SceneShard::closed. *)
Unconnected(h, conn) ==
    IF h = None THEN None
    ELSE LET Keep(a) == IF a = None THEN None ELSE IF a.conn = conn THEN None ELSE a
         IN  [h EXCEPT !.active = Keep(@), !.prepared = Keep(@), !.candidate = Keep(@)]

-----------------------------------------------------------------------------
(* merge: the record read for a shard replaces an older one; a shard that  *)
(* is new here, or has a new version, starts empty.                        *)
Merge(i, v, shard, read) ==
    LET old == v.known[shard]
        mine == read # None /\ read.owner = [inst |-> i, inc |-> v.inc]
        fresh == IF old = None THEN TRUE ELSE old.version # read.version
        drains == v.draining \/ read.draining
        host == IF fresh \/ v.hosted[shard] = None THEN NewShard(drains)
                ELSE [v.hosted[shard] EXCEPT !.draining = @ \/ drains]
        stale == /\ old # None /\ read # None
                 /\ \/ old.version > read.version
                    \/ old.version = read.version /\ old.draining /\ ~read.draining
    IN  IF read = None \/ stale THEN v
        ELSE IF ~mine
          THEN [v EXCEPT !.known[shard] = read, !.hosted[shard] = None]
        ELSE [v EXCEPT !.known[shard] = read, !.hosted[shard] = host,
                       !.draining = drains]

(* handle: a request of a shard that is hosted in the version it names. *)
Serve(i, v, op, m, read) ==
    LET n == Merge(i, v, m.shard, read)
        hosts == n.hosted[m.shard] # None /\ n.known[m.shard].version = m.version
        h == Handle(n.hosted[m.shard], op, m)
    IN  IF hosts THEN [scene |-> [n EXCEPT !.hosted[m.shard] = h.shard], ok |-> h.ok]
        ELSE [scene |-> n, ok |-> FALSE]

(* STATUS: the instance record fences, and every shard record is merged,   *)
(* in the order of the shards: one that drains makes those after it drain. *)
Status(i, v) ==
    LET fenced == [v EXCEPT !.fenced = @ \/ instances[i].draining,
                            !.draining = @ \/ instances[i].draining]
        Drains(sh) == Merge(i, fenced, sh, shards[sh]).draining
        Merged(sh) ==
          Merge(i, [fenced EXCEPT !.draining = @ \/ \E t \in Shards : t < sh /\ Drains(t)],
                sh, shards[sh])
    IN  [fenced EXCEPT !.known = [sh \in Shards |-> Merged(sh).known[sh]],
                       !.hosted = [sh \in Shards |-> Merged(sh).hosted[sh]],
                       !.draining = \E sh \in Shards : Drains(sh)]

Complete(v) == v.draining /\ v.fenced /\ \A sh \in Shards : v.hosted[sh] = None

-----------------------------------------------------------------------------
(* started: the incarnation is published in the instance record. *)
SceneStarts(i) ==
    /\ instances[i] = None \/ (instances[i] # None /\ instances[i].inc # scene[i].inc)
    /\ ExchangeInstance(i, [inc |-> scene[i].inc, draining |-> FALSE])
    /\ UNCHANGED <<scene, stored, limbo, committed>>

(* A service is killed and comes back with a new incarnation. *)
SceneCrash(i) ==
    /\ scene' = [scene EXCEPT ![i] = NewInstance(scene[i].inc + 1)]
    /\ UNCHANGED database

(* SET_DRAINING: the flag at once, then the fence in the database. *)
BeginDraining(i) ==
    LET v == scene[i]
        Drained(h) == IF h = None THEN None ELSE [h EXCEPT !.draining = TRUE]
    IN  /\ ~v.draining
        /\ scene' = [scene EXCEPT ![i] =
             [v EXCEPT !.draining = TRUE,
                       !.hosted = [sh \in Shards |-> Drained(v.hosted[sh])]]]
        /\ UNCHANGED database

FenceDraining(i) ==
    /\ scene[i].draining /\ instances[i] = [inc |-> scene[i].inc, draining |-> FALSE]
    /\ ExchangeInstance(i, [inc |-> scene[i].inc, draining |-> TRUE])
    /\ UNCHANGED <<scene, stored, limbo, committed>>

(* expire: what was prepared or proposed and never followed up. *)
Expire(i, shard) ==
    /\ scene[i].hosted[shard] # None
    /\ \/ scene[i].hosted[shard].prepared # None
       \/ scene[i].hosted[shard].candidate # None
    /\ scene' = [scene EXCEPT ![i].hosted[shard] =
         [@ EXCEPT !.prepared = None, !.candidate = None]]
    /\ UNCHANGED database

(* The service sees that a connection has ended. *)
SceneClosed(i, conn) ==
    LET v == scene[i] IN
    /\ conn \in v.open
    /\ scene' = [scene EXCEPT ![i] =
         [v EXCEPT !.open = v.open \ {conn},
                   !.hosted = [sh \in Shards |-> Unconnected(v.hosted[sh], conn)]]]
=============================================================================
