---------------------------- MODULE ScenesProofs ----------------------------
(***************************************************************************)
(* Proofs about RealmScenes: what a scene shows was committed, and what a  *)
(* client was answered is true.  The invariant has six parts:              *)
(*                                                                         *)
(*  - the shard records, as they are in the database, in the worker and in *)
(*    the services, have their types (Infra);                              *)
(*  - the record of the character and the writes whose outcome is not      *)
(*    known agree with the history of the commits (StoreOk);               *)
(*  - of a session and its job, what is sent, written and answered next    *)
(*    rests on that history (SessionsOk);                                  *)
(*  - so do the members that the services hold (MembersOk), and the calls  *)
(*    that are still at a service (LateOk);                                *)
(*  - the ids of the requests are told apart, and a request that was       *)
(*    refused is not and will not be written (IdsOk).                      *)
(***************************************************************************)
EXTENDS RealmScenes, SequenceTheorems, TLAPS

-----------------------------------------------------------------------------
(* Types. *)
CommitType == [job : Nat, result : ResultType]

TransferType == [type : {"transfer"}, seq : Nat, arg : Shards]

(* A record that has a place. *)
LeftType ==
    [epoch : Nat, owner : OwnerType \cup {None}, loc : PlaceType,
     last : ResultType \cup {None}]

HostedBy == [inst : Instances, inc : Nat]
ShardType == [version : Nat, owner : HostedBy \cup {None}, draining : BOOLEAN]

MemberType ==
    [conn : Nat, epoch : Nat, binding : Nat, shard : Shards, version : Nat,
     cmd : CommandType, loc : PlaceType]

HostType ==
    [active : MemberType \cup {None}, prepared : MemberType \cup {None},
     candidate : MemberType \cup {None}, draining : BOOLEAN]

InstanceType ==
    [inc : Nat, known : [Shards -> ShardType \cup {None}],
     hosted : [Shards -> HostType \cup {None}],
     draining : BOOLEAN, fenced : BOOLEAN, open : SUBSET Nat]

Stages == {"Queued", "Reading", "Writing", "Cancelled"}
Ops == {"prepare", "activate", "propose", "confirm"}
Purposes == {"write", "finish", "state", "replay", "command"}
Codes == {"ok", "refused", "unknown"}

JobType ==
    [id : Nat, cmd : CommandType \cup {None}, budget : Instances, drain : BOOLEAN,
     stage : Stages, late : BOOLEAN,
     pc : {"start", "propose", "send", "serve", "commit", "readback", "snapshot", "done"},
     op : Ops \cup {None}, then : Purposes \cup {None}, to : Instances \cup {None},
     conn : Nat \cup {None}, write : WriteType \cup {None},
     read : ShardType \cup {None}, replay : BOOLEAN, code : Codes \cup {None}]

SessionType ==
    [selected : BOOLEAN, alive : BOOLEAN, tracked : BOOLEAN, reclaimed : BOOLEAN,
     waiting : Seq(JobType), record : RecordType \cup {None}, active : BOOLEAN,
     confirm : BOOLEAN, unresolved : WriteType \cup {None},
     source : LeftType \cup {None}, lastOwned : LeftType \cup {None},
     retire : [Shards -> LeftType \cup {None}],
     chat : [shard : Shards, epoch : Nat] \cup {None},
     drainFrom : Instances \cup {None}, drainCmd : TransferType \cup {None}]

LateType == [to : Instances, op : Ops, msg : MemberType, read : ShardType \cup {None}]

TopicType ==
    [shard : Shards, current : ShardType \cup {None}, desired : ShardType]

ToldType ==
    [job : Nat, cmd : CommandType \cup {None}, kind : Codes]

-----------------------------------------------------------------------------
(* The history C of the commits. *)
Logged(r, C) == \E c \in C : c.result = r

(* Where a command of a sequence number leads, in a given shard. *)
Placed(cmd, loc, C) ==
    /\ cmd.type = "move" => loc.pos = cmd.arg
    /\ cmd.type = "transfer" => loc = Location(cmd.arg, 0)
    /\ cmd.type = "enter" =>
         IF cmd.seq = 1 THEN loc = Location(1, 0)
         ELSE \E c \in C : c.result.cmd.seq + 1 = cmd.seq /\ c.result.loc = loc

(* A record that the database has held. *)
RecordOk(r, C) ==
    /\ r \in RecordType
    /\ r.last # None => Logged(r.last, C) /\ r.loc = r.last.loc
    /\ r.last = None => r.loc = None
    /\ r.owner # None => r.last # None /\ r.epoch = r.last.epoch /\ r.owner = r.last.owner

WriteOk(w, C) == w \in WriteType /\ Placed(w.cmd, w.loc, C)

LogOk(C, record) ==
    /\ C \subseteq CommitType
    /\ \A c \in C : /\ Placed(c.result.cmd, c.result.loc, C)
                    /\ c.result.cmd.seq \in 1..LastSeq(record)
    /\ \A c, d \in C : c.result.cmd.seq = d.result.cmd.seq => c.result = d.result

StoreOk ==
    /\ RecordOk(stored, committed) /\ LogOk(committed, stored)
    /\ \A w \in limbo : WriteOk(w, committed)

-----------------------------------------------------------------------------
(* Members and the requests that carry them. *)
MessageOk(m, C) == m \in MemberType /\ m.loc.shard = m.shard /\ Placed(m.cmd, m.loc, C)

Proven(m, C) ==
    \E c \in C : /\ c.result.cmd = m.cmd /\ c.result.epoch = m.epoch
                 /\ c.result.loc = m.loc /\ c.result.owner.binding = m.binding

HostOk(h, sh, C) ==
    /\ h \in HostType
    /\ \A a \in {h.active, h.prepared, h.candidate} :
         a # None => MessageOk(a, C) /\ a.shard = sh
    /\ h.active # None => Proven(h.active, C)

InstanceOk(v, C) ==
    /\ v \in InstanceType
    /\ \A sh \in Shards : v.hosted[sh] # None => HostOk(v.hosted[sh], sh, C)

MembersOk ==
    /\ scene \in [Instances -> InstanceType]
    /\ \A i \in Instances : InstanceOk(scene[i], committed)

RequestOk(op, m, C) ==
    /\ op \in Ops /\ MessageOk(m, C)
    /\ op \in {"activate", "confirm"} => Proven(m, C)

LateOk ==
    /\ late \subseteq LateType
    /\ \A m \in late : RequestOk(m.op, m.msg, committed)

-----------------------------------------------------------------------------
(* Sessions and jobs. *)
Calling(j) == j.pc \in {"send", "serve"}

JobOk(s, x, j, C) ==
    /\ j \in JobType /\ (j.drain <=> j.id = 0)
    /\ j.pc \in {"propose", "send", "serve", "commit", "readback", "snapshot"}
    /\ j.pc = "propose" \/ (Calling(j) /\ j.then = "command") =>
         /\ j.cmd \in CommandType /\ x.record # None
         /\ j.cmd.seq = LastSeq(x.record) + 1
    /\ Calling(j) =>
         /\ j.op \in Ops /\ j.then \in Purposes /\ j.to \in Instances
         /\ j.pc = "serve" => j.conn \in Nat
         /\ j.then = "write" =>
              /\ j.op \in {"prepare", "propose"}
              /\ WriteOk(j.write, C) /\ j.write.cmd = j.cmd /\ j.write.job = j.id
              /\ j.write.owner.binding = s
         /\ j.then # "write" => j.op # "propose" /\ Owned(x, s)
         /\ j.then \in {"finish", "replay"} => j.cmd = x.record.last.cmd
         /\ j.then = "state" => j.cmd = None
         /\ j.op = "confirm" => j.then = "finish"
         /\ j.then = "finish" => j.stage = "Writing"
         /\ j.then # "finish" => j.stage # "Writing"
    /\ j.pc \in {"commit", "readback"} =>
         x.unresolved # None /\ x.unresolved.cmd = j.cmd /\ j.stage = "Writing"
    /\ j.pc \in {"propose", "snapshot"} => j.stage # "Writing"
    /\ j.pc = "snapshot" => j.cmd = None

SessionOk(s, x, C) ==
    /\ x \in SessionType
    /\ x.record # None => RecordOk(x.record, C)
    /\ x.unresolved # None => WriteOk(x.unresolved, C) /\ x.unresolved.owner.binding = s
    /\ ~x.selected => x = NewSession
    /\ \A n \in DOMAIN x.waiting : x.waiting[n].stage # "Writing" /\ ~x.waiting[n].drain

(* Only the cleanup of a session that has ended revokes its binding. *)
Bound(s) ==
    (session[s].alive \/ ~session[s].selected) /\ stored.last # None
      => (stored.last.owner.binding = s => stored.owner # None)

SessionsOk ==
    /\ session \in [Sessions -> SessionType] /\ job \in [Sessions -> JobType \cup {None}]
    /\ \A s \in Sessions :
         /\ SessionOk(s, session[s], committed)
         /\ job[s] # None => JobOk(s, session[s], job[s], committed) /\ session[s].selected
         /\ Bound(s)

-----------------------------------------------------------------------------
(* The requests that are held, by the job (0) or in the queue. *)
Held(s) == (IF job[s] = None THEN {} ELSE {0}) \cup DOMAIN session[s].waiting

JobAt(s, n) == IF n = 0 THEN job[s] ELSE session[s].waiting[n]

Unresolved(s, k) == session[s].unresolved # None /\ session[s].unresolved.job = k

WrittenBy(k) == (\E c \in committed : c.job = k) \/ (\E w \in limbo : w.job = k)

(* A request that was not written, and will not be but by its own job. *)
Unwritten(k) == ~WrittenBy(k) /\ \A s \in Sessions : ~Unresolved(s, k)

Dead(k) ==
    /\ k \in 1..requests /\ Unwritten(k)
    /\ \A s \in Sessions : \A n \in Held(s) :
         JobAt(s, n).id = k => JobAt(s, n).late /\ JobAt(s, n).stage = "Cancelled"

(* What a held request has written, or has not. *)
FitOk(s, j) ==
    /\ j.id \in 0..requests
    /\ j.stage = "Cancelled" => j.late
    /\ ~j.drain =>
         /\ j.id # 0
         /\ j.stage # "Writing" => Unwritten(j.id)
         /\ j.pc = "commit" =>
              ~WrittenBy(j.id) /\ \A t \in Sessions : Unresolved(t, j.id) => t = s

Apart ==
    \A s, t \in Sessions : \A n \in Held(s), m \in Held(t) :
      ~JobAt(s, n).drain /\ JobAt(s, n).id = JobAt(t, m).id => s = t /\ n = m

ToldOk(t) ==
    /\ t \in ToldType
    /\ t.kind = "refused" => Dead(t.job)
    /\ t.kind = "ok" /\ t.cmd # None => \E c \in committed : c.result.cmd = t.cmd

IdsOk ==
    /\ requests \in Nat /\ Apart
    /\ \A k \in Nat : k > requests => Unwritten(k)
    /\ \A s \in Sessions : \A n \in Held(s) : FitOk(s, JobAt(s, n))
    /\ \A t \in told : ToldOk(t)

Infra ==
    /\ shards \in [Shards -> ShardType \cup {None}]
    /\ owns \in [Shards -> ShardType \cup {None}]
    /\ routes \in [Shards -> Instances]
    /\ topo \in TopicType \cup {None}
    /\ peer \in [Instances -> [inc : Nat \cup {None}, gen : Nat]]

IInv == Infra /\ StoreOk /\ SessionsOk /\ MembersOk /\ LateOk /\ IdsOk

-----------------------------------------------------------------------------
(* The history only grows. *)
LEMMA Cleared == None \notin PlaceType /\ None \notin OwnerType /\ None \notin ResultType
                 /\ None \notin RecordType /\ None \notin WriteType
BY SceneStoreAssumption

LEMMA PlacedMore ==
    ASSUME NEW C, NEW D, C \subseteq D, NEW cmd, NEW loc, Placed(cmd, loc, C)
    PROVE  Placed(cmd, loc, D)
BY DEF Placed

LEMMA RecordMore ==
    ASSUME NEW C, NEW D, C \subseteq D, NEW r, RecordOk(r, C) PROVE RecordOk(r, D)
BY DEF RecordOk, Logged

LEMMA WriteMore ==
    ASSUME NEW C, NEW D, C \subseteq D, NEW w, WriteOk(w, C) PROVE WriteOk(w, D)
BY PlacedMore DEF WriteOk

LEMMA MessageMore ==
    ASSUME NEW C, NEW D, C \subseteq D, NEW m, MessageOk(m, C) PROVE MessageOk(m, D)
BY PlacedMore DEF MessageOk

LEMMA ProvenMore ==
    ASSUME NEW C, NEW D, C \subseteq D, NEW m, Proven(m, C) PROVE Proven(m, D)
BY DEF Proven

LEMMA InstanceMore ==
    ASSUME NEW C, NEW D, C \subseteq D, NEW v, InstanceOk(v, C) PROVE InstanceOk(v, D)
<1>1. ASSUME NEW h, NEW sh, HostOk(h, sh, C) PROVE HostOk(h, sh, D)
  BY <1>1, MessageMore, ProvenMore DEF HostOk
<1> QED BY <1>1 DEF InstanceOk

LEMMA RequestMore ==
    ASSUME NEW C, NEW D, C \subseteq D, NEW op, NEW m, RequestOk(op, m, C)
    PROVE  RequestOk(op, m, D)
BY MessageMore, ProvenMore DEF RequestOk

LEMMA SessionMore ==
    ASSUME NEW C, NEW D, C \subseteq D, NEW s, NEW x, SessionOk(s, x, C)
    PROVE  SessionOk(s, x, D)
BY RecordMore, WriteMore DEF SessionOk

LEMMA JobMore ==
    ASSUME NEW C, NEW D, C \subseteq D, NEW s, NEW x, NEW j, JobOk(s, x, j, C)
    PROVE  JobOk(s, x, j, D)
BY WriteMore DEF JobOk

-----------------------------------------------------------------------------
(* Two requests with one command for one shard lead to the same place. *)
LEMMA SamePlace ==
    ASSUME NEW C, NEW record, LogOk(C, record), NEW a, NEW b,
           MessageOk(a, C), MessageOk(b, C), a.cmd = b.cmd, a.shard = b.shard
    PROVE  a.loc = b.loc
<1>1. a \in MemberType /\ b \in MemberType
  BY DEF MessageOk
<1>2. a.loc \in PlaceType /\ b.loc \in PlaceType /\ a.cmd \in CommandType
  BY <1>1 DEF MemberType
<1>3. CASE a.cmd.type = "move"
  <2>1. a.loc.pos = b.loc.pos /\ a.loc.shard = b.loc.shard
    BY <1>3 DEF MessageOk, Placed
  <2> QED BY <1>2, <2>1 DEF PlaceType
<1>4. CASE a.cmd.type = "transfer"
  BY <1>4 DEF MessageOk, Placed
<1>5. CASE a.cmd.type = "enter" /\ a.cmd.seq = 1
  BY <1>5 DEF MessageOk, Placed
<1>6. CASE a.cmd.type = "enter" /\ a.cmd.seq # 1
  <2>1. PICK c \in C : c.result.cmd.seq + 1 = a.cmd.seq /\ c.result.loc = a.loc
    BY <1>6 DEF MessageOk, Placed
  <2>2. PICK d \in C : d.result.cmd.seq + 1 = a.cmd.seq /\ d.result.loc = b.loc
    BY <1>6 DEF MessageOk, Placed
  <2>3. c.result.cmd.seq \in Nat /\ d.result.cmd.seq \in Nat
    BY <2>1, <2>2 DEF LogOk
  <2>4. c.result.cmd.seq = d.result.cmd.seq
    BY <2>1, <2>2, <2>3
  <2> QED BY <2>1, <2>2, <2>4 DEF LogOk
<1>7. a.cmd.type \in {"move", "transfer", "enter"}
  BY <1>2 DEF CommandType
<1> QED BY <1>3, <1>4, <1>5, <1>6, <1>7

-----------------------------------------------------------------------------
(* The store. *)
LEMMA ResultTyped ==
    ASSUME NEW w \in WriteType
    PROVE  ResultOf(w) \in ResultType /\ ResultOf(w).cmd = w.cmd /\ ResultOf(w).loc = w.loc
           /\ ResultOf(w).epoch = EpochAfter(w) /\ ResultOf(w).owner = w.owner
           /\ EpochAfter(w) \in Nat
<1>1. EpochAfter(w) \in Nat
  BY DEF EpochAfter, WriteType
<1> QED BY <1>1 DEF ResultOf, ResultType, WriteType

LEMMA LastTyped ==
    ASSUME NEW record \in RecordType
    PROVE  LastSeq(record) \in Nat
<1>1. CASE record.last = None
  BY <1>1 DEF LastSeq
<1>2. CASE record.last # None
  <2>1. record.last \in ResultType
    BY <1>2 DEF RecordType
  <2>2. record.last.cmd \in CommandType
    BY <2>1 DEF ResultType
  <2>3. record.last.cmd.seq \in Nat
    BY <2>2 DEF CommandType
  <2> QED BY <1>2, <2>3 DEF LastSeq
<1> QED BY <1>1, <1>2

(* What commit_scene leaves. *)
LEMMA Commits ==
    ASSUME StoreOk, NEW w, WriteOk(w, committed), ApplyCommit(w)
    PROVE  /\ RecordOk(stored', committed') /\ LogOk(committed', stored')
           /\ committed \subseteq committed'
           /\ CommitOutcome(w) \in {"Committed", "Replayed"} =>
                stored'.last = ResultOf(w) /\ stored'.owner = w.owner
           /\ CommitOutcome(w) # "Committed" => stored' = stored /\ committed' = committed
           /\ \A c \in committed' : c \in committed \/ c.job = w.job
<1> DEFINE new == [epoch |-> EpochAfter(w), owner |-> w.owner, loc |-> w.loc,
                   last |-> ResultOf(w)]
           entry == [job |-> w.job, result |-> ResultOf(w)]
<1>1. /\ w \in WriteType /\ Placed(w.cmd, w.loc, committed)
      /\ RecordOk(stored, committed) /\ LogOk(committed, stored) /\ stored \in RecordType
  BY DEF WriteOk, StoreOk, RecordOk
<1>2. CASE CommitOutcome(w) # "Committed"
  <2>1. stored' = stored /\ committed' = committed
    BY <1>2 DEF ApplyCommit
  <2>2. CASE CommitOutcome(w) = "Replayed"
    <3>1. Transition(stored, w) = "Replayed"
      BY <2>2 DEF CommitOutcome
    <3>2. Resolved(w, stored) /\ stored.owner = w.owner
      BY <3>1 DEF Transition
    <3> QED BY <1>1, <2>1, <2>2, <3>2 DEF Resolved
  <2> QED BY <1>1, <1>2, <2>1, <2>2
<1>3. CASE CommitOutcome(w) = "Committed"
  <2>1. stored' = new /\ committed' = committed \cup {entry}
    BY <1>3 DEF ApplyCommit
  <2>2. Transition(stored, w) = "Committed"
    BY <1>3 DEF CommitOutcome
  <2>3. w.cmd.seq = LastSeq(stored) + 1
    BY <2>2 DEF Transition
  <2>4. /\ ResultOf(w) \in ResultType /\ ResultOf(w).cmd = w.cmd /\ ResultOf(w).loc = w.loc
        /\ ResultOf(w).epoch = EpochAfter(w) /\ ResultOf(w).owner = w.owner
        /\ EpochAfter(w) \in Nat /\ ResultOf(w) # None
    BY <1>1, ResultTyped, Cleared
  <2>5. w.job \in Nat /\ w.owner \in OwnerType /\ w.loc \in PlaceType /\ w.owner # None
    BY <1>1, Cleared DEF WriteType
  <2> HIDE DEF new
  <2>6. /\ new \in RecordType /\ new.last = ResultOf(w) /\ new.owner = w.owner
        /\ new.loc = w.loc /\ new.epoch = EpochAfter(w)
    BY <2>4, <2>5 DEF RecordType, new
  <2>7. entry \in CommitType /\ entry.job = w.job /\ entry.result = ResultOf(w)
    BY <2>4, <2>5 DEF CommitType
  <2> HIDE DEF entry
  <2>8. LastSeq(new) = w.cmd.seq
    BY <2>4, <2>6 DEF LastSeq
  <2>9. RecordOk(new, committed \cup {entry})
    BY <2>4, <2>6, <2>7 DEF RecordOk, Logged
  <2>10. LogOk(committed \cup {entry}, new)
    <3>1. LastSeq(stored) \in Nat
      BY <1>1, LastTyped
    <3>2. committed \cup {entry} \subseteq CommitType
      BY <1>1, <2>7 DEF LogOk
    <3>3. \A c \in committed \cup {entry} :
             Placed(c.result.cmd, c.result.loc, committed \cup {entry})
      BY <1>1, <2>4, <2>7, PlacedMore DEF LogOk
    <3>4. \A c \in committed : c.result.cmd.seq \in 1..LastSeq(stored)
      BY <1>1 DEF LogOk
    <3>5. entry.result.cmd.seq = LastSeq(stored) + 1 /\ LastSeq(new) = LastSeq(stored) + 1
      BY <2>3, <2>4, <2>7, <2>8
    <3>6. \A c \in committed \cup {entry} : c.result.cmd.seq \in 1..LastSeq(new)
      BY <3>1, <3>4, <3>5
    <3>7. ASSUME NEW c \in committed \cup {entry}, NEW d \in committed \cup {entry},
                 c.result.cmd.seq = d.result.cmd.seq
          PROVE  c.result = d.result
      <4>1. CASE c \in committed /\ d \in committed
        BY <1>1, <3>7, <4>1 DEF LogOk
      <4>2. ~(c \in committed /\ d = entry) \/ c.result = d.result
        BY <3>1, <3>4, <3>5, <3>7
      <4>3. ~(d \in committed /\ c = entry) \/ c.result = d.result
        BY <3>1, <3>4, <3>5, <3>7
      <4> QED BY <4>1, <4>2, <4>3
    <3> QED BY <3>2, <3>3, <3>6, <3>7 DEF LogOk
  <2> QED BY <1>3, <2>1, <2>6, <2>7, <2>9, <2>10
<1> QED BY <1>2, <1>3

LEMMA StoreAfter ==
    ASSUME StoreOk, NEW w, WriteOk(w, committed), ApplyCommit(w), limbo' \subseteq limbo
    PROVE  StoreOk'
BY Commits, WriteMore DEF StoreOk

LEMMA StoreLost ==
    ASSUME StoreOk, NEW w, WriteOk(w, committed), UncertainCommit(w)
    PROVE  StoreOk' /\ committed \subseteq committed'
<1>1. CASE ApplyCommit(w) /\ UNCHANGED limbo
  BY <1>1, Commits, StoreAfter
<1>2. CASE limbo' = limbo \cup {w} /\ UNCHANGED <<stored, committed>>
  BY <1>2 DEF StoreOk
<1> QED BY <1>1, <1>2 DEF UncertainCommit

(* revoke_scene keeps all but the owner. *)
LEMMA Revokes ==
    ASSUME StoreOk, NEW epoch, NEW owner, Revoke(epoch, owner), UNCHANGED <<limbo, committed>>
    PROVE  /\ StoreOk' /\ stored'.last = stored.last
           /\ stored'.owner = stored.owner \/ (stored.owner = owner /\ stored.epoch = epoch)
<1>1. stored \in RecordType /\ RecordOk(stored, committed) /\ LogOk(committed, stored)
  BY DEF StoreOk, RecordOk
<1>2. CASE ~(stored.epoch = epoch /\ stored.owner = owner)
  BY <1>2 DEF Revoke, StoreOk
<1>3. CASE stored.epoch = epoch /\ stored.owner = owner
  <2>1. stored' = [stored EXCEPT !.owner = None, !.epoch = @ + 1]
    BY <1>3 DEF Revoke
  <2>2. /\ stored' \in RecordType /\ stored'.owner = None /\ stored'.last = stored.last
        /\ stored'.loc = stored.loc
    <3>1. stored.epoch + 1 \in Nat
      BY <1>1 DEF RecordType
    <3>2. stored' = [epoch |-> stored.epoch + 1, owner |-> None, loc |-> stored.loc,
                     last |-> stored.last]
      BY <1>1, <2>1 DEF RecordType
    <3> QED BY <1>1, <3>1, <3>2 DEF RecordType
  <2>3. RecordOk(stored', committed')
    BY <1>1, <2>2 DEF RecordOk, Logged
  <2>4. LogOk(committed', stored')
    BY <1>1, <2>2 DEF LogOk, LastSeq
  <2> QED BY <1>3, <2>2, <2>3, <2>4 DEF StoreOk
<1> QED BY <1>2, <1>3

-----------------------------------------------------------------------------
(* The services. *)
LEMMA NewShardOk ==
    ASSUME NEW C, NEW sh, NEW b \in BOOLEAN
    PROVE  HostOk(NewShard(b), sh, C)
BY DEF NewShard, HostOk, HostType

(* A shard that holds no more than before. *)
LEMMA FewerMembers ==
    ASSUME NEW C, NEW sh, NEW h, HostOk(h, sh, C), NEW g \in HostType,
           g.active \in {h.active, None}, g.prepared \in {h.prepared, None},
           g.candidate \in {h.candidate, None}
    PROVE  HostOk(g, sh, C)
BY DEF HostOk

LEMMA MergeOk ==
    ASSUME NEW C, NEW i, NEW v, InstanceOk(v, C), NEW sh \in Shards,
           NEW read \in ShardType \cup {None}
    PROVE  LET n == Merge(i, v, sh, read)
           IN  /\ InstanceOk(n, C) /\ n.inc = v.inc /\ n.open = v.open /\ n.fenced = v.fenced
               /\ n.draining \in BOOLEAN
<1> DEFINE old == v.known[sh]
           fresh == IF old = None THEN TRUE ELSE old.version # read.version
           drains == v.draining \/ read.draining
           host == IF fresh \/ v.hosted[sh] = None THEN NewShard(drains)
                   ELSE [v.hosted[sh] EXCEPT !.draining = @ \/ drains]
           n == Merge(i, v, sh, read)
<1>1. /\ v \in InstanceType /\ v.known \in [Shards -> ShardType \cup {None}]
      /\ v.hosted \in [Shards -> HostType \cup {None}] /\ v.draining \in BOOLEAN
  BY DEF InstanceOk, InstanceType
<1>2. HostOk(host, sh, C) /\ host \in HostType
  <2>1. CASE fresh \/ v.hosted[sh] = None
    BY <2>1, NewShardOk DEF HostOk
  <2>2. CASE ~(fresh \/ v.hosted[sh] = None)
    <3>1. HostOk(v.hosted[sh], sh, C) /\ v.hosted[sh] \in HostType
      BY <2>2 DEF InstanceOk, HostOk
    <3>2. host = [v.hosted[sh] EXCEPT !.draining = @ \/ drains]
      BY <2>2
    <3> HIDE DEF drains, fresh, host
    <3>3. /\ host \in HostType /\ host.active = v.hosted[sh].active
          /\ host.prepared = v.hosted[sh].prepared /\ host.candidate = v.hosted[sh].candidate
      BY <3>1, <3>2 DEF HostType
    <3> QED BY <3>1, <3>3, FewerMembers
  <2> QED BY <2>1, <2>2
<1>3. \/ n = v
      \/ read # None /\ n = [v EXCEPT !.known[sh] = read, !.hosted[sh] = None]
      \/ read # None /\ n = [v EXCEPT !.known[sh] = read, !.hosted[sh] = host, !.draining = drains]
  BY DEF Merge
<1>4. drains \in BOOLEAN
  OBVIOUS
<1> HIDE DEF host, drains, n, fresh, old
<1>5. CASE n = v
  BY <1>1, <1>5 DEF n
<1>6. CASE read # None /\ n = [v EXCEPT !.known[sh] = read, !.hosted[sh] = None]
  <2>1. /\ n \in InstanceType /\ n.hosted = [v.hosted EXCEPT ![sh] = None]
        /\ n.inc = v.inc /\ n.open = v.open /\ n.fenced = v.fenced /\ n.draining = v.draining
    BY <1>1, <1>6 DEF InstanceType
  <2>2. \A t \in Shards : n.hosted[t] # None => n.hosted[t] = v.hosted[t]
    BY <1>1, <2>1
  <2> QED BY <1>1, <2>1, <2>2 DEF InstanceOk, n
<1>7. CASE read # None /\ n = [v EXCEPT !.known[sh] = read, !.hosted[sh] = host,
                                        !.draining = drains]
  <2>1. /\ n \in InstanceType /\ n.hosted = [v.hosted EXCEPT ![sh] = host]
        /\ n.inc = v.inc /\ n.open = v.open /\ n.fenced = v.fenced /\ n.draining = drains
    BY <1>1, <1>2, <1>4, <1>7 DEF InstanceType
  <2>2. \A t \in Shards : n.hosted[t] = v.hosted[t] \/ (t = sh /\ n.hosted[t] = host)
    BY <1>1, <2>1
  <2> QED BY <1>2, <1>4, <2>1, <2>2 DEF InstanceOk, n
<1> QED BY <1>3, <1>5, <1>6, <1>7

(* SceneShard::handle: what becomes active was committed. *)
LEMMA HandleOk ==
    ASSUME NEW C, NEW record, LogOk(C, record), NEW sh, NEW h, HostOk(h, sh, C),
           NEW op, NEW m, RequestOk(op, m, C), m.shard = sh
    PROVE  HostOk(Handle(h, op, m).shard, sh, C)
<1>2. /\ h \in HostType /\ m \in MemberType /\ MessageOk(m, C)
      /\ op \in {"prepare", "activate", "propose", "confirm"}
      /\ op \in {"activate", "confirm"} => Proven(m, C)
  BY DEF HostOk, RequestOk, MessageOk, Ops
<1>3. CASE op = "prepare"
  <2>1. Handle(h, op, m) = Prepare(h, m)
    BY <1>3 DEF Handle
  <2>2. Prepare(h, m).shard \in {h, [h EXCEPT !.prepared = m]}
    BY DEF Prepare, Ok, No
  <2>3. HostOk([h EXCEPT !.prepared = m], sh, C)
    BY <1>2 DEF HostOk, HostType
  <2> QED BY <2>1, <2>2, <2>3
<1>4. CASE op = "activate"
  <2>1. Handle(h, op, m) = Activate(h, m)
    BY <1>4 DEF Handle
  <2> DEFINE g == [h EXCEPT !.active = h.prepared, !.prepared = None, !.candidate = None]
  <2>2. Activate(h, m).shard = h \/ (Activate(h, m).shard = g /\ ReceiptMatches(h.prepared, m))
    BY DEF Activate, Ok, No
  <2>3. ASSUME ReceiptMatches(h.prepared, m) PROVE HostOk(g, sh, C)
    <3>1. /\ h.prepared # None /\ h.prepared.cmd = m.cmd
          /\ h.prepared.epoch = m.epoch /\ h.prepared.binding = m.binding
      BY <2>3 DEF ReceiptMatches, SameBinding
    <3>2. MessageOk(h.prepared, C) /\ h.prepared.shard = sh
      BY <3>1 DEF HostOk
    <3>3. h.prepared.loc = m.loc
      BY <1>2, <3>1, <3>2, SamePlace
    <3>4. Proven(h.prepared, C)
      BY <1>2, <1>4, <3>1, <3>3 DEF Proven
    <3>5. g \in HostType /\ g.active = h.prepared /\ g.prepared = None /\ g.candidate = None
      BY <1>2 DEF HostType
    <3> HIDE DEF g
    <3> QED BY <3>2, <3>4, <3>5 DEF HostOk
  <2> QED BY <2>1, <2>2, <2>3
<1>5. CASE op = "propose"
  <2>1. Handle(h, op, m) = ProposeMove(h, m)
    BY <1>5 DEF Handle
  <2>2. ProposeMove(h, m).shard \in {h, [h EXCEPT !.candidate = m]}
    BY DEF ProposeMove, Ok, No
  <2>3. HostOk([h EXCEPT !.candidate = m], sh, C)
    BY <1>2 DEF HostOk, HostType
  <2> QED BY <2>1, <2>2, <2>3
<1>6. CASE op = "confirm"
  <2>1. Handle(h, op, m) = Confirm(h, m)
    BY <1>6 DEF Handle
  <2> DEFINE g == [h EXCEPT !.active = h.candidate, !.candidate = None]
  <2>2. Confirm(h, m).shard = h \/ (Confirm(h, m).shard = g /\ Matches(h.candidate, m))
    BY DEF Confirm, Ok, No
  <2>3. ASSUME Matches(h.candidate, m) PROVE HostOk(g, sh, C)
    <3>1. /\ h.candidate # None /\ h.candidate.cmd = m.cmd /\ h.candidate.loc = m.loc
          /\ h.candidate.epoch = m.epoch /\ h.candidate.binding = m.binding
      BY <2>3 DEF Matches, ReceiptMatches, SameBinding
    <3>2. MessageOk(h.candidate, C) /\ h.candidate.shard = sh
      BY <3>1 DEF HostOk
    <3>3. Proven(h.candidate, C)
      BY <1>2, <1>6, <3>1 DEF Proven
    <3>4. g \in HostType /\ g.active = h.candidate /\ g.prepared = h.prepared /\ g.candidate = None
      BY <1>2 DEF HostType
    <3> HIDE DEF g
    <3> QED BY <3>2, <3>3, <3>4 DEF HostOk
  <2> QED BY <2>1, <2>2, <2>3
<1> QED BY <1>2, <1>3, <1>4, <1>5, <1>6

LEMMA RemoveOk ==
    ASSUME NEW C, NEW sh, NEW h, HostOk(h, sh, C), NEW m
    PROVE  HostOk(Handle(h, "remove", m).shard, sh, C)
<1> DEFINE g == [h EXCEPT !.active = Without(@, m), !.prepared = Without(@, m),
                          !.candidate = Without(@, m)]
<1>1. Handle(h, "remove", m).shard = g
  BY DEF Handle, Remove, Ok
<1>2. \A a : Without(a, m) \in {a, None}
  BY DEF Without
<1>3. h \in HostType
  BY DEF HostOk
<1>4. /\ g \in HostType /\ g.active = Without(h.active, m)
      /\ g.prepared = Without(h.prepared, m) /\ g.candidate = Without(h.candidate, m)
  BY <1>2, <1>3 DEF HostType
<1> HIDE DEF g
<1> QED BY <1>1, <1>2, <1>4, FewerMembers

LEMMA Rehosted ==
    ASSUME NEW C, NEW v, InstanceOk(v, C), NEW hosted \in [Shards -> HostType \cup {None}],
           \A sh \in Shards : hosted[sh] # None => HostOk(hosted[sh], sh, C)
    PROVE  LET n == [v EXCEPT !.hosted = hosted]
           IN  InstanceOk(n, C) /\ n.inc = v.inc /\ n.open = v.open
<1> DEFINE n == [v EXCEPT !.hosted = hosted]
<1>1. n \in InstanceType /\ n.hosted = hosted /\ n.inc = v.inc /\ n.open = v.open
  BY DEF InstanceOk, InstanceType
<1> HIDE DEF n
<1> QED BY <1>1 DEF InstanceOk, n

LEMMA Replaced ==
    ASSUME NEW C, NEW v, InstanceOk(v, C), NEW sh \in Shards, NEW g, HostOk(g, sh, C)
    PROVE  LET n == [v EXCEPT !.hosted[sh] = g]
           IN  InstanceOk(n, C) /\ n.inc = v.inc /\ n.open = v.open
<1> DEFINE hosted == [v.hosted EXCEPT ![sh] = g]
<1>1. v \in InstanceType /\ v.hosted \in [Shards -> HostType \cup {None}] /\ g \in HostType
  BY DEF InstanceOk, InstanceType, HostOk
<1>2. hosted \in [Shards -> HostType \cup {None}]
      /\ \A t \in Shards : hosted[t] # None => HostOk(hosted[t], t, C)
  BY <1>1 DEF InstanceOk
<1>3. [v EXCEPT !.hosted[sh] = g] = [v EXCEPT !.hosted = hosted]
  BY <1>1 DEF InstanceType
<1> HIDE DEF hosted
<1> QED BY <1>2, <1>3, Rehosted

(* A request that is served, and a REMOVE. *)
LEMMA ServeOk ==
    ASSUME NEW C, NEW record, LogOk(C, record), NEW i, NEW v, InstanceOk(v, C),
           NEW op, NEW m, m.shard \in Shards, NEW read \in ShardType \cup {None},
           op = "remove" \/ RequestOk(op, m, C)
    PROVE  LET n == Serve(i, v, op, m, read).scene
           IN  InstanceOk(n, C) /\ n.inc = v.inc /\ n.open = v.open
<1> DEFINE n == Merge(i, v, m.shard, read)
           h == n.hosted[m.shard]
           g == Handle(h, op, m).shard
           r == Serve(i, v, op, m, read).scene
<1>1. InstanceOk(n, C) /\ n.inc = v.inc /\ n.open = v.open
  BY MergeOk
<1>2. r = n \/ (h # None /\ r = [n EXCEPT !.hosted[m.shard] = g])
  BY DEF Serve
<1>3. ASSUME h # None PROVE HostOk(g, m.shard, C)
  <2>1. HostOk(h, m.shard, C)
    BY <1>1, <1>3 DEF InstanceOk
  <2> QED BY <2>1, HandleOk, RemoveOk
<1> HIDE DEF n, r, g
<1>4. InstanceOk(r, C) /\ r.inc = v.inc /\ r.open = v.open
  <2>1. CASE r = n
    BY <1>1, <2>1
  <2>2. CASE h # None /\ r = [n EXCEPT !.hosted[m.shard] = g]
    <3>1. HostOk(g, m.shard, C)
      BY <1>3, <2>2
    <3> HIDE DEF h
    <3> QED BY <1>1, <2>2, <3>1, Replaced
  <2> QED BY <1>2, <2>1, <2>2
<1> QED BY <1>4 DEF r

LEMMA StatusOk ==
    ASSUME NEW C, NEW i, NEW v, InstanceOk(v, C), shards \in [Shards -> ShardType \cup {None}]
    PROVE  LET n == Status(i, v)
           IN  InstanceOk(n, C) /\ n.inc = v.inc /\ n.open = v.open
<1> DEFINE fenced == [v EXCEPT !.fenced = @ \/ instances[i].draining,
                               !.draining = @ \/ instances[i].draining]
           Drains(sh) == Merge(i, fenced, sh, shards[sh]).draining
           early(sh) == [fenced EXCEPT !.draining = @ \/ \E t \in Shards : t < sh /\ Drains(t)]
           Merged(sh) == Merge(i, early(sh), sh, shards[sh])
           known == [sh \in Shards |-> Merged(sh).known[sh]]
           hosted == [sh \in Shards |-> Merged(sh).hosted[sh]]
           drains == \E sh \in Shards : Drains(sh)
           n == Status(i, v)
<1>1. InstanceOk(fenced, C) /\ fenced.inc = v.inc /\ fenced.open = v.open
  BY DEF InstanceOk, InstanceType
<1>2. n = [fenced EXCEPT !.known = known, !.hosted = hosted, !.draining = drains]
  BY DEF Status
<1> HIDE DEF fenced
<1>3. ASSUME NEW sh \in Shards PROVE InstanceOk(early(sh), C)
  <2> HIDE DEF Drains
  <2> QED BY <1>1 DEF InstanceOk, InstanceType
<1> HIDE DEF early
<1>4. ASSUME NEW sh \in Shards PROVE InstanceOk(Merged(sh), C)
  <2>1. shards[sh] \in ShardType \cup {None}
    OBVIOUS
  <2> QED BY <1>3, <2>1, MergeOk
<1> HIDE DEF Merged
<1>5. /\ known \in [Shards -> ShardType \cup {None}]
      /\ hosted \in [Shards -> HostType \cup {None}]
      /\ \A sh \in Shards : hosted[sh] # None => HostOk(hosted[sh], sh, C)
  BY <1>4 DEF InstanceOk, InstanceType
<1>6. drains \in BOOLEAN
  OBVIOUS
<1> HIDE DEF known, hosted, drains, n
<1>7. /\ n \in InstanceType /\ n.hosted = hosted /\ n.inc = v.inc /\ n.open = v.open
  BY <1>1, <1>2, <1>5, <1>6 DEF InstanceOk, InstanceType
<1> QED BY <1>5, <1>7 DEF InstanceOk, n

LEMMA UnconnectedOk ==
    ASSUME NEW C, NEW sh, NEW h, h = None \/ HostOk(h, sh, C), NEW conn
    PROVE  Unconnected(h, conn) = None \/ HostOk(Unconnected(h, conn), sh, C)
<1> DEFINE Keep(a) == IF a = None THEN None ELSE IF a.conn = conn THEN None ELSE a
           g == [h EXCEPT !.active = Keep(@), !.prepared = Keep(@), !.candidate = Keep(@)]
<1>1. CASE h = None
  BY <1>1 DEF Unconnected
<1>2. CASE h # None
  <2>1. HostOk(h, sh, C) /\ h \in HostType /\ Unconnected(h, conn) = g
    BY <1>2 DEF HostOk, Unconnected
  <2>2. \A a : Keep(a) \in {a, None}
    OBVIOUS
  <2>3. /\ g \in HostType /\ g.active = Keep(h.active) /\ g.prepared = Keep(h.prepared)
        /\ g.candidate = Keep(h.candidate)
    BY <2>1, <2>2 DEF HostType
  <2> HIDE DEF Keep, g
  <2> QED BY <2>1, <2>2, <2>3, FewerMembers
<1> QED BY <1>1, <1>2

LEMMA NewInstanceOk ==
    ASSUME NEW C, NEW inc \in Nat
    PROVE  InstanceOk(NewInstance(inc), C)
BY DEF NewInstance, InstanceOk, InstanceType

-----------------------------------------------------------------------------
(* Steps of a job: what a step may give, for a session x and a job j.      *)
Like(x, y) ==
    /\ y.selected = x.selected /\ y.alive = x.alive /\ y.waiting = x.waiting

Turn(s, x, j, r, C) ==
    /\ SessionOk(s, r.x, C) /\ Like(x, r.x)
    /\ r.j \in JobType /\ r.j.id = j.id /\ r.j.drain = j.drain /\ r.j.late = j.late
    /\ r.j.cmd = j.cmd
    /\ r.j.pc = "done" =>
         /\ r.j.code \in Codes
         /\ r.j.code = "ok" /\ x.alive /\ j.cmd # None => \E c \in C : c.result.cmd = j.cmd
    /\ r.j.pc # "done" => JobOk(s, r.x, r.j, C)

(* A step that neither begins nor ends a write. *)
Plain(x, j, r) ==
    /\ r.x.unresolved = x.unresolved /\ r.j.stage = j.stage /\ r.j.pc # "commit"
    /\ r.j.pc = "done" /\ r.j.code = "refused" => j.stage # "Writing"

JobIn(j) == j \in JobType /\ (j.drain <=> j.id = 0)

(* A session whose flags change. *)
LEMMA Flags ==
    ASSUME NEW C, NEW s, NEW x, SessionOk(s, x, C), x.selected
    PROVE  /\ SessionOk(s, Unavailable(x), C) /\ Like(x, Unavailable(x))
           /\ Unavailable(x).record = x.record /\ Unavailable(x).unresolved = x.unresolved
           /\ \A b \in BOOLEAN : LET y == [x EXCEPT !.confirm = b]
                                 IN  /\ SessionOk(s, y, C) /\ Like(x, y) /\ y.record = x.record
                                     /\ y.unresolved = x.unresolved
<1> DEFINE z == [x EXCEPT !.active = FALSE, !.chat = None]
<1>1. x \in SessionType
  BY DEF SessionOk
<1>2. /\ z \in SessionType /\ z.selected = x.selected /\ z.alive = x.alive
      /\ z.waiting = x.waiting /\ z.record = x.record /\ z.unresolved = x.unresolved
  <2>1. PICK y : y = [x EXCEPT !.active = FALSE]
    OBVIOUS
  <2>2. /\ y \in SessionType /\ y.selected = x.selected /\ y.alive = x.alive
        /\ y.waiting = x.waiting /\ y.record = x.record /\ y.unresolved = x.unresolved
    BY <1>1, <2>1 DEF SessionType
  <2>3. z = [y EXCEPT !.chat = None]
    BY <2>1
  <2> HIDE DEF z
  <2> QED BY <2>2, <2>3 DEF SessionType
<1>3. SessionOk(s, z, C) /\ Like(x, z)
  <2> HIDE DEF z
  <2> QED BY <1>2 DEF SessionOk, Like
<1>4. Unavailable(x) \in {x, z}
  BY DEF Unavailable
<1>5. ASSUME NEW b \in BOOLEAN
      PROVE  LET y == [x EXCEPT !.confirm = b]
             IN  /\ SessionOk(s, y, C) /\ Like(x, y) /\ y.record = x.record
                 /\ y.unresolved = x.unresolved
  <2> DEFINE y == [x EXCEPT !.confirm = b]
  <2>1. /\ y \in SessionType /\ y.selected = x.selected /\ y.alive = x.alive
        /\ y.waiting = x.waiting /\ y.record = x.record /\ y.unresolved = x.unresolved
    BY <1>1 DEF SessionType
  <2> HIDE DEF y
  <2>2. SessionOk(s, y, C) /\ Like(x, y)
    BY <2>1 DEF SessionOk, Like
  <2> QED BY <2>1, <2>2 DEF y
<1> HIDE DEF z
<1>6. Like(x, x)
  BY DEF Like
<1> QED BY <1>2, <1>3, <1>4, <1>5, <1>6

(* The same of two steps of such a change. *)
LEMMA LikeTrans ==
    ASSUME NEW x, NEW y, NEW z, Like(x, y), Like(y, z) PROVE Like(x, z)
BY DEF Like

LEMMA OwnedRecord ==
    ASSUME NEW C, NEW s, NEW x, SessionOk(s, x, C), Owned(x, s)
    PROVE  /\ x.record \in RecordType /\ x.record.owner \in OwnerType /\ x.record.owner.binding = s
           /\ x.record.last \in ResultType /\ x.record.last # None /\ x.record.loc \in PlaceType
           /\ x.record.epoch = x.record.last.epoch /\ x.record.owner = x.record.last.owner
           /\ x.record.loc = x.record.last.loc /\ Logged(x.record.last, C)
<1>1. x.record # None /\ RecordOk(x.record, C) /\ x.record.owner # None /\ x.record.owner.binding = s
  BY DEF SessionOk, Owned
<1>2. x.record \in RecordType /\ x.record.last # None
  BY <1>1 DEF RecordOk
<1>3. x.record.owner \in OwnerType /\ x.record.last \in ResultType
  BY <1>1, <1>2 DEF RecordType
<1>4. x.record.last.loc \in PlaceType
  BY <1>3 DEF ResultType
<1> QED BY <1>1, <1>2, <1>3, <1>4 DEF RecordOk

LEMMA RoutedTyped ==
    ASSUME NEW C, NEW s, NEW x, SessionOk(s, x, C) PROVE Routed(x) \in Shards
<1>1. CASE x.record = None
  BY <1>1, SceneStoreAssumption DEF Routed
<1>2. CASE x.record # None
  <2>1. x.record \in RecordType
    BY <1>2 DEF SessionOk, RecordOk
  <2>2. x.record.loc = None \/ x.record.loc.shard \in Shards
    BY <2>1 DEF RecordType, PlaceType
  <2> QED BY <1>2, <2>2, SceneStoreAssumption DEF Routed
<1> QED BY <1>1, <1>2

(* A job that is done. *)
LEMMA Finished ==
    ASSUME NEW C, NEW s, NEW x, NEW y, SessionOk(s, y, C), Like(x, y), NEW j, JobIn(j),
           NEW code \in Codes,
           code = "ok" /\ x.alive /\ j.cmd # None => \E c \in C : c.result.cmd = j.cmd
    PROVE  /\ Turn(s, x, j, Done(y, j, code), C)
           /\ y.unresolved = x.unresolved /\ (code = "refused" => j.stage # "Writing")
                => Plain(x, j, Done(y, j, code))
<1> DEFINE k == [j EXCEPT !.pc = "done", !.code = code]
<1>1. /\ k \in JobType /\ k.pc = "done" /\ k.code = code /\ k.id = j.id /\ k.drain = j.drain
      /\ k.late = j.late /\ k.cmd = j.cmd /\ k.stage = j.stage
  BY DEF JobIn, JobType
<1>2. Done(y, j, code).x = y /\ Done(y, j, code).j = k
  BY DEF Done, Pair
<1> HIDE DEF k
<1> QED BY <1>1, <1>2 DEF Turn, Plain

(* A job that is to execute its command next. *)
Follows(x, j) ==
    /\ j.cmd \in CommandType /\ x.record # None /\ j.cmd.seq = LastSeq(x.record) + 1

(* What a job may be restoring the binding for. *)
Ready(x, j, then) ==
    /\ then \in {"finish", "state", "replay", "command"}
    /\ then \in {"finish", "replay"} =>
         x.record # None /\ x.record.last # None /\ j.cmd = x.record.last.cmd
    /\ then = "state" => j.cmd = None
    /\ then = "command" => Follows(x, j)
    /\ then = "finish" <=> j.stage = "Writing"

LEMMA ReadyLike ==
    ASSUME NEW x, NEW y, y.record = x.record, NEW j, NEW then, Ready(x, j, then)
    PROVE  Ready(y, j, then)
BY DEF Ready, Follows

LEMMA Proposes ==
    ASSUME NEW C, NEW s, NEW x, NEW y, SessionOk(s, y, C), Like(x, y), NEW j, JobIn(j),
           y.unresolved = x.unresolved, Follows(y, j), j.stage # "Writing", Infra
    PROVE  Turn(s, x, j, ToPropose(s, y, j), C) /\ Plain(x, j, ToPropose(s, y, j))
<1> DEFINE shard == IF j.cmd.type = "transfer" THEN j.cmd.arg ELSE Routed(y)
           k == [j EXCEPT !.budget = routes[shard]]
           p == [j EXCEPT !.pc = "propose", !.budget = routes[shard]]
           r == ToPropose(s, y, j)
<1>1. shard \in Shards
  BY RoutedTyped DEF Follows, CommandType
<1>2. routes[shard] \in Instances
  BY <1>1 DEF Infra
<1>3. \/ r = Done(y, j, "refused") \/ r = Done(y, k, "refused") \/ r = Pair(y, p)
  BY DEF ToPropose
<1> HIDE DEF shard
<1>4. CASE r = Done(y, j, "refused")
  BY <1>4, Finished DEF Codes
<1>5. CASE r = Done(y, k, "refused")
  <2>1. /\ k \in JobType /\ k.id = j.id /\ k.drain = j.drain /\ k.late = j.late
        /\ k.cmd = j.cmd /\ k.stage = j.stage
    BY <1>2 DEF JobIn, JobType
  <2> HIDE DEF k
  <2>2. JobIn(k)
    BY <2>1 DEF JobIn
  <2>3. Turn(s, x, k, r, C) /\ Plain(x, k, r)
    BY <1>5, <2>1, <2>2, Finished DEF Codes
  <2> QED BY <2>1, <2>3 DEF Turn, Plain
<1>6. CASE r = Pair(y, p)
  <2>1. /\ p \in JobType /\ p.id = j.id /\ p.drain = j.drain /\ p.late = j.late
        /\ p.cmd = j.cmd /\ p.stage = j.stage /\ p.pc = "propose"
    BY <1>2 DEF JobIn, JobType
  <2> HIDE DEF p
  <2>2. JobOk(s, y, p, C)
    BY <2>1 DEF JobOk, Calling, Follows, JobIn
  <2>3. r.x = y /\ r.j = p
    BY <1>6 DEF Pair
  <2> QED BY <2>1, <2>2, <2>3 DEF Turn, Plain
<1> QED BY <1>3, <1>4, <1>5, <1>6

LEMMA Fails ==
    ASSUME NEW C, NEW s, NEW x, SessionOk(s, x, C), x.selected, NEW j, JobIn(j),
           NEW then, Ready(x, j, then), NEW stale \in BOOLEAN, Infra
    PROVE  /\ Turn(s, x, j, RestoreFailed(s, x, j, then, stale), C)
           /\ Plain(x, j, RestoreFailed(s, x, j, then, stale))
<1> DEFINE u == Unavailable(x)
           b == IF stale THEN FALSE ELSE u.confirm
           y == [u EXCEPT !.confirm = b]
           r == RestoreFailed(s, x, j, then, stale)
<1>1. /\ SessionOk(s, u, C) /\ Like(x, u) /\ u.record = x.record /\ u.unresolved = x.unresolved
  BY Flags
<1> HIDE DEF u
<1>2. /\ SessionOk(s, y, C) /\ Like(x, y) /\ y.record = x.record /\ y.unresolved = x.unresolved
  <2>1. u.selected /\ b \in BOOLEAN
    BY <1>1 DEF Like, SessionOk, SessionType
  <2> HIDE DEF b
  <2>2. SessionOk(s, y, C) /\ Like(u, y) /\ y.record = u.record /\ y.unresolved = u.unresolved
    BY <1>1, <2>1, Flags
  <2> HIDE DEF y
  <2> QED BY <1>1, <2>2, LikeTrans
<1>3. then \in {"finish", "state", "replay", "command"}
  BY DEF Ready
<1>4. /\ then = "finish" => r = Done(u, j, "unknown")
      /\ then = "state" => r = Done(y, j, "ok")
      /\ then = "replay" => r = Done(y, j, IF stale THEN "ok" ELSE "unknown")
      /\ then = "command" => r = IF stale THEN ToPropose(s, y, j) ELSE Done(y, j, "unknown")
  BY DEF RestoreFailed, u
<1> HIDE DEF y, r
<1>5. then \in {"state", "replay"} => (j.cmd # None => \E c \in C : c.result.cmd = j.cmd)
  <2>1. then = "replay" => Logged(x.record.last, C) /\ j.cmd = x.record.last.cmd
    BY DEF Ready, SessionOk, RecordOk
  <2> QED BY <2>1 DEF Ready, Logged
<1>6. CASE then = "finish"
  BY <1>1, <1>4, <1>6, Finished DEF Codes, r
<1>7. CASE then = "state"
  BY <1>2, <1>4, <1>5, <1>7, Finished DEF Codes, r
<1>8. CASE then = "replay"
  BY <1>2, <1>4, <1>5, <1>8, Finished DEF Codes, r
<1>9. CASE then = "command" /\ stale
  <2>1. Follows(y, j) /\ j.stage # "Writing"
    BY <1>2, <1>9 DEF Ready, Follows
  <2> QED BY <1>2, <1>4, <1>9, <2>1, Proposes DEF r
<1>10. CASE then = "command" /\ ~stale
  BY <1>2, <1>4, <1>10, Finished DEF Codes, r
<1> QED BY <1>3, <1>6, <1>7, <1>8, <1>9, <1>10

(* A call about the record of the session. *)
LEMMA Calls ==
    ASSUME NEW C, NEW s, NEW x, NEW y, SessionOk(s, y, C), Like(x, y),
           y.unresolved = x.unresolved, Owned(y, s), NEW j, JobIn(j),
           NEW then, Ready(y, j, then), NEW op \in {"prepare", "activate", "confirm"},
           op = "confirm" => then = "finish", NEW to \in Instances
    PROVE  Turn(s, x, j, Call(y, j, op, to, then), C) /\ Plain(x, j, Call(y, j, op, to, then))
<1> DEFINE k == [j EXCEPT !.pc = "send", !.op = op, !.to = to, !.then = then]
<1>1. then \in Purposes /\ then # "write" /\ op \in Ops
  BY DEF Ready, Purposes, Ops
<1>2. /\ k \in JobType /\ k.id = j.id /\ k.drain = j.drain /\ k.late = j.late
      /\ k.cmd = j.cmd /\ k.stage = j.stage /\ k.pc = "send" /\ k.op = op /\ k.to = to
      /\ k.then = then
  BY <1>1 DEF JobIn, JobType
<1>3. Call(y, j, op, to, then).x = y /\ Call(y, j, op, to, then).j = k
  BY DEF Call, Pair
<1> HIDE DEF k
<1>4. JobOk(s, y, k, C)
  BY <1>1, <1>2 DEF JobOk, Calling, JobIn, Ready, Follows
<1> QED BY <1>2, <1>3, <1>4 DEF Turn, Plain

LEMMA Restores ==
    ASSUME NEW C, NEW s, NEW x, SessionOk(s, x, C), x.selected, NEW j, JobIn(j),
           NEW then, Ready(x, j, then), Infra
    PROVE  Turn(s, x, j, ToRestore(s, x, j, then), C) /\ Plain(x, j, ToRestore(s, x, j, then))
<1>1. CASE Owned(x, s)
  <2>1. x.record.owner.inst \in Instances
    BY <1>1, OwnedRecord DEF OwnerType
  <2>2. Like(x, x)
    BY DEF Like
  <2>3. ToRestore(s, x, j, then) = Call(x, j, "prepare", x.record.owner.inst, then)
    BY <1>1 DEF ToRestore
  <2> QED BY <1>1, <2>1, <2>2, <2>3, Calls
<1>2. CASE ~Owned(x, s)
  <2>1. ToRestore(s, x, j, then) = RestoreFailed(s, x, j, then, TRUE)
    BY <1>2 DEF ToRestore
  <2> QED BY <2>1, Fails
<1> QED BY <1>1, <1>2

LEMMA ReadyOfJob ==
    ASSUME NEW C, NEW s, NEW x, SessionOk(s, x, C), NEW j, JobOk(s, x, j, C), Calling(j),
           j.then # "write"
    PROVE  Ready(x, j, j.then) /\ Owned(x, s) /\ JobIn(j) /\ j.to \in Instances
<1>1. /\ j.then \in {"finish", "state", "replay", "command"} /\ Owned(x, s) /\ JobIn(j)
      /\ j.to \in Instances
  BY DEF JobOk, Calling, Purposes, JobIn
<1>2. x.record # None /\ x.record.last # None
  BY <1>1, OwnedRecord DEF Owned
<1> QED BY <1>1, <1>2 DEF JobOk, Ready, Follows, Calling

LEMMA ToldOfReady ==
    ASSUME NEW C, NEW s, NEW x, SessionOk(s, x, C), NEW j, NEW then, Ready(x, j, then),
           then \in {"finish", "replay", "state"}
    PROVE  j.cmd # None => \E c \in C : c.result.cmd = j.cmd
<1>1. then \in {"finish", "replay"} => Logged(x.record.last, C) /\ j.cmd = x.record.last.cmd
  BY DEF Ready, SessionOk, RecordOk
<1> QED BY <1>1 DEF Ready, Logged

LEMMA RestoredTurn ==
    ASSUME NEW C, NEW s, NEW x, NEW z, SessionOk(s, z, C), z.selected, Like(x, z),
           z.unresolved = x.unresolved, z.record = x.record, NEW j, JobIn(j),
           Ready(x, j, j.then), Infra
    PROVE  Turn(s, x, j, Restored(s, z, j), C) /\ Plain(x, j, Restored(s, z, j))
<1> DEFINE y == [z EXCEPT !.confirm = FALSE]
           k == [j EXCEPT !.pc = "snapshot"]
           r == Restored(s, z, j)
<1>1. /\ SessionOk(s, y, C) /\ Like(x, y) /\ y.record = x.record
      /\ y.unresolved = x.unresolved
  BY Flags, LikeTrans
<1>2. /\ j.then \in {"finish", "replay"} => r = Done(y, j, "ok")
      /\ j.then = "state" => r = Pair(y, k)
      /\ j.then = "command" => r = ToPropose(s, y, j)
  BY DEF Restored
<1>3. Ready(y, j, j.then)
  BY <1>1, ReadyLike
<1> HIDE DEF y, r
<1>4. CASE j.then \in {"finish", "replay"}
  BY <1>1, <1>2, <1>3, <1>4, ToldOfReady, Finished DEF Codes, r
<1>5. CASE j.then = "state"
  <2>1. /\ k \in JobType /\ k.id = j.id /\ k.drain = j.drain /\ k.late = j.late
        /\ k.cmd = j.cmd /\ k.stage = j.stage /\ k.pc = "snapshot"
    BY DEF JobIn, JobType
  <2> HIDE DEF k
  <2>2. JobOk(s, y, k, C)
    BY <1>3, <1>5, <2>1 DEF JobOk, Calling, Ready, JobIn
  <2>3. r.x = y /\ r.j = k
    BY <1>2, <1>5 DEF Pair
  <2> QED BY <1>1, <2>1, <2>2, <2>3 DEF Turn, Plain, r
<1>6. CASE j.then = "command"
  <2>1. Follows(y, j) /\ j.stage # "Writing"
    BY <1>3, <1>6 DEF Ready
  <2> QED BY <1>1, <1>2, <1>6, <2>1, Proposes DEF r
<1> QED BY <1>3, <1>4, <1>5, <1>6 DEF Ready

(* execute, after the record was read. *)
LEMMA Executes ==
    ASSUME NEW C, NEW s, NEW x, SessionOk(s, x, C), x.selected, x.record # None,
           NEW j, JobIn(j), j.stage # "Writing", Infra
    PROVE  Turn(s, x, j, Execute(s, x, j), C) /\ Plain(x, j, Execute(s, x, j))
<1> DEFINE last == x.record.last
           replayed == IF last = None THEN FALSE ELSE j.cmd = last.cmd
           k == [j EXCEPT !.pc = "snapshot"]
           r == Execute(s, x, j)
<1>1. x.record \in RecordType /\ (last # None => Logged(last, C)) /\ Like(x, x)
      /\ j.cmd \in CommandType \cup {None}
  BY DEF SessionOk, RecordOk, Like, JobIn, JobType
<1>2. CASE j.cmd = None
  <2>1. r \in {ToRestore(s, x, j, "state"), Pair(x, k), Done(x, j, "ok")}
    BY <1>2 DEF Execute
  <2>2. Ready(x, j, "state")
    BY <1>2 DEF Ready
  <2>3. /\ k \in JobType /\ k.id = j.id /\ k.drain = j.drain /\ k.late = j.late
        /\ k.cmd = j.cmd /\ k.stage = j.stage /\ k.pc = "snapshot"
    BY DEF JobIn, JobType
  <2> HIDE DEF k, r
  <2>4. CASE r = ToRestore(s, x, j, "state")
    BY <2>2, <2>4, Restores DEF r
  <2>5. CASE r = Pair(x, k)
    <3>1. JobOk(s, x, k, C)
      BY <1>2, <2>3 DEF JobOk, Calling, JobIn
    <3>2. r.x = x /\ r.j = k
      BY <2>5 DEF Pair
    <3> QED BY <1>1, <2>3, <3>1, <3>2 DEF Turn, Plain, r
  <2>6. CASE r = Done(x, j, "ok")
    BY <1>1, <1>2, <2>6, Finished DEF Codes, r
  <2> QED BY <2>1, <2>4, <2>5, <2>6
<1>3. CASE j.cmd # None /\ replayed
  <2>1. r \in {ToRestore(s, x, j, "replay"), Done(x, j, "ok")}
    BY <1>3 DEF Execute
  <2>2. Ready(x, j, "replay") /\ \E c \in C : c.result.cmd = j.cmd
    BY <1>1, <1>3 DEF Ready, Logged
  <2> HIDE DEF r
  <2>4. CASE r = ToRestore(s, x, j, "replay")
    BY <2>2, <2>4, Restores DEF r
  <2>5. CASE r = Done(x, j, "ok")
    BY <1>1, <2>2, <2>5, Finished DEF Codes, r
  <2> QED BY <2>1, <2>4, <2>5
<1>4. CASE j.cmd # None /\ ~replayed
  <2>1. \/ r = Done(x, j, "refused")
        \/ /\ j.cmd.seq = LastSeq(x.record) + 1
           /\ r \in {ToRestore(s, x, j, "command"), ToPropose(s, x, j)}
    BY <1>4 DEF Execute
  <2> HIDE DEF r
  <2>2. CASE r = Done(x, j, "refused")
    BY <1>1, <2>2, Finished DEF Codes, r
  <2>3. CASE /\ j.cmd.seq = LastSeq(x.record) + 1
             /\ r \in {ToRestore(s, x, j, "command"), ToPropose(s, x, j)}
    <3>1. Follows(x, j) /\ Ready(x, j, "command")
      BY <1>1, <1>4, <2>3 DEF Follows, Ready
    <3>2. CASE r = ToRestore(s, x, j, "command")
      BY <3>1, <3>2, Restores DEF r
    <3>3. CASE r = ToPropose(s, x, j)
      BY <1>1, <3>1, <3>3, Proposes DEF r
    <3> QED BY <2>3, <3>2, <3>3
  <2> QED BY <2>1, <2>2, <2>3
<1> QED BY <1>2, <1>3, <1>4

(* committed: the session has the new record. *)
LEMMA CommittedOk ==
    ASSUME NEW C, NEW s, NEW x, SessionOk(s, x, C), x.selected, NEW state, RecordOk(state, C),
           state # None, state.last # None
    PROVE  LET y == Committed(x, state)
           IN  /\ SessionOk(s, y, C) /\ Like(x, y) /\ y.record = state /\ y.unresolved = None
<1> DEFINE retire == IF x.source = None THEN x.retire
                     ELSE [x.retire EXCEPT ![x.source.loc.shard] = x.source]
           y == [x EXCEPT !.record = state, !.lastOwned = state, !.unresolved = None,
                          !.confirm = TRUE, !.source = None, !.retire = retire]
<1>1. x \in SessionType /\ state \in RecordType /\ state \in LeftType
  <2>1. state \in RecordType /\ state.last \in ResultType /\ state.loc = state.last.loc
    BY DEF RecordOk, RecordType
  <2> QED BY <2>1 DEF SessionOk, RecordType, LeftType, ResultType
<1>2. Committed(x, state) = y
  BY <1>1 DEF Committed, SessionType
<1>3. retire \in [Shards -> LeftType \cup {None}]
  BY <1>1 DEF SessionType
<1> HIDE DEF retire
<1>4. /\ y \in SessionType /\ y.selected = x.selected /\ y.alive = x.alive
      /\ y.waiting = x.waiting /\ y.record = state /\ y.unresolved = None
  BY <1>1, <1>3 DEF SessionType
<1> HIDE DEF y
<1> QED BY <1>2, <1>4 DEF SessionOk, Like

(* A session of which the record stays. *)
LEMMA Altered ==
    ASSUME NEW C, NEW s, NEW x, SessionOk(s, x, C), x.selected, NEW y \in SessionType,
           y.selected = x.selected, y.alive = x.alive, y.waiting = x.waiting,
           y.record = x.record, y.unresolved \in {x.unresolved, None}
    PROVE  SessionOk(s, y, C) /\ Like(x, y)
BY DEF SessionOk, Like

(* A session whose member, or source, is forgotten. *)
Hidden(x) == [x EXCEPT !.active = FALSE, !.chat = None]

LEMMA Unshown ==
    ASSUME NEW C, NEW s, NEW x, SessionOk(s, x, C), x.selected, NEW z, z = Hidden(x)
    PROVE  /\ SessionOk(s, z, C) /\ Like(x, z) /\ z.record = x.record
           /\ z.unresolved = x.unresolved
<1>1. x \in SessionType
  BY DEF SessionOk
<1>2. /\ z \in SessionType /\ z.selected = x.selected /\ z.alive = x.alive
      /\ z.waiting = x.waiting /\ z.record = x.record /\ z.unresolved = x.unresolved
  BY <1>1 DEF SessionType, Hidden
<1> QED BY <1>2, Altered

LEMMA Unsourced ==
    ASSUME NEW C, NEW s, NEW x, SessionOk(s, x, C), x.selected,
           NEW z, z = [x EXCEPT !.source = None]
    PROVE  /\ SessionOk(s, z, C) /\ Like(x, z) /\ z.record = x.record
           /\ z.unresolved = x.unresolved
<1>1. x \in SessionType
  BY DEF SessionOk
<1>2. /\ z \in SessionType /\ z.selected = x.selected /\ z.alive = x.alive
      /\ z.waiting = x.waiting /\ z.record = x.record /\ z.unresolved = x.unresolved
  BY <1>1 DEF SessionType
<1> QED BY <1>2, Altered

LEMMA Settles ==
    ASSUME NEW C, NEW s, NEW x, SessionOk(s, x, C), x.selected,
           NEW z, z = [x EXCEPT !.unresolved = None]
    PROVE  /\ SessionOk(s, z, C) /\ Like(x, z) /\ z.record = x.record
           /\ z.unresolved = None
<1>1. x \in SessionType
  BY DEF SessionOk
<1>2. /\ z \in SessionType /\ z.selected = x.selected /\ z.alive = x.alive
      /\ z.waiting = x.waiting /\ z.record = x.record /\ z.unresolved = None
  BY <1>1 DEF SessionType
<1> QED BY <1>2, Altered

LEMMA Finishes ==
    ASSUME NEW C, NEW s, NEW x, SessionOk(s, x, C), x.selected, x.unresolved = None,
           NEW j, JobIn(j), j.stage = "Writing",
           NEW outcome, NEW state, RecordOk(state, C), state # None,
           outcome \in {"Committed", "Replayed"} => state.last # None /\ j.cmd = state.last.cmd,
           outcome \in {"Committed", "Replayed"} /\ x.alive =>
             state.owner # None /\ state.owner.binding = s,
           Infra
    PROVE  LET r == Finish(s, x, j, outcome, state)
           IN  /\ Turn(s, x, j, r, C) /\ r.x.unresolved = None
               /\ r.j.stage = j.stage /\ r.j.pc # "commit"
               /\ r.j.pc = "done" /\ r.j.code = "refused" =>
                    outcome \notin {"Committed", "Replayed"}
<1> DEFINE y == Committed(x, state)
           z == [y EXCEPT !.active = FALSE, !.chat = None]
           w == [x EXCEPT !.source = None]
           r == Finish(s, x, j, outcome, state)
<1>1. ASSUME outcome \in {"Committed", "Replayed"}
      PROVE  /\ SessionOk(s, y, C) /\ Like(x, y) /\ y.record = state /\ y.unresolved = None
             /\ y.selected
  <2>1. /\ SessionOk(s, y, C) /\ Like(x, y) /\ y.record = state /\ y.unresolved = None
    BY <1>1, CommittedOk
  <2> HIDE DEF y
  <2> QED BY <2>1 DEF Like
<1> HIDE DEF y
<1>2. ASSUME outcome \in {"Committed", "Replayed"}
      PROVE  /\ SessionOk(s, z, C) /\ Like(x, z) /\ z.record = state /\ z.unresolved = None
             /\ z.selected
  <2>3. z = Hidden(y)
    BY DEF Hidden
  <2> HIDE DEF z
  <2>1. /\ SessionOk(s, z, C) /\ Like(y, z) /\ z.record = y.record
        /\ z.unresolved = y.unresolved
    BY <1>1, <1>2, <2>3, Unshown
  <2>2. Like(x, z)
    BY <1>1, <1>2, <2>1, LikeTrans
  <2> QED BY <1>1, <1>2, <2>1, <2>2 DEF Like
<1>3. /\ SessionOk(s, w, C) /\ Like(x, w) /\ w.unresolved = None
  <2>1. w = [x EXCEPT !.source = None]
    OBVIOUS
  <2> HIDE DEF w
  <2> QED BY <2>1, Unsourced
<1>4. CASE outcome \notin {"Committed", "Replayed"}
  <2>1. r = Done(w, j, "refused")
    BY <1>4 DEF Finish
  <2> HIDE DEF w, r
  <2>2. Turn(s, x, j, r, C)
    BY <1>3, <2>1, Finished DEF Codes
  <2>3. r.x = w /\ r.j = [j EXCEPT !.pc = "done", !.code = "refused"]
    BY <2>1 DEF Done, Pair
  <2>4. r.j.stage = j.stage /\ r.j.pc = "done"
    BY <2>3 DEF JobIn, JobType
  <2> QED BY <1>3, <1>4, <2>2, <2>3, <2>4 DEF r
<1>5. CASE outcome \in {"Committed", "Replayed"}
  <2>1. /\ ~x.alive => r = Done(y, j, "ok")
        /\ x.alive => \/ r = Call(y, j, "confirm", y.record.owner.inst, "finish")
                      \/ r = ToRestore(s, z, j, "finish")
    BY <1>5 DEF Finish, y
  <2>2. Ready(y, j, "finish") /\ Ready(z, j, "finish")
    BY <1>1, <1>2, <1>5 DEF Ready
  <2>3. x.alive => Owned(y, s) /\ y.record.owner.inst \in Instances
    <3>1. state \in RecordType
      BY DEF RecordOk
    <3> QED BY <1>1, <1>5, <3>1 DEF Owned, RecordType, OwnerType
  <2> HIDE DEF z, r
  <2>4. CASE r = Done(y, j, "ok") /\ ~x.alive
    <3>1. Turn(s, x, j, r, C)
      BY <1>1, <1>5, <2>4, Finished DEF Codes
    <3>2. r.x = y /\ r.j = [j EXCEPT !.pc = "done", !.code = "ok"]
      BY <2>4 DEF Done, Pair
    <3>3. r.j.stage = j.stage /\ r.j.pc = "done" /\ r.j.code = "ok"
      BY <3>2 DEF JobIn, JobType
    <3> QED BY <1>1, <1>5, <3>1, <3>2, <3>3 DEF r
  <2>5. CASE x.alive /\ r = Call(y, j, "confirm", y.record.owner.inst, "finish")
    <3>1. Turn(s, x, j, r, C) /\ Plain(x, j, r)
      BY <1>1, <1>5, <2>2, <2>3, <2>5, Calls
    <3> QED BY <1>1, <1>5, <3>1 DEF Plain, r
  <2>6. CASE x.alive /\ r = ToRestore(s, z, j, "finish")
    <3>1. Turn(s, z, j, r, C) /\ Plain(z, j, r)
      BY <1>2, <1>5, <2>2, <2>6, Restores
    <3>2. Turn(s, x, j, r, C)
      BY <1>2, <1>5, <3>1 DEF Turn, Like
    <3> QED BY <1>2, <1>5, <3>1, <3>2 DEF Plain, r
  <2> QED BY <2>1, <2>4, <2>5, <2>6
<1> QED BY <1>4, <1>5

(* A call that has no reply, or is not made. *)
LEMMA UnansweredTurn ==
    ASSUME NEW C, NEW s, NEW x, SessionOk(s, x, C), x.selected, NEW j, JobOk(s, x, j, C),
           Calling(j), Infra
    PROVE  Turn(s, x, j, Unanswered(s, x, j), C) /\ Plain(x, j, Unanswered(s, x, j))
<1> DEFINE r == Unanswered(s, x, j)
<1>1. JobIn(j) /\ Like(x, x)
  BY DEF JobOk, JobIn, Like
<1>2. CASE j.then = "write"
  <2>1. j.op # "confirm" /\ j.stage # "Writing"
    BY <1>2 DEF JobOk, Calling
  <2>2. r = Done(x, j, "refused")
    BY <1>2, <2>1 DEF Unanswered
  <2> HIDE DEF r
  <2> QED BY <1>1, <2>1, <2>2, Finished DEF Codes, r
<1>3. CASE j.then # "write"
  <2>1. Ready(x, j, j.then) /\ Owned(x, s)
    BY <1>3, ReadyOfJob
  <2>2. CASE j.op = "confirm"
    <3>1. r = Done(Unavailable(x), j, "unknown")
      BY <1>3, <2>2 DEF Unanswered
    <3>2. /\ SessionOk(s, Unavailable(x), C) /\ Like(x, Unavailable(x))
          /\ Unavailable(x).unresolved = x.unresolved
      BY Flags
    <3> HIDE DEF r
    <3> QED BY <1>1, <3>1, <3>2, Finished DEF Codes, r
  <2>3. CASE j.op # "confirm"
    <3>1. r = RestoreFailed(s, x, j, j.then, FALSE)
      BY <1>3, <2>3 DEF Unanswered
    <3> HIDE DEF r
    <3> QED BY <1>1, <2>1, <3>1, Fails DEF r
  <2> QED BY <2>2, <2>3
<1> QED BY <1>2, <1>3

(* The reply of a call that is not about a write. *)
LEMMA RepliedTurn ==
    ASSUME NEW C, NEW s, NEW x, SessionOk(s, x, C), x.selected, NEW j, JobOk(s, x, j, C),
           Calling(j), j.then # "write", NEW ok \in BOOLEAN, Infra
    PROVE  Turn(s, x, j, Replied(s, x, j, ok), C) /\ Plain(x, j, Replied(s, x, j, ok))
<1> DEFINE r == Replied(s, x, j, ok)
           z == [x EXCEPT !.active = TRUE, !.chat = Shown(x)]
           y == [x EXCEPT !.confirm = FALSE]
<1>1. /\ Ready(x, j, j.then) /\ Owned(x, s) /\ JobIn(j) /\ j.to \in Instances /\ Like(x, x)
      /\ j.op \in {"prepare", "activate", "confirm"} /\ (j.op = "confirm" => j.then = "finish")
  BY ReadyOfJob DEF JobOk, Calling, Ops, Like
<1>2. /\ SessionOk(s, z, C) /\ Like(x, z) /\ z.record = x.record /\ z.unresolved = x.unresolved
      /\ z.selected
  <2>1. Shown(x) \in [shard : Shards, epoch : Nat]
    BY <1>1, OwnedRecord DEF Shown, PlaceType, RecordType
  <2>2. x \in SessionType
    BY DEF SessionOk
  <2>3. /\ z \in SessionType /\ z.selected = x.selected /\ z.alive = x.alive
        /\ z.waiting = x.waiting /\ z.record = x.record /\ z.unresolved = x.unresolved
    BY <2>1, <2>2 DEF SessionType
  <2> HIDE DEF z
  <2> QED BY <2>3 DEF SessionOk, Like
<1>3. /\ SessionOk(s, y, C) /\ Like(x, y) /\ y.unresolved = x.unresolved
  BY Flags
<1>4. CASE j.op = "prepare"
  <2>1. r = IF ok THEN Call(x, j, "activate", j.to, j.then)
            ELSE RestoreFailed(s, x, j, j.then, TRUE)
    BY <1>4 DEF Replied
  <2> HIDE DEF r, z, y
  <2> QED BY <1>1, <2>1, Calls, Fails DEF r
<1>5. CASE j.op = "activate"
  <2>1. r = IF ok THEN Restored(s, z, j) ELSE RestoreFailed(s, x, j, j.then, TRUE)
    BY <1>5 DEF Replied
  <2> HIDE DEF r, z, y
  <2> QED BY <1>1, <1>2, <2>1, RestoredTurn, Fails DEF r
<1>6. CASE j.op = "confirm"
  <2>1. r = IF ok THEN Done(y, j, "ok") ELSE Done(Unavailable(x), j, "unknown")
    BY <1>6 DEF Replied
  <2>2. j.cmd # None => \E c \in C : c.result.cmd = j.cmd
    BY <1>1, <1>6, ToldOfReady
  <2>3. /\ SessionOk(s, Unavailable(x), C) /\ Like(x, Unavailable(x))
        /\ Unavailable(x).unresolved = x.unresolved
    BY Flags
  <2> HIDE DEF r, z, y
  <2> QED BY <1>1, <1>3, <2>1, <2>2, <2>3, Finished DEF Codes, r
<1> QED BY <1>1, <1>4, <1>5, <1>6

(* The reply to the proposal of a write: the job begins to write, or not. *)
LEMMA WritingJob ==
    ASSUME NEW j \in JobType, NEW k, k = [j EXCEPT !.pc = "commit", !.stage = "Writing"]
    PROVE  /\ k \in JobType /\ k.id = j.id /\ k.drain = j.drain /\ k.late = j.late
           /\ k.cmd = j.cmd /\ k.stage = "Writing" /\ k.pc = "commit"
BY DEF JobType, Stages

Begins(x, j, r) ==
    /\ r.x.unresolved = j.write /\ j.stage = "Reading" /\ x.alive
    /\ r.j.stage = "Writing" /\ r.j.pc = "commit"

LEMMA ProposedTurn ==
    ASSUME NEW C, NEW s, NEW x, SessionOk(s, x, C), x.selected, NEW j, JobOk(s, x, j, C),
           Calling(j), j.then = "write", NEW ok \in BOOLEAN, Infra
    PROVE  LET r == Replied(s, x, j, ok)
           IN  Turn(s, x, j, r, C) /\ (Plain(x, j, r) \/ Begins(x, j, r))
<1> DEFINE r == Replied(s, x, j, ok)
           source == IF j.cmd.type # "move" /\ Owned(x, s) THEN x.record ELSE x.source
           y == [x EXCEPT !.unresolved = j.write, !.source = source]
           k == [j EXCEPT !.pc = "commit", !.stage = "Writing"]
<1>1. /\ JobIn(j) /\ Like(x, x) /\ j.stage # "Writing" /\ j.op \in {"prepare", "propose"}
      /\ WriteOk(j.write, C) /\ j.write.cmd = j.cmd /\ j.write.owner.binding = s
  BY DEF JobOk, JobIn, Like, Calling
<1>2. r = IF ok /\ x.alive /\ j.stage = "Reading" THEN Pair(y, k) ELSE Done(x, j, "refused")
  BY <1>1 DEF Replied
<1>3. CASE ~(ok /\ x.alive /\ j.stage = "Reading")
  <2>1. r = Done(x, j, "refused")
    BY <1>2, <1>3
  <2> HIDE DEF r
  <2> QED BY <1>1, <2>1, Finished DEF Codes, r
<1>4. CASE ok /\ x.alive /\ j.stage = "Reading"
  <2>1. r.x = y /\ r.j = k
    BY <1>2, <1>4 DEF Pair
  <2>2. /\ k \in JobType /\ k.id = j.id /\ k.drain = j.drain /\ k.late = j.late
        /\ k.cmd = j.cmd /\ k.stage = "Writing" /\ k.pc = "commit"
    <3>1. k = [j EXCEPT !.pc = "commit", !.stage = "Writing"] /\ j \in JobType
      BY <1>1 DEF JobIn
    <3> HIDE DEF k
    <3> QED BY <3>1, WritingJob
  <2> HIDE DEF k
  <2>3. j.write \in WriteType /\ j.write # None /\ x \in SessionType
    BY <1>1, Cleared DEF WriteOk, SessionOk
  <2>4. /\ y \in SessionType /\ y.selected = x.selected /\ y.alive = x.alive
        /\ y.waiting = x.waiting /\ y.record = x.record /\ y.unresolved = j.write
    <3>1. Owned(x, s) => x.record \in LeftType
      BY OwnedRecord DEF RecordType, LeftType
    <3>2. source \in LeftType \cup {None}
      BY <2>3, <3>1 DEF SessionType
    <3> HIDE DEF source
    <3> QED BY <2>3, <3>2 DEF SessionType
  <2> HIDE DEF y
  <2>5. SessionOk(s, y, C) /\ Like(x, y)
    BY <1>1, <2>4 DEF SessionOk, Like
  <2>6. JobOk(s, y, k, C)
    BY <1>1, <2>2, <2>3, <2>4 DEF JobOk, Calling, JobIn
  <2> HIDE DEF r
  <2>7. Turn(s, x, j, r, C)
    BY <2>1, <2>2, <2>5, <2>6 DEF Turn
  <2> QED BY <1>4, <2>1, <2>2, <2>4, <2>7 DEF Begins, r
<1> QED BY <1>3, <1>4

(* process, of a job that is done. *)
LEMMA SettledOk ==
    ASSUME NEW C, NEW s, NEW x, SessionOk(s, x, C), x.selected, NEW j
    PROVE  LET y == Settled(s, x, j)
           IN  /\ SessionOk(s, y, C) /\ Like(x, y) /\ y.record = x.record
               /\ y.unresolved = x.unresolved
<1> DEFINE shown == /\ x.alive /\ x.active /\ x.unresolved = None /\ ~x.confirm
                    /\ Owned(x, s)
           chat == IF shown THEN Shown(x) ELSE None
           y == [x EXCEPT !.chat = chat]
           z == [y EXCEPT !.drainFrom = None, !.drainCmd = None]
<1>1. chat \in [shard : Shards, epoch : Nat] \cup {None}
  BY OwnedRecord DEF Shown, PlaceType, RecordType
<1>2. Settled(s, x, j) \in {y, z}
  BY DEF Settled
<1> HIDE DEF chat
<1>3. x \in SessionType
  BY DEF SessionOk
<1>4. /\ y \in SessionType /\ y.selected = x.selected /\ y.alive = x.alive
      /\ y.waiting = x.waiting /\ y.record = x.record /\ y.unresolved = x.unresolved
  BY <1>1, <1>3 DEF SessionType
<1>5. /\ z \in SessionType /\ z.selected = x.selected /\ z.alive = x.alive
      /\ z.waiting = x.waiting /\ z.record = x.record /\ z.unresolved = x.unresolved
  BY <1>1, <1>3 DEF SessionType
<1> HIDE DEF y, z
<1> QED BY <1>2, <1>4, <1>5 DEF SessionOk, Like

-----------------------------------------------------------------------------
(* Steps of one session. *)
LEMMA OneSession ==
    ASSUME SessionsOk, committed \subseteq committed', NEW s \in Sessions,
           NEW y, NEW k, session' = [session EXCEPT ![s] = y], job' = [job EXCEPT ![s] = k],
           SessionOk(s, y, committed'),
           k # None => JobOk(s, y, k, committed') /\ y.selected,
           y.alive \/ ~y.selected => session[s].alive \/ ~session[s].selected,
           stored' = stored \/ stored'.owner # None
    PROVE  SessionsOk'
<1>1. /\ session' \in [Sessions -> SessionType] /\ job' \in [Sessions -> JobType \cup {None}]
      /\ session'[s] = y /\ job'[s] = k
      /\ \A t \in Sessions \ {s} : session'[t] = session[t] /\ job'[t] = job[t]
  <2>1. y \in SessionType /\ (k # None => k \in JobType)
    BY DEF SessionOk, JobOk
  <2> HIDE DEF Sessions
  <2> QED BY <2>1 DEF SessionsOk
<1>2. ASSUME NEW t \in Sessions PROVE Bound(t)'
  BY <1>1 DEF SessionsOk, Bound
<1>3. ASSUME NEW t \in Sessions
      PROVE  /\ SessionOk(t, session'[t], committed')
             /\ job'[t] # None => JobOk(t, session'[t], job'[t], committed') /\ session'[t].selected
  <2>1. CASE t = s
    BY <1>1, <2>1
  <2>2. CASE t # s
    BY <1>1, <2>2, SessionMore, JobMore DEF SessionsOk
  <2> QED BY <2>1, <2>2
<1> HIDE DEF Sessions
<1> QED BY <1>1, <1>2, <1>3 DEF SessionsOk

LEMMA JobOfRecord ==
    ASSUME NEW C, NEW s, NEW x, NEW y, NEW j, JobOk(s, x, j, C), y.record = x.record,
           y.unresolved = x.unresolved
    PROVE  JobOk(s, y, j, C)
BY DEF JobOk, Owned

(* What the step of a job leaves of the session and the job. *)
After(s, r) ==
    \E y, k : /\ session' = [session EXCEPT ![s] = y] /\ job' = [job EXCEPT ![s] = k]
              /\ y.unresolved = r.x.unresolved /\ Like(r.x, y)
              /\ k = IF r.j.pc = "done" THEN None ELSE r.j

LEMMA Resumes ==
    ASSUME SessionsOk, committed \subseteq committed', NEW s \in Sessions,
           NEW x, NEW j, NEW r, Turn(s, x, j, r, committed'), Resume(s, r), x.selected,
           session[s].selected, x.alive => session[s].alive,
           stored' = stored \/ stored'.owner # None
    PROVE  SessionsOk' /\ After(s, r)
<1>1. SessionOk(s, r.x, committed') /\ Like(x, r.x) /\ r.x.selected
  BY DEF Turn, Like
<1>2. CASE r.j.pc = "done"
  <2> DEFINE y == Settled(s, r.x, r.j)
  <2>1. session' = [session EXCEPT ![s] = y] /\ job' = [job EXCEPT ![s] = None]
    BY <1>2 DEF Resume
  <2>2. /\ SessionOk(s, y, committed') /\ Like(r.x, y) /\ y.record = r.x.record
        /\ y.unresolved = r.x.unresolved
    BY <1>1, SettledOk
  <2> HIDE DEF y
  <2>3. y.selected /\ (y.alive => session[s].alive)
    BY <1>1, <2>2 DEF Like
  <2>4. SessionsOk'
    BY <2>1, <2>2, <2>3, OneSession
  <2> QED BY <1>2, <2>1, <2>2, <2>4 DEF After
<1>3. CASE r.j.pc # "done"
  <2>1. session' = [session EXCEPT ![s] = r.x] /\ job' = [job EXCEPT ![s] = r.j]
    BY <1>3 DEF Resume
  <2>2. JobOk(s, r.x, r.j, committed')
    BY <1>3 DEF Turn
  <2>3. r.x.alive => session[s].alive
    BY <1>1 DEF Like
  <2>4. SessionsOk'
    BY <1>1, <2>1, <2>2, <2>3, OneSession
  <2> QED BY <1>3, <2>1, <2>4 DEF After, Like
<1> QED BY <1>2, <1>3

-----------------------------------------------------------------------------
(* The ids of the requests. *)
Still(k) ==
    /\ Unwritten(k) => Unwritten(k)'
    /\ ~WrittenBy(k) => ~WrittenBy(k)'
    /\ \A t \in Sessions : Unresolved(t, k)' => Unresolved(t, k)

(* A held request is what it was, or is still to be refused if it was. *)
Kept(t, n, K) ==
    \/ \E m \in Held(t) :
         /\ JobAt(t, n)' = JobAt(t, m)
         /\ JobAt(t, m).id = K /\ ~JobAt(t, m).drain =>
              JobAt(t, m).stage = "Writing" /\ JobAt(t, m).pc # "commit"
    \/ /\ FitOk(t, JobAt(t, n))'
       /\ \E m \in Held(t) :
            /\ JobAt(t, n)'.id = JobAt(t, m).id
            /\ JobAt(t, m).late => JobAt(t, n)'.late
            /\ JobAt(t, m).stage = "Cancelled" => JobAt(t, n)'.stage = "Cancelled"
    \/ FitOk(t, JobAt(t, n))' /\ JobAt(t, n)'.id \notin 1..requests

LEMMA FitTold ==
    ASSUME NEW t, NEW n, NEW j, JobAt(t, n)' = j,
           JobAt(t, n)'.id \in 0..requests', JobAt(t, n)'.stage = "Cancelled" => JobAt(t, n)'.late,
           ~JobAt(t, n)'.drain => JobAt(t, n)'.id # 0,
           ~j.drain /\ j.stage # "Writing" => Unwritten(j.id)',
           ~j.drain /\ j.pc = "commit" =>
             ~WrittenBy(j.id)' /\ \A u \in Sessions : Unresolved(u, j.id)' => u = t
    PROVE  FitOk(t, JobAt(t, n))'
<1>1. FitOk(t, j)'
  BY DEF FitOk
<1>2. FitOk(t, JobAt(t, n))' <=> FitOk(t, j)'
  BY DEF FitOk, Unwritten, WrittenBy, Unresolved
<1> QED BY <1>1, <1>2

LEMMA IdsKept ==
    ASSUME IdsOk, NEW K, requests' \in Nat, requests <= requests',
           \A k : k # K => Still(k), K \in 0..requests, ~Dead(K), Apart', committed \subseteq committed',
           \A t \in Sessions : \A n \in Held(t)' : Kept(t, n, K),
           \A a \in told' : a \in told \/ ToldOk(a)'
    PROVE  IdsOk'
<1>1. requests \in Nat
  BY DEF IdsOk
<1>2. ASSUME NEW t \in Sessions, NEW n \in Held(t)' PROVE FitOk(t, JobAt(t, n))'
  <2>1. CASE \E m \in Held(t) :
               /\ JobAt(t, n)' = JobAt(t, m)
               /\ JobAt(t, m).id = K /\ ~JobAt(t, m).drain =>
                    JobAt(t, m).stage = "Writing" /\ JobAt(t, m).pc # "commit"
    <3>1. PICK m \in Held(t) :
               /\ JobAt(t, n)' = JobAt(t, m)
               /\ JobAt(t, m).id = K /\ ~JobAt(t, m).drain =>
                    JobAt(t, m).stage = "Writing" /\ JobAt(t, m).pc # "commit"
      BY <2>1
    <3>8. PICK j : j = JobAt(t, m)
      OBVIOUS
    <3>2. FitOk(t, j)
      BY <3>8 DEF IdsOk
    <3>3. j.id \in 0..requests'
      BY <1>1, <3>2 DEF FitOk
    <3>4. j.id # K => Still(j.id)
      OBVIOUS
    <3>5. /\ ~j.drain /\ j.stage # "Writing" => Unwritten(j.id)'
          /\ ~j.drain /\ j.pc = "commit" =>
               ~WrittenBy(j.id)' /\ \A u \in Sessions : Unresolved(u, j.id)' => u = t
      BY <3>1, <3>2, <3>4, <3>8 DEF FitOk, Still
    <3>6. JobAt(t, n)' = j
      BY <3>1, <3>8
    <3>7. /\ JobAt(t, n)'.id \in 0..requests'
          /\ JobAt(t, n)'.stage = "Cancelled" => JobAt(t, n)'.late
          /\ ~JobAt(t, n)'.drain => JobAt(t, n)'.id # 0
      BY <3>2, <3>3, <3>6 DEF FitOk
    <3> HIDE DEF JobAt
    <3> QED BY <3>2, <3>5, <3>6, <3>7, FitTold
  <2>2. CASE FitOk(t, JobAt(t, n))'
    BY <2>2
  <2>3. Kept(t, n, K)
    OBVIOUS
  <2> QED BY <2>1, <2>2, <2>3 DEF Kept
<1>3. ASSUME NEW a \in told PROVE ToldOk(a)'
  <2>1. ToldOk(a)
    BY DEF IdsOk
  <2>2. a.kind = "ok" /\ a.cmd # None => \E c \in committed' : c.result.cmd = a.cmd
    BY <2>1 DEF ToldOk
  <2>3. ASSUME a.kind = "refused" PROVE Dead(a.job)'
    <3> DEFINE k == a.job
    <3>1. Dead(k) /\ k # K
      BY <2>1, <2>3 DEF ToldOk
    <3> HIDE DEF k
    <3>2. k \in 1..requests'  /\ Unwritten(k)'
      BY <1>1, <3>1 DEF Dead, Still
    <3>3. ASSUME NEW t \in Sessions, NEW n \in Held(t)', JobAt(t, n)'.id = k
          PROVE  JobAt(t, n)'.late /\ JobAt(t, n)'.stage = "Cancelled"
      <4>1. Kept(t, n, K)
        OBVIOUS
      <4>2. ASSUME NEW m \in Held(t), JobAt(t, m).id = k
            PROVE  JobAt(t, m).late /\ JobAt(t, m).stage = "Cancelled"
        BY <3>1, <4>2 DEF Dead
      <4>3. k \in 1..requests
        BY <3>1 DEF Dead
      <4> QED BY <3>3, <4>1, <4>2, <4>3 DEF Kept
    <3> QED BY <3>2, <3>3 DEF Dead, k
  <2> QED BY <2>1, <2>2, <2>3 DEF ToldOk
<1>4. ASSUME NEW k \in Nat, k > requests' PROVE Unwritten(k)'
  <2>1. k > requests /\ k # K
    BY <1>1, <1>4
  <2> QED BY <2>1 DEF IdsOk, Still
<1> QED BY <1>2, <1>3, <1>4 DEF IdsOk

(* The request j that session s works on next: it is held, or the worker's *)
(* own; what else the session holds is in x.                               *)
Source(s, x, j) ==
    /\ \/ j.id = 0
       \/ \E m \in Held(s) :
            /\ j.id = JobAt(s, m).id
            /\ JobAt(s, m).late => j.late
            /\ JobAt(s, m).stage = "Cancelled" => j.stage = "Cancelled"
    /\ \A t \in Sessions \ {s} : \A m \in Held(t) : JobAt(t, m).id # j.id \/ j.id = 0
    /\ \A n \in DOMAIN x.waiting :
         /\ x.waiting[n].id # j.id
         /\ \E m \in DOMAIN session[s].waiting : x.waiting[n] = session[s].waiting[m]
         /\ \A m \in DOMAIN x.waiting : x.waiting[n].id = x.waiting[m].id => n = m
    /\ DOMAIN x.waiting \subseteq Nat \ {0}

LEMMA HeldTyped ==
    ASSUME SessionsOk, NEW t \in Sessions
    PROVE  /\ DOMAIN session[t].waiting \subseteq Nat \ {0}
           /\ Held(t) = (IF job[t] = None THEN {} ELSE {0}) \cup DOMAIN session[t].waiting
           /\ \A n \in DOMAIN session[t].waiting :
                /\ n \in Held(t) /\ JobAt(t, n) = session[t].waiting[n]
                /\ ~JobAt(t, n).drain /\ JobAt(t, n).stage # "Writing" /\ JobAt(t, n) \in JobType
           /\ job[t] # None => 0 \in Held(t) /\ JobAt(t, 0) = job[t] /\ JobIn(job[t])
<1>1. session[t].waiting \in Seq(JobType)
  BY DEF SessionsOk, SessionOk, SessionType
<1>2. DOMAIN session[t].waiting \subseteq Nat \ {0}
      /\ \A n \in DOMAIN session[t].waiting : session[t].waiting[n] \in JobType
  BY <1>1
<1>3. \A n \in DOMAIN session[t].waiting :
        session[t].waiting[n].stage # "Writing" /\ ~session[t].waiting[n].drain
  BY DEF SessionsOk, SessionOk
<1>4. job[t] # None => JobIn(job[t])
  BY DEF SessionsOk, JobOk, JobIn
<1> QED BY <1>2, <1>3, <1>4 DEF Held, JobAt

LEMMA IdsTurn ==
    ASSUME IdsOk, SessionsOk, SessionsOk', NEW s \in Sessions, NEW x, NEW j, NEW r,
           JobIn(j), r.j.id = j.id, r.j.drain = j.drain, r.j.late = j.late, r.j.cmd = j.cmd,
           Like(x, r.x), After(s, r), Source(s, x, j),
           \/ UNCHANGED told
           \/ r.j.pc = "done" /\ told' = Answer(s, r.j, r.j.code),
           r.j.pc = "done" => r.j.code \in Codes,
           r.j.pc = "done" /\ r.j.code = "ok" /\ session[s].alive /\ j.cmd # None =>
             \E c \in committed' : c.result.cmd = j.cmd,
           r.j.pc = "done" /\ r.j.code = "refused" /\ ~j.drain => Unwritten(j.id)',
           r.j.pc # "done" => FitOk(s, r.j)' /\ (j.stage = "Cancelled" => r.j.stage = "Cancelled"),
           UNCHANGED requests, committed \subseteq committed',
           NEW K, \A k : k # K => Still(k), K \in 0..requests, ~Dead(K),
           \A t \in Sessions : \A m \in Held(t) :
             JobAt(t, m).id = K /\ ~JobAt(t, m).drain =>
               \/ JobAt(t, m).stage = "Writing" /\ JobAt(t, m).pc # "commit"
               \/ t = s /\ JobAt(t, m).id = j.id
    PROVE  IdsOk'
<1> USE DEF JobIn
<1>1. PICK y, k : /\ session' = [session EXCEPT ![s] = y] /\ job' = [job EXCEPT ![s] = k]
                  /\ y.unresolved = r.x.unresolved /\ Like(r.x, y)
                  /\ k = IF r.j.pc = "done" THEN None ELSE r.j
  BY DEF After
<1>2. /\ session'[s] = y /\ job'[s] = k /\ y.waiting = x.waiting
      /\ \A t \in Sessions \ {s} : session'[t] = session[t] /\ job'[t] = job[t]
  BY <1>1 DEF SessionsOk, Like
<1>3. requests \in Nat /\ Apart /\ \A t \in Sessions : \A n \in Held(t) : FitOk(t, JobAt(t, n))
  BY DEF IdsOk
<1>4. \A t \in Sessions \ {s} : Held(t)' = Held(t) /\ \A n : JobAt(t, n)' = JobAt(t, n)
  BY <1>2 DEF Held, JobAt
<1>5. /\ \A n \in Held(s)' : n # 0 => n \in DOMAIN x.waiting /\ JobAt(s, n)' = x.waiting[n]
      /\ 0 \in Held(s)' => r.j.pc # "done" /\ JobAt(s, 0)' = r.j
  BY <1>1, <1>2 DEF Held, JobAt, Source
<1>6. ASSUME NEW n \in Held(s)', n # 0
      PROVE  /\ JobAt(s, n)'.id # j.id
             /\ \E m \in Held(s) : JobAt(s, n)' = JobAt(s, m) /\ ~JobAt(s, m).drain
  <2>1. x.waiting[n].id # j.id /\ JobAt(s, n)' = x.waiting[n]
    BY <1>5, <1>6 DEF Source
  <2>2. PICK m \in DOMAIN session[s].waiting : x.waiting[n] = session[s].waiting[m]
    BY <1>5, <1>6 DEF Source
  <2>3. m \in Held(s) /\ JobAt(s, m) = session[s].waiting[m] /\ ~JobAt(s, m).drain
    BY HeldTyped
  <2> QED BY <2>1, <2>2, <2>3
<1>7. Apart'
  <2>1. ASSUME NEW t \in Sessions, NEW u \in Sessions, NEW n \in Held(t)', NEW m \in Held(u)',
               ~JobAt(t, n)'.drain, JobAt(t, n)'.id = JobAt(u, m)'.id
        PROVE  t = u /\ n = m
    <3>1. CASE t # s /\ u # s
      BY <1>3, <1>4, <2>1, <3>1 DEF Apart
    <3>2. CASE t = s /\ u = s /\ n # 0 /\ m # 0
      BY <1>5, <2>1, <3>2 DEF Source
    <3>3. CASE t = s /\ u = s /\ (n = 0 \/ m = 0)
      BY <1>5, <1>6, <2>1, <3>3
    <3>4. CASE t = s /\ u # s /\ n # 0
      BY <1>3, <1>4, <1>6, <2>1, <3>4 DEF Apart
    <3>5. CASE t # s /\ u = s /\ m # 0
      BY <1>3, <1>4, <1>6, <2>1, <3>5 DEF Apart
    <3>6. CASE t = s /\ u # s /\ n = 0
      <4>1. j.id # 0 /\ JobAt(u, m).id = j.id
        BY <1>4, <1>5, <2>1, <3>6
      <4> QED BY <1>4, <3>6, <4>1 DEF Source
    <3>7. CASE t # s /\ u = s /\ m = 0
      <4>1. JobAt(t, n).id = j.id /\ ~JobAt(t, n).drain /\ n \in Held(t)
        BY <1>4, <1>5, <2>1, <3>7
      <4>2. JobAt(t, n).id # 0
        BY <1>3, <4>1 DEF FitOk
      <4> QED BY <3>7, <4>1, <4>2 DEF Source
    <3> QED BY <3>1, <3>2, <3>3, <3>4, <3>5, <3>6, <3>7
  <2> QED BY <2>1 DEF Apart
<1>8. ASSUME NEW t \in Sessions, NEW n \in Held(t)' PROVE Kept(t, n, K)
  <2>1. CASE t # s
    BY <1>4, <2>1 DEF Kept
  <2>2. CASE t = s /\ n # 0
    <3>1. PICK m \in Held(s) : JobAt(s, n)' = JobAt(s, m) /\ ~JobAt(s, m).drain
      BY <1>6, <2>2
    <3>2. JobAt(s, m).id # j.id
      BY <1>6, <2>2, <3>1
    <3> QED BY <2>2, <3>1, <3>2 DEF Kept
  <2>3. CASE t = s /\ n = 0
    <3>1. r.j.pc # "done" /\ JobAt(t, n)' = r.j
      BY <1>5, <2>3
    <3>2. FitOk(t, JobAt(t, n))'
      <4>1. FitOk(s, r.j)'
        BY <3>1
      <4>2. (FitOk(t, JobAt(t, n))' <=> FitOk(s, r.j)')
        BY <2>3, <3>1 DEF FitOk, Unwritten, WrittenBy, Unresolved
      <4> QED BY <4>1, <4>2
    <3>3. CASE j.id = 0
      BY <3>1, <3>2, <3>3 DEF Kept
    <3>4. CASE j.id # 0
      <4>1. PICK m \in Held(s) :
              /\ j.id = JobAt(s, m).id
              /\ JobAt(s, m).late => j.late
              /\ JobAt(s, m).stage = "Cancelled" => j.stage = "Cancelled"
        BY <3>4 DEF Source
      <4> QED BY <2>3, <3>1, <3>2, <4>1 DEF Kept
    <3> QED BY <3>3, <3>4
  <2> QED BY <2>1, <2>2, <2>3
<1>9. ASSUME NEW a \in told', a \notin told PROVE ToldOk(a)'
  <2>1. /\ r.j.pc = "done" /\ ~j.drain /\ ~j.late /\ session[s].alive
        /\ a = [job |-> j.id, cmd |-> j.cmd, kind |-> r.j.code]
    BY <1>9 DEF Answer
  <2>2. a.job = j.id /\ a.cmd = j.cmd /\ a.kind = r.j.code /\ a \in ToldType
    BY <2>1 DEF ToldType, JobType
  <2>3. a.kind = "ok" /\ a.cmd # None => \E c \in committed' : c.result.cmd = a.cmd
    BY <2>1, <2>2
  <2>4. ASSUME a.kind = "refused" PROVE Dead(a.job)'
    <3>1. Unwritten(j.id)' /\ j.id # 0
      BY <2>1, <2>2, <2>4
    <3>2. j.id \in 1..requests
      <4>1. PICK m \in Held(s) : j.id = JobAt(s, m).id
        BY <3>1 DEF Source
      <4>2. j.id \in 0..requests
        BY <1>3, <4>1 DEF FitOk
      <4> QED BY <1>3, <3>1, <4>2
    <3>3. ASSUME NEW t \in Sessions, NEW n \in Held(t)' PROVE JobAt(t, n)'.id # j.id
      <4>1. CASE t # s
        BY <1>4, <3>1, <4>1 DEF Source
      <4>2. CASE t = s
        <5>1. n # 0
          BY <1>5, <2>1, <4>2
        <5> QED BY <1>6, <4>2, <5>1
      <4> QED BY <4>1, <4>2
    <3>4. Unwritten(a.job)' <=> Unwritten(j.id)'
      BY <2>2 DEF Unwritten, WrittenBy, Unresolved
    <3> QED BY <2>2, <3>1, <3>2, <3>3, <3>4 DEF Dead
  <2> QED BY <2>2, <2>3, <2>4 DEF ToldOk
<1> QED BY <1>3, <1>7, <1>8, <1>9, IdsKept

-----------------------------------------------------------------------------
(* The steps of a job that was running, or that begins to run. *)
LEMMA Stills ==
    ASSUME UNCHANGED <<committed, limbo>>,
           \A t \in Sessions : session'[t].unresolved \in {session[t].unresolved, None}
    PROVE  \A k : Still(k)
<1> TAKE k
<1>1. WrittenBy(k)' <=> WrittenBy(k)
  BY DEF WrittenBy
<1>2. \A t \in Sessions : Unresolved(t, k)' => Unresolved(t, k)
  BY DEF Unresolved
<1> HIDE DEF Sessions
<1> QED BY <1>1, <1>2 DEF Still, Unwritten

LEMMA AfterUnresolved ==
    ASSUME SessionsOk, NEW s \in Sessions, NEW r, After(s, r)
    PROVE  /\ session'[s].unresolved = r.x.unresolved
           /\ \A t \in Sessions \ {s} : session'[t].unresolved = session[t].unresolved
BY DEF After, SessionsOk

LEMMA SourceJob ==
    ASSUME SessionsOk, IdsOk, NEW s \in Sessions, job[s] # None
    PROVE  Source(s, session[s], job[s]) /\ FitOk(s, job[s]) /\ JobIn(job[s])
           /\ SessionOk(s, session[s], committed) /\ session[s].selected
           /\ JobOk(s, session[s], job[s], committed)
<1>1. /\ Apart /\ 0 \in Held(s) /\ JobAt(s, 0) = job[s] /\ JobIn(job[s])
      /\ \A t \in Sessions : \A n \in Held(t) : FitOk(t, JobAt(t, n))
  BY HeldTyped DEF IdsOk
<1>2. \A t \in Sessions \ {s} : \A m \in Held(t) : JobAt(t, m).id # job[s].id \/ job[s].id = 0
  BY <1>1 DEF Apart, JobIn
<1>3. ASSUME NEW n \in DOMAIN session[s].waiting
      PROVE  /\ session[s].waiting[n].id # job[s].id
             /\ \A m \in DOMAIN session[s].waiting :
                  session[s].waiting[n].id = session[s].waiting[m].id => n = m
  <2>1. /\ n \in Held(s) /\ n # 0 /\ JobAt(s, n) = session[s].waiting[n] /\ ~JobAt(s, n).drain
        /\ \A m \in DOMAIN session[s].waiting : m \in Held(s) /\ JobAt(s, m) = session[s].waiting[m]
    BY HeldTyped
  <2> QED BY <1>1, <2>1 DEF Apart
<1>4. DOMAIN session[s].waiting \subseteq Nat \ {0}
  BY HeldTyped
<1>5. FitOk(s, job[s])
  BY <1>1
<1>6. /\ SessionOk(s, session[s], committed) /\ session[s].selected
      /\ JobOk(s, session[s], job[s], committed)
  BY DEF SessionsOk
<1> QED BY <1>1, <1>2, <1>3, <1>4, <1>5, <1>6 DEF Source

(* No request is held under 0, and none was refused under it. *)
LEMMA NoZero ==
    ASSUME IdsOk
    PROVE  /\ ~Dead(0) /\ 0 \in 0..requests
           /\ \A t \in Sessions : \A m \in Held(t) : JobAt(t, m).id = 0 => JobAt(t, m).drain
BY DEF IdsOk, Dead, FitOk

LEMMA JobPlain ==
    ASSUME IInv, NEW s \in Sessions, job[s] # None, NEW r,
           Turn(s, session[s], job[s], r, committed), Plain(session[s], job[s], r),
           Resume(s, r), UNCHANGED <<stored, committed, limbo, requests>>
    PROVE  SessionsOk' /\ IdsOk'
<1> USE DEF IInv
<1>9. PICK x, j : x = session[s] /\ j = job[s]
  OBVIOUS
<1>1. Source(s, x, j) /\ FitOk(s, j) /\ JobIn(j) /\ x.selected
  BY <1>9, SourceJob
<1>10. Turn(s, x, j, r, committed) /\ Plain(x, j, r)
  BY <1>9
<1>2. SessionsOk' /\ After(s, r)
  BY <1>1, <1>9, Resumes
<1>3. \A k : Still(k)
  BY <1>2, <1>9, <1>10, AfterUnresolved, Stills DEF Plain
<1>4. /\ r.j.id = j.id /\ r.j.drain = j.drain /\ r.j.late = j.late /\ r.j.cmd = j.cmd
      /\ Like(x, r.x) /\ r.j.stage = j.stage /\ r.j.pc # "commit"
      /\ r.j.pc = "done" => r.j.code \in Codes
      /\ r.j.pc = "done" /\ r.j.code = "ok" /\ x.alive /\ j.cmd # None =>
           \E c \in committed' : c.result.cmd = j.cmd
      /\ r.j.pc = "done" /\ r.j.code = "refused" => j.stage # "Writing"
  BY <1>10 DEF Turn, Plain
<1>5. r.j.pc = "done" /\ r.j.code = "refused" /\ ~j.drain => Unwritten(j.id)'
  BY <1>1, <1>3, <1>4 DEF FitOk, Still
<1>6. r.j.pc # "done" => FitOk(s, r.j)' /\ (j.stage = "Cancelled" => r.j.stage = "Cancelled")
  <2>1. /\ r.j.id \in 0..requests' /\ (r.j.stage = "Cancelled" => r.j.late)
        /\ ~r.j.drain => r.j.id # 0 /\ (r.j.stage # "Writing" => Unwritten(j.id)')
    BY <1>1, <1>3, <1>4 DEF FitOk, Still
  <2> QED BY <1>4, <2>1 DEF FitOk
<1>7. \/ UNCHANGED told
      \/ r.j.pc = "done" /\ told' = Answer(s, r.j, r.j.code)
  BY DEF Resume
<1>8. ~Dead(0) /\ 0 \in 0..requests /\ \A t \in Sessions : \A m \in Held(t) : JobAt(t, m).id = 0 => JobAt(t, m).drain
  BY NoZero
<1> QED BY <1>1, <1>2, <1>3, <1>4, <1>5, <1>6, <1>7, <1>8, <1>9, IdsTurn

(* A request that was not written is taken up. *)
LEMMA TakesUp ==
    ASSUME IInv, NEW s \in Sessions, NEW x, NEW j, NEW r, Source(s, x, j), FitOk(s, j), JobIn(j),
           x.selected, session[s].selected, x.alive = session[s].alive,
           Turn(s, x, j, r, committed), Resume(s, r), j.stage # "Writing",
           r.x.unresolved \in {session[s].unresolved, None},
           r.j.stage \in {j.stage, "Writing"}, j.stage = "Cancelled" => r.j.pc = "done",
           UNCHANGED <<stored, committed, limbo, requests>>
    PROVE  SessionsOk' /\ IdsOk'
<1> USE DEF IInv
<1>2. SessionsOk' /\ After(s, r)
  BY Resumes
<1>3. \A k : Still(k)
  BY <1>2, AfterUnresolved, Stills
<1>4. /\ r.j.id = j.id /\ r.j.drain = j.drain /\ r.j.late = j.late /\ r.j.cmd = j.cmd
      /\ Like(x, r.x)
      /\ r.j.pc = "done" => r.j.code \in Codes
      /\ r.j.pc = "done" /\ r.j.code = "ok" /\ x.alive /\ j.cmd # None =>
           \E c \in committed' : c.result.cmd = j.cmd
  BY DEF Turn
<1>5. ~j.drain => Unwritten(j.id)'
  BY <1>3 DEF FitOk, Still
<1>6. r.j.pc # "done" => FitOk(s, r.j)' /\ (j.stage = "Cancelled" => r.j.stage = "Cancelled")
  <2>1. /\ r.j.id \in 0..requests' /\ (r.j.stage = "Cancelled" => r.j.late)
        /\ ~r.j.drain => r.j.id # 0 /\ Unwritten(j.id)'
    BY <1>4, <1>5 DEF FitOk
  <2>2. ~r.j.drain => ~WrittenBy(j.id)' /\ \A t \in Sessions : ~Unresolved(t, j.id)'
    BY <2>1 DEF Unwritten
  <2> QED BY <1>4, <2>1, <2>2 DEF FitOk
<1>7. \/ UNCHANGED told
      \/ r.j.pc = "done" /\ told' = Answer(s, r.j, r.j.code)
  BY DEF Resume
<1>8. ~Dead(0) /\ 0 \in 0..requests /\ \A t \in Sessions : \A m \in Held(t) : JobAt(t, m).id = 0 => JobAt(t, m).drain
  BY NoZero
<1> QED BY <1>2, <1>3, <1>4, <1>5, <1>6, <1>7, <1>8, IdsTurn

(* What a step leaves alone. *)
LEMMA InfraKept ==
    ASSUME Infra, UNCHANGED <<shards, owns, routes, topo, peer>> PROVE Infra'
BY DEF Infra

LEMMA StoreKept ==
    ASSUME StoreOk, UNCHANGED <<stored, limbo, committed>> PROVE StoreOk'
BY DEF StoreOk

LEMMA MembersKept ==
    ASSUME MembersOk, committed \subseteq committed', UNCHANGED scene PROVE MembersOk'
BY InstanceMore DEF MembersOk

LEMMA LateKept ==
    ASSUME LateOk, committed \subseteq committed', late' \subseteq late PROVE LateOk'
BY RequestMore DEF LateOk

LEMMA OthersKept ==
    ASSUME IInv, UNCHANGED <<database, owns, routes, topo, peer, scene, late>>
    PROVE  Infra' /\ StoreOk' /\ MembersOk' /\ LateOk' /\ UNCHANGED <<stored, committed, limbo>>
<1>1. UNCHANGED <<stored, committed, limbo, shards>>
  BY DEF database
<1> QED BY <1>1, InfraKept, StoreKept, MembersKept, LateKept DEF IInv

-----------------------------------------------------------------------------
(* execute, from the beginning. *)
LEMMA Runs ==
    ASSUME IInv, NEW s \in Sessions, NEW x0, NEW j0, Source(s, x0, j0), FitOk(s, j0), JobIn(j0),
           j0.stage # "Writing", SessionOk(s, x0, committed), x0.selected, session[s].selected,
           x0.alive = session[s].alive, x0.unresolved = session[s].unresolved, Run(s, x0, j0),
           UNCHANGED <<stored, committed, limbo, requests>>
    PROVE  SessionsOk' /\ IdsOk'
<1> DEFINE j == [j0 EXCEPT !.stage = "Reading"]
           r == [x0 EXCEPT !.record = stored]
           x == IF Owned(r, s) THEN r ELSE Unavailable(r)
           u == x.unresolved
           k == [j EXCEPT !.pc = "commit", !.stage = "Writing", !.replay = TRUE]
           y == Committed(x, stored)
           e == IF ~x0.alive THEN Done(x0, j0, "ok")
                ELSE IF j0.stage = "Cancelled" THEN Done(x0, j0, "refused")
                ELSE IF u = None THEN Execute(s, x, j)
                ELSE IF Resolved(u, stored) THEN Execute(s, y, j)
                ELSE IF j.cmd = u.cmd THEN Pair(x, k) ELSE Done(x, j, "unknown")
<1> USE DEF IInv
<1>1. Resume(s, e)
  BY DEF Run
<1>2. RecordOk(stored, committed) /\ stored \in RecordType /\ stored # None
  BY Cleared DEF StoreOk, RecordOk
<1>3. /\ SessionOk(s, r, committed) /\ Like(x0, r) /\ r.record = stored
      /\ r.unresolved = x0.unresolved
  <2>1. x0 \in SessionType
    BY DEF SessionOk
  <2>2. /\ r \in SessionType /\ r.selected = x0.selected /\ r.alive = x0.alive
        /\ r.waiting = x0.waiting /\ r.record = stored /\ r.unresolved = x0.unresolved
    BY <1>2, <2>1 DEF SessionType
  <2> HIDE DEF r
  <2> QED BY <1>2, <2>2 DEF SessionOk, Like
<1> HIDE DEF r
<1>4. /\ SessionOk(s, x, committed) /\ Like(x0, x) /\ x.record = stored
      /\ x.unresolved = x0.unresolved /\ x.selected
  <2>1. r.selected
    BY <1>3 DEF Like
  <2>2. /\ SessionOk(s, Unavailable(r), committed) /\ Like(r, Unavailable(r))
        /\ Unavailable(r).record = r.record /\ Unavailable(r).unresolved = r.unresolved
    BY <1>3, <2>1, Flags
  <2>3. Like(x0, Unavailable(r))
    BY <1>3, <2>2, LikeTrans
  <2> QED BY <1>3, <2>2, <2>3 DEF Like
<1> HIDE DEF x
<1>5. /\ j \in JobType /\ j.id = j0.id /\ j.drain = j0.drain /\ j.late = j0.late
      /\ j.cmd = j0.cmd /\ j.stage = "Reading" /\ JobIn(j)
  BY DEF JobIn, JobType, Stages
<1>6. /\ k \in JobType /\ k.id = j0.id /\ k.drain = j0.drain /\ k.late = j0.late
      /\ k.cmd = j0.cmd /\ k.stage = "Writing" /\ k.pc = "commit"
  BY DEF JobIn, JobType, Stages
<1> HIDE DEF j, k
<1>7. Like(x0, x0) /\ Like(x, x)
  BY DEF Like
<1>8. CASE ~x0.alive \/ j0.stage = "Cancelled"
  <2>1. PICK code \in {"ok", "refused"} : e = Done(x0, j0, code) /\ (code = "ok" => ~x0.alive)
    BY <1>8
  <2> HIDE DEF e
  <2>2. Turn(s, x0, j0, e, committed)
    BY <1>7, <2>1, Finished DEF Codes
  <2>3. e.x = x0 /\ e.j = [j0 EXCEPT !.pc = "done", !.code = code]
    BY <2>1 DEF Done, Pair
  <2>4. e.j.stage = j0.stage /\ e.j.pc = "done"
    BY <2>3 DEF JobIn, JobType
  <2> QED BY <1>1, <2>2, <2>3, <2>4, TakesUp
<1>9. CASE x0.alive /\ j0.stage # "Cancelled"
  <2>1. Source(s, x, j)
    BY <1>4, <1>5, <1>9 DEF Source, Like
  <2>2. FitOk(s, j)
    BY <1>5 DEF FitOk, Unwritten
  <2>3. x.alive = session[s].alive
    BY <1>4 DEF Like
  <2>4. e = IF u = None THEN Execute(s, x, j)
            ELSE IF Resolved(u, stored) THEN Execute(s, y, j)
            ELSE IF j.cmd = u.cmd THEN Pair(x, k) ELSE Done(x, j, "unknown")
    BY <1>9
  <2> HIDE DEF e
  <2>5. SUFFICES /\ Turn(s, x, j, e, committed)
                 /\ e.x.unresolved \in {session[s].unresolved, None}
                 /\ e.j.stage \in {j.stage, "Writing"}
    BY <1>1, <1>4, <1>5, <2>1, <2>2, <2>3, TakesUp
  <2>6. CASE u = None
    <3>1. Turn(s, x, j, e, committed) /\ Plain(x, j, e)
      BY <1>2, <1>4, <1>5, <2>4, <2>6, Executes
    <3> QED BY <1>4, <3>1 DEF Plain
  <2>7. CASE u # None /\ Resolved(u, stored)
    <3>1. /\ SessionOk(s, y, committed) /\ Like(x, y) /\ y.record = stored /\ y.unresolved = None
      <4>1. u \in WriteType
        BY <1>4, <2>7 DEF SessionOk, WriteOk
      <4>2. stored.last # None
        BY <2>7, <4>1, ResultTyped, Cleared DEF Resolved
      <4> HIDE DEF u
      <4> QED BY <1>2, <1>4, <4>2, CommittedOk
    <3>2. e = Execute(s, y, j)
      BY <2>4, <2>7
    <3> HIDE DEF y
    <3>3. Turn(s, y, j, e, committed) /\ Plain(y, j, e)
      BY <1>2, <1>4, <1>5, <3>1, <3>2, Executes DEF Like
    <3>4. Turn(s, x, j, e, committed)
      BY <3>1, <3>3 DEF Turn, Like
    <3> QED BY <3>1, <3>3, <3>4 DEF Plain
  <2>8. CASE u # None /\ ~Resolved(u, stored) /\ j.cmd = u.cmd
    <3>1. e.x = x /\ e.j = k
      BY <2>4, <2>8 DEF Pair
    <3>2. JobOk(s, x, k, committed)
      BY <1>5, <1>6, <2>8 DEF JobOk, Calling, JobIn
    <3> QED BY <1>4, <1>5, <1>6, <1>7, <3>1, <3>2 DEF Turn
  <2>9. CASE u # None /\ ~Resolved(u, stored) /\ j.cmd # u.cmd
    <3>1. e = Done(x, j, "unknown")
      BY <2>4, <2>9
    <3>2. Turn(s, x, j, e, committed)
      BY <1>4, <1>5, <1>7, <3>1, Finished DEF Codes
    <3>3. e.x = x /\ e.j = [j EXCEPT !.pc = "done", !.code = "unknown"]
      BY <3>1 DEF Done, Pair
    <3>4. e.j.stage = j.stage
      BY <1>5, <3>3 DEF JobType
    <3> QED BY <1>4, <3>2, <3>3, <3>4
  <2> QED BY <2>6, <2>7, <2>8, <2>9
<1> QED BY <1>8, <1>9

-----------------------------------------------------------------------------
(* The actions of the jobs. *)
LEMMA NewFields ==
    ASSUME NEW C, NEW s, NEW x, SessionOk(s, x, C), ~x.selected
    PROVE  /\ x.waiting = <<>> /\ x.record = None /\ x.unresolved = None /\ ~x.alive
           /\ ~x.tracked
BY DEF SessionOk, NewSession

Dequeued(x, waiting, chat) == [x EXCEPT !.waiting = waiting, !.chat = chat]

LEMMA Starts ==
    ASSUME IInv, NEW s \in Sessions, Start(s)
    PROVE  IInv'
<1> DEFINE q == session[s].waiting
           j == Head(q)
           transfer == IF j.cmd = None THEN FALSE ELSE j.cmd.type = "transfer"
           x == [session[s] EXCEPT !.waiting = Tail(@),
                                   !.chat = IF transfer THEN None ELSE @]
<1> USE DEF IInv
<1>1. /\ q # <<>> /\ job[s] = None /\ Run(s, x, j)
      /\ UNCHANGED <<owns, routes, topo, requests, links, database, scene>>
  BY DEF Start, Free
<1>2. /\ session[s] \in SessionType /\ SessionOk(s, session[s], committed)
      /\ q \in Seq(JobType)
  BY DEF SessionsOk, SessionOk, SessionType
<1>3. /\ 1 \in DOMAIN q /\ j = q[1] /\ Tail(q) \in Seq(JobType)
      /\ DOMAIN Tail(q) \subseteq Nat \ {0}
      /\ \A n \in DOMAIN Tail(q) : n + 1 \in DOMAIN q /\ n + 1 # 1 /\ Tail(q)[n] = q[n + 1]
  BY <1>1, <1>2
<1>4. session[s].selected
  BY <1>1, <1>2, NewFields
<1>5. /\ x \in SessionType /\ x.selected = session[s].selected /\ x.alive = session[s].alive
      /\ x.waiting = Tail(q) /\ x.record = session[s].record
      /\ x.unresolved = session[s].unresolved
  <2> DEFINE chat == IF transfer THEN None ELSE session[s].chat
  <2>1. x = Dequeued(session[s], Tail(q), chat)
    <3> HIDE DEF transfer
    <3> QED BY <1>2 DEF SessionType, Dequeued
  <2>2. chat \in {session[s].chat, None}
    OBVIOUS
  <2>3. PICK y, v, w : y = session[s] /\ v = Tail(q) /\ w = chat
    OBVIOUS
  <2> HIDE DEF x, chat, q
  <2>4. y \in SessionType /\ v \in Seq(JobType) /\ w \in {y.chat, None} /\ x = Dequeued(y, v, w)
    BY <1>2, <1>3, <2>1, <2>2, <2>3
  <2> QED BY <2>3, <2>4 DEF SessionType, Dequeued
<1> HIDE DEF x
<1>6. \A n \in DOMAIN q : q[n].stage # "Writing" /\ ~q[n].drain
  BY <1>2 DEF SessionOk
<1>7. \A n \in DOMAIN Tail(q) : Tail(q)[n].stage # "Writing" /\ ~Tail(q)[n].drain
  BY <1>3, <1>6
<1>8. SessionOk(s, x, committed)
  BY <1>2, <1>4, <1>5, <1>7 DEF SessionOk
<1>9. /\ Apart /\ \A n \in DOMAIN q : /\ n \in Held(s) /\ JobAt(s, n) = q[n] /\ ~JobAt(s, n).drain
                                      /\ FitOk(s, q[n])
  <2>1. \A n \in DOMAIN q : n \in Held(s) /\ JobAt(s, n) = q[n] /\ ~JobAt(s, n).drain
    BY HeldTyped
  <2> QED BY <2>1 DEF IdsOk
<1>10. FitOk(s, j) /\ JobIn(j) /\ j.stage # "Writing"
  BY <1>2, <1>3, <1>6, <1>9 DEF FitOk, JobIn
<1>11. Source(s, x, j)
  <2>1. \A t \in Sessions \ {s} : \A m \in Held(t) : JobAt(t, m).id # j.id
    BY <1>3, <1>9 DEF Apart
  <2>2. ASSUME NEW n \in DOMAIN Tail(q)
        PROVE  /\ Tail(q)[n].id # j.id
               /\ \E m \in DOMAIN q : Tail(q)[n] = q[m]
               /\ \A m \in DOMAIN Tail(q) : Tail(q)[n].id = Tail(q)[m].id => n = m
    <3>1. n \in Nat
      BY <1>3
    <3>2. ASSUME NEW m \in DOMAIN Tail(q), Tail(q)[n].id = Tail(q)[m].id PROVE n = m
      <4>1. n + 1 = m + 1
        BY <1>3, <1>9, <3>2 DEF Apart
      <4>2. m \in Nat
        BY <1>3
      <4> QED BY <3>1, <4>1, <4>2
    <3>3. Tail(q)[n].id # j.id
      BY <1>3, <1>9 DEF Apart
    <3> QED BY <1>3, <3>2, <3>3
  <2>3. \E m \in Held(s) : JobAt(s, m) = j
    BY <1>3, <1>9
  <2> HIDE DEF j
  <2> QED BY <1>3, <1>5, <2>1, <2>2, <2>3 DEF Source
<1>12. SessionsOk' /\ IdsOk'
  BY <1>1, <1>4, <1>5, <1>8, <1>10, <1>11, Runs DEF database
<1>13. Infra' /\ StoreOk' /\ MembersOk' /\ LateOk'
  BY <1>1, OthersKept DEF links
<1> QED BY <1>12, <1>13

LEMMA Drains ==
    ASSUME IInv, NEW s \in Sessions, Drain(s)
    PROVE  IInv'
<1> DEFINE x == session[s]
           origin == IF x.drainFrom # None THEN x.drainFrom ELSE x.record.owner.inst
           cmds == IF x.drainCmd # None THEN {x.drainCmd}
                   ELSE {Command("transfer", LastSeq(x.record) + 1, sh) :
                           sh \in DrainTargets(x, origin)}
           To(cmd) == IF x.unresolved # None THEN x.unresolved.owner.inst
                      ELSE IF x.drainCmd # None /\ x.record.last.cmd = cmd THEN x.record.owner.inst
                      ELSE IF owns[cmd.arg] = None THEN None
                      ELSE IF owns[cmd.arg].owner = None THEN None ELSE owns[cmd.arg].owner.inst
           y == [session EXCEPT ![s].drainFrom = None, ![s].drainCmd = None]
           z(cmd) == [x EXCEPT !.drainFrom = origin, !.drainCmd = cmd, !.chat = None]
<1> USE DEF IInv
<1>1. /\ job[s] = None /\ x.waiting = <<>> /\ Owned(x, s)
      /\ UNCHANGED <<owns, routes, topo, requests, links, database, scene>>
      /\ \/ session' = y /\ UNCHANGED <<job, told, demand>>
         \/ \E cmd \in cmds : To(cmd) # None /\ Run(s, z(cmd), NewJob(0, cmd, To(cmd), TRUE))
  BY DEF Drain, Draining, Free
<1>2. Infra' /\ StoreOk' /\ MembersOk' /\ LateOk'
  BY <1>1, OthersKept DEF links
<1>3. /\ x \in SessionType /\ SessionOk(s, x, committed) /\ DOMAIN session = Sessions
      /\ x.record \in RecordType /\ x.record.owner \in OwnerType
      /\ x.record.owner.inst \in Instances /\ LastSeq(x.record) \in Nat
  <2>1. x \in SessionType /\ SessionOk(s, x, committed) /\ DOMAIN session = Sessions
    BY DEF SessionsOk, SessionOk
  <2>2. x.record \in RecordType /\ x.record.owner \in OwnerType
    BY <1>1, <2>1, OwnedRecord
  <2> QED BY <2>1, <2>2, LastTyped DEF OwnerType
<1>4. x.selected
  BY <1>1, <1>3, NewFields DEF Owned
<1>5. CASE session' = y /\ UNCHANGED <<job, told, demand>>
  <2> DEFINE v == [x EXCEPT !.drainFrom = None, !.drainCmd = None]
  <2>1. session' = [session EXCEPT ![s] = v] /\ job' = [job EXCEPT ![s] = job[s]]
    <3>1. session' = [session EXCEPT ![s] = v]
      BY <1>5
    <3>2. job' = [job EXCEPT ![s] = job[s]]
      BY <1>5 DEF SessionsOk
    <3> QED BY <3>1, <3>2
  <2>2. /\ v \in SessionType /\ v.selected = x.selected /\ v.alive = x.alive
        /\ v.waiting = x.waiting /\ v.record = x.record /\ v.unresolved = x.unresolved
    BY <1>3 DEF SessionType
  <2> HIDE DEF v
  <2>3. SessionOk(s, v, committed)
    BY <1>3, <1>4, <2>2 DEF SessionOk
  <2>4. UNCHANGED <<stored, committed, limbo>>
    BY <1>1 DEF database
  <2>5. SessionsOk'
    BY <1>1, <2>1, <2>2, <2>3, <2>4, OneSession
  <2>6. \A t \in Sessions : /\ session'[t].waiting = session[t].waiting
                            /\ session'[t].unresolved = session[t].unresolved
    BY <1>3, <2>1, <2>2
  <2>7. \A k : Still(k)
    BY <2>4, <2>6, Stills
  <2>8. \A t \in Sessions : Held(t)' = Held(t) /\ \A n : JobAt(t, n)' = JobAt(t, n)
    <3>1. job' = job
      BY <1>5
    <3>2. ASSUME NEW t \in Sessions PROVE Held(t)' = Held(t) /\ \A n : JobAt(t, n)' = JobAt(t, n)
      BY <2>6, <3>1 DEF Held, JobAt
    <3> QED BY <3>2
  <2>9. Apart'
    BY <2>8 DEF IdsOk, Apart
  <2>10. /\ ~Dead(0) /\ 0 \in 0..requests
         /\ \A t \in Sessions : \A m \in Held(t) : JobAt(t, m).id = 0 => JobAt(t, m).drain
    BY NoZero
  <2>11. \A t \in Sessions : \A n \in Held(t)' : Kept(t, n, 0)
    BY <2>8, <2>10 DEF Kept
  <2>12. requests' = requests /\ requests \in Nat
    BY <1>1 DEF IdsOk
  <2>13. IdsOk'
    BY <1>5, <2>4, <2>7, <2>9, <2>10, <2>11, <2>12, IdsKept
  <2> QED BY <1>2, <2>5, <2>13
<1>6. CASE \E cmd \in cmds : To(cmd) # None /\ Run(s, z(cmd), NewJob(0, cmd, To(cmd), TRUE))
  <2>1. PICK cmd \in cmds : To(cmd) # None /\ Run(s, z(cmd), NewJob(0, cmd, To(cmd), TRUE))
    BY <1>6
  <2>2. cmd \in TransferType
    <3>1. \A sh \in DrainTargets(x, origin) : sh \in Shards
      BY DEF DrainTargets
    <3> QED BY <1>3, <3>1 DEF SessionType, TransferType, Command
  <2>3. To(cmd) \in Instances
    <3>1. owns[cmd.arg] \in ShardType \cup {None}
      BY <2>2 DEF Infra, TransferType
    <3>2. owns[cmd.arg] # None /\ owns[cmd.arg].owner # None => owns[cmd.arg].owner.inst \in Instances
      BY <3>1 DEF ShardType, HostedBy
    <3>3. x.unresolved # None => x.unresolved.owner.inst \in Instances
      BY <1>3 DEF SessionType, WriteType, OwnerType
    <3> QED BY <1>3, <2>1, <3>2, <3>3
  <2> DEFINE v == z(cmd)
             j == NewJob(0, cmd, To(cmd), TRUE)
  <2>4. origin \in Instances
    BY <1>3 DEF SessionType
  <2> HIDE DEF origin
  <2>5. /\ v \in SessionType /\ v.selected = x.selected /\ v.alive = x.alive
        /\ v.waiting = x.waiting /\ v.record = x.record /\ v.unresolved = x.unresolved
    BY <1>3, <2>2, <2>4 DEF SessionType
  <2>6. /\ JobIn(j) /\ j.id = 0 /\ j.drain /\ ~j.late /\ j.stage = "Queued"
    <3>1. PICK to \in Instances : to = To(cmd)
      BY <2>3
    <3>2. cmd \in CommandType
      BY <2>2 DEF TransferType, CommandType
    <3>3. j = NewJob(0, cmd, to, TRUE)
      BY <3>1
    <3> HIDE DEF j, To
    <3> QED BY <3>2, <3>3 DEF NewJob, JobIn, JobType, Stages
  <2>7. Run(s, v, j)
    BY <2>1
  <2> HIDE DEF v, j, z, To
  <2>8. SessionOk(s, v, committed)
    BY <1>3, <1>4, <2>5 DEF SessionOk
  <2>9. DOMAIN v.waiting = {}
    BY <1>1, <2>5
  <2>10. Source(s, v, j)
    BY <2>6, <2>9 DEF Source
  <2>11. FitOk(s, j)
    BY <2>6 DEF FitOk, IdsOk
  <2>12. SessionsOk' /\ IdsOk'
    BY <1>1, <1>4, <2>5, <2>6, <2>7, <2>8, <2>10, <2>11, Runs DEF database
  <2> QED BY <1>2, <2>12
<1> QED BY <1>1, <1>5, <1>6

(* The request that a call carries is about what was committed, or about   *)
(* the write that is put together.                                         *)
LEMMA MessageTyped ==
    ASSUME StoreOk, SessionsOk, NEW s \in Sessions, job[s] # None, Calling(job[s]), NEW conn \in Nat
    PROVE  /\ RequestOk(job[s].op, Message(s, conn), committed)
           /\ Message(s, conn).shard \in Shards
<1>1. PICK x, j, m : x = session[s] /\ j = job[s] /\ m = Message(s, conn)
  OBVIOUS
<1>2. SessionOk(s, x, committed) /\ JobOk(s, x, j, committed) /\ Calling(j) /\ LogOk(committed, stored)
  BY <1>1 DEF SessionsOk, StoreOk
<1>3. j.op \in Ops
  BY <1>2 DEF JobOk, Calling
<1>4. CASE j.then = "write"
  <2>1. /\ WriteOk(j.write, committed) /\ j.write.cmd = j.cmd /\ j.write.owner.binding = s
        /\ j.op \in {"prepare", "propose"}
    BY <1>2, <1>4 DEF JobOk, Calling
  <2>2. j.write \in WriteType /\ Placed(j.write.cmd, j.write.loc, committed)
    BY <2>1 DEF WriteOk
  <2>3. /\ EpochAfter(j.write) \in Nat /\ j.write.loc \in PlaceType /\ j.write.owner \in OwnerType
        /\ j.write.cmd \in CommandType
    BY <2>2, ResultTyped DEF WriteType
  <2>4. /\ j.write.loc.shard \in Shards /\ j.write.owner.version \in Nat /\ s \in Nat
    BY <2>1, <2>3 DEF PlaceType, OwnerType
  <2>5. m = [conn |-> conn, epoch |-> EpochAfter(j.write), binding |-> s,
             shard |-> j.write.loc.shard, version |-> j.write.owner.version,
             cmd |-> j.cmd, loc |-> j.write.loc]
    BY <1>1, <1>4 DEF Message
  <2>6. m \in MemberType /\ m.shard = j.write.loc.shard /\ m.loc = j.write.loc /\ m.cmd = j.cmd
    BY <2>1, <2>3, <2>4, <2>5 DEF MemberType
  <2>7. MessageOk(m, committed)
    BY <2>1, <2>2, <2>6 DEF MessageOk
  <2> QED BY <1>1, <1>3, <2>1, <2>4, <2>6, <2>7 DEF RequestOk
<1>5. CASE j.then # "write"
  <2>1. Owned(x, s) /\ j.op # "propose"
    BY <1>2, <1>5 DEF JobOk, Calling
  <2> DEFINE r == x.record
  <2>2. /\ r \in RecordType /\ r.owner \in OwnerType /\ r.owner.binding = s
        /\ r.last \in ResultType /\ r.loc \in PlaceType
        /\ r.epoch = r.last.epoch /\ r.owner = r.last.owner
        /\ r.loc = r.last.loc /\ Logged(r.last, committed)
    BY <1>2, <2>1, OwnedRecord
  <2>3. m = [conn |-> conn, epoch |-> r.epoch, binding |-> s,
             shard |-> r.loc.shard, version |-> r.owner.version,
             cmd |-> r.last.cmd, loc |-> r.last.loc]
    BY <1>1, <1>5 DEF Message
  <2> HIDE DEF r
  <2>4. /\ r.epoch \in Nat /\ r.loc.shard \in Shards /\ r.owner.version \in Nat /\ s \in Nat
        /\ r.last.cmd \in CommandType /\ r.last.loc \in PlaceType
    BY <2>2 DEF RecordType, PlaceType, OwnerType, ResultType
  <2>5. /\ m \in MemberType /\ m.shard = r.loc.shard /\ m.loc = r.last.loc /\ m.cmd = r.last.cmd
        /\ m.epoch = r.epoch /\ m.binding = s
    BY <2>3, <2>4 DEF MemberType
  <2>6. PICK c \in committed : c.result = r.last
    BY <2>2 DEF Logged
  <2>7. Placed(r.last.cmd, r.last.loc, committed)
    BY <1>2, <2>6 DEF LogOk
  <2>8. MessageOk(m, committed)
    BY <2>2, <2>5, <2>7 DEF MessageOk
  <2>9. Proven(m, committed)
    BY <2>2, <2>5, <2>6 DEF Proven
  <2> QED BY <1>1, <1>3, <2>4, <2>5, <2>8, <2>9 DEF RequestOk
<1> QED BY <1>4, <1>5

(* The write that is put together. *)
LEMMA WritePlaced ==
    ASSUME StoreOk, NEW s, NEW x, SessionOk(s, x, committed), NEW cmd \in CommandType,
           x.record # None, cmd.seq = LastSeq(x.record) + 1, NEW loc,
           cmd.type = "enter" =>
             loc = IF x.record.loc = None THEN Location(1, 0) ELSE x.record.loc,
           cmd.type = "transfer" => loc = Location(cmd.arg, 0),
           cmd.type = "move" => loc = Location(Routed(x), cmd.arg)
    PROVE  loc \in PlaceType /\ Placed(cmd, loc, committed)
<1> DEFINE r == x.record
<1>1. /\ r \in RecordType /\ (r.last # None => Logged(r.last, committed) /\ r.loc = r.last.loc)
      /\ (r.last = None => r.loc = None) /\ LogOk(committed, stored) /\ LastSeq(r) \in Nat
      /\ LastSeq(stored) \in Nat
  BY LastTyped DEF SessionOk, RecordOk, StoreOk
<1>2. CASE cmd.type = "move"
  <2>1. Routed(x) \in Shards /\ cmd.arg \in Nat
    BY <1>2, RoutedTyped DEF CommandType
  <2> QED BY <1>2, <2>1 DEF Placed, Location, PlaceType
<1>3. CASE cmd.type = "transfer"
  <2>1. cmd.arg \in Shards
    BY <1>3 DEF CommandType
  <2> QED BY <1>3, <2>1 DEF Placed, Location, PlaceType
<1>4. CASE cmd.type = "enter" /\ r.last = None
  <2>1. loc = Location(1, 0) /\ cmd.seq = 1
    BY <1>1, <1>4 DEF LastSeq
  <2> QED BY <1>4, <2>1, SceneStoreAssumption DEF Placed, Location, PlaceType
<1>5. CASE cmd.type = "enter" /\ r.last # None
  <2>1. PICK c \in committed : c.result = r.last
    BY <1>1, <1>5 DEF Logged
  <2>2. c.result.cmd.seq \in 1..LastSeq(stored)
    BY <1>1 DEF LogOk
  <2>3. cmd.seq = c.result.cmd.seq + 1 /\ cmd.seq # 1
    BY <1>1, <1>5, <2>1, <2>2 DEF LastSeq
  <2>4. r.last \in ResultType
    BY <1>1, <1>5 DEF RecordType
  <2>5. r.loc = c.result.loc /\ r.loc \in PlaceType /\ r.loc # None
    BY <1>1, <1>5, <2>1, <2>4, Cleared DEF ResultType
  <2>6. loc = c.result.loc
    BY <1>5, <2>5
  <2> QED BY <1>5, <2>3, <2>5, <2>6 DEF Placed
<1>6. cmd.type \in {"move", "transfer", "enter"}
  BY DEF CommandType
<1> QED BY <1>2, <1>3, <1>4, <1>5, <1>6

LEMMA JobBegins ==
    ASSUME IInv, NEW s \in Sessions, job[s] # None, NEW r,
           Turn(s, session[s], job[s], r, committed), Begins(session[s], job[s], r),
           Resume(s, r), UNCHANGED <<stored, committed, limbo, requests>>,
           job[s].write.job = job[s].id
    PROVE  SessionsOk' /\ IdsOk'
<1> USE DEF IInv
<1>1. PICK x, j : x = session[s] /\ j = job[s]
  OBVIOUS
<1>2. Source(s, x, j) /\ FitOk(s, j) /\ JobIn(j) /\ x.selected
  BY <1>1, SourceJob
<1>3. /\ Turn(s, x, j, r, committed) /\ r.x.unresolved = j.write /\ j.stage = "Reading"
      /\ r.j.stage = "Writing" /\ r.j.pc = "commit" /\ j.write.job = j.id
  BY <1>1 DEF Begins
<1>4. SessionsOk' /\ After(s, r)
  BY <1>1, <1>2, Resumes
<1>5. /\ session'[s].unresolved = j.write
      /\ \A t \in Sessions \ {s} : session'[t].unresolved = session[t].unresolved
  BY <1>3, <1>4, AfterUnresolved
<1>6. ASSUME NEW k, k # j.id PROVE Still(k)
  <2>1. WrittenBy(k)' <=> WrittenBy(k)
    BY DEF WrittenBy
  <2>2. \A t \in Sessions : Unresolved(t, k)' => Unresolved(t, k)
    BY <1>3, <1>5, <1>6 DEF Unresolved
  <2> HIDE DEF Sessions
  <2> QED BY <2>1, <2>2 DEF Still, Unwritten
<1>7. /\ r.j.id = j.id /\ r.j.drain = j.drain /\ r.j.late = j.late /\ r.j.cmd = j.cmd
      /\ Like(x, r.x)
  BY <1>3 DEF Turn
<1>8. FitOk(s, r.j)'
  <2>1. ~j.drain => ~WrittenBy(j.id) /\ \A t \in Sessions : ~Unresolved(t, j.id)
    BY <1>2, <1>3 DEF FitOk, Unwritten
  <2>2. ~j.drain => ~WrittenBy(j.id)'
    BY <2>1 DEF WrittenBy
  <2>3. ~j.drain => \A t \in Sessions : Unresolved(t, j.id)' => t = s
    BY <1>5, <2>1 DEF Unresolved
  <2>4. j.id \in 0..requests' /\ (~j.drain => j.id # 0)
    BY <1>2 DEF FitOk
  <2> QED BY <1>3, <1>7, <2>2, <2>3, <2>4 DEF FitOk
<1>9. UNCHANGED told
  BY <1>3 DEF Resume
<1>10. 0 \in Held(s) /\ JobAt(s, 0) = j
  BY <1>1, HeldTyped
<1>11. ~Dead(j.id)
  <2>1. j.id # 0 => ~j.drain
    BY <1>2 DEF JobIn
  <2> QED BY <1>3, <1>10 DEF Dead
<1>12. ASSUME NEW t \in Sessions, NEW m \in Held(t), JobAt(t, m).id = j.id, ~JobAt(t, m).drain
       PROVE  t = s
  BY <1>10, <1>12 DEF IdsOk, Apart
<1>13. j.id \in 0..requests
  BY <1>2 DEF FitOk
<1> QED BY <1>1, <1>2, <1>3, <1>4, <1>6, <1>7, <1>8, <1>9, <1>11, <1>12, <1>13, IdsTurn

(* A call that has a reply, and one that has none. *)
LEMMA JobReplied ==
    ASSUME IInv, NEW s \in Sessions, job[s] # None, Calling(job[s]), NEW ok \in BOOLEAN,
           Resume(s, Replied(s, session[s], job[s], ok)),
           UNCHANGED <<stored, committed, limbo, requests>>
    PROVE  SessionsOk' /\ IdsOk'
<1>1. PICK x, j, r : x = session[s] /\ j = job[s] /\ r = Replied(s, session[s], job[s], ok)
  OBVIOUS
<1>2. /\ SessionOk(s, x, committed) /\ x.selected /\ JobOk(s, x, j, committed) /\ Infra
      /\ Calling(j) /\ r = Replied(s, x, j, ok) /\ Resume(s, r)
  BY <1>1 DEF IInv, SessionsOk
<1>3. CASE j.then = "write"
  <2>1. Turn(s, x, j, r, committed) /\ (Plain(x, j, r) \/ Begins(x, j, r))
    BY <1>2, <1>3, ProposedTurn
  <2>2. j.write.job = j.id
    BY <1>2, <1>3 DEF JobOk, Calling
  <2> QED BY <1>1, <1>2, <2>1, <2>2, JobPlain, JobBegins
<1>4. CASE j.then # "write"
  <2>1. Turn(s, x, j, r, committed) /\ Plain(x, j, r)
    BY <1>2, <1>4, RepliedTurn
  <2> QED BY <1>1, <1>2, <2>1, JobPlain
<1> QED BY <1>3, <1>4

LEMMA JobUnanswered ==
    ASSUME IInv, NEW s \in Sessions, job[s] # None, Calling(job[s]),
           Resume(s, Unanswered(s, session[s], job[s])),
           UNCHANGED <<stored, committed, limbo, requests>>
    PROVE  SessionsOk' /\ IdsOk'
<1>1. PICK x, j, r : x = session[s] /\ j = job[s] /\ r = Unanswered(s, session[s], job[s])
  OBVIOUS
<1>2. /\ SessionOk(s, x, committed) /\ x.selected /\ JobOk(s, x, j, committed) /\ Infra
      /\ Calling(j) /\ r = Unanswered(s, x, j) /\ Resume(s, r)
  BY <1>1 DEF IInv, SessionsOk
<1>3. Turn(s, x, j, r, committed) /\ Plain(x, j, r)
  BY <1>2, UnansweredTurn
<1> QED BY <1>1, <1>2, <1>3, JobPlain

LEMMA Unsends ==
    ASSUME IInv, NEW s \in Sessions, Unsent(s)
    PROVE  IInv'
<1>1. /\ job[s] # None /\ Calling(job[s])
      /\ UNCHANGED <<owns, routes, demand, topo, requests, links, database, scene>>
      /\ \/ Resume(s, Unanswered(s, session[s], job[s]))
         \/ Resume(s, Replied(s, session[s], job[s], FALSE))
  BY DEF Unsent, At, Calling
<1>2. UNCHANGED <<stored, committed, limbo, requests>>
  BY <1>1 DEF database
<1>3. SessionsOk' /\ IdsOk'
  BY <1>1, <1>2, JobReplied, JobUnanswered
<1>4. Infra' /\ StoreOk' /\ MembersOk' /\ LateOk'
  BY <1>1, OthersKept DEF links
<1> QED BY <1>3, <1>4 DEF IInv

(* A request leaves: the job waits for its reply. *)
LEMMA Sends ==
    ASSUME IInv, NEW s \in Sessions, Send(s)
    PROVE  IInv'
<1>1. PICK x, j, gen, read :
        /\ x = session[s] /\ j = job[s] /\ gen = peer[job[s].to].gen
        /\ read = shards[Message(s, 0).shard]
  OBVIOUS
<1>2. /\ j # None /\ j.pc = "send"
      /\ job' = [job EXCEPT ![s].pc = "serve", ![s].conn = gen, ![s].read = read]
      /\ UNCHANGED <<session, told, owns, routes, demand, topo, requests, links, database, scene>>
  BY <1>1 DEF Send, At
<1>3. /\ SessionOk(s, x, committed) /\ JobOk(s, x, j, committed) /\ Calling(j)
      /\ session \in [Sessions -> SessionType] /\ job \in [Sessions -> JobType \cup {None}]
      /\ j \in JobType /\ j.to \in Instances
  BY <1>1, <1>2 DEF IInv, SessionsOk, JobOk, Calling
<1>4. gen \in Nat
  BY <1>1, <1>3 DEF IInv, Infra
<1>5. read \in ShardType \cup {None}
  <2>1. Message(s, 0).shard \in Shards
    BY <1>1, <1>2, <1>3, MessageTyped DEF IInv
  <2> QED BY <1>1, <2>1 DEF IInv, Infra
<1> DEFINE k == [j EXCEPT !.pc = "serve", !.conn = gen, !.read = read]
<1>6. job' = [job EXCEPT ![s] = k]
  BY <1>1, <1>2, <1>3
<1>7. /\ k \in JobType /\ k.id = j.id /\ k.drain = j.drain /\ k.late = j.late /\ k.cmd = j.cmd
      /\ k.stage = j.stage /\ k.pc = "serve" /\ k.op = j.op /\ k.then = j.then /\ k.to = j.to
      /\ k.conn = gen /\ k.write = j.write
  BY <1>3, <1>4, <1>5 DEF JobType
<1> HIDE DEF k
<1>8. JobOk(s, x, k, committed)
  BY <1>2, <1>3, <1>4, <1>7 DEF JobOk, Calling
<1>9. PICK r : r = Pair(x, k)
  OBVIOUS
<1>10. r.x = x /\ r.j = k
  BY <1>9 DEF Pair
<1>11. Turn(s, x, j, r, committed) /\ Plain(x, j, r)
  BY <1>3, <1>7, <1>8, <1>10 DEF Turn, Plain, Like
<1>12. Resume(s, r)
  <2>1. session' = [session EXCEPT ![s] = x]
    BY <1>1, <1>2, <1>3
  <2> QED BY <1>2, <1>6, <1>7, <1>10, <2>1 DEF Resume
<1>13. UNCHANGED <<stored, committed, limbo, requests>>
  BY <1>2 DEF database
<1>14. SessionsOk' /\ IdsOk'
  BY <1>1, <1>2, <1>11, <1>12, <1>13, JobPlain
<1>15. Infra' /\ StoreOk' /\ MembersOk' /\ LateOk'
  BY <1>2, OthersKept DEF links
<1> QED BY <1>14, <1>15 DEF IInv

LEMMA CallTyped ==
    ASSUME NEW x, NEW j \in JobType, NEW op \in Ops, NEW to \in Instances, NEW then \in Purposes
    PROVE  LET r == Call(x, j, op, to, then)
           IN  /\ r.x = x /\ r.j \in JobType /\ r.j.id = j.id /\ r.j.drain = j.drain
               /\ r.j.late = j.late /\ r.j.cmd = j.cmd /\ r.j.stage = j.stage
               /\ r.j.pc = "send" /\ r.j.op = op /\ r.j.then = then /\ r.j.to = to
               /\ r.j.write = j.write
BY DEF Call, Pair, JobType

LEMMA ProposeTurn ==
    ASSUME StoreOk, Infra, NEW s \in Sessions, NEW x, NEW j, SessionOk(s, x, committed),
           JobOk(s, x, j, committed), j.pc = "propose", NEW r,
           \/ r = Done(x, j, "refused")
           \/ \E w : /\ w.job = j.id /\ w.cmd = j.cmd /\ w.owner.binding = s
                     /\ WriteOk(w, committed)
                     /\ r = Call(x, [j EXCEPT !.write = w],
                                 IF j.cmd.type = "move" THEN "propose" ELSE "prepare",
                                 j.budget, "write")
    PROVE  Turn(s, x, j, r, committed) /\ Plain(x, j, r)
<1>1. /\ JobIn(j) /\ j \in JobType /\ j.stage # "Writing" /\ Like(x, x)
      /\ j.budget \in Instances
  BY DEF JobOk, JobIn, JobType, Like
<1>2. CASE r = Done(x, j, "refused")
  BY <1>1, <1>2, Finished DEF Codes
<1>3. CASE \E w : /\ w.job = j.id /\ w.cmd = j.cmd /\ w.owner.binding = s
                  /\ WriteOk(w, committed)
                  /\ r = Call(x, [j EXCEPT !.write = w],
                              IF j.cmd.type = "move" THEN "propose" ELSE "prepare",
                              j.budget, "write")
  <2>1. PICK w : /\ w.job = j.id /\ w.cmd = j.cmd /\ w.owner.binding = s
                 /\ WriteOk(w, committed)
                 /\ r = Call(x, [j EXCEPT !.write = w],
                             IF j.cmd.type = "move" THEN "propose" ELSE "prepare",
                             j.budget, "write")
    BY <1>3
  <2>2. PICK op \in {"propose", "prepare"} :
          op = IF j.cmd.type = "move" THEN "propose" ELSE "prepare"
    OBVIOUS
  <2> DEFINE k0 == [j EXCEPT !.write = w]
  <2>3. r = Call(x, k0, op, j.budget, "write")
    BY <2>1, <2>2
  <2>4. /\ k0 \in JobType /\ k0.id = j.id /\ k0.drain = j.drain /\ k0.late = j.late
        /\ k0.cmd = j.cmd /\ k0.stage = j.stage /\ k0.write = w
    <3>1. w \in WriteType
      BY <2>1 DEF WriteOk
    <3> QED BY <1>1, <3>1 DEF JobType
  <2> HIDE DEF k0
  <2>5. /\ r.x = x /\ r.j \in JobType /\ r.j.id = j.id /\ r.j.drain = j.drain
        /\ r.j.late = j.late /\ r.j.cmd = j.cmd /\ r.j.stage = j.stage
        /\ r.j.pc = "send" /\ r.j.op = op /\ r.j.then = "write" /\ r.j.to = j.budget
        /\ r.j.write = w
    <3>1. op \in Ops /\ "write" \in Purposes
      BY DEF Ops, Purposes
    <3> QED BY <1>1, <2>3, <2>4, <3>1, CallTyped
  <2>6. JobOk(s, x, r.j, committed)
    BY <1>1, <2>1, <2>5 DEF JobOk, Calling, JobIn, Ops, Purposes
  <2> QED BY <1>1, <2>5, <2>6 DEF Turn, Plain
<1> QED BY <1>2, <1>3

LEMMA Proposed ==
    ASSUME IInv, NEW s \in Sessions, Propose(s)
    PROVE  IInv'
<1>1. PICK x, j : x = session[s] /\ j = job[s]
  OBVIOUS
<1> DEFINE i == j.budget
           shard == IF j.cmd.type = "transfer" THEN j.cmd.arg ELSE Routed(x)
           here == IF owns[shard] = None THEN FALSE
                   ELSE owns[shard].owner = [inst |-> i, inc |-> peer[i].inc]
           owner == [binding |-> s, inst |-> i, inc |-> peer[i].inc,
                     version |-> owns[shard].version]
           loc == CASE j.cmd.type = "enter" ->
                         IF x.record.loc = None THEN Location(1, 0) ELSE x.record.loc
                    [] j.cmd.type = "transfer" -> Location(shard, 0)
                    [] OTHER -> Location(shard, j.cmd.arg)
           w == [job |-> j.id, cmd |-> j.cmd, epoch |-> x.record.epoch,
                 expected |-> x.record.owner, owner |-> owner, loc |-> loc]
           refused == Done(x, j, "refused")
           call == Call(x, [j EXCEPT !.write = w],
                        IF j.cmd.type = "move" THEN "propose" ELSE "prepare", i, "write")
           r == IF peer[i].inc = None \/ ~here THEN refused
                ELSE IF j.cmd.type = "move" /\ x.record.owner # owner THEN refused
                ELSE call
<1>2. /\ job[s] # None /\ j.pc = "propose" /\ Resume(s, r)
      /\ UNCHANGED <<owns, routes, demand, topo, requests, links, database, scene>>
  BY <1>1 DEF Propose, At
<1>3. /\ SessionOk(s, x, committed) /\ JobOk(s, x, j, committed) /\ Infra /\ StoreOk
  BY <1>1, <1>2 DEF IInv, SessionsOk
<1>4. /\ j \in JobType /\ j.cmd \in CommandType /\ x.record # None /\ i \in Instances
      /\ j.cmd.seq = LastSeq(x.record) + 1 /\ j.id \in Nat /\ s \in Nat
  BY <1>2, <1>3 DEF JobOk, JobType, Sessions
<1>5. x.record \in RecordType
  BY <1>3, <1>4 DEF SessionOk, RecordOk
<1>6. shard \in Shards
  BY <1>3, <1>4, RoutedTyped DEF CommandType
<1>7. loc \in PlaceType /\ Placed(j.cmd, loc, committed)
  <2>1. /\ j.cmd.type = "enter" =>
             loc = IF x.record.loc = None THEN Location(1, 0) ELSE x.record.loc
        /\ j.cmd.type = "transfer" => loc = Location(j.cmd.arg, 0)
        /\ j.cmd.type = "move" => loc = Location(Routed(x), j.cmd.arg)
    OBVIOUS
  <2> HIDE DEF loc
  <2> QED BY <1>3, <1>4, <2>1, WritePlaced
<1> HIDE DEF shard, loc
<1>8. ASSUME peer[i].inc # None, here
      PROVE  /\ w.job = j.id /\ w.cmd = j.cmd /\ w.owner.binding = s /\ WriteOk(w, committed)
  <2>1. peer[i].inc \in Nat
    BY <1>3, <1>4, <1>8 DEF Infra
  <2>2. owns[shard] \in ShardType
    BY <1>3, <1>6, <1>8 DEF Infra
  <2>3. owner \in OwnerType /\ owner.binding = s
    BY <1>4, <2>1, <2>2 DEF OwnerType, ShardType
  <2> HIDE DEF owner
  <2>4. /\ w \in WriteType /\ w.job = j.id /\ w.cmd = j.cmd /\ w.owner = owner /\ w.loc = loc
    BY <1>4, <1>5, <1>7, <2>3 DEF WriteType, RecordType
  <2> HIDE DEF w
  <2> QED BY <1>7, <2>3, <2>4 DEF WriteOk
<1>9. \/ r = refused
      \/ peer[i].inc # None /\ here /\ r = call
  OBVIOUS
<1>10. PICK y : y = r
  OBVIOUS
<1>11. Turn(s, x, j, y, committed) /\ Plain(x, j, y)
  <2>1. CASE r = refused
    BY <1>2, <1>3, <1>10, <2>1, ProposeTurn
  <2>2. CASE peer[i].inc # None /\ here /\ r = call
    <3>1. PICK v : v = w
      OBVIOUS
    <3>2. v.job = j.id /\ v.cmd = j.cmd /\ v.owner.binding = s /\ WriteOk(v, committed)
      BY <1>8, <2>2, <3>1
    <3>3. y = Call(x, [j EXCEPT !.write = v],
                   IF j.cmd.type = "move" THEN "propose" ELSE "prepare", j.budget, "write")
      BY <1>10, <2>2, <3>1
    <3> HIDE DEF w, r, call, refused
    <3> QED BY <1>2, <1>3, <3>2, <3>3, ProposeTurn
  <2> QED BY <1>9, <2>1, <2>2
<1> HIDE DEF r
<1>12. SessionsOk' /\ IdsOk'
  <2>1. UNCHANGED <<stored, committed, limbo, requests>>
    BY <1>2 DEF database
  <2> QED BY <1>1, <1>2, <1>10, <1>11, <2>1, JobPlain
<1>13. Infra' /\ StoreOk' /\ MembersOk' /\ LateOk'
  BY <1>2, OthersKept DEF links
<1> QED BY <1>12, <1>13 DEF IInv

LEMMA Snapshots ==
    ASSUME IInv, NEW s \in Sessions, Snapshot(s)
    PROVE  IInv'
<1>1. PICK x, j : x = session[s] /\ j = job[s]
  OBVIOUS
<1>2. /\ job[s] # None /\ j.pc = "snapshot"
      /\ UNCHANGED <<owns, routes, demand, topo, requests, links, database, scene>>
      /\ \E b \in BOOLEAN : Resume(s, Done(IF b THEN x ELSE Unavailable(x), j, "ok"))
  BY <1>1 DEF Snapshot, At
<1>3. /\ SessionOk(s, x, committed) /\ x.selected /\ JobOk(s, x, j, committed)
  BY <1>1, <1>2 DEF IInv, SessionsOk
<1>4. PICK y \in {x, Unavailable(x)} : Resume(s, Done(y, j, "ok"))
  BY <1>2
<1>5. SessionOk(s, y, committed) /\ Like(x, y) /\ y.unresolved = x.unresolved
  <2>1. CASE y = x
    BY <1>3, <2>1 DEF Like
  <2>2. CASE y = Unavailable(x)
    BY <1>3, <2>2, Flags
  <2> QED BY <2>1, <2>2
<1>6. JobIn(j) /\ j.cmd = None
  BY <1>2, <1>3 DEF JobOk, JobIn
<1>7. PICK r : r = Done(y, j, "ok")
  OBVIOUS
<1>8. Turn(s, x, j, r, committed) /\ Plain(x, j, r)
  BY <1>5, <1>6, <1>7, Finished DEF Codes
<1>9. UNCHANGED <<stored, committed, limbo, requests>>
  BY <1>2 DEF database
<1>10. SessionsOk' /\ IdsOk'
  BY <1>1, <1>2, <1>4, <1>7, <1>8, <1>9, JobPlain
<1>11. Infra' /\ StoreOk' /\ MembersOk' /\ LateOk'
  BY <1>2, OthersKept DEF links
<1> QED BY <1>10, <1>11 DEF IInv

-----------------------------------------------------------------------------
(* The actions at the services. *)
LEMMA MembersStep ==
    ASSUME MembersOk, committed \subseteq committed', NEW i \in Instances, NEW n,
           InstanceOk(n, committed'), scene' = [scene EXCEPT ![i] = n]
    PROVE  MembersOk'
<1>1. n \in InstanceType
  BY DEF InstanceOk
<1>2. scene' \in [Instances -> InstanceType]
  BY <1>1 DEF MembersOk
<1>3. ASSUME NEW k \in Instances PROVE InstanceOk(scene'[k], committed')
  <2>1. CASE k = i
    BY <2>1 DEF MembersOk
  <2>2. CASE k # i
    <3>1. scene'[k] = scene[k] /\ InstanceOk(scene[k], committed)
      BY <2>2 DEF MembersOk
    <3> QED BY <3>1, InstanceMore
  <2> QED BY <2>1, <2>2
<1> QED BY <1>2, <1>3 DEF MembersOk

LEMMA WorkerKept ==
    ASSUME SessionsOk, IdsOk, UNCHANGED <<session, job, told, requests, stored, committed, limbo>>
    PROVE  SessionsOk' /\ IdsOk'
<1>1. SessionsOk'
  BY DEF SessionsOk, Bound
<1>2. IdsOk'
  BY DEF IdsOk, Apart, Held, JobAt, FitOk, Unwritten, WrittenBy, Unresolved, ToldOk, Dead
<1> QED BY <1>1, <1>2

LEMMA ServeReply ==
    ASSUME NEW i, NEW v, NEW op \in Ops, NEW m, NEW read
    PROVE  Serve(i, v, op, m, read).ok \in BOOLEAN
<1>1. ASSUME NEW h PROVE Handle(h, op, m).ok \in BOOLEAN
  BY DEF Handle, Prepare, Activate, ProposeMove, Confirm, Ok, No, Ops
<1> QED BY <1>1 DEF Serve

LEMMA Serves ==
    ASSUME IInv, NEW s \in Sessions, Served(s)
    PROVE  IInv'
<1>1. PICK j, i, m, r :
        /\ j = job[s] /\ i = job[s].to /\ m = Message(s, job[s].conn)
        /\ r = Serve(job[s].to, scene[job[s].to], job[s].op, Message(s, job[s].conn), job[s].read)
  OBVIOUS
<1>2. /\ j # None /\ j.pc = "serve" /\ Calling(j) /\ scene' = [scene EXCEPT ![i] = r.scene]
      /\ Resume(s, Replied(s, session[s], job[s], r.ok))
      /\ UNCHANGED <<owns, routes, demand, topo, requests, links, database>>
  BY <1>1 DEF Served, At, Calling
<1>3. /\ i \in Instances /\ j.conn \in Nat /\ j.op \in Ops /\ j.read \in ShardType \cup {None}
      /\ j.to = i
  BY <1>1, <1>2 DEF IInv, SessionsOk, JobOk, JobType
<1>4. RequestOk(j.op, m, committed) /\ m.shard \in Shards
  BY <1>1, <1>2, <1>3, MessageTyped DEF IInv
<1>5. r = Serve(i, scene[i], j.op, m, j.read)
  BY <1>1
<1>6. r.ok \in BOOLEAN
  BY <1>3, <1>5, ServeReply
<1>7. InstanceOk(r.scene, committed)
  <2>1. LogOk(committed, stored) /\ InstanceOk(scene[i], committed)
    BY <1>3 DEF IInv, StoreOk, MembersOk
  <2> QED BY <1>3, <1>4, <1>5, <2>1, ServeOk
<1>8. UNCHANGED <<stored, committed, limbo, shards, requests>>
  BY <1>2 DEF database
<1>9. SessionsOk' /\ IdsOk'
  BY <1>1, <1>2, <1>6, <1>8, JobReplied
<1>10. MembersOk'
  BY <1>2, <1>3, <1>7, <1>8, MembersStep DEF IInv
<1>11. Infra' /\ StoreOk' /\ LateOk'
  BY <1>2, <1>8, InfraKept, StoreKept, LateKept DEF links, IInv
<1> QED BY <1>9, <1>10, <1>11 DEF IInv

(* The connection breaks: the request may still be served. *)
LEMMA Breaks ==
    ASSUME IInv, NEW s \in Sessions, Broken(s)
    PROVE  IInv'
<1>1. PICK j, m, c :
        /\ j = job[s] /\ m = Message(s, job[s].conn)
        /\ c = [to |-> job[s].to, op |-> job[s].op, msg |-> Message(s, job[s].conn),
                read |-> job[s].read]
  OBVIOUS
<1>2. /\ j # None /\ j.pc = "serve" /\ Calling(j) /\ late' = late \cup {c}
      /\ Resume(s, Unanswered(s, session[s], job[s]))
      /\ UNCHANGED <<owns, routes, demand, topo, requests, peer, slot, avail, faults,
                     database, scene>>
  BY <1>1 DEF Broken, At, Calling
<1>3. /\ j.to \in Instances /\ j.conn \in Nat /\ j.op \in Ops
      /\ j.read \in ShardType \cup {None}
  BY <1>1, <1>2 DEF IInv, SessionsOk, JobOk, JobType
<1>4. RequestOk(j.op, m, committed)
  BY <1>1, <1>2, <1>3, MessageTyped DEF IInv
<1>5. c \in LateType /\ RequestOk(c.op, c.msg, committed)
  <2>1. m \in MemberType /\ c = [to |-> j.to, op |-> j.op, msg |-> m, read |-> j.read]
    BY <1>1, <1>4 DEF RequestOk, MessageOk
  <2> QED BY <1>3, <1>4, <2>1 DEF LateType
<1>6. UNCHANGED <<stored, committed, limbo, shards, requests>>
  BY <1>2 DEF database
<1>7. LateOk'
  BY <1>2, <1>5, <1>6 DEF LateOk, IInv
<1>8. SessionsOk' /\ IdsOk'
  BY <1>1, <1>2, <1>6, JobUnanswered
<1>9. Infra' /\ StoreOk' /\ MembersOk'
  BY <1>2, <1>6, InfraKept, StoreKept, MembersKept DEF IInv
<1> QED BY <1>7, <1>8, <1>9 DEF IInv

LEMMA ServesLate ==
    ASSUME IInv, NEW m \in late, LateServed(m)
    PROVE  IInv'
<1>1. PICK r : r = Serve(m.to, scene[m.to], m.op, m.msg, m.read).scene
  OBVIOUS
<1>2. /\ late' = late \ {m} /\ (scene' = scene \/ scene' = [scene EXCEPT ![m.to] = r])
      /\ UNCHANGED <<worker, peer, slot, avail, faults, database>>
  BY <1>1 DEF LateServed
<1>3. /\ m.to \in Instances /\ m.read \in ShardType \cup {None}
      /\ RequestOk(m.op, m.msg, committed)
  BY DEF IInv, LateOk, LateType
<1>4. m.msg.shard \in Shards
  BY <1>3 DEF RequestOk, MessageOk, MemberType
<1>5. InstanceOk(r, committed)
  <2>1. LogOk(committed, stored) /\ InstanceOk(scene[m.to], committed)
    BY <1>3 DEF IInv, StoreOk, MembersOk
  <2> QED BY <1>1, <1>3, <1>4, <2>1, ServeOk
<1>6. UNCHANGED <<stored, committed, limbo, shards, session, job, told, owns, routes, topo, requests>>
  BY <1>2 DEF database, worker
<1>7. MembersOk'
  BY <1>2, <1>3, <1>5, <1>6, MembersStep, MembersKept DEF IInv
<1>8. SessionsOk' /\ IdsOk'
  BY <1>6, WorkerKept DEF IInv
<1>9. Infra' /\ StoreOk' /\ LateOk'
  BY <1>2, <1>6, InfraKept, StoreKept, LateKept DEF IInv
<1> QED BY <1>7, <1>8, <1>9 DEF IInv

-----------------------------------------------------------------------------
(* The write of a job. *)
LEMMA JobResolved ==
    ASSUME IInv, NEW s \in Sessions, job[s] # None, NEW x, NEW r,
           Turn(s, x, job[s], r, committed'), Like(session[s], x), Resume(s, r),
           r.x.unresolved \in {session[s].unresolved, None}, r.j.stage = job[s].stage,
           r.j.pc # "commit", session[s].unresolved # None, job[s].stage = "Writing",
           committed \subseteq committed', limbo' \subseteq limbo \cup {session[s].unresolved},
           \A c \in committed' : c \in committed \/ c.job = session[s].unresolved.job,
           stored' = stored \/ stored'.owner # None, UNCHANGED requests,
           r.j.pc = "done" /\ r.j.code = "refused" =>
             /\ UNCHANGED <<committed, limbo>> /\ job[s].pc = "commit" /\ r.x.unresolved = None
    PROVE  SessionsOk' /\ IdsOk'
<1>1. PICK x0, j, w, K : x0 = session[s] /\ j = job[s] /\ w = session[s].unresolved /\ K = w.job
  OBVIOUS
<1>2. Source(s, x0, j) /\ FitOk(s, j) /\ JobIn(j) /\ x0.selected /\ SessionsOk /\ IdsOk
  BY <1>1, SourceJob DEF IInv
<1>3. Turn(s, x, j, r, committed') /\ Like(x0, x) /\ x.selected /\ x.alive = x0.alive
  BY <1>1, <1>2 DEF Like
<1>4. Source(s, x, j)
  BY <1>2, <1>3 DEF Source, Like
<1>5. SessionsOk' /\ After(s, r)
  BY <1>1, <1>2, <1>3, Resumes
<1>6. /\ session'[s].unresolved = r.x.unresolved
      /\ \A t \in Sessions \ {s} : session'[t].unresolved = session[t].unresolved
  BY <1>2, <1>5, AfterUnresolved
<1>7. ASSUME NEW k, k # K PROVE Still(k)
  <2>1. WrittenBy(k)' => WrittenBy(k)
    BY <1>1, <1>7 DEF WrittenBy
  <2>2. \A t \in Sessions : Unresolved(t, k)' => Unresolved(t, k)
    BY <1>1, <1>6 DEF Unresolved
  <2> HIDE DEF Sessions
  <2> QED BY <2>1, <2>2 DEF Still, Unwritten
<1>8. Unresolved(s, K)
  BY <1>1 DEF Unresolved
<1>9. ~Dead(K)
  BY <1>8 DEF Dead, Unwritten
<1>10. /\ r.j.id = j.id /\ r.j.drain = j.drain /\ r.j.late = j.late /\ r.j.cmd = j.cmd
       /\ Like(x, r.x) /\ r.j.stage = "Writing" /\ j.stage = "Writing" /\ r.j.pc # "commit"
       /\ r.j.pc = "done" => r.j.code \in Codes
       /\ r.j.pc = "done" /\ r.j.code = "ok" /\ session[s].alive /\ j.cmd # None =>
            \E c \in committed' : c.result.cmd = j.cmd
  BY <1>1, <1>3 DEF Turn
<1>11. r.j.pc = "done" /\ r.j.code = "refused" /\ ~j.drain => Unwritten(j.id)'
  <2> SUFFICES ASSUME r.j.pc = "done", r.j.code = "refused", ~j.drain PROVE Unwritten(j.id)'
    OBVIOUS
  <2>1. ~WrittenBy(j.id) /\ \A t \in Sessions : Unresolved(t, j.id) => t = s
    BY <1>1, <1>2 DEF FitOk
  <2>2. ~WrittenBy(j.id)'
    BY <2>1 DEF WrittenBy
  <2>3. \A t \in Sessions : ~Unresolved(t, j.id)'
    BY <1>6, <2>1 DEF Unresolved
  <2> HIDE DEF Sessions
  <2> QED BY <2>2, <2>3 DEF Unwritten
<1>12. r.j.pc # "done" => FitOk(s, r.j)' /\ (j.stage = "Cancelled" => r.j.stage = "Cancelled")
  <2>1. j.id \in 0..requests' /\ (~j.drain => j.id # 0)
    BY <1>2 DEF FitOk
  <2> QED BY <1>10, <2>1 DEF FitOk
<1>13. \/ UNCHANGED told
       \/ r.j.pc = "done" /\ told' = Answer(s, r.j, r.j.code)
  BY DEF Resume
<1>14. ASSUME NEW t \in Sessions, NEW m \in Held(t), JobAt(t, m).id = K, ~JobAt(t, m).drain
       PROVE  \/ JobAt(t, m).stage = "Writing" /\ JobAt(t, m).pc # "commit"
              \/ t = s /\ JobAt(t, m).id = j.id
  <2>1. FitOk(t, JobAt(t, m))
    BY <1>2 DEF IdsOk
  <2>2. JobAt(t, m).stage = "Writing"
    BY <1>8, <1>14, <2>1 DEF FitOk, Unwritten
  <2>3. JobAt(t, m).pc = "commit" => t = s
    BY <1>8, <1>14, <2>1 DEF FitOk
  <2>4. CASE t = s
    <3>1. m = 0 /\ JobAt(t, m) = j
      BY <1>1, <1>2, <2>2, <2>4, HeldTyped DEF Held
    <3> QED BY <2>4, <3>1
  <2> QED BY <2>2, <2>3, <2>4
<1>15. K \in 0..requests
  <2>1. K \in Nat
    BY <1>1 DEF IInv, SessionsOk, SessionOk, WriteOk, WriteType
  <2> QED BY <1>2, <1>8, <2>1 DEF IdsOk, Unwritten
<1> QED BY <1>2, <1>4, <1>5, <1>7, <1>9, <1>10, <1>11, <1>12, <1>13, <1>14, <1>15, IdsTurn

(* commit, when its outcome is told. *)
LEMMA CommitTold ==
    ASSUME IInv, NEW s \in Sessions, At(s, "commit"), ApplyCommit(session[s].unresolved),
           Resume(s, Finish(s, [session[s] EXCEPT !.unresolved = None], job[s],
                            CommitOutcome(session[s].unresolved), stored')),
           UNCHANGED <<limbo, requests>>
    PROVE  SessionsOk' /\ IdsOk' /\ StoreOk' /\ committed \subseteq committed'
<1>1. PICK x0, j, w, x, o, st, r :
        /\ x0 = session[s] /\ j = job[s] /\ w = session[s].unresolved
        /\ x = [session[s] EXCEPT !.unresolved = None] /\ st = stored'
        /\ o = CommitOutcome(session[s].unresolved)
        /\ r = Finish(s, [session[s] EXCEPT !.unresolved = None], job[s],
                      CommitOutcome(session[s].unresolved), stored')
  OBVIOUS
<1>2. /\ SessionOk(s, x0, committed) /\ x0.selected /\ JobOk(s, x0, j, committed)
      /\ j # None /\ j.pc = "commit" /\ StoreOk /\ Infra
  BY <1>1 DEF IInv, SessionsOk, At
<1>3. /\ x0.unresolved = w /\ w # None /\ w.cmd = j.cmd /\ j.stage = "Writing" /\ JobIn(j)
      /\ WriteOk(w, committed) /\ w.owner.binding = s
  <2>1. x0.unresolved = w
    BY <1>1
  <2> QED BY <1>2, <2>1 DEF JobOk, JobIn, SessionOk
<1>4. /\ RecordOk(st, committed') /\ committed \subseteq committed'
      /\ o \in {"Committed", "Replayed"} => st.last = ResultOf(w) /\ st.owner = w.owner
      /\ o # "Committed" => st = stored /\ committed' = committed
      /\ \A c \in committed' : c \in committed \/ c.job = w.job
  BY <1>1, <1>2, <1>3, Commits
<1>5. w \in WriteType /\ ResultOf(w).cmd = w.cmd /\ ResultOf(w) # None /\ w.owner # None
  BY <1>3, ResultTyped, Cleared DEF WriteOk, WriteType
<1>6. SessionOk(s, x, committed') /\ Like(x0, x) /\ x.unresolved = None /\ x.selected
  <2>1. x = [x0 EXCEPT !.unresolved = None]
    BY <1>1
  <2>2. SessionOk(s, x, committed) /\ Like(x0, x) /\ x.unresolved = None
    BY <1>2, <2>1, Settles
  <2> QED BY <1>2, <1>4, <2>2, SessionMore DEF Like
<1>7. st # None
  BY <1>4, Cleared DEF RecordOk
<1>8. /\ Turn(s, x, j, r, committed') /\ r.x.unresolved = None /\ r.j.stage = j.stage
      /\ r.j.pc # "commit"
      /\ r.j.pc = "done" /\ r.j.code = "refused" => o \notin {"Committed", "Replayed"}
  <2>1. r = Finish(s, x, j, o, st)
    BY <1>1
  <2>2. o \in {"Committed", "Replayed"} => st.last # None /\ j.cmd = st.last.cmd
    BY <1>3, <1>4, <1>5
  <2>3. o \in {"Committed", "Replayed"} => st.owner # None /\ st.owner.binding = s
    BY <1>3, <1>4, <1>5
  <2> QED BY <1>2, <1>3, <1>4, <1>6, <1>7, <2>1, <2>2, <2>3, Finishes
<1>9. stored' = stored \/ stored'.owner # None
  BY <1>1, <1>4, <1>5
<1>10. SessionsOk' /\ IdsOk'
  BY <1>1, <1>2, <1>3, <1>4, <1>6, <1>8, <1>9, JobResolved
<1>11. StoreOk'
  BY <1>1, <1>2, <1>3, StoreAfter
<1> QED BY <1>4, <1>10, <1>11

(* commit, when its outcome is lost. *)
LEMMA CommitLost ==
    ASSUME IInv, NEW s \in Sessions, At(s, "commit"), UncertainCommit(session[s].unresolved),
           job' = [job EXCEPT ![s].pc = "readback"], UNCHANGED <<session, told, requests>>
    PROVE  SessionsOk' /\ IdsOk' /\ StoreOk' /\ committed \subseteq committed'
<1>1. PICK x0, j, w, k, r :
        /\ x0 = session[s] /\ j = job[s] /\ w = session[s].unresolved
        /\ k = [job[s] EXCEPT !.pc = "readback"]
        /\ r = Pair(session[s], [job[s] EXCEPT !.pc = "readback"])
  OBVIOUS
<1>2. /\ SessionOk(s, x0, committed) /\ x0.selected /\ JobOk(s, x0, j, committed)
      /\ j # None /\ j.pc = "commit" /\ StoreOk /\ Infra
      /\ session \in [Sessions -> SessionType] /\ job \in [Sessions -> JobType \cup {None}]
  BY <1>1 DEF IInv, SessionsOk, At
<1>3. /\ x0.unresolved = w /\ w # None /\ w.cmd = j.cmd /\ j.stage = "Writing" /\ JobIn(j)
      /\ WriteOk(w, committed) /\ w.owner.binding = s
  <2>1. x0.unresolved = w
    BY <1>1
  <2> QED BY <1>2, <2>1 DEF JobOk, JobIn, SessionOk
<1>4. /\ StoreOk' /\ committed \subseteq committed' /\ limbo' \subseteq limbo \cup {w}
      /\ \A c \in committed' : c \in committed \/ c.job = w.job
      /\ stored' = stored \/ stored'.owner # None
  <2>1. UncertainCommit(w)
    BY <1>1
  <2>2. StoreOk' /\ committed \subseteq committed'
    BY <1>2, <1>3, <2>1, StoreLost
  <2>3. CASE ApplyCommit(w) /\ UNCHANGED limbo
    <3>1. /\ CommitOutcome(w) # "Committed" => stored' = stored /\ committed' = committed
          /\ CommitOutcome(w) = "Committed" => stored'.owner = w.owner
          /\ \A c \in committed' : c \in committed \/ c.job = w.job
      BY <1>2, <1>3, <2>3, Commits
    <3>2. w.owner # None
      BY <1>3, Cleared DEF WriteOk, WriteType
    <3> QED BY <2>2, <2>3, <3>1, <3>2
  <2>4. CASE limbo' = limbo \cup {w} /\ UNCHANGED <<stored, committed>>
    BY <2>2, <2>4
  <2> QED BY <2>1, <2>3, <2>4 DEF UncertainCommit
<1>5. /\ k \in JobType /\ k.id = j.id /\ k.drain = j.drain /\ k.late = j.late /\ k.cmd = j.cmd
      /\ k.stage = j.stage /\ k.pc = "readback"
  <2>1. k = [j EXCEPT !.pc = "readback"] /\ j \in JobType
    BY <1>1, <1>3 DEF JobIn
  <2> QED BY <2>1 DEF JobType
<1>6. JobOk(s, x0, k, committed')
  BY <1>3, <1>5 DEF JobOk, Calling, JobIn
<1>7. SessionOk(s, x0, committed') /\ Like(x0, x0)
  BY <1>2, <1>4, SessionMore DEF Like
<1>8. r.x = x0 /\ r.j = k
  BY <1>1 DEF Pair
<1>9. Turn(s, x0, j, r, committed')
  BY <1>5, <1>6, <1>7, <1>8 DEF Turn
<1>10. Resume(s, r)
  <2>1. session' = [session EXCEPT ![s] = x0] /\ job' = [job EXCEPT ![s] = k]
    BY <1>1, <1>2
  <2> QED BY <1>5, <1>8, <2>1 DEF Resume
<1>11. SessionsOk' /\ IdsOk'
  <2>1. /\ job[s] # None /\ job[s].stage = "Writing" /\ session[s].unresolved # None
        /\ Turn(s, x0, job[s], r, committed') /\ Like(session[s], x0)
        /\ limbo' \subseteq limbo \cup {session[s].unresolved}
        /\ \A c \in committed' : c \in committed \/ c.job = session[s].unresolved.job
    BY <1>1, <1>2, <1>3, <1>4, <1>7, <1>9
  <2>2. /\ r.x.unresolved = session[s].unresolved /\ r.j.stage = job[s].stage
        /\ r.j.pc = "readback"
    BY <1>1, <1>5, <1>8
  <2> QED BY <1>4, <1>10, <2>1, <2>2, JobResolved
<1> QED BY <1>4, <1>11

LEMMA CommitsJob ==
    ASSUME IInv, NEW s \in Sessions, Commit(s)
    PROVE  IInv'
<1>1. /\ At(s, "commit")
      /\ UNCHANGED <<owns, routes, demand, topo, requests, peer, slot, late, avail,
                     shards, instances, scene>>
      /\ \/ /\ ApplyCommit(session[s].unresolved)
            /\ Resume(s, Finish(s, [session[s] EXCEPT !.unresolved = None], job[s],
                                CommitOutcome(session[s].unresolved), stored'))
            /\ UNCHANGED limbo
         \/ /\ UncertainCommit(session[s].unresolved)
            /\ job' = [job EXCEPT ![s].pc = "readback"]
            /\ UNCHANGED <<session, told>>
  BY DEF Commit
<1>2. SessionsOk' /\ IdsOk' /\ StoreOk' /\ committed \subseteq committed'
  BY <1>1, CommitTold, CommitLost
<1>3. Infra' /\ MembersOk' /\ LateOk'
  BY <1>1, <1>2, InfraKept, MembersKept, LateKept DEF IInv
<1> QED BY <1>2, <1>3 DEF IInv

(* A write that was lost is looked for. *)
LEMMA ReadsBack ==
    ASSUME IInv, NEW s \in Sessions, Readback(s)
    PROVE  IInv'
<1>1. PICK x0, j, w, x :
        /\ x0 = session[s] /\ j = job[s] /\ w = session[s].unresolved
        /\ x = [session[s] EXCEPT !.unresolved = None]
  OBVIOUS
<1>2. PICK r :
        /\ r = (IF Resolved(w, stored) THEN Finish(s, x, j, "Committed", stored)
                ELSE Done(x0, j, "unknown"))
        /\ Resume(s, r)
  BY <1>1 DEF Readback
<1>3. /\ j # None /\ j.pc = "readback"
      /\ UNCHANGED <<owns, routes, demand, topo, requests, links, database, scene>>
  BY <1>1 DEF Readback, At
<1>4. /\ SessionOk(s, x0, committed) /\ x0.selected /\ JobOk(s, x0, j, committed)
      /\ StoreOk /\ Infra /\ Bound(s)
  BY <1>1, <1>3 DEF IInv, SessionsOk
<1>5. /\ x0.unresolved = w /\ w # None /\ w.cmd = j.cmd /\ j.stage = "Writing" /\ JobIn(j)
      /\ WriteOk(w, committed) /\ w.owner.binding = s
  <2>1. x0.unresolved = w
    BY <1>1
  <2> QED BY <1>3, <1>4, <2>1 DEF JobOk, JobIn, SessionOk
<1>6. UNCHANGED <<stored, committed, limbo, requests>>
  BY <1>3 DEF database
<1>7. ASSUME Resolved(w, stored) PROVE SessionsOk' /\ IdsOk'
  <2>1. SessionOk(s, x, committed) /\ Like(x0, x) /\ x.unresolved = None /\ x.selected
    <3>1. x = [x0 EXCEPT !.unresolved = None]
      BY <1>1
    <3>2. SessionOk(s, x, committed) /\ Like(x0, x) /\ x.unresolved = None
      BY <1>4, <3>1, Settles
    <3> QED BY <1>4, <3>2 DEF Like
  <2>2. RecordOk(stored, committed) /\ stored # None
    BY <1>4, Cleared DEF StoreOk, RecordOk
  <2>3. /\ stored.last = ResultOf(w) /\ stored.last # None /\ stored.last.cmd = j.cmd
        /\ stored.last.owner = w.owner
    BY <1>5, <1>7, ResultTyped, Cleared DEF WriteOk, Resolved
  <2>4. x.alive => stored.owner # None /\ stored.owner.binding = s
    BY <1>1, <1>4, <1>5, <2>1, <2>2, <2>3 DEF Bound, Like, RecordOk
  <2>5. r = Finish(s, x, j, "Committed", stored)
    BY <1>2, <1>7
  <2>6. /\ Turn(s, x, j, r, committed) /\ r.x.unresolved = None /\ r.j.stage = j.stage
        /\ r.j.pc # "commit" /\ ~(r.j.pc = "done" /\ r.j.code = "refused")
    BY <1>4, <1>5, <2>1, <2>2, <2>3, <2>4, <2>5, Finishes
  <2> QED BY <1>1, <1>2, <1>3, <1>5, <1>6, <2>1, <2>6, JobResolved
<1>8. ASSUME ~Resolved(w, stored) PROVE SessionsOk' /\ IdsOk'
  <2>1. r = Done(x0, j, "unknown") /\ Like(x0, x0)
    BY <1>2, <1>8 DEF Like
  <2>2. Turn(s, x0, j, r, committed)
    BY <1>4, <1>5, <2>1, Finished DEF Codes
  <2>3. r.x = x0 /\ r.j = [j EXCEPT !.pc = "done", !.code = "unknown"]
    BY <2>1 DEF Done, Pair
  <2>4. r.j.stage = j.stage /\ r.j.pc = "done" /\ r.j.code = "unknown"
    BY <1>5, <2>3 DEF JobIn, JobType
  <2> QED BY <1>1, <1>2, <1>3, <1>5, <1>6, <2>1, <2>2, <2>3, <2>4, JobResolved
<1>9. SessionsOk' /\ IdsOk'
  BY <1>7, <1>8
<1>10. Infra' /\ StoreOk' /\ MembersOk' /\ LateOk'
  BY <1>3, OthersKept DEF links
<1> QED BY <1>9, <1>10 DEF IInv

-----------------------------------------------------------------------------
(* The actions of the frame thread, and what a session leaves behind. *)
LEMMA SessionsChange ==
    ASSUME SessionsOk, IdsOk, session' \in [Sessions -> SessionType],
           UNCHANGED <<job, told, requests, committed, limbo>>,
           \A t \in Sessions :
             /\ SessionOk(t, session'[t], committed) /\ session'[t].waiting = session[t].waiting
             /\ session'[t].unresolved \in {session[t].unresolved, None}
             /\ job[t] # None => /\ session'[t].selected /\ session'[t].record = session[t].record
                                 /\ session'[t].unresolved = session[t].unresolved
             /\ Bound(t)'
    PROVE  SessionsOk' /\ IdsOk'
<1>1. SessionsOk'
  <2>1. ASSUME NEW t \in Sessions, job'[t] # None
        PROVE  JobOk(t, session'[t], job'[t], committed')
    <3>1. JobOk(t, session[t], job[t], committed) /\ job[t] # None
      BY <2>1 DEF SessionsOk
    <3> QED BY <3>1, JobOfRecord
  <2> HIDE DEF Sessions
  <2>2. ASSUME NEW t \in Sessions
        PROVE  SessionOk(t, session'[t], committed') /\ (job'[t] # None => session'[t].selected)
               /\ Bound(t)'
    OBVIOUS
  <2>3. job' \in [Sessions -> JobType \cup {None}]
    BY DEF SessionsOk
  <2> QED BY <2>1, <2>2, <2>3 DEF SessionsOk
<1>2. \A k : Still(k)
  BY Stills
<1>3. ASSUME NEW t \in Sessions PROVE Held(t)' = Held(t) /\ \A n : JobAt(t, n)' = JobAt(t, n)
  BY DEF Held, JobAt
<1>4. Apart'
  BY <1>3 DEF IdsOk, Apart
<1>5. /\ ~Dead(0) /\ 0 \in 0..requests
      /\ \A t \in Sessions : \A m \in Held(t) : JobAt(t, m).id = 0 => JobAt(t, m).drain
  BY NoZero
<1>6. \A t \in Sessions : \A n \in Held(t)' : Kept(t, n, 0)
  BY <1>3, <1>5 DEF Kept
<1>7. IdsOk'
  <2>1. requests' = requests /\ requests \in Nat /\ committed' = committed /\ told' = told
    BY DEF IdsOk
  <2> QED BY <1>2, <1>4, <1>5, <1>6, <2>1, IdsKept
<1> QED BY <1>1, <1>7

(* A session of which only the binding, or the place, is no longer shown.  *)
Quieter(x, y) ==
    /\ y \in SessionType /\ y.selected = x.selected /\ (y.alive => x.alive)
    /\ y.waiting = x.waiting /\ y.record = x.record /\ y.unresolved = x.unresolved
    /\ ~x.selected => y = x

LEMMA SessionsQuieter ==
    ASSUME SessionsOk, IdsOk, session' \in [Sessions -> SessionType],
           UNCHANGED <<job, told, requests, stored, committed, limbo>>,
           \A t \in Sessions : Quieter(session[t], session'[t])
    PROVE  SessionsOk' /\ IdsOk'
<1>1. ASSUME NEW t \in Sessions
      PROVE  /\ SessionOk(t, session'[t], committed) /\ session'[t].waiting = session[t].waiting
             /\ session'[t].unresolved \in {session[t].unresolved, None}
             /\ job[t] # None => /\ session'[t].selected /\ session'[t].record = session[t].record
                                 /\ session'[t].unresolved = session[t].unresolved
             /\ Bound(t)'
  <2>1. PICK x, y : x = session[t] /\ y = session'[t]
    OBVIOUS
  <2>2. SessionOk(t, x, committed) /\ Quieter(x, y) /\ (job[t] # None => x.selected) /\ Bound(t)
    BY <2>1 DEF SessionsOk
  <2>3. SessionOk(t, y, committed)
    BY <2>2 DEF SessionOk, Quieter
  <2>4. Bound(t)'
    BY <2>1, <2>2 DEF Bound, Quieter
  <2> QED BY <2>1, <2>2, <2>3, <2>4 DEF Quieter
<1> HIDE DEF Sessions
<1> QED BY <1>1, SessionsChange

LEMMA EndedQuieter ==
    ASSUME NEW C, NEW s, NEW x, SessionOk(s, x, C), NEW y, y = [x EXCEPT !.alive = FALSE]
    PROVE  Quieter(x, y) /\ ~y.alive
<1>1. x \in SessionType /\ (~x.selected => x = NewSession)
  BY DEF SessionOk
<1>2. /\ y \in SessionType /\ y.selected = x.selected /\ ~y.alive /\ y.waiting = x.waiting
      /\ y.record = x.record /\ y.unresolved = x.unresolved
  BY <1>1 DEF SessionType
<1>3. ~x.selected => y = x
  BY <1>1 DEF NewSession
<1> QED BY <1>2, <1>3 DEF Quieter

LEMMA UnavailableQuieter ==
    ASSUME NEW C, NEW s, NEW x, SessionOk(s, x, C)
    PROVE  Quieter(x, x) /\ Quieter(x, Unavailable(x))
<1>1. x \in SessionType /\ (~x.selected => x = NewSession)
  BY DEF SessionOk
<1>2. Quieter(x, x)
  BY <1>1 DEF Quieter
<1>3. CASE ~x.selected
  <2>1. Unavailable(x) = x
    BY <1>1, <1>3 DEF NewSession, Unavailable
  <2> QED BY <1>2, <2>1
<1>4. CASE x.selected
  <2>1. SessionOk(s, Unavailable(x), C) /\ Like(x, Unavailable(x))
        /\ Unavailable(x).record = x.record /\ Unavailable(x).unresolved = x.unresolved
    BY <1>4, Flags
  <2> QED BY <1>2, <1>4, <2>1 DEF Quieter, Like, SessionOk
<1> QED BY <1>3, <1>4

LEMMA Closes ==
    ASSUME IInv, NEW s \in Sessions, Closed(s)
    PROVE  IInv'
<1>1. PICK x, y : x = session[s] /\ y = [session[s] EXCEPT !.alive = FALSE]
  OBVIOUS
<1>2. /\ session' = [session EXCEPT ![s] = y]
      /\ UNCHANGED <<job, told, owns, routes, demand, topo, requests, links, database, scene>>
  BY <1>1 DEF Closed
<1>3. SessionsOk /\ IdsOk /\ session \in [Sessions -> SessionType] /\ SessionOk(s, x, committed)
  BY <1>1 DEF IInv, SessionsOk
<1>4. Quieter(x, y)
  BY <1>1, <1>3, EndedQuieter
<1>5. /\ session' \in [Sessions -> SessionType]
      /\ \A t \in Sessions : Quieter(session[t], session'[t])
  <2>1. y \in SessionType
    BY <1>4 DEF Quieter
  <2>2. \A t \in Sessions : Quieter(session[t], session[t])
    BY <1>3, UnavailableQuieter DEF SessionsOk
  <2> HIDE DEF Sessions
  <2> QED BY <1>1, <1>2, <1>3, <1>4, <2>1, <2>2
<1>6. UNCHANGED <<stored, committed, limbo>>
  BY <1>2 DEF database
<1>7. SessionsOk' /\ IdsOk'
  BY <1>2, <1>3, <1>5, <1>6, SessionsQuieter
<1>8. Infra' /\ StoreOk' /\ MembersOk' /\ LateOk'
  BY <1>2, OthersKept DEF links
<1> QED BY <1>7, <1>8 DEF IInv

LEMMA SelectedTyped ==
    ASSUME NEW C, NEW s, NEW y, y = [NewSession EXCEPT !.selected = TRUE, !.alive = TRUE]
    PROVE  SessionOk(s, y, C) /\ y.selected /\ y.waiting = <<>> /\ y.unresolved = None
           /\ y \in SessionType
<1>1. <<>> \in Seq(JobType)
  OBVIOUS
<1>2. y \in SessionType /\ y.selected /\ y.waiting = <<>> /\ y.unresolved = None /\ y.record = None
  BY <1>1 DEF NewSession, SessionType, NoShards
<1> QED BY <1>2 DEF SessionOk

LEMMA Selects ==
    ASSUME IInv, NEW s \in Sessions, Select(s)
    PROVE  IInv'
<1>1. PICK new : new = [NewSession EXCEPT !.selected = TRUE, !.alive = TRUE]
  OBVIOUS
<1>2. /\ ~session[s].selected
      /\ session' = [t \in Sessions |-> IF t = s THEN new ELSE [session[t] EXCEPT !.alive = FALSE]]
      /\ UNCHANGED <<job, told, owns, routes, demand, topo, requests, peer, slot, late,
                     avail, database, scene>>
  BY <1>1 DEF Select
<1>3. SessionsOk /\ IdsOk /\ session \in [Sessions -> SessionType]
  BY DEF IInv, SessionsOk
<1>4. UNCHANGED <<stored, committed, limbo>>
  BY <1>2 DEF database
<1>5. ASSUME NEW t \in Sessions
      PROVE  /\ SessionOk(t, session'[t], committed) /\ session'[t].waiting = session[t].waiting
             /\ session'[t].unresolved \in {session[t].unresolved, None}
             /\ job[t] # None => /\ session'[t].selected /\ session'[t].record = session[t].record
                                 /\ session'[t].unresolved = session[t].unresolved
             /\ Bound(t)'
  <2>1. PICK x, y : x = session[t] /\ y = session'[t]
    OBVIOUS
  <2>2. SessionOk(t, x, committed) /\ (job[t] # None => x.selected) /\ Bound(t)
    BY <1>3, <2>1 DEF SessionsOk
  <2>3. CASE t = s
    <3>1. y = new /\ ~x.selected
      BY <1>2, <2>1, <2>3
    <3>2. /\ SessionOk(t, y, committed) /\ y.selected /\ y.waiting = <<>> /\ y.unresolved = None
      BY <1>1, <3>1, SelectedTyped
    <3>3. x.waiting = <<>>
      BY <2>2, <3>1, NewFields
    <3>4. Bound(t)'
      BY <1>4, <2>1, <2>2, <3>1 DEF Bound
    <3> QED BY <2>1, <2>2, <3>1, <3>2, <3>3, <3>4
  <2>4. CASE t # s
    <3>1. y = [x EXCEPT !.alive = FALSE]
      BY <1>2, <2>1, <2>4
    <3>2. Quieter(x, y) /\ ~y.alive
      BY <2>2, <3>1, EndedQuieter
    <3>3. SessionOk(t, y, committed)
      BY <2>2, <3>2 DEF SessionOk, Quieter
    <3>4. Bound(t)'
      BY <1>4, <2>1, <2>2, <3>2 DEF Bound, Quieter
    <3> QED BY <2>1, <2>2, <3>2, <3>3, <3>4 DEF Quieter
  <2> QED BY <2>3, <2>4
<1>6. session' \in [Sessions -> SessionType]
  <2>1. \A t \in Sessions : session'[t] \in SessionType
    BY <1>5 DEF SessionOk
  <2> HIDE DEF Sessions
  <2> QED BY <1>2, <2>1
<1> HIDE DEF Sessions
<1>7. SessionsOk' /\ IdsOk'
  BY <1>2, <1>3, <1>4, <1>5, <1>6, SessionsChange
<1>8. Infra' /\ StoreOk' /\ MembersOk' /\ LateOk'
  BY <1>2, OthersKept
<1> QED BY <1>7, <1>8 DEF IInv

(* A session of which what it has to retire changes. *)
LEMMA RetiredQuieter ==
    ASSUME NEW C, NEW s, NEW x, SessionOk(s, x, C), x.selected,
           NEW retire \in [Shards -> LeftType \cup {None}], NEW b \in BOOLEAN, NEW y,
           y = [x EXCEPT !.reclaimed = b, !.retire = retire]
    PROVE  Quieter(x, y)
<1>1. x \in SessionType
  BY DEF SessionOk
<1>2. /\ y \in SessionType /\ y.selected = x.selected /\ y.alive = x.alive
      /\ y.waiting = x.waiting /\ y.record = x.record /\ y.unresolved = x.unresolved
  BY <1>1 DEF SessionType
<1> QED BY <1>2 DEF Quieter

(* A session that is one of many changes. *)
LEMMA OneQuieter ==
    ASSUME SessionsOk, IdsOk, NEW s \in Sessions, NEW y, Quieter(session[s], y),
           session' = [session EXCEPT ![s] = y],
           UNCHANGED <<job, told, requests, stored, committed, limbo>>
    PROVE  SessionsOk' /\ IdsOk'
<1>1. session \in [Sessions -> SessionType] /\ y \in SessionType
  BY DEF SessionsOk, Quieter
<1>2. \A t \in Sessions : Quieter(session[t], session[t])
  BY UnavailableQuieter DEF SessionsOk
<1> HIDE DEF Sessions
<1>3. session' \in [Sessions -> SessionType]
      /\ \A t \in Sessions : Quieter(session[t], session'[t])
  BY <1>1, <1>2
<1> QED BY <1>3, SessionsQuieter

LEMMA Retires ==
    ASSUME IInv, NEW s \in Sessions, Retire(s)
    PROVE  IInv'
<1>1. PICK sh \in Shards :
        /\ session[s].retire[sh] # None
        /\ LET old == session[s].retire[sh]
               i == old.owner.inst
               r == Serve(i, scene[i], "remove", RemoveMessage(s, old, peer[i].gen), shards[sh])
               Erased == session' = [session EXCEPT ![s].retire[sh] = None]
           IN  /\ scene' = scene \/ scene' = [scene EXCEPT ![i] = r.scene]
               /\ session' = session \/ Erased
        /\ UNCHANGED <<job, told, owns, routes, demand, topo, requests, links, database>>
  BY DEF Retire
<1>2. PICK x, old, i, m, v, y :
        /\ x = session[s] /\ old = session[s].retire[sh] /\ i = session[s].retire[sh].owner.inst
        /\ m = RemoveMessage(s, session[s].retire[sh], peer[session[s].retire[sh].owner.inst].gen)
        /\ v = Serve(i, scene[i], "remove", m, shards[sh]).scene
        /\ y = [session[s] EXCEPT !.reclaimed = session[s].reclaimed,
                                  !.retire = [session[s].retire EXCEPT ![sh] = None]]
  OBVIOUS
<1>3. /\ SessionOk(s, x, committed) /\ x \in SessionType /\ session \in [Sessions -> SessionType]
      /\ SessionsOk /\ IdsOk /\ old # None /\ old \in LeftType
  <2>1. SessionOk(s, x, committed) /\ x \in SessionType /\ session \in [Sessions -> SessionType]
        /\ SessionsOk /\ IdsOk
    BY <1>2 DEF IInv, SessionsOk, SessionOk
  <2>2. x.retire[sh] \in LeftType \cup {None}
    BY <2>1 DEF SessionType
  <2> QED BY <1>1, <1>2, <2>1, <2>2
<1>4. x.selected
  <2>1. ~x.selected => x.retire = NoShards
    BY <1>3 DEF SessionOk, NewSession
  <2>2. NoShards[sh] = None
    BY DEF NoShards
  <2> QED BY <1>2, <1>3, <2>1, <2>2
<1>5. m.shard \in Shards
  BY <1>2, <1>3 DEF RemoveMessage, LeftType, PlaceType
<1>6. shards[sh] \in ShardType \cup {None} /\ LogOk(committed, stored) /\ MembersOk
  BY DEF IInv, Infra, StoreOk
<1>7. UNCHANGED <<stored, committed, limbo, shards, job, told, owns, routes, topo, requests,
                  peer, late>>
  BY <1>1 DEF database, links
<1>8. MembersOk'
  <2>1. CASE scene' = scene
    BY <1>6, <1>7, <2>1, MembersKept
  <2>2. CASE scene' = [scene EXCEPT ![i] = v] /\ i \in Instances
    <3>1. InstanceOk(scene[i], committed)
      BY <1>6, <2>2 DEF MembersOk
    <3>2. InstanceOk(v, committed)
      BY <1>2, <1>5, <1>6, <3>1, ServeOk
    <3> QED BY <1>6, <1>7, <2>2, <3>2, MembersStep
  <2>3. CASE scene' = [scene EXCEPT ![i] = v] /\ i \notin Instances
    <3>1. scene' = scene
      BY <1>6, <2>3 DEF MembersOk
    <3> QED BY <1>6, <1>7, <3>1, MembersKept
  <2> QED BY <1>1, <1>2, <2>1, <2>2, <2>3
<1>9. SessionsOk' /\ IdsOk'
  <2>1. CASE session' = session
    BY <1>3, <1>7, <2>1, WorkerKept
  <2>2. CASE session' = [session EXCEPT ![s].retire[sh] = None]
    <3>1. session' = [session EXCEPT ![s] = y]
      <4>1. y = [x EXCEPT !.retire = [x.retire EXCEPT ![sh] = None]]
        BY <1>2, <1>3 DEF SessionType
      <4> QED BY <1>2, <1>3, <2>2, <4>1
    <3>2. y = [x EXCEPT !.reclaimed = x.reclaimed, !.retire = [x.retire EXCEPT ![sh] = None]]
          /\ x.reclaimed \in BOOLEAN /\ [x.retire EXCEPT ![sh] = None] \in [Shards -> LeftType \cup {None}]
      BY <1>2, <1>3 DEF SessionType
    <3>3. Quieter(x, y)
      BY <1>3, <1>4, <3>2, RetiredQuieter
    <3>4. Quieter(session[s], y)
      BY <1>2, <3>3
    <3> QED BY <1>3, <1>7, <3>1, <3>4, OneQuieter
  <2> QED BY <1>1, <2>1, <2>2
<1>10. Infra' /\ StoreOk' /\ LateOk'
  BY <1>7, InfraKept, StoreKept, LateKept DEF IInv
<1> QED BY <1>8, <1>9, <1>10 DEF IInv

(* A write that is repeated, or comes late. *)
LEMMA IdsWritten ==
    ASSUME IdsOk, NEW K \in Nat, ~Unwritten(K), committed \subseteq committed',
           \A k : k # K => Still(k), UNCHANGED <<requests, told>>,
           \A t \in Sessions : /\ Held(t)' = Held(t) /\ \A n : JobAt(t, n)' = JobAt(t, n)
                               /\ \A n \in Held(t) : /\ JobAt(t, n).id = K /\ ~JobAt(t, n).drain
                                                    => JobAt(t, n).pc # "commit"
    PROVE  IdsOk'
<1>1. K \in 0..requests
  BY DEF IdsOk
<1>2. ~Dead(K)
  BY DEF Dead
<1>3. Apart'
  BY DEF IdsOk, Apart
<1>4. ASSUME NEW t \in Sessions, NEW n \in Held(t)' PROVE Kept(t, n, K)
  <2>1. n \in Held(t) /\ JobAt(t, n)' = JobAt(t, n) /\ FitOk(t, JobAt(t, n))
    BY DEF IdsOk
  <2>2. JobAt(t, n).id = K /\ ~JobAt(t, n).drain => JobAt(t, n).stage = "Writing"
    BY <2>1 DEF FitOk
  <2> QED BY <2>1, <2>2 DEF Kept
<1>5. requests' = requests /\ requests \in Nat
  BY DEF IdsOk
<1> QED BY <1>1, <1>2, <1>3, <1>4, <1>5, IdsKept

LEMMA CommitsLate ==
    ASSUME IInv, NEW w \in limbo, LateCommit(w), UNCHANGED <<worker, links, scene>>
    PROVE  IInv'
<1>1. /\ limbo' = limbo \ {w} /\ ApplyCommit(w) /\ StoreOk /\ SessionsOk /\ IdsOk
      /\ UNCHANGED <<session, job, told, owns, routes, topo, requests, peer, late, shards>>
  BY DEF IInv, LateCommit, worker, links
<1>2. WriteOk(w, committed)
  BY <1>1 DEF StoreOk
<1>3. /\ committed \subseteq committed'
      /\ CommitOutcome(w) = "Committed" => stored'.owner = w.owner
      /\ CommitOutcome(w) # "Committed" => stored' = stored
      /\ \A c \in committed' : c \in committed \/ c.job = w.job
  BY <1>1, <1>2, Commits
<1>4. StoreOk'
  BY <1>1, <1>2, StoreAfter
<1>5. w.owner # None /\ w.job \in Nat
  BY <1>2, Cleared DEF WriteOk, WriteType
<1>6. SessionsOk'
  <2>1. ASSUME NEW t \in Sessions
        PROVE  /\ SessionOk(t, session'[t], committed')
               /\ job'[t] # None => JobOk(t, session'[t], job'[t], committed') /\ session'[t].selected
               /\ Bound(t)'
    <3>1. Bound(t)'
      BY <1>1, <1>3, <1>5 DEF SessionsOk, Bound
    <3> QED BY <1>1, <1>3, <3>1, SessionMore, JobMore DEF SessionsOk
  <2> HIDE DEF Sessions
  <2> QED BY <1>1, <2>1 DEF SessionsOk
<1>7. WrittenBy(w.job) /\ ~Unwritten(w.job)
  BY DEF WrittenBy, Unwritten
<1>8. ASSUME NEW k, k # w.job PROVE Still(k)
  <2>1. WrittenBy(k)' => WrittenBy(k)
    BY <1>1, <1>3, <1>8 DEF WrittenBy
  <2>2. \A t \in Sessions : Unresolved(t, k)' => Unresolved(t, k)
    BY <1>1 DEF Unresolved
  <2> HIDE DEF Sessions
  <2> QED BY <2>1, <2>2 DEF Still, Unwritten
<1>9. ASSUME NEW t \in Sessions
      PROVE  /\ Held(t)' = Held(t) /\ \A n : JobAt(t, n)' = JobAt(t, n)
             /\ \A n \in Held(t) : /\ JobAt(t, n).id = w.job /\ ~JobAt(t, n).drain
                                  => JobAt(t, n).pc # "commit"
  <2>1. Held(t)' = Held(t) /\ \A n : JobAt(t, n)' = JobAt(t, n)
    BY <1>1 DEF Held, JobAt
  <2>2. \A n \in Held(t) : FitOk(t, JobAt(t, n))
    BY <1>1 DEF IdsOk
  <2> QED BY <1>7, <2>1, <2>2 DEF FitOk
<1>10. IdsOk'
  BY <1>1, <1>3, <1>5, <1>7, <1>8, <1>9, IdsWritten
<1>11. Infra' /\ MembersOk' /\ LateOk'
  BY <1>1, <1>3, InfraKept, MembersKept, LateKept DEF IInv
<1> QED BY <1>4, <1>6, <1>10, <1>11 DEF IInv

LEMMA Recorded ==
    ASSUME NEW C, NEW s, NEW x, SessionOk(s, x, C), x.selected, NEW state, RecordOk(state, C),
           NEW y, y = [x EXCEPT !.record = state]
    PROVE  SessionOk(s, y, C) /\ Like(x, y) /\ y.unresolved = x.unresolved
<1>1. x \in SessionType /\ state \in RecordType
  BY DEF SessionOk, RecordOk
<1>2. /\ y \in SessionType /\ y.selected = x.selected /\ y.alive = x.alive
      /\ y.waiting = x.waiting /\ y.record = state /\ y.unresolved = x.unresolved
  BY <1>1 DEF SessionType
<1> QED BY <1>2 DEF SessionOk, Like

LEMMA CleansUp ==
    ASSUME IInv, NEW s \in Sessions, CleanupSettle(s)
    PROVE  IInv'
<1>1. PICK x, w, st, z, y, o :
        /\ x = session[s] /\ w = session[s].unresolved /\ st = stored'
        /\ z = [session[s] EXCEPT !.record = stored'] /\ o = CommitOutcome(session[s].unresolved)
        /\ y = (CASE o \in {"Committed", "Replayed"} -> Committed(z, st)
                  [] o = "StaleBinding" -> [z EXCEPT !.unresolved = None]
                  [] OTHER -> z)
  OBVIOUS
<1>2. /\ w # None /\ job[s] = None /\ x.waiting = <<>> /\ ~x.alive
      /\ ApplyCommit(session[s].unresolved)
      /\ session' = [session EXCEPT ![s] = y]
      /\ UNCHANGED <<job, told, owns, routes, demand, topo, requests, links, limbo,
                     shards, instances, scene>>
  BY <1>1 DEF CleanupSettle, Cleaning
<1>3. /\ SessionsOk /\ IdsOk /\ StoreOk /\ SessionOk(s, x, committed) /\ x.unresolved = w
      /\ job \in [Sessions -> JobType \cup {None}] /\ session \in [Sessions -> SessionType]
      /\ DOMAIN session = Sessions
  BY <1>1 DEF IInv, SessionsOk
<1>4. WriteOk(w, committed) /\ w.job \in Nat /\ x.selected /\ ApplyCommit(w)
  <2>1. x.selected
    BY <1>2, <1>3, NewFields
  <2>2. WriteOk(w, committed)
    BY <1>2, <1>3 DEF SessionOk
  <2>3. w.job \in Nat
    BY <2>2 DEF WriteOk, WriteType
  <2> QED BY <1>1, <1>2, <2>1, <2>2, <2>3
<1>5. /\ RecordOk(st, committed') /\ committed \subseteq committed'
      /\ o \in {"Committed", "Replayed"} => st.last = ResultOf(w) /\ st.owner = w.owner
      /\ o # "Committed" => st = stored /\ committed' = committed
      /\ \A c \in committed' : c \in committed \/ c.job = w.job
  BY <1>1, <1>3, <1>4, Commits
<1>6. ResultOf(w) # None /\ w.owner # None /\ st # None
  BY <1>4, <1>5, ResultTyped, Cleared DEF WriteOk, WriteType, RecordOk
<1>7. /\ SessionOk(s, z, committed') /\ Like(x, z) /\ z.unresolved = w /\ z.selected
  <2>1. z = [x EXCEPT !.record = st] /\ SessionOk(s, x, committed')
    BY <1>1, <1>3, <1>5, SessionMore
  <2>2. SessionOk(s, z, committed') /\ Like(x, z) /\ z.unresolved = x.unresolved
    BY <1>4, <1>5, <2>1, Recorded
  <2> QED BY <1>3, <1>4, <2>2 DEF Like
<1>8. SessionOk(s, y, committed') /\ Like(x, y) /\ y.unresolved \in {w, None}
  <2>1. CASE o \in {"Committed", "Replayed"}
    <3>1. y = Committed(z, st)
      BY <1>1, <2>1
    <3>2. SessionOk(s, y, committed') /\ Like(z, y) /\ y.unresolved = None
      BY <1>5, <1>6, <1>7, <2>1, <3>1, CommittedOk
    <3> QED BY <1>7, <3>2, LikeTrans
  <2>2. CASE o = "StaleBinding"
    <3>1. y = [z EXCEPT !.unresolved = None]
      BY <1>1, <2>2
    <3>2. SessionOk(s, y, committed') /\ Like(z, y) /\ y.unresolved = None
      BY <1>7, <3>1, Settles
    <3> QED BY <1>7, <3>2, LikeTrans
  <2>3. CASE o \notin {"Committed", "Replayed", "StaleBinding"}
    <3>1. y = z
      BY <1>1, <2>3
    <3> QED BY <1>7, <3>1
  <2> QED BY <2>1, <2>2, <2>3
<1>9. SessionsOk'
  <2>1. job' = [job EXCEPT ![s] = None]
    BY <1>2, <1>3
  <2>2. stored' = stored \/ stored'.owner # None
    BY <1>1, <1>5, <1>6
  <2>3. y.selected /\ ~y.alive
    BY <1>2, <1>4, <1>8 DEF Like
  <2> QED BY <1>2, <1>3, <1>5, <1>8, <2>1, <2>2, <2>3, OneSession
<1>10. /\ session'[s] = y
       /\ \A t \in Sessions \ {s} : session'[t] = session[t]
  BY <1>2, <1>3
<1>11. Unresolved(s, w.job) /\ ~Unwritten(w.job)
  BY <1>1, <1>2 DEF Unresolved, Unwritten
<1>12. ASSUME NEW k, k # w.job PROVE Still(k)
  <2>1. WrittenBy(k)' => WrittenBy(k)
    BY <1>2, <1>5, <1>12 DEF WrittenBy
  <2>2. \A t \in Sessions : Unresolved(t, k)' => Unresolved(t, k)
    BY <1>8, <1>10, <1>12 DEF Unresolved
  <2> HIDE DEF Sessions
  <2> QED BY <2>1, <2>2 DEF Still, Unwritten
<1>13. ASSUME NEW t \in Sessions
       PROVE  /\ Held(t)' = Held(t) /\ \A n : JobAt(t, n)' = JobAt(t, n)
              /\ \A n \in Held(t) : /\ JobAt(t, n).id = w.job /\ ~JobAt(t, n).drain
                                   => JobAt(t, n).pc # "commit"
  <2>1. session'[t].waiting = session[t].waiting /\ job' = job
    BY <1>1, <1>2, <1>8, <1>10 DEF Like
  <2>2. Held(t)' = Held(t) /\ \A n : JobAt(t, n)' = JobAt(t, n)
    BY <2>1 DEF Held, JobAt
  <2>3. \A n \in Held(t) : FitOk(t, JobAt(t, n))
    BY <1>3 DEF IdsOk
  <2>4. Held(s) = {}
    BY <1>1, <1>2 DEF Held
  <2> QED BY <1>11, <2>2, <2>3, <2>4 DEF FitOk
<1>14. IdsOk'
  BY <1>2, <1>3, <1>4, <1>5, <1>11, <1>12, <1>13, IdsWritten
<1>15. StoreOk'
  BY <1>2, <1>3, <1>4, StoreAfter
<1>16. Infra' /\ MembersOk' /\ LateOk'
  BY <1>2, <1>5, InfraKept, MembersKept, LateKept DEF IInv, links
<1> QED BY <1>9, <1>14, <1>15, <1>16 DEF IInv

LEMMA RevokesBinding ==
    ASSUME IInv, NEW s \in Sessions, CleanupRevoke(s)
    PROVE  IInv'
<1>1. PICK x, old, retire, y :
        /\ x = session[s] /\ old = (IF Owned(session[s], s) THEN session[s].record
                                    ELSE session[s].lastOwned)
        /\ retire = (IF old = None THEN session[s].retire
                     ELSE [session[s].retire EXCEPT ![old.loc.shard] = old])
        /\ y = [session[s] EXCEPT !.reclaimed = TRUE, !.retire = retire]
  OBVIOUS
<1>2. /\ ~x.alive /\ x.tracked /\ session[s] = x
      /\ IF Owned(x, s) THEN Revoke(x.record.epoch, x.record.owner) ELSE UNCHANGED stored
      /\ session' = [session EXCEPT ![s].reclaimed = TRUE,
             ![s].retire = IF old = None THEN @ ELSE [@ EXCEPT ![old.loc.shard] = old]]
      /\ UNCHANGED <<job, told, owns, routes, demand, topo, requests, links, limbo,
                     committed, shards, instances, scene>>
  BY <1>1 DEF CleanupRevoke, Cleaning, Tracked
<1>3. /\ SessionsOk /\ IdsOk /\ StoreOk /\ SessionOk(s, x, committed) /\ x \in SessionType
      /\ session \in [Sessions -> SessionType] /\ DOMAIN session = Sessions
  BY <1>1 DEF IInv, SessionsOk
<1>4. x.selected
  BY <1>2, <1>3, NewFields
<1>5. old \in LeftType \cup {None}
  BY <1>1, <1>3, OwnedRecord DEF RecordType, LeftType, SessionType
<1>6. retire \in [Shards -> LeftType \cup {None}]
  BY <1>1, <1>3, <1>5 DEF SessionType
<1>7. session' = [session EXCEPT ![s] = y]
  <2>1. retire = IF old = None THEN x.retire ELSE [x.retire EXCEPT ![old.loc.shard] = old]
    BY <1>1
  <2>2. y = [x EXCEPT !.reclaimed = TRUE, !.retire = retire]
    BY <1>1
  <2> QED BY <1>2, <1>3, <2>1, <2>2 DEF SessionType
<1>8. Quieter(x, y)
  BY <1>1, <1>2, <1>3, <1>4, <1>6, RetiredQuieter
<1>9. /\ StoreOk' /\ stored'.last = stored.last
      /\ stored'.owner = stored.owner \/ (stored.owner = x.record.owner /\ Owned(x, s))
  <2>1. CASE Owned(x, s)
    BY <1>2, <1>3, <2>1, Revokes
  <2>2. CASE ~Owned(x, s)
    BY <1>2, <1>3, <2>2, StoreKept
  <2> QED BY <2>1, <2>2
<1>10. ASSUME NEW t \in Sessions
       PROVE  /\ SessionOk(t, session'[t], committed) /\ session'[t].waiting = session[t].waiting
              /\ session'[t].unresolved \in {session[t].unresolved, None}
              /\ job[t] # None => /\ session'[t].selected /\ session'[t].record = session[t].record
                                  /\ session'[t].unresolved = session[t].unresolved
              /\ Bound(t)'
  <2>1. Quieter(session[t], session'[t]) /\ SessionOk(t, session[t], committed) /\ Bound(t)
        /\ (job[t] # None => session[t].selected)
    <3>1. Quieter(session[t], session[t])
      BY <1>3, UnavailableQuieter DEF SessionsOk
    <3> HIDE DEF Sessions
    <3> QED BY <1>2, <1>3, <1>7, <1>8, <3>1 DEF SessionsOk
  <2>2. SessionOk(t, session'[t], committed)
    BY <2>1 DEF SessionOk, Quieter
  <2>3. Bound(t)'
    <3> SUFFICES ASSUME session'[t].alive \/ ~session'[t].selected, stored'.last # None,
                        stored'.last.owner.binding = t
                 PROVE  stored'.owner # None
      BY DEF Bound
    <3>1. session[t].alive \/ ~session[t].selected
      BY <2>1 DEF Quieter
    <3>2. stored.owner # None
      BY <1>9, <2>1, <3>1 DEF Bound
    <3>3. t # s
      BY <1>2, <1>4, <3>1
    <3>4. stored.owner = stored.last.owner
      BY <1>3, <3>2 DEF StoreOk, RecordOk
    <3>5. Owned(x, s) => x.record.owner.binding = s
      BY DEF Owned
    <3> QED BY <1>9, <3>2, <3>3, <3>4, <3>5
  <2> QED BY <2>1, <2>2, <2>3 DEF Quieter
<1>11. session' \in [Sessions -> SessionType]
  <2>1. y \in SessionType
    BY <1>8 DEF Quieter
  <2> HIDE DEF Sessions
  <2> QED BY <1>3, <1>7, <2>1
<1>12. SessionsOk' /\ IdsOk'
  <2> HIDE DEF Sessions
  <2> QED BY <1>2, <1>3, <1>10, <1>11, SessionsChange
<1>13. Infra' /\ MembersOk' /\ LateOk'
  BY <1>2, InfraKept, MembersKept, LateKept DEF IInv, links
<1> QED BY <1>9, <1>12, <1>13 DEF IInv

-----------------------------------------------------------------------------
(* The requests of the clients. *)
LEMMA CommandTyped ==
    ASSUME NEW cmd \in Commands \cup {None}
    PROVE  cmd \in CommandType \cup {None}
BY PositionsAssumption DEF Commands, CommandType

Queued(x, waiting) == [x EXCEPT !.tracked = TRUE, !.waiting = waiting]

LEMMA QueuedOk ==
    ASSUME NEW C, NEW s, NEW x, SessionOk(s, x, C), x.selected, NEW j \in JobType,
           j.stage # "Writing", ~j.drain, NEW y, y = Queued(x, Append(x.waiting, j))
    PROVE  /\ SessionOk(s, y, C) /\ y.selected /\ y.alive = x.alive /\ y.record = x.record
           /\ y.unresolved = x.unresolved /\ y.waiting = Append(x.waiting, j)
<1>1. x \in SessionType /\ x.waiting \in Seq(JobType)
  BY DEF SessionOk, SessionType
<1>2. PICK v : v = Append(x.waiting, j)
  OBVIOUS
<1>3. v \in Seq(JobType) /\ DOMAIN v = DOMAIN x.waiting \cup {Len(x.waiting) + 1}
      /\ v[Len(x.waiting) + 1] = j /\ \A n \in DOMAIN x.waiting : v[n] = x.waiting[n]
  BY <1>1, <1>2
<1>4. /\ y \in SessionType /\ y.selected = x.selected /\ y.alive = x.alive
      /\ y.waiting = v /\ y.record = x.record /\ y.unresolved = x.unresolved
  BY <1>1, <1>2, <1>3 DEF SessionType, Queued
<1>5. \A n \in DOMAIN v : v[n].stage # "Writing" /\ ~v[n].drain
  BY <1>3 DEF SessionOk
<1> QED BY <1>2, <1>4, <1>5 DEF SessionOk

LEMMA Requests ==
    ASSUME IInv, NEW s \in Sessions, NEW cmd \in Commands \cup {None}, Request(s, cmd)
    PROVE  IInv'
<1>1. PICK x, sh, j, y, t :
        /\ x = session[s]
        /\ sh = (IF cmd = None THEN Routed(session[s])
                 ELSE IF cmd.type = "transfer" THEN cmd.arg ELSE Routed(session[s]))
        /\ j = NewJob(requests + 1, cmd, routes[sh], FALSE)
        /\ y = Queued(session[s], Append(session[s].waiting, j))
        /\ t = [job |-> j.id, cmd |-> cmd, kind |-> "refused"]
  OBVIOUS
<1>2. /\ x.alive /\ requests' = requests + 1
      /\ \/ told' = told \cup {t} /\ UNCHANGED session
         \/ /\ session' = [session EXCEPT ![s].tracked = TRUE, ![s].waiting = Append(@, j)]
            /\ UNCHANGED told
      /\ UNCHANGED <<job, owns, routes, topo, links, database, scene>>
  BY <1>1 DEF Request
<1>3. /\ SessionsOk /\ IdsOk /\ SessionOk(s, x, committed) /\ x \in SessionType
      /\ session \in [Sessions -> SessionType] /\ DOMAIN session = Sessions
      /\ job \in [Sessions -> JobType \cup {None}] /\ requests \in Nat
  BY <1>1 DEF IInv, SessionsOk, IdsOk, SessionOk
<1>4. x.selected
  BY <1>2, <1>3, NewFields
<1>5. cmd \in CommandType \cup {None}
  BY CommandTyped
<1>6. sh \in Shards
  <2>1. Routed(x) \in Shards
    BY <1>3, RoutedTyped
  <2>2. cmd # None /\ cmd.type = "transfer" => cmd.arg \in Shards
    BY <1>5 DEF CommandType
  <2> QED BY <1>1, <2>1, <2>2
<1>7. /\ j \in JobType /\ j.id = requests + 1 /\ j.stage = "Queued" /\ ~j.drain /\ j.pc = "start"
      /\ ~j.late
  <2>1. routes[sh] \in Instances
    BY <1>6 DEF IInv, Infra
  <2> QED BY <1>1, <1>3, <1>5, <2>1 DEF NewJob, JobType, Stages
<1>8. UNCHANGED <<stored, committed, limbo>> /\ Infra' /\ StoreOk' /\ MembersOk' /\ LateOk'
  BY <1>2, OthersKept DEF links
<1>9. Unwritten(requests + 1)
  BY <1>3 DEF IdsOk
<1>10. \A u \in Sessions : \A n \in Held(u) : JobAt(u, n).id \in 0..requests
  BY <1>3 DEF IdsOk, FitOk
<1>11. /\ ~Dead(0) /\ 0 \in 0..requests /\ requests' \in Nat /\ requests <= requests'
       /\ \A u \in Sessions : \A m \in Held(u) : JobAt(u, m).id = 0 => JobAt(u, m).drain
  BY <1>2, <1>3, NoZero
<1>12. CASE told' = told \cup {t} /\ UNCHANGED session
  <2>1. SessionsOk'
    BY <1>2, <1>3, <1>8, <1>12 DEF SessionsOk, Bound
  <2>2. \A k : Still(k)
    BY <1>8, <1>12, Stills
  <2>3. \A u \in Sessions : Held(u)' = Held(u) /\ \A n : JobAt(u, n)' = JobAt(u, n)
    BY <1>2, <1>12 DEF Held, JobAt
  <2>4. Apart'
    BY <1>3, <2>3 DEF IdsOk, Apart
  <2>5. \A u \in Sessions : \A n \in Held(u)' : Kept(u, n, 0)
    BY <1>11, <2>3 DEF Kept
  <2>6. t \in ToldType /\ t.job = requests + 1 /\ t.kind = "refused"
    <3>1. t = [job |-> j.id, cmd |-> cmd, kind |-> "refused"] /\ requests + 1 \in Nat
      BY <1>1, <1>3
    <3> QED BY <1>5, <1>7, <3>1 DEF ToldType, Codes
  <2>7. Dead(t.job)'
    <3>1. t.job \in 1..requests'
      BY <1>2, <1>3, <2>6
    <3>2. Unwritten(t.job)'
      BY <1>9, <2>2, <2>6 DEF Still
    <3>3. \A u \in Sessions : \A n \in Held(u)' : JobAt(u, n)'.id # t.job
      BY <1>3, <1>10, <2>3, <2>6
    <3> QED BY <3>1, <3>2, <3>3 DEF Dead
  <2>8. \A a \in told' : a \in told \/ ToldOk(a)'
    BY <1>12, <2>6, <2>7 DEF ToldOk
  <2>9. IdsOk'
    BY <1>3, <1>8, <1>11, <2>2, <2>4, <2>5, <2>8, IdsKept
  <2> QED BY <1>8, <2>1, <2>9 DEF IInv
<1>13. CASE session' = [session EXCEPT ![s].tracked = TRUE, ![s].waiting = Append(@, j)]
            /\ UNCHANGED told
  <2>1. session' = [session EXCEPT ![s] = y] /\ job' = [job EXCEPT ![s] = job[s]]
    <3>1. y = [x EXCEPT !.tracked = TRUE, !.waiting = Append(x.waiting, j)]
      BY <1>1 DEF Queued
    <3>2. session' = [session EXCEPT ![s] = y]
      BY <1>1, <1>3, <1>13, <3>1 DEF SessionType
    <3> QED BY <1>2, <1>3, <3>2
  <2>2. /\ SessionOk(s, y, committed) /\ y.selected /\ y.alive = x.alive /\ y.record = x.record
        /\ y.unresolved = x.unresolved /\ y.waiting = Append(x.waiting, j)
    <3>1. y = Queued(x, Append(x.waiting, j)) /\ j.stage # "Writing"
      BY <1>1, <1>7
    <3> HIDE <1>1
    <3> QED BY <1>3, <1>4, <1>7, <3>1, QueuedOk
  <2>3. SessionsOk'
    <3>1. job[s] # None => JobOk(s, y, job[s], committed')
      BY <1>1, <1>3, <1>8, <2>2, JobOfRecord DEF SessionsOk
    <3> QED BY <1>1, <1>3, <1>8, <2>1, <2>2, <3>1, OneSession
  <2>4. session'[s] = y /\ \A u \in Sessions \ {s} : session'[u] = session[u]
    BY <1>3, <2>1
  <2>5. \A u \in Sessions : session'[u].unresolved = session[u].unresolved
    BY <1>1, <2>2, <2>4
  <2>6. \A k : Still(k)
    BY <1>8, <2>5, Stills
  <2>7. PICK n : n = Len(x.waiting) + 1
    OBVIOUS
  <2>8. /\ DOMAIN x.waiting \subseteq Nat \ {0} /\ n \in Nat /\ n # 0 /\ n \notin DOMAIN x.waiting
        /\ DOMAIN y.waiting = DOMAIN x.waiting \cup {n} /\ y.waiting[n] = j
        /\ \A m \in DOMAIN x.waiting : y.waiting[m] = x.waiting[m]
    <3>1. x.waiting \in Seq(JobType)
      BY <1>3 DEF SessionType
    <3> QED BY <1>7, <2>2, <2>7, <3>1
  <2>9. \A u \in Sessions \ {s} : Held(u)' = Held(u) /\ \A m : JobAt(u, m)' = JobAt(u, m)
    BY <1>2, <2>4 DEF Held, JobAt
  <2>10. /\ Held(s)' = Held(s) \cup {n} /\ n \notin Held(s) /\ JobAt(s, n)' = j
         /\ \A m \in Held(s) : JobAt(s, m)' = JobAt(s, m)
    <3>1. job'[s] = job[s]
      BY <1>2
    <3> QED BY <1>1, <2>4, <2>8, <3>1 DEF Held, JobAt
  <2>11. Apart'
    <3>1. ASSUME NEW u \in Sessions, NEW v \in Sessions, NEW m \in Held(u)', NEW l \in Held(v)',
                 ~JobAt(u, m)'.drain, JobAt(u, m)'.id = JobAt(v, l)'.id
          PROVE  u = v /\ m = l
      <4>1. (u = s /\ m = n) \/ (m \in Held(u) /\ JobAt(u, m)' = JobAt(u, m))
        BY <2>9, <2>10
      <4>2. (v = s /\ l = n) \/ (l \in Held(v) /\ JobAt(v, l)' = JobAt(v, l))
        BY <2>9, <2>10
      <4>3. requests + 1 \notin 0..requests
        BY <1>3
      <4> QED BY <1>3, <1>7, <1>10, <2>10, <3>1, <4>1, <4>2, <4>3 DEF IdsOk, Apart
    <3> QED BY <3>1 DEF Apart
  <2>12. FitOk(s, JobAt(s, n))'
    <3>1. JobAt(s, n)' = j
      BY <2>10
    <3>2. Unwritten(j.id)'
      BY <1>7, <1>9, <2>6 DEF Still
    <3>3. j.id \in 0..requests' /\ j.id # 0
      BY <1>2, <1>3, <1>7
    <3> QED BY <1>7, <3>1, <3>2, <3>3, FitTold
  <2>13. ASSUME NEW u \in Sessions, NEW m \in Held(u)' PROVE Kept(u, m, 0)
    <3>1. CASE u = s /\ m = n
      BY <1>3, <1>7, <2>10, <2>12, <3>1 DEF Kept
    <3>2. CASE m \in Held(u) /\ JobAt(u, m)' = JobAt(u, m)
      BY <1>11, <3>2 DEF Kept
    <3> QED BY <2>9, <2>10, <3>1, <3>2
  <2>14. IdsOk'
    BY <1>3, <1>8, <1>11, <1>13, <2>6, <2>11, <2>13, IdsKept
  <2> QED BY <1>8, <2>3, <2>14 DEF IInv
<1> QED BY <1>2, <1>12, <1>13

-----------------------------------------------------------------------------
(* The deadline of a request passes. *)
LEMMA GivenUp ==
    ASSUME NEW j \in JobType, NEW k, k = TimedOut(j)
    PROVE  /\ k \in JobType /\ k.id = j.id /\ k.cmd = j.cmd /\ k.drain = j.drain /\ k.pc = j.pc
           /\ k.late /\ (j.stage = "Writing" => k.stage = "Writing")
           /\ j.stage # "Writing" => k.stage = "Cancelled"
           /\ k.op = j.op /\ k.then = j.then /\ k.to = j.to /\ k.conn = j.conn
           /\ k.write = j.write
<1>1. PICK stage \in Stages :
        /\ stage = (IF j.stage = "Writing" THEN "Writing" ELSE "Cancelled")
        /\ k = [j EXCEPT !.late = TRUE, !.stage = stage]
  BY DEF TimedOut, JobType, Stages
<1>2. k \in JobType /\ k.stage = stage /\ k.late
  BY <1>1 DEF JobType
<1> QED BY <1>1, <1>2 DEF JobType

LEMMA GivenUpJob ==
    ASSUME NEW C, NEW s, NEW x, NEW j, JobOk(s, x, j, C), NEW k, k = TimedOut(j)
    PROVE  JobOk(s, x, k, C)
<1>1. j \in JobType
  BY DEF JobOk
<1>2. /\ k \in JobType /\ k.id = j.id /\ k.cmd = j.cmd /\ k.drain = j.drain /\ k.pc = j.pc
      /\ k.late /\ (j.stage = "Writing" => k.stage = "Writing")
      /\ j.stage # "Writing" => k.stage = "Cancelled"
      /\ k.op = j.op /\ k.then = j.then /\ k.to = j.to /\ k.conn = j.conn
      /\ k.write = j.write
  BY <1>1, GivenUp
<1> QED BY <1>2 DEF JobOk, Calling

(* A request is refused before it is written, or its outcome is left open. *)
LEMMA GivesUp ==
    ASSUME IdsOk, NEW s \in Sessions, NEW n \in Held(s), NEW j \in JobType, j = JobAt(s, n),
           ~j.drain, NEW k, k = TimedOut(j),
           UNCHANGED <<committed, limbo, requests>>,
           \A u \in Sessions : /\ Held(u)' \subseteq Held(u)
                               /\ session'[u].unresolved = session[u].unresolved,
           \A u \in Sessions : \A m \in Held(u) : u # s \/ m # n => JobAt(u, m)' = JobAt(u, m),
           JobAt(s, n)' = k,
           told' = Answer(s, j, IF j.stage = "Writing" THEN "unknown" ELSE "refused")
    PROVE  IdsOk'
<1>1. /\ k.id = j.id /\ k.cmd = j.cmd /\ k.drain = j.drain /\ k.pc = j.pc
      /\ k.late /\ (j.stage = "Writing" => k.stage = "Writing")
      /\ j.stage # "Writing" => k.stage = "Cancelled"
  BY GivenUp
<1>2. \A i : Still(i)
  BY Stills
<1>3. /\ requests \in Nat /\ Apart /\ FitOk(s, j)
      /\ \A u \in Sessions : \A m \in Held(u) : FitOk(u, JobAt(u, m))
  BY DEF IdsOk
<1>4. /\ ~Dead(0) /\ 0 \in 0..requests
      /\ \A u \in Sessions : \A m \in Held(u) : JobAt(u, m).id = 0 => JobAt(u, m).drain
  BY NoZero
<1>5. \A u \in Sessions : \A m \in Held(u) : /\ JobAt(u, m)'.id = JobAt(u, m).id
                                         /\ JobAt(u, m)'.drain = JobAt(u, m).drain
  BY <1>1
<1>6. Apart'
  BY <1>3, <1>5 DEF Apart
<1>7. FitOk(s, JobAt(s, n))'
  <2>1. ~k.drain /\ k.stage # "Writing" => Unwritten(k.id)'
    BY <1>1, <1>2, <1>3 DEF FitOk, Still
  <2>2. ~k.drain /\ k.pc = "commit" =>
          ~WrittenBy(k.id)' /\ \A u \in Sessions : Unresolved(u, k.id)' => u = s
    BY <1>1, <1>2, <1>3 DEF FitOk, Still
  <2>3. /\ JobAt(s, n)' = k /\ k.id \in 0..requests' /\ (k.stage = "Cancelled" => k.late)
        /\ (~k.drain => k.id # 0)
    BY <1>1, <1>3 DEF FitOk
  <2> QED BY <2>1, <2>2, <2>3, FitTold
<1>8. ASSUME NEW u \in Sessions, NEW m \in Held(u)' PROVE Kept(u, m, 0)
  <2>1. CASE u = s /\ m = n
    BY <1>1, <1>7, <2>1 DEF Kept
  <2>2. CASE u # s \/ m # n
    BY <1>4, <2>2 DEF Kept
  <2> QED BY <2>1, <2>2
<1>9. ASSUME NEW a \in told', a \notin told PROVE ToldOk(a)'
  <2>1. PICK kind : /\ kind = (IF j.stage = "Writing" THEN "unknown" ELSE "refused")
                    /\ a = [job |-> j.id, cmd |-> j.cmd, kind |-> kind]
    BY <1>9 DEF Answer
  <2>2. a.job = j.id /\ a.cmd = j.cmd /\ a.kind = kind
    BY <2>1
  <2>3. a \in ToldType
    BY <2>1 DEF ToldType, Codes, JobType
  <2>4. ASSUME kind = "refused" PROVE Dead(a.job)'
    <3>1. j.stage # "Writing"
      BY <2>1, <2>4
    <3>2. Unwritten(a.job)'
      BY <1>2, <1>3, <2>2, <3>1 DEF FitOk, Still
    <3>3. a.job \in 1..requests'
      BY <1>3, <2>2 DEF FitOk
    <3>4. ASSUME NEW u \in Sessions, NEW m \in Held(u)', JobAt(u, m)'.id = a.job
          PROVE  JobAt(u, m)'.late /\ JobAt(u, m)'.stage = "Cancelled"
      <4>1. JobAt(u, m).id = JobAt(s, n).id /\ ~JobAt(s, n).drain /\ m \in Held(u)
        BY <1>5, <2>2, <3>4
      <4>2. u = s /\ m = n
        BY <1>3, <4>1 DEF Apart
      <4> QED BY <1>1, <3>1, <4>2
    <3> QED BY <3>2, <3>3, <3>4 DEF Dead
  <2> QED BY <2>1, <2>2, <2>3, <2>4 DEF ToldOk
<1>10. requests' = requests /\ committed' = committed
  OBVIOUS
<1> QED BY <1>2, <1>3, <1>4, <1>6, <1>8, <1>9, <1>10, IdsKept

LEMMA TimesOut ==
    ASSUME IInv, NEW s \in Sessions, Timeout(s)
    PROVE  IInv'
<1>1. PICK x, q : x = session[s] /\ q = session[s].waiting
  OBVIOUS
<1>2. /\ UNCHANGED <<owns, routes, demand, topo, requests, peer, slot, late, avail, database,
                     scene>>
      /\ \/ /\ job[s] # None /\ ~job[s].drain
            /\ told' = Answer(s, job[s], IF job[s].stage = "Writing" THEN "unknown" ELSE "refused")
            /\ job' = [job EXCEPT ![s] = TimedOut(@)] /\ UNCHANGED session
         \/ \E n \in DOMAIN q :
              /\ told' = Answer(s, q[n], IF q[n].stage = "Writing" THEN "unknown" ELSE "refused")
              /\ session' = [session EXCEPT ![s].waiting[n] = TimedOut(@)] /\ UNCHANGED job
  BY <1>1 DEF Timeout
<1>3. /\ SessionsOk /\ IdsOk /\ SessionOk(s, x, committed) /\ x \in SessionType
      /\ session \in [Sessions -> SessionType] /\ DOMAIN session = Sessions
      /\ job \in [Sessions -> JobType \cup {None}] /\ q \in Seq(JobType) /\ x.waiting = q
  BY <1>1 DEF IInv, SessionsOk, SessionOk, SessionType
<1>4. UNCHANGED <<stored, committed, limbo>> /\ Infra' /\ StoreOk' /\ MembersOk' /\ LateOk'
  BY <1>2, OthersKept
<1>5. CASE /\ job[s] # None /\ ~job[s].drain
           /\ told' = Answer(s, job[s], IF job[s].stage = "Writing" THEN "unknown" ELSE "refused")
           /\ job' = [job EXCEPT ![s] = TimedOut(@)] /\ UNCHANGED session
  <2>1. PICK j, k : j = job[s] /\ k = TimedOut(job[s])
    OBVIOUS
  <2>2. j \in JobType /\ k = TimedOut(j) /\ 0 \in Held(s) /\ j = JobAt(s, 0) /\ ~j.drain
    BY <1>3, <1>5, <2>1, HeldTyped
  <2>3. job' = [job EXCEPT ![s] = k] /\ session' = [session EXCEPT ![s] = x]
    BY <1>1, <1>3, <1>5, <2>1
  <2>4. JobOk(s, x, k, committed') /\ x.selected
    <3>1. JobOk(s, x, j, committed) /\ x.selected
      BY <1>1, <1>3, <1>5, <2>1 DEF SessionsOk
    <3> QED BY <1>4, <2>2, <3>1, GivenUpJob
  <2>5. SessionsOk'
    BY <1>1, <1>3, <1>4, <2>3, <2>4, OneSession
  <2>6. JobAt(s, 0)' = k
    BY <1>3, <2>3 DEF JobAt
  <2>7. ASSUME NEW u \in Sessions
        PROVE  Held(u)' \subseteq Held(u) /\ session'[u].unresolved = session[u].unresolved
    <3>1. job[u] = None => job'[u] = None
      BY <1>3, <1>5, <2>3
    <3> QED BY <1>5, <3>1 DEF Held
  <2>8. \A u \in Sessions : \A m \in Held(u) : u # s \/ m # 0 => JobAt(u, m)' = JobAt(u, m)
    BY <1>3, <1>5, <2>3 DEF JobAt
  <2>9. IdsOk'
    <3>1. told' = Answer(s, j, IF j.stage = "Writing" THEN "unknown" ELSE "refused")
      BY <1>5, <2>1
    <3>2. UNCHANGED <<committed, limbo, requests>>
      BY <1>2, <1>4
    <3> QED BY <1>3, <2>2, <2>6, <2>7, <2>8, <3>1, <3>2, GivesUp
  <2> QED BY <1>4, <2>5, <2>9 DEF IInv
<1>6. CASE \E n \in DOMAIN q :
             /\ told' = Answer(s, q[n], IF q[n].stage = "Writing" THEN "unknown" ELSE "refused")
             /\ session' = [session EXCEPT ![s].waiting[n] = TimedOut(@)] /\ UNCHANGED job
  <2>1. PICK n \in DOMAIN q :
          /\ told' = Answer(s, q[n], IF q[n].stage = "Writing" THEN "unknown" ELSE "refused")
          /\ session' = [session EXCEPT ![s].waiting[n] = TimedOut(@)] /\ UNCHANGED job
    BY <1>6
  <2>2. PICK j, k, p, y : /\ j = q[n] /\ k = TimedOut(j) /\ p = [q EXCEPT ![n] = k]
                          /\ y = [x EXCEPT !.waiting = p]
    OBVIOUS
  <2>3. /\ j \in JobType /\ n \in Held(s) /\ j = JobAt(s, n) /\ ~j.drain /\ j.stage # "Writing"
        /\ n # 0
    BY <1>1, <1>3, <2>2, HeldTyped
  <2>4. /\ k \in JobType /\ ~k.drain /\ k.stage = "Cancelled"
    BY <2>2, <2>3, GivenUp
  <2>5. /\ p \in Seq(JobType) /\ DOMAIN p = DOMAIN q /\ p[n] = k
        /\ \A m \in DOMAIN q : m # n => p[m] = q[m]
    BY <1>3, <2>2, <2>4
  <2>6. session' = [session EXCEPT ![s] = y] /\ job' = [job EXCEPT ![s] = job[s]]
    <3>1. session' = [session EXCEPT ![s] = y]
      BY <1>1, <1>3, <2>1, <2>2 DEF SessionType
    <3> QED BY <1>3, <2>1, <3>1
  <2>7. x.selected
    <3>1. q # <<>>
      OBVIOUS
    <3> QED BY <1>3, <3>1, NewFields
  <2>8. /\ y \in SessionType /\ y.selected = x.selected /\ y.alive = x.alive
        /\ y.waiting = p /\ y.record = x.record /\ y.unresolved = x.unresolved
    BY <1>3, <2>2, <2>5 DEF SessionType
  <2>9. SessionOk(s, y, committed)
    <3>1. \A m \in DOMAIN q : q[m].stage # "Writing" /\ ~q[m].drain
      BY <1>3 DEF SessionOk
    <3>2. \A m \in DOMAIN p : p[m].stage # "Writing" /\ ~p[m].drain
      BY <2>4, <2>5, <3>1
    <3> QED BY <1>3, <2>7, <2>8, <3>2 DEF SessionOk
  <2>10. SessionsOk'
    <3>1. job[s] # None => JobOk(s, y, job[s], committed')
      BY <1>1, <1>3, <1>4, <2>8, JobOfRecord DEF SessionsOk
    <3> QED BY <1>1, <1>3, <1>4, <2>6, <2>7, <2>8, <2>9, <3>1, OneSession
  <2>11. session'[s] = y /\ \A u \in Sessions \ {s} : session'[u] = session[u]
    BY <1>3, <2>6
  <2>12. ASSUME NEW u \in Sessions
         PROVE  /\ Held(u)' \subseteq Held(u) /\ session'[u].unresolved = session[u].unresolved
                /\ \A m \in Held(u) : u # s \/ m # n => JobAt(u, m)' = JobAt(u, m)
    <3>1. DOMAIN session'[u].waiting = DOMAIN session[u].waiting
          /\ session'[u].unresolved = session[u].unresolved
          /\ \A m \in DOMAIN session[u].waiting :
               u # s \/ m # n => session'[u].waiting[m] = session[u].waiting[m]
      BY <1>1, <1>3, <2>5, <2>8, <2>11
    <3> QED BY <2>1, <3>1 DEF Held, JobAt
  <2>13. JobAt(s, n)' = k
    BY <2>3, <2>5, <2>8, <2>11 DEF JobAt
  <2>14. IdsOk'
    <3>1. told' = Answer(s, j, IF j.stage = "Writing" THEN "unknown" ELSE "refused")
      BY <2>1, <2>2
    <3>2. UNCHANGED <<committed, limbo, requests>>
      BY <1>2, <1>4
    <3> QED BY <1>3, <2>2, <2>3, <2>12, <2>13, <3>1, <3>2, GivesUp
  <2> QED BY <1>4, <2>10, <2>14 DEF IInv
<1> QED BY <1>2, <1>5, <1>6

-----------------------------------------------------------------------------
(* topology. *)
LEMMA Desires ==
    ASSUME Infra, NEW sh \in Shards, NEW d \in Desired(sh, shards[sh])
    PROVE  d \in ShardType
<1>1. PICK current : current = shards[sh]
  OBVIOUS
<1>2. current \in ShardType \cup {None}
  BY <1>1 DEF Infra
<1>3. ASSUME NEW e \in Assigned(sh, current) PROVE e \in ShardType
  <2>1. PICK version : version = (IF current = None THEN 1 ELSE current.version + 1)
    OBVIOUS
  <2>2. PICK i \in Instances :
          /\ Candidate(i)
          /\ e = [version |-> version, owner |-> [inst |-> i, inc |-> peer[i].inc],
                  draining |-> FALSE]
    BY <1>3, <2>1 DEF Assigned
  <2>3. version \in Nat
    BY <1>2, <2>1 DEF ShardType
  <2>4. peer[i].inc \in Nat
    <3>1. peer[i] \in [inc : Nat \cup {None}, gen : Nat]
      BY DEF Infra
    <3> QED BY <2>2, <3>1 DEF Candidate
  <2>5. [inst |-> i, inc |-> peer[i].inc] \in HostedBy
    BY <2>4 DEF HostedBy
  <2> QED BY <2>2, <2>3, <2>5 DEF ShardType
<1>4. ASSUME current # None, NEW e \in Released(sh, current) PROVE e \in ShardType
  <2>1. e = [version |-> current.version + 1, owner |-> None, draining |-> FALSE]
    BY <1>4 DEF Released
  <2>2. current.version + 1 \in Nat
    BY <1>2, <1>4 DEF ShardType
  <2> QED BY <2>1, <2>2 DEF ShardType
<1> QED BY <1>1, <1>3, <1>4 DEF Desired

LEMMA Remembers ==
    ASSUME Infra, SessionsOk, IdsOk, NEW sh \in Shards, NEW record \in ShardType,
           Remember(sh, record), UNCHANGED <<job, told, requests, stored, committed, limbo>>
    PROVE  /\ SessionsOk' /\ IdsOk'
           /\ owns' \in [Shards -> ShardType \cup {None}] /\ routes' \in [Shards -> Instances]
<1> DEFINE Left(x) ==
          IF ~x.active \/ x.record = None THEN FALSE
          ELSE IF x.record.owner = None THEN FALSE
          ELSE /\ x.record.loc.shard = sh
               /\ \/ record.version # x.record.owner.version
                  \/ record.owner # [inst |-> x.record.owner.inst, inc |-> x.record.owner.inc]
<1>1. /\ owns \in [Shards -> ShardType \cup {None}] /\ routes \in [Shards -> Instances]
  BY DEF Infra
<1>2. CASE ~Newer(sh, record)
  <2>1. UNCHANGED <<owns, routes, session>>
    BY <1>2 DEF Remember
  <2>2. SessionsOk' /\ IdsOk'
    BY <2>1, WorkerKept
  <2> QED BY <1>1, <2>1, <2>2
<1>3. CASE Newer(sh, record)
  <2>1. /\ owns' = [owns EXCEPT ![sh] = record]
        /\ routes' = IF record.owner = None THEN routes
                     ELSE [routes EXCEPT ![sh] = record.owner.inst]
        /\ session' = [s \in Sessions |->
             IF Left(session[s]) THEN Unavailable(session[s]) ELSE session[s]]
    BY <1>3 DEF Remember
  <2> HIDE DEF Left
  <2>2. record.owner # None => record.owner.inst \in Instances
    BY DEF ShardType, HostedBy
  <2>3. \A s \in Sessions : /\ Quieter(session[s], session[s])
                            /\ Quieter(session[s], Unavailable(session[s]))
    BY UnavailableQuieter DEF SessionsOk
  <2> HIDE DEF Sessions
  <2>4. ASSUME NEW s \in Sessions PROVE Quieter(session[s], session'[s])
    BY <2>1, <2>3
  <2>5. session' \in [Sessions -> SessionType]
    <3>1. \A s \in Sessions : session'[s] \in SessionType
      BY <2>4 DEF Quieter
    <3> QED BY <2>1, <3>1
  <2>6. SessionsOk' /\ IdsOk'
    BY <2>4, <2>5, SessionsQuieter
  <2> QED BY <1>1, <2>1, <2>2, <2>6
<1> QED BY <1>2, <1>3

LEMMA Plans ==
    ASSUME IInv, NEW sh \in Shards, Topology(sh)
    PROVE  IInv'
<1>1. PICK current, desired :
        /\ current = shards[sh]
        /\ desired = {d \in Desired(sh, shards[sh]) : d.version <= MaxVersion}
  OBVIOUS
<1>2. /\ IF current = None THEN UNCHANGED <<owns, routes, session>>
         ELSE Remember(sh, current)
      /\ topo' = IF desired = {} THEN None
                 ELSE [shard |-> sh, current |-> current,
                       desired |-> CHOOSE d \in desired : TRUE]
      /\ UNCHANGED <<job, told, demand, requests, links, database, scene>>
  BY <1>1 DEF Topology
<1>3. /\ Infra /\ SessionsOk /\ IdsOk /\ StoreOk /\ MembersOk /\ LateOk
      /\ current \in ShardType \cup {None}
  BY <1>1 DEF IInv, Infra
<1>4. UNCHANGED <<stored, committed, limbo, shards, job, told, requests, peer, late>>
  BY <1>2 DEF database, links
<1>5. /\ SessionsOk' /\ IdsOk'
      /\ owns' \in [Shards -> ShardType \cup {None}] /\ routes' \in [Shards -> Instances]
  <2>1. CASE current = None
    <3>1. UNCHANGED <<owns, routes, session>>
      BY <1>2, <2>1
    <3>2. SessionsOk' /\ IdsOk'
      BY <1>3, <1>4, <3>1, WorkerKept
    <3> QED BY <1>3, <3>1, <3>2 DEF Infra
  <2>2. CASE current # None
    BY <1>2, <1>3, <1>4, <2>2, Remembers
  <2> QED BY <2>1, <2>2
<1>6. topo' \in TopicType \cup {None}
  <2>1. CASE desired = {}
    BY <1>2, <2>1
  <2>2. CASE desired # {}
    <3>1. PICK e : e = CHOOSE d \in desired : TRUE
      OBVIOUS
    <3>2. e \in desired
      BY <2>2, <3>1
    <3>3. e \in ShardType
      BY <1>1, <1>3, <3>2, Desires
    <3>4. topo' = [shard |-> sh, current |-> current, desired |-> e]
      BY <1>2, <2>2, <3>1
    <3> QED BY <1>3, <3>3, <3>4 DEF TopicType
  <2> QED BY <2>1, <2>2
<1>7. Infra'
  BY <1>3, <1>4, <1>5, <1>6 DEF Infra
<1>8. StoreOk' /\ MembersOk' /\ LateOk'
  BY <1>2, <1>3, <1>4, StoreKept, MembersKept, LateKept
<1> QED BY <1>5, <1>7, <1>8 DEF IInv

LEMMA Exchanges ==
    ASSUME IInv, TopologyExchange
    PROVE  IInv'
<1>1. /\ topo # None /\ ExchangeShard(topo.shard, topo.current, topo.desired)
      /\ Remember(topo.shard, topo.desired) \/ UNCHANGED <<owns, routes, session>>
      /\ topo' = None
      /\ UNCHANGED <<job, told, requests, links, stored, instances, limbo, committed, scene>>
  BY DEF TopologyExchange
<1>2. /\ Infra /\ SessionsOk /\ IdsOk /\ StoreOk /\ MembersOk /\ LateOk
      /\ topo.shard \in Shards /\ topo.desired \in ShardType
  BY <1>1 DEF IInv, Infra, TopicType
<1>3. UNCHANGED <<peer, late>>
  BY <1>1 DEF links
<1>4. /\ SessionsOk' /\ IdsOk'
      /\ owns' \in [Shards -> ShardType \cup {None}] /\ routes' \in [Shards -> Instances]
  <2>1. CASE UNCHANGED <<owns, routes, session>>
    <3>1. SessionsOk' /\ IdsOk'
      BY <1>1, <1>2, <2>1, WorkerKept
    <3> QED BY <1>2, <2>1, <3>1 DEF Infra
  <2>2. CASE Remember(topo.shard, topo.desired)
    BY <1>1, <1>2, <2>2, Remembers
  <2> QED BY <1>1, <2>1, <2>2
<1>5. shards' \in [Shards -> ShardType \cup {None}]
  BY <1>1, <1>2 DEF ExchangeShard, Infra
<1>6. Infra'
  BY <1>1, <1>2, <1>3, <1>4, <1>5 DEF Infra
<1>7. StoreOk' /\ MembersOk' /\ LateOk'
  BY <1>1, <1>2, <1>3, StoreKept, MembersKept, LateKept
<1> QED BY <1>4, <1>6, <1>7 DEF IInv

-----------------------------------------------------------------------------
(* The instances. *)
LEMMA ServiceChanges ==
    ASSUME IInv, UNCHANGED <<session, job, told, owns, routes, topo, requests>>,
           UNCHANGED <<stored, committed, limbo, late>>,
           shards' \in [Shards -> ShardType \cup {None}],
           peer' \in [Instances -> [inc : Nat \cup {None}, gen : Nat]], MembersOk'
    PROVE  IInv'
<1>1. Infra'
  BY DEF IInv, Infra
<1>2. SessionsOk' /\ IdsOk'
  BY WorkerKept DEF IInv
<1>3. StoreOk' /\ LateOk'
  BY StoreKept, LateKept DEF IInv
<1> QED BY <1>1, <1>2, <1>3 DEF IInv

LEMMA InstanceChanges ==
    ASSUME IInv, UNCHANGED worker, UNCHANGED <<late, database>>,
           peer' \in [Instances -> [inc : Nat \cup {None}, gen : Nat]],
           NEW i \in Instances, NEW n, InstanceOk(n, committed),
           scene' = scene \/ scene' = [scene EXCEPT ![i] = n]
    PROVE  IInv'
<1>1. UNCHANGED <<session, job, told, owns, routes, topo, requests>>
  BY DEF worker
<1>2. UNCHANGED <<stored, committed, limbo, shards, late>>
  BY DEF database
<1>3. MembersOk'
  BY <1>2, MembersStep, MembersKept DEF IInv
<1>4. shards' \in [Shards -> ShardType \cup {None}]
  BY <1>2 DEF IInv, Infra
<1> QED BY <1>1, <1>2, <1>3, <1>4, ServiceChanges

LEMMA RecordChanges ==
    ASSUME IInv, NEW i \in Instances, NEW desired, ExchangeInstance(i, desired),
           UNCHANGED <<worker, links>>, UNCHANGED <<scene, stored, limbo, committed>>
    PROVE  IInv'
<1>1. UNCHANGED <<session, job, told, owns, routes, topo, requests, peer, late>>
  BY DEF worker, links
<1>2. shards \in [Shards -> ShardType \cup {None}]
      /\ peer \in [Instances -> [inc : Nat \cup {None}, gen : Nat]]
  BY DEF IInv, Infra
<1>3. shards' \in [Shards -> ShardType \cup {None}]
  <2>1. ASSUME NEW sh \in Shards, shards[sh] # None
        PROVE  [shards[sh] EXCEPT !.draining = TRUE] \in ShardType
    <3>1. shards[sh] \in ShardType
      BY <1>2, <2>1
    <3> QED BY <3>1 DEF ShardType
  <2>2. shards' = [sh \in Shards |->
         IF shards[sh] = None \/ ~desired.draining THEN shards[sh]
         ELSE IF shards[sh].owner = [inst |-> i, inc |-> desired.inc]
           THEN [shards[sh] EXCEPT !.draining = TRUE] ELSE shards[sh]]
    BY DEF ExchangeInstance
  <2> QED BY <1>2, <2>1, <2>2
<1>4. MembersOk'
  BY MembersKept DEF IInv
<1> QED BY <1>1, <1>2, <1>3, <1>4, ServiceChanges

LEMMA HostedChanges ==
    ASSUME NEW C, NEW v, InstanceOk(v, C), NEW hosted, NEW draining \in BOOLEAN, NEW open,
           open \subseteq Nat, DOMAIN hosted = Shards, hosted = [sh \in Shards |-> hosted[sh]],
           \A sh \in Shards : hosted[sh] = None \/ HostOk(hosted[sh], sh, C),
           NEW n, n = [v EXCEPT !.hosted = hosted, !.draining = draining, !.open = open]
    PROVE  InstanceOk(n, C)
<1>1. hosted \in [Shards -> HostType \cup {None}]
  BY DEF HostOk
<1>2. n \in InstanceType /\ n.hosted = hosted
  BY <1>1 DEF InstanceOk, InstanceType
<1> QED BY <1>2 DEF InstanceOk

LEMMA Expires ==
    ASSUME IInv, NEW i \in Instances, NEW sh \in Shards, Expire(i, sh),
           UNCHANGED <<worker, peer, slot, late, avail>>
    PROVE  IInv'
<1>1. PICK v, h, g, n : /\ v = scene[i] /\ h = scene[i].hosted[sh]
                        /\ g = [h EXCEPT !.prepared = None, !.candidate = None]
                        /\ n = [v EXCEPT !.hosted[sh] = g]
  OBVIOUS
<1>2. /\ h # None /\ UNCHANGED database
      /\ scene' = [scene EXCEPT ![i].hosted[sh] = [@ EXCEPT !.prepared = None, !.candidate = None]]
  BY <1>1 DEF Expire
<1>3. /\ scene \in [Instances -> InstanceType] /\ InstanceOk(v, committed) /\ v \in InstanceType
      /\ peer \in [Instances -> [inc : Nat \cup {None}, gen : Nat]]
  BY <1>1 DEF IInv, Infra, MembersOk, InstanceOk
<1>4. HostOk(h, sh, committed) /\ h \in HostType
  BY <1>1, <1>2, <1>3 DEF InstanceOk, HostOk
<1>5. HostOk(g, sh, committed)
  <2>1. g \in HostType /\ g.active = h.active /\ g.prepared = None /\ g.candidate = None
    BY <1>1, <1>4 DEF HostType
  <2> QED BY <1>4, <2>1, FewerMembers
<1>6. InstanceOk(n, committed)
  BY <1>1, <1>3, <1>5, Replaced
<1>7. scene' = [scene EXCEPT ![i] = n]
  BY <1>1, <1>2, <1>3 DEF InstanceType
<1>8. UNCHANGED <<late, database>> /\ peer' = peer
  BY <1>2
<1> QED BY <1>3, <1>6, <1>7, <1>8, InstanceChanges

LEMMA HangsUp ==
    ASSUME IInv, NEW i \in Instances, NEW conn, Hangup(i, conn)
    PROVE  IInv'
<1>1. PICK v, hosted, open, n :
        /\ v = scene[i] /\ open = scene[i].open \ {conn}
        /\ hosted = [sh \in Shards |-> Unconnected(scene[i].hosted[sh], conn)]
        /\ n = [v EXCEPT !.open = open, !.hosted = hosted]
  OBVIOUS
<1>2. /\ scene' = [scene EXCEPT ![i] = n]
      /\ UNCHANGED <<worker, links, database>>
  BY <1>1 DEF Hangup, SceneClosed
<1>3. /\ scene \in [Instances -> InstanceType] /\ InstanceOk(v, committed) /\ v \in InstanceType
      /\ peer \in [Instances -> [inc : Nat \cup {None}, gen : Nat]]
  BY <1>1 DEF IInv, Infra, MembersOk, InstanceOk
<1>4. ASSUME NEW sh \in Shards PROVE hosted[sh] = None \/ HostOk(hosted[sh], sh, committed)
  <2>1. v.hosted[sh] = None \/ HostOk(v.hosted[sh], sh, committed)
    BY <1>3 DEF InstanceOk
  <2> QED BY <1>1, <2>1, UnconnectedOk
<1>5. InstanceOk(n, committed)
  <2>1. v.draining \in BOOLEAN /\ open \subseteq Nat
    BY <1>1, <1>3 DEF InstanceType
  <2>2. n = [v EXCEPT !.hosted = hosted, !.draining = v.draining, !.open = open]
    BY <1>1, <1>3 DEF InstanceType
  <2>3. DOMAIN hosted = Shards /\ hosted = [sh \in Shards |-> hosted[sh]]
    BY <1>1
  <2> QED BY <1>3, <1>4, <2>1, <2>2, <2>3, HostedChanges
<1>6. UNCHANGED <<late, database>> /\ peer' = peer /\ UNCHANGED worker
  BY <1>2 DEF links
<1> QED BY <1>2, <1>3, <1>5, <1>6, InstanceChanges

LEMMA Operates ==
    ASSUME IInv, NEW i \in Instances, Operator(i)
    PROVE  IInv'
<1>1. PICK v, hosted, n :
        /\ v = scene[i]
        /\ hosted = [sh \in Shards |-> IF scene[i].hosted[sh] = None THEN None
                                       ELSE [scene[i].hosted[sh] EXCEPT !.draining = TRUE]]
        /\ n = [v EXCEPT !.draining = TRUE, !.hosted = hosted]
  OBVIOUS
<1>2. /\ scene' = [scene EXCEPT ![i] = n]
      /\ UNCHANGED <<worker, peer, slot, late, avail, database>>
  BY <1>1 DEF Operator, BeginDraining
<1>3. /\ scene \in [Instances -> InstanceType] /\ InstanceOk(v, committed) /\ v \in InstanceType
      /\ peer \in [Instances -> [inc : Nat \cup {None}, gen : Nat]]
  BY <1>1 DEF IInv, Infra, MembersOk, InstanceOk
<1>4. ASSUME NEW sh \in Shards PROVE hosted[sh] = None \/ HostOk(hosted[sh], sh, committed)
  <2>1. v.hosted[sh] = None \/ HostOk(v.hosted[sh], sh, committed)
    BY <1>3 DEF InstanceOk
  <2>2. CASE v.hosted[sh] = None
    BY <1>1, <2>2
  <2>3. CASE v.hosted[sh] # None
    <3>1. PICK h, g : h = v.hosted[sh] /\ g = [h EXCEPT !.draining = TRUE]
      OBVIOUS
    <3>2. HostOk(h, sh, committed) /\ h \in HostType
      BY <2>1, <2>3, <3>1 DEF HostOk
    <3>3. /\ g \in HostType /\ g.active = h.active /\ g.prepared = h.prepared
          /\ g.candidate = h.candidate
      BY <3>1, <3>2 DEF HostType
    <3>4. HostOk(g, sh, committed)
      BY <3>2, <3>3, FewerMembers
    <3> QED BY <1>1, <2>3, <3>1, <3>4
  <2> QED BY <2>2, <2>3
<1>5. InstanceOk(n, committed)
  <2>1. v.open \subseteq Nat
    BY <1>3 DEF InstanceType
  <2>2. n = [v EXCEPT !.hosted = hosted, !.draining = TRUE, !.open = v.open]
    BY <1>1, <1>3 DEF InstanceType
  <2>3. DOMAIN hosted = Shards /\ hosted = [sh \in Shards |-> hosted[sh]]
    BY <1>1
  <2> QED BY <1>3, <1>4, <2>1, <2>2, <2>3, HostedChanges
<1> QED BY <1>2, <1>3, <1>5, InstanceChanges

LEMMA Connects ==
    ASSUME IInv, NEW i \in Instances, PeerConnect(i)
    PROVE  IInv'
<1>1. PICK v, n : /\ v = Status(i, scene[i])
                  /\ n = [v EXCEPT !.open = v.open \cup {peer[i].gen}]
  OBVIOUS
<1>2. /\ scene' = [scene EXCEPT ![i] = n] /\ peer' = [peer EXCEPT ![i].inc = v.inc]
      /\ UNCHANGED <<worker, slot, late, avail, faults, database>>
  BY <1>1 DEF PeerConnect
<1>3. /\ InstanceOk(scene[i], committed) /\ shards \in [Shards -> ShardType \cup {None}]
      /\ peer \in [Instances -> [inc : Nat \cup {None}, gen : Nat]]
  BY DEF IInv, Infra, MembersOk
<1>4. InstanceOk(v, committed) /\ v \in InstanceType
  <2>1. InstanceOk(v, committed)
    BY <1>1, <1>3, StatusOk
  <2> QED BY <2>1 DEF InstanceOk
<1>5. InstanceOk(n, committed)
  <2>1. /\ v.draining \in BOOLEAN /\ v.open \cup {peer[i].gen} \subseteq Nat
        /\ DOMAIN v.hosted = Shards /\ v.hosted = [sh \in Shards |-> v.hosted[sh]]
        /\ \A sh \in Shards : v.hosted[sh] = None \/ HostOk(v.hosted[sh], sh, committed)
    BY <1>3, <1>4 DEF InstanceOk, InstanceType
  <2>2. n = [v EXCEPT !.hosted = v.hosted, !.draining = v.draining,
                      !.open = v.open \cup {peer[i].gen}]
    BY <1>1, <1>4 DEF InstanceType
  <2> QED BY <1>4, <2>1, <2>2, HostedChanges
<1>6. peer' \in [Instances -> [inc : Nat \cup {None}, gen : Nat]]
  <2>1. v.inc \in Nat
    BY <1>4 DEF InstanceType
  <2> QED BY <1>2, <1>3, <2>1
<1>7. UNCHANGED <<late, database>> /\ UNCHANGED worker
  BY <1>2
<1> QED BY <1>2, <1>5, <1>6, <1>7, InstanceChanges

LEMMA Disconnects ==
    ASSUME IInv, NEW i \in Instances, Disconnect(i)
    PROVE  IInv'
<1>1. /\ peer' = [peer EXCEPT ![i] = [inc |-> None, gen |-> peer[i].gen + 1]]
      /\ session' = [s \in Sessions |->
           IF session[s].record = None THEN session[s]
           ELSE IF session[s].record.owner = None THEN session[s]
           ELSE IF session[s].record.owner.inst = i THEN Unavailable(session[s]) ELSE session[s]]
      /\ UNCHANGED <<job, told, owns, routes, demand, topo, requests, slot, late,
                     database, scene>>
  BY DEF Disconnect
<1>2. SessionsOk /\ IdsOk /\ Infra /\ StoreOk /\ MembersOk /\ LateOk
  BY DEF IInv
<1>3. UNCHANGED <<stored, committed, limbo, shards>>
  BY <1>1 DEF database
<1>4. \A s \in Sessions : /\ Quieter(session[s], session[s])
                          /\ Quieter(session[s], Unavailable(session[s]))
  BY <1>2, UnavailableQuieter DEF SessionsOk
<1>5. SessionsOk' /\ IdsOk'
  <2> HIDE DEF Sessions
  <2>1. ASSUME NEW s \in Sessions PROVE Quieter(session[s], session'[s])
    BY <1>1, <1>4
  <2>2. session' \in [Sessions -> SessionType]
    <3>1. \A s \in Sessions : session'[s] \in SessionType
      BY <2>1 DEF Quieter
    <3> QED BY <1>1, <3>1
  <2> QED BY <1>1, <1>2, <1>3, <2>1, <2>2, SessionsQuieter
<1>6. peer' \in [Instances -> [inc : Nat \cup {None}, gen : Nat]]
  <2>1. peer \in [Instances -> [inc : Nat \cup {None}, gen : Nat]]
    BY <1>2 DEF Infra
  <2>2. peer[i].gen + 1 \in Nat
    BY <2>1
  <2> QED BY <1>1, <2>1, <2>2
<1>7. Infra'
  BY <1>1, <1>2, <1>3, <1>6 DEF Infra
<1>8. StoreOk' /\ MembersOk' /\ LateOk'
  BY <1>1, <1>2, <1>3, StoreKept, MembersKept, LateKept
<1> QED BY <1>5, <1>7, <1>8 DEF IInv

LEMMA Checks ==
    ASSUME IInv, NEW i \in Instances, Health(i)
    PROVE  IInv'
<1>1. PICK v : v = Status(i, scene[i])
  OBVIOUS
<1>2. /\ scene' = scene \/ scene' = [scene EXCEPT ![i] = v]
      /\ UNCHANGED <<worker, peer, late, avail, faults, database>>
  BY <1>1 DEF Health
<1>3. /\ InstanceOk(scene[i], committed) /\ shards \in [Shards -> ShardType \cup {None}]
      /\ peer \in [Instances -> [inc : Nat \cup {None}, gen : Nat]]
  BY DEF IInv, Infra, MembersOk
<1>4. InstanceOk(v, committed)
  BY <1>1, <1>3, StatusOk
<1>5. peer' = peer /\ UNCHANGED <<late, database>> /\ UNCHANGED worker
  BY <1>2
<1> QED BY <1>2, <1>3, <1>4, <1>5, InstanceChanges

LEMMA Crashes ==
    ASSUME IInv, NEW i \in Instances, Crash(i)
    PROVE  IInv'
<1>1. PICK n : n = NewInstance(scene[i].inc + 1)
  OBVIOUS
<1>2. /\ scene' = [scene EXCEPT ![i] = n]
      /\ UNCHANGED <<worker, peer, slot, late, avail, database>>
  BY <1>1 DEF Crash, SceneCrash
<1>3. /\ scene[i] \in InstanceType
      /\ peer \in [Instances -> [inc : Nat \cup {None}, gen : Nat]]
  BY DEF IInv, Infra, MembersOk
<1>4. InstanceOk(n, committed)
  <2>1. scene[i].inc + 1 \in Nat
    BY <1>3 DEF InstanceType
  <2> QED BY <1>1, <2>1, NewInstanceOk
<1>5. peer' = peer /\ UNCHANGED <<late, database>> /\ UNCHANGED worker
  BY <1>2
<1> QED BY <1>2, <1>3, <1>4, <1>5, InstanceChanges

LEMMA ServiceSteps ==
    ASSUME IInv, NEW i \in Instances, ServiceStep(i)
    PROVE  IInv'
<1>1. CASE SceneStarts(i) /\ UNCHANGED <<worker, links>>
  <2>1. PICK desired : ExchangeInstance(i, desired) /\ UNCHANGED <<scene, stored, limbo, committed>>
    BY <1>1 DEF SceneStarts
  <2> QED BY <1>1, <2>1, RecordChanges
<1>2. CASE FenceDraining(i) /\ UNCHANGED <<worker, links>>
  <2>1. PICK desired : ExchangeInstance(i, desired) /\ UNCHANGED <<scene, stored, limbo, committed>>
    BY <1>2 DEF FenceDraining
  <2> QED BY <1>2, <2>1, RecordChanges
<1>3. CASE \E sh \in Shards :
             Expire(i, sh) /\ Fault("expire") /\ UNCHANGED <<worker, peer, slot, late, avail>>
  BY <1>3, Expires
<1>4. CASE \E conn \in 0..peer[i].gen : Hangup(i, conn)
  BY <1>4, HangsUp
<1>5. CASE PeerConnect(i)
  BY <1>5, Connects
<1>6. CASE PeerReset(i)
  BY <1>6, Disconnects DEF PeerReset
<1>7. CASE Health(i)
  BY <1>7, Checks
<1>8. CASE Discovery(i)
  BY <1>8, Disconnects DEF Discovery
<1>9. CASE Crash(i)
  BY <1>9, Crashes
<1>10. CASE Operator(i)
  BY <1>10, Operates
<1> QED BY <1>1, <1>2, <1>3, <1>4, <1>5, <1>6, <1>7, <1>8, <1>9, <1>10 DEF ServiceStep

-----------------------------------------------------------------------------
(* The realm goes down. *)
LEMMA NewTyped ==
    ASSUME NEW C, NEW s, NEW y,
           y = NewSession \/ y = [NewSession EXCEPT !.selected = TRUE]
    PROVE  SessionOk(s, y, C) /\ y \in SessionType /\ y.waiting = <<>> /\ y.unresolved = None
           /\ ~y.alive /\ (y.selected => y # NewSession) /\ (~y.selected => y = NewSession)
<1>1. <<>> \in Seq(JobType)
  OBVIOUS
<1>2. /\ y \in SessionType /\ y.waiting = <<>> /\ y.unresolved = None /\ y.record = None /\ ~y.alive
  <2>1. CASE y = NewSession
    BY <1>1, <2>1 DEF NewSession, SessionType, NoShards
  <2>2. CASE y = [NewSession EXCEPT !.selected = TRUE]
    BY <1>1, <2>2 DEF NewSession, SessionType, NoShards
  <2> QED BY <2>1, <2>2
<1>3. (y.selected => y # NewSession) /\ (~y.selected => y = NewSession)
  BY DEF NewSession
<1> QED BY <1>2, <1>3 DEF SessionOk

LEMMA GoesDown ==
    ASSUME IInv, RealmCrash
    PROVE  IInv'
<1>1. PICK new : new = [NewSession EXCEPT !.selected = TRUE]
  OBVIOUS
<1>2. /\ session' = [s \in Sessions |-> IF session[s].selected THEN new ELSE NewSession]
      /\ job' = [s \in Sessions |-> None]
      /\ owns' = NoShards /\ routes' = [sh \in Shards |-> sh] /\ topo' = None
      /\ peer' = [i \in Instances |-> [inc |-> None, gen |-> peer[i].gen + 1]]
      /\ UNCHANGED <<told, late, requests, database, scene>>
  BY <1>1 DEF RealmCrash
<1>3. SessionsOk /\ IdsOk /\ Infra /\ StoreOk /\ MembersOk /\ LateOk
  BY DEF IInv
<1>4. UNCHANGED <<stored, committed, limbo, shards>>
  BY <1>2 DEF database
<1>5. ASSUME NEW s \in Sessions
      PROVE  /\ SessionOk(s, session'[s], committed) /\ session'[s] \in SessionType
             /\ session'[s].waiting = <<>> /\ session'[s].unresolved = None
             /\ ~session'[s].alive /\ (session'[s].selected <=> session[s].selected)
             /\ job'[s] = None
  <2>1. PICK y : y = session'[s]
    OBVIOUS
  <2>2. y = IF session[s].selected THEN new ELSE NewSession
    BY <1>2, <2>1
  <2>3. /\ SessionOk(s, y, committed) /\ y \in SessionType /\ y.waiting = <<>> /\ y.unresolved = None
        /\ ~y.alive
    BY <1>1, <2>2, NewTyped
  <2>4. y.selected <=> session[s].selected
    BY <1>1, <2>2 DEF NewSession
  <2>5. job'[s] = None
    BY <1>2
  <2> QED BY <2>1, <2>3, <2>4, <2>5
<1>6. SessionsOk'
  <2>1. ASSUME NEW s \in Sessions PROVE Bound(s)'
    BY <1>3, <1>4, <1>5 DEF SessionsOk, Bound
  <2> HIDE DEF Sessions
  <2>2. session' \in [Sessions -> SessionType] /\ job' \in [Sessions -> JobType \cup {None}]
    BY <1>2, <1>5
  <2> QED BY <1>4, <1>5, <2>1, <2>2 DEF SessionsOk
<1>7. \A s \in Sessions : Held(s)' = {}
  BY <1>5 DEF Held
<1>8. \A k : Still(k)
  BY <1>4, <1>5, Stills
<1>9. Apart'
  BY <1>7 DEF Apart
<1>10. ~Dead(0) /\ 0 \in 0..requests
  BY <1>3, NoZero
<1>11. IdsOk'
  <2>1. requests' = requests /\ requests \in Nat /\ committed' = committed /\ told' = told
    BY <1>2, <1>3, <1>4 DEF IdsOk
  <2> QED BY <1>3, <1>7, <1>8, <1>9, <1>10, <2>1, IdsKept
<1>12. Infra'
  <2>1. Shards \subseteq Instances
    BY SceneStoreAssumption
  <2>2. owns' \in [Shards -> ShardType \cup {None}] /\ routes' \in [Shards -> Instances]
    BY <1>2, <2>1 DEF NoShards
  <2>3. peer' \in [Instances -> [inc : Nat \cup {None}, gen : Nat]]
    BY <1>2, <1>3 DEF Infra
  <2> QED BY <1>2, <1>3, <1>4, <2>2, <2>3 DEF Infra
<1>13. StoreOk' /\ MembersOk' /\ LateOk'
  BY <1>2, <1>3, <1>4, StoreKept, MembersKept, LateKept
<1> QED BY <1>6, <1>11, <1>12, <1>13 DEF IInv

-----------------------------------------------------------------------------
(* The initial states, and the steps. *)
LEMMA Initially == ASSUME Init PROVE IInv
<1>1. /\ stored = NewRecord /\ limbo = {} /\ committed = {} /\ late = {} /\ told = {}
      /\ requests = 0 /\ topo = None /\ owns = shards /\ routes = [sh \in Shards |-> sh]
      /\ shards = [sh \in Shards |->
           [version |-> 1, owner |-> [inst |-> sh, inc |-> 1], draining |-> FALSE]]
      /\ peer = [i \in Instances |-> [inc |-> 1, gen |-> 0]]
      /\ session = [s \in Sessions |-> NewSession] /\ job = [s \in Sessions |-> None]
      /\ scene = [i \in Instances |->
           [NewInstance(1) EXCEPT !.open = {0}, !.known = shards,
              !.hosted = [sh \in Shards |-> IF sh = i THEN NewShard(FALSE) ELSE None]]]
  BY DEF Init, InitStore, InitScenes
<1>2. shards \in [Shards -> ShardType \cup {None}]
  <2>1. ASSUME NEW sh \in Shards
        PROVE  [version |-> 1, owner |-> [inst |-> sh, inc |-> 1], draining |-> FALSE] \in ShardType
    BY SceneStoreAssumption DEF ShardType, HostedBy
  <2> QED BY <1>1, <2>1
<1>3. Infra
  <2>1. routes \in [Shards -> Instances]
    BY <1>1, SceneStoreAssumption
  <2>2. peer \in [Instances -> [inc : Nat \cup {None}, gen : Nat]]
    BY <1>1
  <2> QED BY <1>1, <1>2, <2>1, <2>2 DEF Infra
<1>4. StoreOk
  <2>1. /\ NewRecord \in RecordType /\ NewRecord.last = None /\ NewRecord.loc = None
        /\ NewRecord.owner = None
    BY DEF NewRecord, RecordType
  <2>2. RecordOk(stored, committed)
    BY <1>1, <2>1 DEF RecordOk
  <2>3. LogOk(committed, stored)
    BY <1>1 DEF LogOk
  <2> QED BY <1>1, <2>2, <2>3 DEF StoreOk
<1>5. SessionsOk
  <2>1. ASSUME NEW s \in Sessions
        PROVE  SessionOk(s, session[s], committed) /\ job[s] = None /\ Bound(s)
    <3>1. session[s] = NewSession /\ job[s] = None
      BY <1>1
    <3>2. SessionOk(s, session[s], committed)
      BY <3>1, NewTyped
    <3>3. stored.last = None
      BY <1>1 DEF NewRecord
    <3> QED BY <3>1, <3>2, <3>3 DEF Bound
  <2>2. NewSession \in SessionType
    BY NewTyped
  <2> HIDE DEF Sessions
  <2>3. session \in [Sessions -> SessionType] /\ job \in [Sessions -> JobType \cup {None}]
    BY <1>1, <2>2
  <2> QED BY <2>1, <2>3 DEF SessionsOk
<1>6. MembersOk
  <2>1. ASSUME NEW i \in Instances PROVE InstanceOk(scene[i], committed)
    <3>1. PICK v, hosted, n :
            /\ v = NewInstance(1)
            /\ hosted = [sh \in Shards |-> IF sh = i THEN NewShard(FALSE) ELSE None]
            /\ n = [v EXCEPT !.open = {0}, !.known = shards, !.hosted = hosted]
      OBVIOUS
    <3>2. scene[i] = n
      BY <1>1, <3>1
    <3>3. InstanceOk(v, committed) /\ v \in InstanceType
      <4>1. InstanceOk(v, committed)
        BY <3>1, NewInstanceOk
      <4> QED BY <4>1 DEF InstanceOk
    <3>4. \A sh \in Shards : hosted[sh] = None \/ HostOk(hosted[sh], sh, committed)
      BY <3>1, NewShardOk
    <3>5. hosted \in [Shards -> HostType \cup {None}]
      <4>1. NewShard(FALSE) \in HostType
        BY DEF NewShard, HostType
      <4> QED BY <3>1, <4>1
    <3>6. n \in InstanceType /\ n.hosted = hosted
      <4>1. n = [inc |-> 1, known |-> shards, hosted |-> hosted, draining |-> FALSE,
                 fenced |-> FALSE, open |-> {0}]
        BY <3>1 DEF NewInstance
      <4>2. {0} \in SUBSET Nat
        OBVIOUS
      <4> QED BY <1>2, <3>5, <4>1, <4>2 DEF InstanceType
    <3> QED BY <3>2, <3>4, <3>6 DEF InstanceOk
  <2>2. \A i \in Instances : scene[i] \in InstanceType
    BY <2>1 DEF InstanceOk
  <2>3. scene \in [Instances -> InstanceType]
    BY <1>1, <2>2
  <2> QED BY <2>1, <2>3 DEF MembersOk
<1>7. LateOk
  BY <1>1 DEF LateOk
<1>8. IdsOk
  <2>1. \A s \in Sessions : Held(s) = {} /\ session[s].unresolved = None
    <3>1. ASSUME NEW s \in Sessions PROVE session[s] = NewSession /\ job[s] = None
      BY <1>1
    <3>2. NewSession.waiting = <<>> /\ NewSession.unresolved = None
      BY NewTyped
    <3> QED BY <3>1, <3>2 DEF Held
  <2>2. \A k : Unwritten(k)
    BY <1>1, <2>1 DEF Unwritten, WrittenBy, Unresolved
  <2>3. Apart
    BY <2>1 DEF Apart
  <2> QED BY <1>1, <2>1, <2>2, <2>3 DEF IdsOk
<1> QED BY <1>3, <1>4, <1>5, <1>6, <1>7, <1>8 DEF IInv

LEMMA JobSteps == ASSUME IInv, NEW s \in Sessions, JobStep(s) PROVE IInv'
BY Starts, Proposed, Sends, Unsends, Serves, Breaks, CommitsJob, ReadsBack, Snapshots, TimesOut,
   Drains DEF JobStep

LEMMA Stutters == ASSUME IInv, UNCHANGED vars PROVE IInv'
<1>1. /\ UNCHANGED <<session, job, told, owns, routes, topo, requests>>
      /\ UNCHANGED <<stored, committed, limbo, late, shards, peer, scene>>
  BY DEF vars, worker, links, database
<1>2. MembersOk'
  BY <1>1, MembersKept DEF IInv
<1>3. shards' \in [Shards -> ShardType \cup {None}]
      /\ peer' \in [Instances -> [inc : Nat \cup {None}, gen : Nat]]
  BY <1>1 DEF IInv, Infra
<1> QED BY <1>1, <1>2, <1>3, ServiceChanges

LEMMA Steps == ASSUME IInv, [Next]_vars PROVE IInv'
<1>1. ASSUME NEW s \in Sessions,
             \/ Select(s) \/ Closed(s) \/ JobStep(s)
             \/ Retire(s) \/ CleanupSettle(s) \/ CleanupRevoke(s)
             \/ \E cmd \in Commands \cup {None} : Request(s, cmd)
      PROVE  IInv'
  BY <1>1, Selects, Closes, JobSteps, Retires, CleansUp, RevokesBinding, Requests
<1>2. ASSUME NEW m \in late, LateServed(m) PROVE IInv'
  BY <1>2, ServesLate
<1>3. ASSUME NEW w \in limbo, LateCommit(w) /\ UNCHANGED <<worker, links, scene>> PROVE IInv'
  BY <1>3, CommitsLate
<1>4. ASSUME NEW sh \in Shards, Topology(sh) PROVE IInv'
  BY <1>4, Plans
<1>5. CASE TopologyExchange
  BY <1>5, Exchanges
<1>6. ASSUME NEW i \in Instances, ServiceStep(i) PROVE IInv'
  BY <1>6, ServiceSteps
<1>7. CASE RealmCrash
  BY <1>7, GoesDown
<1>8. CASE UNCHANGED vars
  BY <1>8, Stutters
<1> QED BY <1>1, <1>2, <1>3, <1>4, <1>5, <1>6, <1>7, <1>8 DEF Next

-----------------------------------------------------------------------------
(* What the records, the worker and the services hold agrees with the      *)
(* history of the commits (the whole worker, the services and the store).  *)
THEOREM Invariant == Spec => []IInv
<1>1. Init => IInv
  BY Initially
<1>2. IInv /\ [Next]_vars => IInv'
  BY Steps
<1> QED BY <1>1, <1>2, PTL DEF Spec

(* SceneShard::handle: a member that a scene shows, in whatever order the  *)
(* calls, the late ones among them, are served, was committed before.      *)
THEOREM ShowsCommitted == Spec => []ActiveCommitted
<1>1. ASSUME IInv PROVE ActiveCommitted
  <2>1. ASSUME NEW i \in Instances, NEW sh \in Shards, scene[i].hosted[sh] # None,
               scene[i].hosted[sh].active # None
        PROVE  Proven(scene[i].hosted[sh].active, committed)
    <3>1. HostOk(scene[i].hosted[sh], sh, committed)
      BY <1>1, <2>1 DEF IInv, MembersOk, InstanceOk
    <3> QED BY <2>1, <3>1 DEF HostOk
  <2> QED BY <2>1 DEF ActiveCommitted, Proven
<1> QED BY <1>1, Invariant, PTL

(* complete: a request that was refused is not in the player data and will *)
(* not be, one that was answered with success is.                          *)
THEOREM AnswersHold == Spec => []AnswersTrue
<1>1. ASSUME IInv PROVE AnswersTrue
  <2>1. ASSUME NEW t \in told PROVE ToldOk(t)
    BY <1>1 DEF IInv, IdsOk
  <2>2. ASSUME NEW t \in told, t.kind = "refused" PROVE \A c \in committed : c.job # t.job
    <3>1. ~WrittenBy(t.job)
      BY <2>1, <2>2 DEF ToldOk, Dead, Unwritten
    <3> QED BY <3>1 DEF WrittenBy
  <2>3. ToldTrue
    BY <2>1 DEF ToldTrue, ToldOk
  <2> QED BY <2>2, <2>3 DEF AnswersTrue, RefusedNotWritten
<1> QED BY <1>1, Invariant, PTL

(* check_scene_transition: a command has one result, however often it is   *)
(* written and whoever writes it.                                          *)
OneResult ==
    \A c, d \in committed : c.result.cmd.seq = d.result.cmd.seq => c.result = d.result

(* So a request takes effect at most once, also when its answer was lost   *)
(* and another job, or the recovery of the session, writes it again.       *)
THEOREM CommandsOnce == Spec => []OneResult
<1>1. ASSUME IInv PROVE OneResult
  BY <1>1 DEF IInv, StoreOk, LogOk, OneResult
<1> QED BY <1>1, Invariant, PTL
=============================================================================
