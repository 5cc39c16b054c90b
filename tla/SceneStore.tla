----------------------------- MODULE SceneStore -----------------------------
(***************************************************************************)
(* The scene part of MongoPlayerDataStore: the scene record of a           *)
(* character, the shard records and the scene instances.  A conditional    *)
(* update, with the reads that classify its result, is one step: a result  *)
(* is decided by the filter of the update, which names everything that the *)
(* reads looked at.                                                        *)
(*                                                                         *)
(* One character is modelled; its account and realm are fixed.             *)
(***************************************************************************)
EXTENDS Naturals, FiniteSets

CONSTANTS
    None,
    Shards,      \* shard ids
    Instances    \* ids of scene services

VARIABLES
    stored,      \* the scene record of the character
    shards,      \* shard records: None, or version, owner and draining
    instances,   \* instance records: None, or incarnation and draining
    limbo,       \* updates whose outcome the driver could not tell and that
                 \* may still be applied
    committed    \* every result that a commit stored

(* Commands, places, owners of a binding, results of commits, the record   *)
(* of a character and the writes of it.                                    *)
CommandType ==
    [type : {"enter"}, seq : Nat, arg : {None}]
      \cup [type : {"move"}, seq : Nat, arg : Nat]
      \cup [type : {"transfer"}, seq : Nat, arg : Shards]
PlaceType == [shard : Shards, pos : Nat]
OwnerType == [binding : Nat, inst : Instances, inc : Nat, version : Nat]
ResultType == [cmd : CommandType, loc : PlaceType, epoch : Nat, owner : OwnerType]
RecordType ==
    [epoch : Nat, owner : OwnerType \cup {None}, loc : PlaceType \cup {None},
     last : ResultType \cup {None}]
WriteType ==
    [job : Nat, cmd : CommandType, epoch : Nat, expected : OwnerType \cup {None},
     owner : OwnerType, loc : PlaceType]

(* Shard 1 is where a character begins, and every shard has an instance    *)
(* of its number that it prefers.                                          *)
ASSUME SceneStoreAssumption ==
    /\ Shards \subseteq Nat /\ 1 \in Shards /\ Shards \subseteq Instances
    /\ None \notin PlaceType \cup OwnerType \cup ResultType \cup RecordType \cup WriteType

database == <<stored, shards, instances, limbo, committed>>

Command(type, seq, arg) == [type |-> type, seq |-> seq, arg |-> arg]

Location(shard, pos) == [shard |-> shard, pos |-> pos]

(* initialize_scene. *)
NewRecord == [epoch |-> 0, owner |-> None, loc |-> None, last |-> None]

InitStore ==
    /\ stored = NewRecord
    /\ shards = [sh \in Shards |->
         [version |-> 1, owner |-> [inst |-> sh, inc |-> 1], draining |-> FALSE]]
    /\ instances = [i \in Instances |-> [inc |-> 1, draining |-> FALSE]]
    /\ limbo = {} /\ committed = {}

-----------------------------------------------------------------------------
(* The record that a write leaves, and its last_result. *)
EpochAfter(w) == w.epoch + (IF w.cmd.type = "move" THEN 0 ELSE 1)

ResultOf(w) == [cmd |-> w.cmd, loc |-> w.loc, epoch |-> EpochAfter(w), owner |-> w.owner]

(* resolve_scene_write: only the exact result shows that w was committed. *)
Resolved(w, record) == record.last = ResultOf(w)

LastSeq(record) == IF record.last = None THEN 0 ELSE record.last.cmd.seq

(* check_scene_transition. *)
Transition(record, w) ==
    IF Resolved(w, record) /\ record.owner = w.owner /\ record.epoch = record.last.epoch
      THEN "Replayed"
    ELSE IF record.epoch # w.epoch \/ record.owner # w.expected THEN "StaleBinding"
    ELSE IF w.cmd.seq # LastSeq(record) + 1 THEN "InvalidSequence"
    ELSE IF w.cmd.type = "enter"
      THEN IF record.loc \in {None, w.loc} THEN "Committed" ELSE "InvalidCommand"
    ELSE IF record.owner = None THEN "StaleBinding"
    ELSE IF w.cmd.type = "move"
      THEN IF w.owner = record.owner /\ w.loc = Location(record.loc.shard, w.cmd.arg)
             THEN "Committed" ELSE "InvalidCommand"
    ELSE IF /\ w.owner.binding = record.owner.binding
            /\ w.loc.shard = w.cmd.arg /\ w.loc.shard # record.loc.shard
      THEN "Committed" ELSE "InvalidCommand"

(* guard_shard: the owner of the binding still hosts the shard. *)
Guarded(shard, owner, admitting) ==
    LET r == shards[shard] IN
    IF r = None THEN FALSE
    ELSE /\ r.version = owner.version
         /\ r.owner = [inst |-> owner.inst, inc |-> owner.inc]
         /\ (admitting => ~r.draining)

(* The outcome of commit_scene. *)
CommitOutcome(w) ==
    LET outcome == Transition(stored, w)
        guarded == /\ Guarded(w.loc.shard, w.owner, w.cmd.type # "move")
                   /\ (w.cmd.type = "transfer" =>
                         Guarded(stored.loc.shard, w.expected, FALSE))
    IN  IF outcome = "Committed" /\ ~guarded THEN "StaleBinding" ELSE outcome

(* What commit_scene stores. *)
ApplyCommit(w) ==
    IF CommitOutcome(w) # "Committed" THEN UNCHANGED <<stored, committed>>
    ELSE /\ stored' = [epoch |-> EpochAfter(w), owner |-> w.owner, loc |-> w.loc,
                       last |-> ResultOf(w)]
         /\ committed' = committed \cup {[job |-> w.job, result |-> ResultOf(w)]}

(* A commit whose outcome is lost is applied, or not yet. *)
UncertainCommit(w) ==
    \/ ApplyCommit(w) /\ UNCHANGED limbo
    \/ limbo' = limbo \cup {w} /\ UNCHANGED <<stored, committed>>

LateCommit(w) ==
    /\ w \in limbo
    /\ limbo' = limbo \ {w}
    /\ ApplyCommit(w)
    /\ UNCHANGED <<shards, instances>>

(* revoke_scene: the place and the last result stay. *)
Revoke(epoch, owner) ==
    stored' = IF stored.epoch = epoch /\ stored.owner = owner
                THEN [stored EXCEPT !.owner = None, !.epoch = @ + 1] ELSE stored

-----------------------------------------------------------------------------
(* compare_exchange_shard: a new owner has to be an instance that is not   *)
(* draining, in its current incarnation.                                   *)
ShardMatches(shard, expected, desired) ==
    /\ shards[shard] = expected
    /\ desired.owner # None => instances[desired.owner.inst] =
                                 [inc |-> desired.owner.inc, draining |-> FALSE]

ExchangeShard(shard, expected, desired) ==
    shards' = IF ShardMatches(shard, expected, desired)
                THEN [shards EXCEPT ![shard] = desired] ELSE shards

(* compare_exchange_scene_instance: an instance that drains takes its      *)
(* shards along, in one transaction.                                       *)
ExchangeInstance(i, desired) ==
    /\ instances' = [instances EXCEPT ![i] = desired]
    /\ shards' = [sh \in Shards |->
         IF shards[sh] = None \/ ~desired.draining THEN shards[sh]
         ELSE IF shards[sh].owner = [inst |-> i, inc |-> desired.inc]
           THEN [shards[sh] EXCEPT !.draining = TRUE] ELSE shards[sh]]
=============================================================================
