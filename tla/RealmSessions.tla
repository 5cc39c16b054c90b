--------------------------- MODULE RealmSessions ----------------------------
(***************************************************************************)
(* RealmSessions on the frame thread, and its data access on the workers   *)
(* of a BoundedWorkPool.  A session handles one request at a time; a       *)
(* request that needs data makes it busy until the completion is drained.  *)
(* A closed or displaced session leaves its data access running.           *)
(*                                                                         *)
(* Replies are modelled by what they tell the client of a character.       *)
(***************************************************************************)
EXTENDS PlayerData, Sequences

CONSTANTS
    Sessions,       \* connection ids; an id is never used again
    MaxPending,     \* max_pending_per_session
    DataWorkers,    \* data_workers
    DataCapacity,   \* data_capacity
    MaxEvents,      \* max_events_per_frame, also of completions
    MaxLevelExp,    \* the experience at which the rule answers nil
    MaxFaults       \* bound on disturbances: database failures, provisioning
                    \* calls and other services that connect

ASSUME SessionsAssumption ==
    /\ IsFiniteSet(Sessions)
    /\ MaxPending \in Nat \ {0} /\ DataWorkers \in Nat \ {0}
    /\ DataCapacity \in Nat \ {0} /\ MaxEvents \in Nat \ {0}
    /\ MaxLevelExp \in Nat /\ MaxFaults \in Nat

VARIABLES
    sessions,    \* sessions_: None, or the session
    online,      \* online_: None, or the account's session
    pending,     \* pending_: None, or whom the data access is for
    job,         \* where the job of a data access is, and its result
    batch,       \* completions drained in this frame and not yet visited
    faults,      \* disturbances so far
    told,        \* every state of a character a client was told
    queue, working, done, cancelled, inFlight   \* the pool

dataPool == <<queue, working, done, cancelled, inFlight>>
tables   == <<sessions, online, pending, job>>

(* Ids only tell the data accesses of the moment apart: next_data_id_ is   *)
(* any id that is free.                                                    *)
DataIds == 1..DataCapacity

Pool == INSTANCE BoundedWorkPool WITH
    Workers <- DataWorkers, Capacity <- DataCapacity, running <- working, stopped <- FALSE

Request(type, arg) == [type |-> type, arg |-> arg]

NewSession(a) ==
    [account |-> a, phase |-> "Selecting", character |-> None, busy |-> FALSE,
     waiting |-> <<>>]

NoJob == [pc |-> "idle", attempt |-> 0, result |-> None]

InitSessions ==
    /\ sessions = [s \in Sessions |-> None]
    /\ online = [a \in Accounts |-> None]
    /\ pending = [i \in DataIds |-> None]
    /\ job = [i \in DataIds |-> NoJob]
    /\ batch = <<>> /\ faults = 0 /\ told = {}
    /\ queue = <<>> /\ working = {} /\ done = <<>> /\ cancelled = {}
    /\ inFlight = 0

Live == {s \in Sessions : sessions[s] # None}

-----------------------------------------------------------------------------
(* enter and closed.                                                       *)

(* The session the account had is displaced (1409) and forgotten. *)
Enter(s, a) ==
    /\ sessions' = [t \in Sessions |->
         IF t = s THEN NewSession(a) ELSE IF t = online[a] THEN None ELSE sessions[t]]
    /\ online' = [online EXCEPT ![a] = s]
    /\ UNCHANGED <<pending, job>>

(* Mutant of Forget: the account goes offline whoever its session is. *)
ForgetAnyone(s, a) ==
    /\ sessions' = [sessions EXCEPT ![s] = None]
    /\ online' = [online EXCEPT ![a] = None]
    /\ UNCHANGED <<pending, job>>

(* closed(); a is the account that the connection entered with. *)
Forget(s, a) ==
    /\ sessions' = [sessions EXCEPT ![s] = None]
    /\ online' = IF sessions[s] # None /\ online[sessions[s].account] = s
                   THEN [online EXCEPT ![sessions[s].account] = None] ELSE online
    /\ UNCHANGED <<pending, job>>

-----------------------------------------------------------------------------
(* process: a request is answered at once, or becomes a data access.       *)

(* TrainingRule::train: nil at the top level, a larger experience below. *)
Train(exp) == IF exp < MaxLevelExp THEN exp + 1 ELSE None

(* The request needs the database; everything else is answered at once.    *)
(* lua: whether the training rule answers; an exception is answered 3010.  *)
NeedsData(session, r, lua) ==
    CASE r.type = "train" ->
           /\ session.phase = "InGame"
           /\ r.arg = session.character.seq + 1
           /\ lua /\ Train(session.character.exp) # None
      [] r.type = "list" -> session.phase = "Selecting"
      [] OTHER -> session.phase = "Selecting" /\ r.arg # None

(* What answering r at once tells the client: a repeated training is       *)
(* answered from the cached character.                                     *)
ToldAtOnce(session, r, lua) ==
    IF r.type = "train" /\ session.phase = "InGame" /\ r.arg = session.character.seq /\ lua
      THEN {session.character} ELSE {}

(* process_next: requests are taken in order until one is a data access.   *)
(* waits is what stays queued, sent the data access or None, said what the *)
(* answers tell.  A data access that finds the pool full is answered 429.  *)
Answered(session, free, lua) ==
    LET n == Len(session.waiting)
        Stops(i) == free /\ NeedsData(session, session.waiting[i], lua)
        first == {i \in 1..n : Stops(i) /\ \A k \in 1..(i - 1) : ~Stops(k)}
        last == IF first = {} THEN n ELSE CHOOSE i \in first : TRUE
    IN  [waits |-> SubSeq(session.waiting, last + 1, n),
         sent  |-> IF first = {} THEN None ELSE session.waiting[last],
         said  |-> UNION {ToldAtOnce(session, session.waiting[i], lua) : i \in 1..last}]

(* What submit keeps of a data access.  A training carries the experience  *)
(* computed from the cached character.                                     *)
DataAccess(s, session, r) ==
    [session |-> s, account |-> session.account, request |-> r,
     character |-> IF r.type = "train" THEN session.character.id ELSE None,
     exp |-> IF r.type = "train" THEN Train(session.character.exp) ELSE None]

(* process_next and submit on a session that is not busy; freed holds the  *)
(* data id whose completion is being visited, if any.                      *)
ProcessNext(s, session, freed, said, lua) ==
    LET step == Answered(session, inFlight < DataCapacity, lua)
        ids == {i \in DataIds : pending[i] = None} \cup freed
        id == CHOOSE i \in ids : \A k \in ids : i <= k
        Renew(f, new, none) == [i \in DataIds |->
            IF step.sent # None /\ i = id THEN new
            ELSE IF i \in freed THEN none ELSE f[i]]
    IN  /\ sessions' = [sessions EXCEPT ![s] =
             [session EXCEPT !.waiting = step.waits, !.busy = step.sent # None]]
        /\ told' = told \cup said \cup step.said
        /\ pending' = Renew(pending, DataAccess(s, session, step.sent), None)
        /\ job' = Renew(job, [NoJob EXCEPT !.pc = step.sent.type], NoJob)
        /\ IF step.sent = None THEN UNCHANGED dataPool ELSE Pool!Accept(id)

(* handle: a request of an entered session is queued and processed, or     *)
(* refused (429) when too many are pending.                                *)
Handle(s, r) ==
    /\ sessions[s] # None
    /\ LET session == sessions[s]
           pendingCount == Len(session.waiting) + (IF session.busy THEN 1 ELSE 0)
           queued == [session EXCEPT !.waiting = Append(@, r)]
       IN IF pendingCount >= MaxPending
            THEN UNCHANGED <<tables, told, dataPool>>
          ELSE IF session.busy
            THEN /\ sessions' = [sessions EXCEPT ![s] = queued]
                 /\ UNCHANGED <<pending, job, told, dataPool>>
          ELSE \E lua \in BOOLEAN : ProcessNext(s, queued, {}, {}, lua)
    /\ UNCHANGED online

-----------------------------------------------------------------------------
(* The jobs, on the worker threads.                                        *)

TakeJob == Pool!Take /\ UNCHANGED <<tables, batch, faults, told, database>>

(* The job goes on to its next database operation. *)
GoTo(i, pc) ==
    /\ job' = [job EXCEPT ![i].pc = pc]
    /\ UNCHANGED dataPool

(* The job ends with its result. *)
End(i, result) ==
    /\ job' = [job EXCEPT ![i].pc = "ended", ![i].result = result]
    /\ Pool!Finish(i)

Ok(value) == [ok |-> TRUE, value |-> value]

AfterCreate(i, outcome) ==
    CASE outcome = "created" -> End(i, Ok("created"))
      [] outcome = "limit" -> End(i, Ok("refused"))
      [] outcome = "missing_account" -> End(i, [ok |-> FALSE])
      [] outcome = "duplicate_key" -> GoTo(i, "create_check")

(* list_characters, create_character, choose_character, record_training:   *)
(* one database operation of job i.                                        *)
JobStep(i) ==
    /\ i \in working
    /\ LET a == pending[i].account
           r == pending[i].request
       IN
       \/ /\ job[i].pc = "list"
          /\ End(i, Ok(ListCharacters(a, Realm).characters))
          /\ UNCHANGED database
       \/ /\ job[i].pc = "create"
          /\ \E c \in Characters :
               /\ AfterCreate(i, CreateTxn(a, Realm, r.arg, c))
               /\ ApplyCreate(a, Realm, r.arg, c)
       \/ /\ job[i].pc = "create_check"   \* a name or an id was taken
          /\ IF ~NameFree(Realm, r.arg, None)
               THEN End(i, Ok("refused"))
             ELSE IF job[i].attempt + 1 = IdAttempts
               THEN End(i, [ok |-> FALSE])
             ELSE /\ job' = [job EXCEPT ![i].pc = "create", ![i].attempt = @ + 1]
                  /\ UNCHANGED dataPool
          /\ UNCHANGED database
       \/ /\ job[i].pc = "select"
          /\ IF Owned(a, Realm, r.arg)
               THEN /\ job' = [job EXCEPT ![i].pc = "select_write",
                                          ![i].result = RealmCharacter(r.arg)]
                    /\ UNCHANGED dataPool
               ELSE End(i, Ok(None))
          /\ UNCHANGED database
       \/ /\ job[i].pc = "select_write"
          /\ End(i, Ok(job[i].result))
          /\ WriteSelected(a, r.arg)
       \/ /\ job[i].pc = "train"
          /\ IF TrainingMatches(a, Realm, pending[i].character, r.arg)
               THEN End(i, Ok([committed |-> TRUE,
                               character |-> [id |-> pending[i].character,
                                              seq |-> r.arg, exp |-> pending[i].exp]]))
               ELSE GoTo(i, "train_read")
          /\ ApplyTraining(a, Realm, pending[i].character, r.arg, pending[i].exp)
       \/ /\ job[i].pc = "train_read"
          /\ End(i, Ok([committed |-> FALSE,
                        character |-> RealmCharacter(pending[i].character)]))
          /\ UNCHANGED database
    /\ UNCHANGED <<sessions, online, pending, batch, faults, told>>

(* The driver reports a failure: the operation was not applied, or it was  *)
(* and the answer was lost.                                                *)
JobFails(i) ==
    /\ i \in working
    /\ faults < MaxFaults
    /\ faults' = faults + 1
    /\ End(i, [ok |-> FALSE])
    /\ \/ UNCHANGED database
       \/ /\ job[i].pc = "train"
          /\ ApplyTraining(pending[i].account, Realm, pending[i].character,
                           pending[i].request.arg, pending[i].exp)
       \/ /\ job[i].pc = "create"
          /\ \E c \in Characters :
               ApplyCreate(pending[i].account, Realm, pending[i].request.arg, c)
       \/ /\ job[i].pc = "select_write"
          /\ WriteSelected(pending[i].account, pending[i].request.arg)
    /\ UNCHANGED <<sessions, online, pending, batch, told>>

-----------------------------------------------------------------------------
(* complete: the frame drains results and visits them.                     *)

DrainBatch ==
    /\ batch = <<>>
    /\ LET n == IF Len(done) < MaxEvents THEN Len(done) ELSE MaxEvents IN
       /\ Pool!TakeResults(n)
       /\ batch' = SubSeq(done, 1, n)
    /\ UNCHANGED <<tables, faults, told, database>>

(* finish: the session after the result, and what the reply tells.         *)
(* Without lua the reply cannot give the level and is 3010; a trained      *)
(* character is kept all the same.                                         *)
Finished(session, r, result, lua) ==
    LET Reply(after, said) == [session |-> after, said |-> IF lua THEN said ELSE {}] IN
    CASE ~result.ok \/ r.type = "create" -> Reply(session, {})
      [] result.ok /\ r.type = "list" -> Reply(session, result.value)
      [] result.ok /\ r.type = "select" ->
           IF result.value = None \/ ~lua THEN Reply(session, {})
           ELSE Reply([session EXCEPT !.character = result.value, !.phase = "InGame"],
                      {result.value})
      [] result.ok /\ r.type = "train" ->
           LET c == result.value.character IN
           Reply([session EXCEPT !.character = c],
                 IF result.value.committed \/ c.seq = r.arg THEN {c} ELSE {})

(* The reply is dropped when the session is gone. *)
Current(p) ==
    p.session \in Live /\ sessions[p.session].account = p.account

(* complete, one completion: finish, then process_next. *)
Visit ==
    /\ batch # <<>>
    /\ LET i == Head(batch)  p == pending[i] IN
       IF ~Current(p)
         THEN /\ pending' = [pending EXCEPT ![i] = None]
              /\ job' = [job EXCEPT ![i] = NoJob]
              /\ UNCHANGED <<sessions, told, dataPool>>
         ELSE \E lua \in BOOLEAN :
              LET f == Finished(sessions[p.session], p.request, job[i].result, lua) IN
              ProcessNext(p.session, f.session, {i}, f.said, lua)
    /\ batch' = Tail(batch)
    /\ UNCHANGED <<online, faults, database>>
=============================================================================
