----------------------------- MODULE RealmFrame -----------------------------
(***************************************************************************)
(* RealmFrame: the realm's frame thread over the events of its edge        *)
(* runtime, the start of the services that share the database, and the     *)
(* provisioning of accounts.                                               *)
(*                                                                         *)
(* Of the edge runtime the frame relies on what module EdgeRuntime shows:  *)
(* a connection is opened once, closed once, and silent after that.        *)
(***************************************************************************)
EXTENDS RealmSessions

CONSTANTS
    Players,       \* accounts that come with a ticket
    Services,      \* services that connect to the database
    RealmService,  \* the one this is
    MaxMessages    \* bound on the requests that are not answered at once

ASSUME FrameAssumption ==
    /\ Players \subseteq Accounts
    /\ RealmService \in Services
    /\ MaxMessages \in Nat

VARIABLES
    authenticated,  \* authenticated_: None, the account, or "closed"
    start,          \* how far each service has come in connecting
    messages,       \* requests that were not answered at once, so far
    selecting       \* a select_character between its two operations

(* The requests a client may send. *)
Requests ==
    {Request("list", None)} \cup
    {Request("create", n) : n \in Names \cup {None}} \cup
    {Request("select", c) : c \in Characters \cup {None}} \cup
    {Request("train", q) : q \in 0..(MaxLevelExp + 1)}

(* What the realm keeps of a character, a session and a data access. *)
Cached == [id : Characters, exp : Int, seq : Int]
Session ==
    [account : Accounts, phase : {"Selecting", "InGame"}, character : Cached \cup {None},
     busy : BOOLEAN, waiting : Seq(Requests)]
Access ==
    [session : Sessions, account : Accounts, request : Requests,
     character : Characters \cup {None}, exp : Int \cup {None}]

ASSUME NoneAssumption ==
    /\ None \notin Sessions \cup Requests \cup Session \cup Access
    /\ None \notin [account : Accounts, character : Characters]
    /\ None # "closed"

frame   == <<authenticated, messages>>
world   == <<start, selecting>>
dynamic == <<tables, batch, faults, told, dataPool>>
vars    == <<database, dynamic, frame, world>>

Init ==
    /\ InitData /\ InitSessions
    /\ authenticated = [s \in Sessions |-> None]
    /\ start = [v \in Services |-> "connect"]
    /\ messages = 0 /\ selecting = None

-----------------------------------------------------------------------------
(* The constructor of the store, in each service.                          *)
Starting(v, from, to) == start[v] = from /\ start' = [start EXCEPT ![v] = to]

StartStep(v) ==
    /\ \/ /\ Starting(v, "connect",
                      IF schema \in {0, schema_version} THEN "check" ELSE "migrate_exp")
          /\ UpsertSchema
       \/ Starting(v, "migrate_exp", "migrate_seq") /\ MigrateField("exp")
       \/ Starting(v, "migrate_seq", "mark") /\ MigrateField("seq")
       \/ Starting(v, "mark", "check") /\ MarkMigrated
       \/ /\ Starting(v, "check", IF bootstrap_pending THEN "import" ELSE "serving")
          /\ UNCHANGED database
       \/ Starting(v, "import", "serving") /\ ImportTxn
    /\ faults' = IF v # RealmService /\ start[v] = "connect" THEN faults + 1 ELSE faults
    /\ faults' <= MaxFaults
    /\ UNCHANGED <<tables, batch, told, dataPool, frame, selecting>>

-----------------------------------------------------------------------------
(* tick: one event.  The frame thread is at its events while batch = <<>>. *)
AtEvents == start[RealmService] = "serving" /\ batch = <<>>

(* ConnectionClosed, whoever closed: the peer, the realm after a refusal or *)
(* a displacement, or the outbox when a reply found its queue full.         *)
Closed(s) ==
    /\ AtEvents /\ authenticated[s] \in Accounts
    /\ authenticated' = [authenticated EXCEPT ![s] = "closed"]
    /\ Forget(s, authenticated[s])
    /\ UNCHANGED <<database, batch, faults, told, dataPool, messages, world>>

(* handle_enter_realm, with a ticket that redeem accepted for this realm.  *)
(* Every other ticket, and a second entry, is refused and changes nothing. *)
EnterRealm(s, a) ==
    /\ AtEvents /\ authenticated[s] = None
    /\ authenticated' = [authenticated EXCEPT ![s] = a]
    /\ Enter(s, a)
    /\ UNCHANGED <<database, batch, faults, told, dataPool, messages, world>>

(* A request.  It reaches RealmSessions only from a connection that has    *)
(* entered and was not displaced.  A message before the entry, a repeated  *)
(* entry, a heartbeat or an unknown message changes nothing here.          *)
Message(s, r) ==
    /\ AtEvents /\ authenticated[s] \in Accounts
    /\ Handle(s, r)
    /\ messages' = IF tables' = tables THEN messages ELSE messages + 1
    /\ messages' <= MaxMessages
    /\ UNCHANGED <<database, batch, faults, authenticated, world>>

-----------------------------------------------------------------------------
(* The world around the frame.                                             *)

Data ==
    \/ TakeJob
    \/ \E i \in DataIds : JobStep(i) \/ JobFails(i)

FrameData == DrainBatch \/ Visit

(* Provisioning by an operator or a fixture, through its own store. *)
Admin ==
    /\ \E v \in Services : start[v] = "serving"
    /\ faults < MaxFaults
    /\ faults' = faults + 1
    /\ \/ /\ \E a \in Accounts : ProvisionAccount(a)
          /\ UNCHANGED selecting
       \/ /\ \E a \in Accounts, c \in Characters, n \in Names, realm \in {Realm, OtherRealm} :
               ProvisionCharacter(a, realm, n, c)
          /\ UNCHANGED selecting
       \/ /\ selecting = None   \* select_character, the ownership check
          /\ \E a \in Accounts, c \in Characters :
               /\ characters[c] # None /\ characters[c].account = a
               /\ selecting' = [account |-> a, character |-> c]
          /\ UNCHANGED database
    /\ UNCHANGED start

(* select_character, the write. *)
AdminSelect ==
    /\ selecting # None
    /\ WriteSelected(selecting.account, selecting.character)
    /\ selecting' = None
    /\ UNCHANGED start

Next ==
    \/ \E v \in Services : StartStep(v)
    \/ \E s \in Sessions :
         \/ Closed(s)
         \/ \E a \in Players : EnterRealm(s, a)
         \/ \E r \in Requests : Message(s, r)
    \/ Data /\ UNCHANGED <<frame, world>>
    \/ FrameData /\ UNCHANGED <<frame, world>>
    \/ Admin /\ UNCHANGED <<tables, batch, told, dataPool, frame>>
    \/ AdminSelect /\ UNCHANGED <<dynamic, frame>>

Spec == Init /\ [][Next]_vars

-----------------------------------------------------------------------------
(* What the rule gives after n trainings. *)
ExpAfter[n \in 0..MaxLevelExp] == IF n = 0 THEN 0 ELSE Train(ExpAfter[n - 1])

HasCounters(c) == c # None /\ Missing \notin {c.exp, c.seq}

(* A stored character has the experience of exactly the trainings its      *)
(* sequence number counts, and these are counted one at a time and for     *)
(* good: a write that is repeated, whose answer was lost, or that was left *)
(* behind by a session that was displaced, neither takes a later training  *)
(* back nor counts one twice, and no migration or provisioning beside it   *)
(* touches what was counted.                                               *)
ExperienceSound ==
    [][\A c \in Characters :
         LET old == characters[c]  new == characters'[c] IN
         /\ HasCounters(new) => new.exp = ExpAfter[new.seq]
         /\ HasCounters(old) => HasCounters(new) /\ new.seq \in {old.seq, old.seq + 1}]_characters

(* A client is only told of a character what the database holds for good:  *)
(* the told state was stored, and the stored character never falls behind  *)
(* it, whatever bootstrap, migration or provisioning runs beside it.       *)
TrueReplies ==
    \A c \in told :
        /\ characters[c.id] # None
        /\ c.seq <= characters[c.id].seq
        /\ c.exp = ExpAfter[c.seq]

(* online_ and sessions_ agree: every session is the one its account is    *)
(* online with, and a late close of a displaced session takes nothing from *)
(* the session that displaced it.                                          *)
OneSessionPerAccount ==
    /\ \A s \in Live : online[sessions[s].account] = s
    /\ \A a \in Accounts : online[a] # None =>
           online[a] \in Live /\ sessions[online[a]].account = a

(* A selected character belongs to the account that selected it, names are *)
(* unique in a realm, and no race of creations exceeds the limit.          *)
RosterSound ==
    /\ \A a \in Accounts : accounts[a] # None /\ accounts[a].selected # None =>
           /\ characters[accounts[a].selected] # None
           /\ characters[accounts[a].selected].account = a
    /\ \A c \in Characters : characters[c] # None =>
           NameFree(characters[c].realm, characters[c].name, c)
    /\ \A a \in Accounts, realm \in {Realm, OtherRealm} :
           Cardinality({c \in Roster(a, realm) : characters[c].created}) <= MaxCharacters

(* No session is stuck: requests wait only behind a data access, a busy    *)
(* session has exactly one, and that one is queued, running or completed.  *)
(* A session that was displaced or closed leaves accesses of its own, and  *)
(* none of them is taken for an access of its successor.                   *)
BusyMatched ==
    LET held == {queue[i] : i \in DOMAIN queue} \cup working
                  \cup {done[i] : i \in DOMAIN done} \cup {batch[i] : i \in DOMAIN batch}
        Accesses(s) == {i \in held : pending[i] # None /\ pending[i].session = s}
    IN  /\ \A s \in Live :
             /\ sessions[s].waiting # <<>> => sessions[s].busy
             /\ Cardinality(Accesses(s)) = (IF sessions[s].busy THEN 1 ELSE 0)
        /\ held = {i \in DataIds : pending[i] # None}

(* Sessions, accounts and data accesses agree, through every displacement, *)
(* close and late completion.                                              *)
SessionsSound == OneSessionPerAccount /\ BusyMatched
=============================================================================
