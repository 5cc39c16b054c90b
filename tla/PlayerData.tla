----------------------------- MODULE PlayerData -----------------------------
(***************************************************************************)
(* MongoPlayerDataStore, the accounts and characters: what each operation  *)
(* reads and writes in the database.  Every write is majority committed,   *)
(* so one database operation is one step; an operation that makes several  *)
(* is several steps, and other clients may act between them.               *)
(*                                                                         *)
(* A transaction is one step: the bodies write the account document (or    *)
(* the bootstrap marker) first, so two that could disturb each other       *)
(* conflict there and the driver runs one of them again.                   *)
(***************************************************************************)
EXTENDS Integers, FiniteSets

CONSTANTS
    Accounts,     \* account ids
    Characters,   \* character ids random_character_id may draw
    Names,        \* character names
    Realm,        \* RealmSessions::realm_id
    OtherRealm,   \* another realm in the same database
    MaxCharacters, \* max_characters_per_account
    IdAttempts,   \* character_id_attempts
    Imported,     \* the account of the bootstrap file
    ImportedCharacter,
    ImportedName,
    None

ASSUME PlayerDataAssumption ==
    /\ IsFiniteSet(Accounts) /\ IsFiniteSet(Characters) /\ IsFiniteSet(Names)
    /\ Realm # OtherRealm
    /\ MaxCharacters \in Nat \ {0} /\ IdAttempts \in Nat \ {0}
    /\ Imported \in Accounts /\ ImportedCharacter \in Characters
    /\ ImportedName \in Names
    /\ None \notin Accounts \cup Characters \cup Names

(* The documents of the two collections. *)
AccountDoc == [selected : Characters \cup {None}]
CharacterDoc ==
    [account : Accounts, realm : {Realm, OtherRealm}, name : Names, exp : Int, seq : Int,
     created : BOOLEAN]

ASSUME DocumentsAssumption == None \notin AccountDoc \cup CharacterDoc

VARIABLES
    accounts,     \* collection accounts: None, or the document
    characters,   \* collection characters: None, or the document
    schema,       \* version of the schema marker, 0 if there is none
    marker        \* whether the bootstrap marker is there

database == <<accounts, characters, schema, marker>>

schema_version == 2

Missing == -1   \* a counter a schema 1 character does not have

NewAccount == [selected |-> None]

NewCharacter(a, realm, name) ==
    [account |-> a, realm |-> realm, name |-> name, exp |-> 0, seq |-> 0, created |-> FALSE]

(* An empty database, or one that schema 1 has left behind. *)
InitData ==
    /\ marker = FALSE
    /\ \/ /\ schema = 0
          /\ accounts = [a \in Accounts |-> None]
          /\ characters = [c \in Characters |-> None]
       \/ /\ schema = 1
          /\ accounts = [a \in Accounts |->
               [selected |-> IF a = Imported THEN ImportedCharacter ELSE None]]
          /\ characters = [c \in Characters |->
               IF c # ImportedCharacter THEN None
               ELSE [NewCharacter(Imported, Realm, ImportedName)
                       EXCEPT !.exp = Missing, !.seq = Missing]]

-----------------------------------------------------------------------------
(* Reads.                                                                  *)

(* The filter of realm_character and of record_training. *)
Owned(a, realm, c) ==
    /\ characters[c] # None
    /\ characters[c].account = a
    /\ characters[c].realm = realm

(* The (realm_id, name) index admits the name for character c. *)
NameFree(realm, name, c) ==
    ~\E d \in Characters \ {c} :
        characters[d] # None /\ characters[d].realm = realm /\ characters[d].name = name

(* What the realm sees of a character. *)
RealmCharacter(c) == [id |-> c, exp |-> characters[c].exp, seq |-> characters[c].seq]

Roster(a, realm) == {c \in Characters : Owned(a, realm, c)}

(* list_characters; the last selection only if it is in the list. *)
ListCharacters(a, realm) ==
    [characters |-> {RealmCharacter(c) : c \in Roster(a, realm)},
     selected   |-> IF accounts[a] # None /\ accounts[a].selected \in Roster(a, realm)
                      THEN accounts[a].selected ELSE None]

-----------------------------------------------------------------------------
(* The realm's writes.                                                     *)

(* create_character, the transaction of one attempt. *)
CreateTxn(a, realm, name, c) ==
    CASE accounts[a] = None -> "missing_account"
      [] Cardinality(Roster(a, realm)) >= MaxCharacters -> "limit"
      [] characters[c] # None \/ ~NameFree(realm, name, c) -> "duplicate_key"
      [] OTHER -> "created"

(* roster_seq, which the transaction also counts up, only orders the list. *)
ApplyCreate(a, realm, name, c) ==
    /\ characters' = IF CreateTxn(a, realm, name, c) = "created"
                       THEN [characters EXCEPT ![c] =
                               [NewCharacter(a, realm, name) EXCEPT !.created = TRUE]]
                       ELSE characters
    /\ UNCHANGED <<accounts, schema, marker>>

(* The filter of record_training: the stored sequence is one behind. *)
TrainingMatches(a, realm, c, seq) ==
    Owned(a, realm, c) /\ characters[c].seq = seq - 1

(* Mutant of ApplyTraining: the write counts the stored sequence up,       *)
(* whichever it was computed for.                                          *)
ApplyTrainingCounts(a, realm, c, seq, exp) ==
    /\ characters' = IF Owned(a, realm, c)
                       THEN [characters EXCEPT ![c].seq = @ + 1, ![c].exp = exp]
                       ELSE characters
    /\ UNCHANGED <<accounts, schema, marker>>

ApplyTraining(a, realm, c, seq, exp) ==
    /\ characters' = IF TrainingMatches(a, realm, c, seq)
                       THEN [characters EXCEPT ![c].seq = seq, ![c].exp = exp]
                       ELSE characters
    /\ UNCHANGED <<accounts, schema, marker>>

(* choose_character and select_character, after the ownership check. *)
WriteSelected(a, c) ==
    /\ accounts' = IF accounts[a] # None
                     THEN [accounts EXCEPT ![a].selected = c] ELSE accounts
    /\ UNCHANGED <<characters, schema, marker>>

-----------------------------------------------------------------------------
(* Provisioning.                                                           *)

(* provision_account: an upsert of the admission fields, which the realm   *)
(* does not read; the selection survives.                                  *)
ProvisionAccount(a) ==
    /\ accounts' = [accounts EXCEPT ![a] = IF @ = None THEN NewAccount ELSE @]
    /\ UNCHANGED <<characters, schema, marker>>

(* Mutant of Provisionable: the owner is not part of the filter. *)
ProvisionableByAnyone(a, realm, name, c) ==
    accounts[a] # None /\ NameFree(realm, name, c)

(* provision_character goes through: the account exists and the upsert     *)
(* finds the character with this owner, or inserts it, without breaking an *)
(* index.                                                                  *)
Provisionable(a, realm, name, c) ==
    /\ accounts[a] # None
    /\ characters[c] = None \/ Owned(a, realm, c)
    /\ NameFree(realm, name, c)

(* provision_character: name and revision, the counters only on insert. *)
ProvisionCharacter(a, realm, name, c) ==
    /\ Provisionable(a, realm, name, c)
    /\ characters' = [characters EXCEPT ![c] =
         IF @ = None THEN NewCharacter(a, realm, name)
         ELSE [@ EXCEPT !.account = a, !.realm = realm, !.name = name]]
    /\ UNCHANGED <<accounts, schema, marker>>

-----------------------------------------------------------------------------
(* What a service does when it connects: ensure_schema, then the bootstrap *)
(* import.                                                                 *)

(* The marker is inserted if it is absent, and its version returned. *)
UpsertSchema ==
    /\ schema' = IF schema = 0 THEN schema_version ELSE schema
    /\ UNCHANGED <<accounts, characters, marker>>

(* Mutant of MigrateField: the field is reset, wherever it is. *)
MigrateFieldAll(field) ==
    /\ characters' = [c \in Characters |->
         IF characters[c] # None
           THEN [characters[c] EXCEPT ![field] = 0] ELSE characters[c]]
    /\ UNCHANGED <<accounts, schema, marker>>

(* migrate_to_v2, one of its two update_many: fill in the field where it   *)
(* does not exist.                                                         *)
MigrateField(field) ==
    /\ characters' = [c \in Characters |->
         IF characters[c] # None /\ characters[c][field] = Missing
           THEN [characters[c] EXCEPT ![field] = 0] ELSE characters[c]]
    /\ UNCHANGED <<accounts, schema, marker>>

MarkMigrated ==
    /\ schema' = IF schema < schema_version THEN schema_version ELSE schema
    /\ UNCHANGED <<accounts, characters, marker>>

bootstrap_pending == ~marker /\ \A a \in Accounts : accounts[a] = None

(* Mutant of ImportTxn: the transaction trusts the earlier check. *)
ImportTxnBlind ==
    /\ marker' = TRUE
    /\ accounts' = [accounts EXCEPT ![Imported] =
         [NewAccount EXCEPT !.selected = ImportedCharacter]]
    /\ characters' = [characters EXCEPT ![ImportedCharacter] =
         NewCharacter(Imported, Realm, ImportedName)]
    /\ UNCHANGED schema

(* bootstrap_from_lua, the transaction; it looks again. *)
ImportTxn ==
    IF bootstrap_pending
      THEN /\ marker' = TRUE
           /\ accounts' = [accounts EXCEPT ![Imported] =
                [NewAccount EXCEPT !.selected = ImportedCharacter]]
           /\ characters' = [characters EXCEPT ![ImportedCharacter] =
                NewCharacter(Imported, Realm, ImportedName)]
           /\ UNCHANGED schema
      ELSE UNCHANGED database
=============================================================================
