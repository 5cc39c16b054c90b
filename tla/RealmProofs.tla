----------------------------- MODULE RealmProofs -----------------------------
(****************************************************************************)
(* The realm over its database, for any sets of accounts, characters, names *)
(* and sessions, any bounds on their number, and any interleaving of the    *)
(* I/O loop, the workers, the services that start and the operators: the    *)
(* experience of a stored character is the rule's, a client is told nothing *)
(* the database does not hold, no two characters share a name and no roster *)
(* grows over its limit, and the sessions, accounts and connections of the  *)
(* realm belong together.                                                   *)
(*                                                                          *)
(* The inductive invariant Inv has two halves. DataInv is about the         *)
(* collections and the services that bring the schema forward; it is kept   *)
(* by every operation of PlayerData whoever calls it, so the Moves lemmas   *)
(* state it once for each. TablesInv is about the realm's memory: its       *)
(* tables, the work pool and the data accesses under way. What a data       *)
(* access read may be behind the database when it is used, and the proof    *)
(* rests on the database only ever growing (Grows): Valid, what the realm   *)
(* says of a character, is a state the database has passed.                 *)
(****************************************************************************)
EXTENDS RealmFrame, FiniteSetTheorems, WellFoundedInduction, TLAPS

(* The parts of the inductive invariant. *)
Steps == {"connect", "migrate_exp", "migrate_seq", "mark", "check", "import", "serving"}

(* A stored character: its experience counts its trainings, once schema 2 has given it counters. *)
Counted(c) ==
    \/ c.seq = Missing /\ c.exp \in {Missing, 0}
    \/ c.seq \in 0..MaxLevelExp /\ c.exp = c.seq

Complete(ch) == \A c \in Characters : ch[c] # None => ch[c].seq # Missing

Selections(ac, ch) ==
    \A a \in Accounts : ac[a] # None /\ ac[a].selected # None =>
        ch[ac[a].selected] # None /\ ch[ac[a].selected].account = a

NamesUnique(ch) ==
    \A c, d \in Characters : c # d /\ ch[c] # None /\ ch[d] # None =>
        ~(ch[c].realm = ch[d].realm /\ ch[c].name = ch[d].name)

Created(ch, a, realm) ==
    {c \in Characters : ch[c] # None /\ ch[c].account = a /\ ch[c].realm = realm /\ ch[c].created}

WithinLimit(ch) ==
    \A a \in Accounts : \A realm \in {Realm, OtherRealm} :
        Cardinality(Created(ch, a, realm)) <= MaxCharacters

(* What the collections hold, whatever the services are doing. *)
DataOk(ac, ch) ==
    /\ ac \in [Accounts -> AccountDoc \cup {None}]
    /\ ch \in [Characters -> CharacterDoc \cup {None}]
    /\ \A c \in Characters : ch[c] # None => Counted(ch[c]) /\ ac[ch[c].account] # None
    /\ Selections(ac, ch)
    /\ NamesUnique(ch)
    /\ WithinLimit(ch)

(* No operation deletes a document, moves a character, takes a training back or counts two. *)
Grows(ch, new) ==
    \A c \in Characters : ch[c] # None =>
        /\ new[c] # None
        /\ new[c].account = ch[c].account /\ new[c].realm = ch[c].realm
        /\ ch[c].seq <= new[c].seq /\ new[c].seq <= ch[c].seq + 1

(* No operation brings a schema 1 character. *)
Fills(ch, new) ==
    \A c \in Characters : new[c] # None =>
        /\ new[c].exp = Missing => ch[c] # None /\ ch[c].exp = Missing
        /\ new[c].seq = Missing => ch[c] # None /\ ch[c].seq = Missing

Moves == DataOk(accounts', characters') /\ Grows(characters, characters') /\ Fills(characters, characters')

-----------------------------------------------------------------------------
(* The database operations. *)
LEMMA LimitKept ==
    ASSUME NEW ch, NEW new, WithinLimit(ch),
           \A c \in Characters : new[c] # None /\ new[c].created =>
               /\ ch[c] # None /\ ch[c].created
               /\ ch[c].account = new[c].account /\ ch[c].realm = new[c].realm
    PROVE  WithinLimit(new)
<1> SUFFICES ASSUME NEW a \in Accounts, NEW realm \in {Realm, OtherRealm}
             PROVE  Cardinality(Created(new, a, realm)) <= MaxCharacters
  BY DEF WithinLimit
<1>1. Created(new, a, realm) \in SUBSET Created(ch, a, realm)
  BY DEF Created
<1>2. IsFiniteSet(Created(ch, a, realm))
  <2>1. Created(ch, a, realm) \in SUBSET Characters
    BY DEF Created
  <2> QED BY <2>1, PlayerDataAssumption, FS_Subset DEF PlayerDataAssumption
<1>3. Cardinality(Created(new, a, realm)) <= Cardinality(Created(ch, a, realm))
  BY <1>1, <1>2, FS_Subset
<1>4. Cardinality(Created(ch, a, realm)) <= MaxCharacters
  BY DEF WithinLimit
<1>5. /\ Cardinality(Created(new, a, realm)) \in Nat
      /\ Cardinality(Created(ch, a, realm)) \in Nat
      /\ MaxCharacters \in Nat
  BY <1>1, <1>2, FS_Subset, FS_CardinalityType, PlayerDataAssumption DEF PlayerDataAssumption
<1> QED BY <1>3, <1>4, <1>5

(* A change of the accounts only, *)
LEMMA AccountsMove ==
    ASSUME DataOk(accounts, characters), characters' = characters,
           accounts' \in [Accounts -> AccountDoc \cup {None}],
           \A a \in Accounts : accounts[a] # None => accounts'[a] # None,
           Selections(accounts', characters)
    PROVE  Moves
<1>1. Grows(characters, characters') /\ Fills(characters, characters')
  BY DEF Grows, Fills, DataOk, CharacterDoc
<1>2. \A c \in Characters : characters[c] # None => characters[c].account \in Accounts
  BY DEF DataOk, CharacterDoc
<1> QED BY <1>1, <1>2 DEF Moves, DataOk

(* an operation that fails changes nothing, *)
LEMMA UnchangedMoves ==
    ASSUME DataOk(accounts, characters), UNCHANGED <<accounts, characters>>
    PROVE  Moves
BY AccountsMove DEF DataOk

(* select_character sets the selection of an account to one of its characters, *)
LEMMA SelectMoves ==
    ASSUME DataOk(accounts, characters), NEW a \in Accounts, NEW c \in Characters,
           characters[c] # None, characters[c].account = a, WriteSelected(a, c)
    PROVE  Moves
<1>1. c # None
  BY PlayerDataAssumption DEF PlayerDataAssumption
<1>2. CASE accounts[a] = None
  BY <1>2, AccountsMove DEF WriteSelected, DataOk
<1>3. CASE accounts[a] # None
  <2> DEFINE doc == [accounts[a] EXCEPT !.selected = c]
  <2>1. accounts' = [accounts EXCEPT ![a] = doc]
    BY <1>3 DEF WriteSelected
  <2>2. doc \in AccountDoc /\ doc.selected = c /\ doc # None
    BY <1>3, DocumentsAssumption DEF DataOk, AccountDoc, DocumentsAssumption
  <2> HIDE DEF doc
  <2>3. Selections(accounts', characters)
    BY <2>1, <2>2 DEF DataOk, Selections
  <2> QED BY <2>1, <2>2, <2>3, AccountsMove DEF WriteSelected, DataOk
<1> QED BY <1>2, <1>3

(* and provision_account writes the account of an operator. *)
LEMMA ProvisionAccountMoves ==
    ASSUME DataOk(accounts, characters), NEW a \in Accounts, ProvisionAccount(a)
    PROVE  Moves
<1>1. NewAccount \in AccountDoc /\ NewAccount.selected = None /\ NewAccount # None
  BY DocumentsAssumption DEF NewAccount, AccountDoc, DocumentsAssumption
<1>2. accounts' = [accounts EXCEPT ![a] = IF accounts[a] = None THEN NewAccount ELSE accounts[a]]
  BY DEF ProvisionAccount
<1>3. Selections(accounts', characters)
  BY <1>1, <1>2 DEF DataOk, Selections
<1> QED BY <1>1, <1>2, <1>3, AccountsMove DEF ProvisionAccount, DataOk

(* and of one character. *)
LEMMA CharacterMoves ==
    ASSUME DataOk(accounts, characters), accounts' = accounts,
           NEW c \in Characters, NEW doc \in CharacterDoc,
           characters' = [characters EXCEPT ![c] = doc],
           Counted(doc), accounts[doc.account] # None,
           characters[c] # None =>
               /\ doc.account = characters[c].account /\ doc.realm = characters[c].realm
               /\ characters[c].seq <= doc.seq /\ doc.seq <= characters[c].seq + 1,
           doc.exp = Missing => characters[c] # None /\ characters[c].exp = Missing,
           doc.seq = Missing => characters[c] # None /\ characters[c].seq = Missing,
           NameFree(doc.realm, doc.name, c),
           WithinLimit(characters')
    PROVE  Moves
<1>1. doc # None
  BY DocumentsAssumption DEF DocumentsAssumption
<1>2. characters \in [Characters -> CharacterDoc \cup {None}]
  BY DEF DataOk
<1>3. \A d \in Characters : characters'[d] = IF d = c THEN doc ELSE characters[d]
  BY <1>2
<1>4. Grows(characters, characters')
  BY <1>1, <1>2, <1>3 DEF Grows, CharacterDoc
<1>5. Fills(characters, characters')
  BY <1>1, <1>3 DEF Fills
<1>6. Selections(accounts', characters')
  BY <1>1, <1>3 DEF DataOk, Selections
<1>7. NamesUnique(characters')
  BY <1>1, <1>3 DEF DataOk, NamesUnique, NameFree
<1>8. characters' \in [Characters -> CharacterDoc \cup {None}]
  BY <1>2
<1>9. \A d \in Characters : characters'[d] # None =>
          Counted(characters'[d]) /\ accounts'[characters'[d].account] # None
  BY <1>3 DEF DataOk
<1> QED BY <1>4, <1>5, <1>6, <1>7, <1>8, <1>9 DEF Moves, DataOk

(* A character as create_character makes it is a document, *)
LEMMA NewIsCharacter ==
    ASSUME NEW a \in Accounts, NEW realm \in {Realm, OtherRealm}, NEW n \in Names
    PROVE  LET x == NewCharacter(a, realm, n) IN
           /\ x \in CharacterDoc /\ x.account = a /\ x.realm = realm /\ x.name = n
           /\ x.exp = 0 /\ x.seq = 0 /\ ~x.created
BY DEF NewCharacter, CharacterDoc

(* and counts as created. *)
LEMMA CreatedDoc ==
    ASSUME NEW x \in CharacterDoc
    PROVE  LET y == [x EXCEPT !.created = TRUE] IN
           /\ y \in CharacterDoc /\ y.account = x.account /\ y.realm = x.realm
           /\ y.name = x.name /\ y.exp = x.exp /\ y.seq = x.seq /\ y.created
BY DEF CharacterDoc

(* create_character inserts it if the name is free and the roster not full. *)
LEMMA CreateMoves ==
    ASSUME DataOk(accounts, characters), NEW a \in Accounts, NEW n \in Names,
           NEW c \in Characters, ApplyCreate(a, Realm, n, c)
    PROVE  Moves
<1>1. CASE CreateTxn(a, Realm, n, c) # "created"
  BY <1>1, UnchangedMoves DEF ApplyCreate
<1>2. CASE CreateTxn(a, Realm, n, c) = "created"
  <2> DEFINE doc == [NewCharacter(a, Realm, n) EXCEPT !.created = TRUE]
  <2>1. /\ accounts[a] # None /\ characters[c] = None /\ NameFree(Realm, n, c)
        /\ ~(Cardinality(Roster(a, Realm)) >= MaxCharacters)
    BY <1>2 DEF CreateTxn
  <2>2. characters' = [characters EXCEPT ![c] = doc] /\ accounts' = accounts
    BY <1>2 DEF ApplyCreate
  <2>3. NewCharacter(a, Realm, n) \in CharacterDoc
    BY NewIsCharacter
  <2>4. /\ doc \in CharacterDoc /\ doc.account = a /\ doc.realm = Realm /\ doc.name = n
        /\ doc.exp = 0 /\ doc.seq = 0 /\ doc.created
    BY <2>3, NewIsCharacter, CreatedDoc
  <2> HIDE DEF doc
  <2>5. Counted(doc) /\ doc.exp # Missing /\ doc.seq # Missing
    BY <2>4, SessionsAssumption DEF Counted, Missing, SessionsAssumption
  <2>6. \A d \in Characters : characters'[d] = IF d = c THEN doc ELSE characters[d]
    BY <2>2 DEF DataOk
  <2>7. doc # None
    BY <2>4, DocumentsAssumption DEF DocumentsAssumption
  <2>8. WithinLimit(characters')
    <3> SUFFICES ASSUME NEW b \in Accounts, NEW realm \in {Realm, OtherRealm}
                 PROVE  Cardinality(Created(characters', b, realm)) <= MaxCharacters
      BY DEF WithinLimit
    <3>1. CASE ~(b = a /\ realm = Realm)
      <4>1. Created(characters', b, realm) = Created(characters, b, realm)
        BY <2>1, <2>4, <2>6, <2>7, <3>1 DEF Created
      <4> QED BY <4>1 DEF DataOk, WithinLimit
    <3>2. CASE b = a /\ realm = Realm
      <4>1. Created(characters', b, realm) \in SUBSET (Roster(a, Realm) \cup {c})
        BY <2>6, <3>2 DEF Created, Roster, Owned
      <4>2. IsFiniteSet(Roster(a, Realm))
        <5>1. Roster(a, Realm) \in SUBSET Characters
          BY DEF Roster
        <5> QED BY <5>1, PlayerDataAssumption, FS_Subset DEF PlayerDataAssumption
      <4>3. /\ Cardinality(Roster(a, Realm)) \in Nat
            /\ IsFiniteSet(Roster(a, Realm) \cup {c})
            /\ Cardinality(Roster(a, Realm) \cup {c}) <= Cardinality(Roster(a, Realm)) + 1
        <5>1. Cardinality(Roster(a, Realm)) \in Nat
          BY <4>2, FS_CardinalityType
        <5>2. /\ IsFiniteSet(Roster(a, Realm) \cup {c})
              /\ Cardinality(Roster(a, Realm) \cup {c}) =
                   IF c \in Roster(a, Realm) THEN Cardinality(Roster(a, Realm))
                   ELSE Cardinality(Roster(a, Realm)) + 1
          BY <4>2, FS_AddElement
        <5> QED BY <5>1, <5>2
      <4>4. /\ Cardinality(Created(characters', b, realm))
                 <= Cardinality(Roster(a, Realm) \cup {c})
            /\ Cardinality(Created(characters', b, realm)) \in Nat
            /\ Cardinality(Roster(a, Realm) \cup {c}) \in Nat
        BY <4>1, <4>3, FS_Subset, FS_CardinalityType
      <4>5. MaxCharacters \in Nat
        BY PlayerDataAssumption DEF PlayerDataAssumption
      <4> QED BY <2>1, <4>3, <4>4, <4>5
    <3> QED BY <3>1, <3>2
  <2>9. NameFree(doc.realm, doc.name, c)
    BY <2>1, <2>4
  <2> QED BY <2>1, <2>2, <2>4, <2>5, <2>8, <2>9, CharacterMoves
<1> QED BY <1>1, <1>2

-----------------------------------------------------------------------------
(* A nonempty set of natural numbers has a least element. *)
LEMMA LeastOf ==
    ASSUME NEW T, T \subseteq Nat, T # {}
    PROVE  \E x \in T : \A y \in T : x <= y
<1> DEFINE R == {p \in Nat \X Nat : p[1] < p[2]}
<1>1. IsWellFoundedOn(R, Nat)
  BY NatLessThanWellFounded, Zenon DEF OpToRel
<1> HIDE DEF R
<1>2. PICK x \in T : \A y \in T : ~(<<y, x>> \in R)
  BY <1>1, WFMin
<1>3. \A y \in T : ~(y < x)
  BY <1>2 DEF R
<1> QED BY <1>2, <1>3

(* The recursion of ExpAfter has a solution, *)
LEMMA ExpAfterRec ==
    \A n \in 0..MaxLevelExp : ExpAfter[n] = IF n = 0 THEN 0 ELSE Train(ExpAfter[n - 1])
<1> DEFINE f == [n \in 0..MaxLevelExp |-> n]
           Rec(g) == [n \in 0..MaxLevelExp |-> IF n = 0 THEN 0 ELSE Train(g[n - 1])]
<1>1. MaxLevelExp \in Nat
  BY SessionsAssumption DEF SessionsAssumption
<1>2. \A n \in 0..MaxLevelExp : n # 0 => Train(f[n - 1]) = n
  <2> SUFFICES ASSUME NEW n \in 0..MaxLevelExp, n # 0 PROVE Train(f[n - 1]) = n
    OBVIOUS
  <2>1. n - 1 \in 0..MaxLevelExp /\ n - 1 < MaxLevelExp /\ n - 1 + 1 = n
    BY <1>1
  <2> QED BY <2>1 DEF Train
<1>3. \A n \in 0..MaxLevelExp : (IF n = 0 THEN 0 ELSE Train(f[n - 1])) = n
  BY <1>2
<1>4. f = Rec(f)
  BY <1>3
<1>5. ExpAfter = Rec(ExpAfter)
  <2> HIDE DEF f
  <2> QED BY <1>4 DEF ExpAfter
<1> HIDE DEF f
<1> QED BY <1>5

(* and it is the number of trainings. *)
LEMMA ExpAfterIs == \A n \in 0..MaxLevelExp : ExpAfter[n] = n
<1> SUFFICES ASSUME NEW m \in 0..MaxLevelExp, ExpAfter[m] # m PROVE FALSE
  OBVIOUS
<1>1. MaxLevelExp \in Nat
  BY SessionsAssumption DEF SessionsAssumption
<1> DEFINE T == {n \in 0..MaxLevelExp : ExpAfter[n] # n}
<1>2. PICK x \in T : \A y \in T : x <= y
  <2>1. m \in T /\ T \subseteq Nat
    BY <1>1
  <2> HIDE DEF T
  <2> QED BY <2>1, LeastOf
<1>3. x # 0
  BY <1>1, <1>2, ExpAfterRec
<1>4. x - 1 \in 0..MaxLevelExp /\ x - 1 < MaxLevelExp /\ x - 1 + 1 = x /\ x - 1 \notin T
  BY <1>1, <1>2, <1>3
<1>5. ExpAfter[x] = Train(x - 1)
  BY <1>2, <1>3, <1>4, ExpAfterRec
<1>6. Train(x - 1) = x
  BY <1>4 DEF Train
<1> QED BY <1>2, <1>5, <1>6

Trained(x, q, e) == [x EXCEPT !.seq = q, !.exp = e]
Renamed(x, a, r, n) == [x EXCEPT !.account = a, !.realm = r, !.name = n]

(* Training writes two fields of a document, *)
LEMMA TrainedDoc ==
    ASSUME NEW x \in CharacterDoc, NEW q \in Int, NEW e \in Int
    PROVE  LET y == Trained(x, q, e) IN
           /\ y \in CharacterDoc /\ y.account = x.account /\ y.realm = x.realm
           /\ y.name = x.name /\ y.exp = e /\ y.seq = q /\ y.created = x.created
BY DEF CharacterDoc, Trained

(* the migrations one each: the experience *)
LEMMA FilledExp ==
    ASSUME NEW x \in CharacterDoc
    PROVE  LET y == [x EXCEPT !.exp = 0] IN
           /\ y \in CharacterDoc /\ y.account = x.account /\ y.realm = x.realm
           /\ y.name = x.name /\ y.exp = 0 /\ y.seq = x.seq /\ y.created = x.created
BY DEF CharacterDoc

(* and the sequence number. *)
LEMMA FilledSeq ==
    ASSUME NEW x \in CharacterDoc
    PROVE  LET y == [x EXCEPT !.seq = 0] IN
           /\ y \in CharacterDoc /\ y.account = x.account /\ y.realm = x.realm
           /\ y.name = x.name /\ y.exp = x.exp /\ y.seq = 0 /\ y.created = x.created
BY DEF CharacterDoc

(* Two names of two characters that are not the same. *)
LEMMA NameStays ==
    ASSUME DataOk(accounts, characters), NEW c \in Characters, characters[c] # None
    PROVE  NameFree(characters[c].realm, characters[c].name, c)
BY DEF DataOk, NamesUnique, NameFree

(* The conditional write of a training raises both counters by one. *)
LEMMA TrainMoves ==
    ASSUME DataOk(accounts, characters), NEW a, NEW c \in Characters,
           NEW q \in 1..MaxLevelExp, ApplyTraining(a, Realm, c, q, q)
    PROVE  Moves
<1>1. CASE ~TrainingMatches(a, Realm, c, q)
  BY <1>1, UnchangedMoves DEF ApplyTraining
<1>2. CASE TrainingMatches(a, Realm, c, q)
  <2>0. MaxLevelExp \in Nat
    BY SessionsAssumption DEF SessionsAssumption
  <2> DEFINE x == characters[c]
             doc == Trained(x, q, q)
  <2>1. characters[c] # None /\ characters[c].seq = q - 1
    BY <1>2 DEF TrainingMatches, Owned
  <2>2. characters[c] \in CharacterDoc /\ q \in Int
    BY <2>0, <2>1 DEF DataOk
  <2>3. /\ doc \in CharacterDoc /\ doc.account = characters[c].account
        /\ doc.realm = characters[c].realm /\ doc.name = characters[c].name
        /\ doc.exp = q /\ doc.seq = q /\ doc.created = characters[c].created
    <3>1. x \in CharacterDoc /\ q \in Int
      BY <2>2
    <3>2. /\ doc \in CharacterDoc /\ doc.account = x.account
          /\ doc.realm = x.realm /\ doc.name = x.name
          /\ doc.exp = q /\ doc.seq = q /\ doc.created = x.created
      <4> HIDE DEF x
      <4> QED BY <3>1, TrainedDoc
    <3> QED BY <3>2
  <2>4. /\ accounts' = accounts
        /\ characters' = [characters EXCEPT ![c] = [characters[c] EXCEPT !.seq = q, !.exp = q]]
    BY <1>2 DEF ApplyTraining
  <2>5. characters' = [characters EXCEPT ![c] = doc]
    BY <2>4 DEF Trained
  <2> HIDE DEF doc
  <2>6. Counted(doc) /\ doc.exp # Missing /\ doc.seq # Missing
    BY <2>0, <2>3 DEF Counted, Missing
  <2>7. characters[c].seq <= doc.seq /\ doc.seq <= characters[c].seq + 1
    BY <2>0, <2>1, <2>3
  <2>8. \A d \in Characters : characters'[d] = IF d = c THEN doc ELSE characters[d]
    BY <2>5 DEF DataOk
  <2>9. WithinLimit(characters')
    BY <2>1, <2>3, <2>8, LimitKept DEF DataOk
  <2>10. NameFree(doc.realm, doc.name, c)
    BY <2>1, <2>3, NameStays
  <2>11. accounts[doc.account] # None
    BY <2>1, <2>3 DEF DataOk
  <2> QED BY <2>1, <2>3, <2>4, <2>5, <2>6, <2>7, <2>9, <2>10, <2>11, CharacterMoves
<1> QED BY <1>1, <1>2

(* Provisioning a character writes three fields of a document: of any record, *)
LEMMA RenamedRecord ==
    ASSUME NEW A, NEW R, NEW N, NEW E, NEW S, NEW B,
           NEW x \in [account : A, realm : R, name : N, exp : E, seq : S, created : B],
           NEW a \in A, NEW r \in R, NEW n \in N
    PROVE  LET y == Renamed(x, a, r, n) IN
           /\ y \in [account : A, realm : R, name : N, exp : E, seq : S, created : B]
           /\ y.account = a /\ y.realm = r
           /\ y.name = n /\ y.exp = x.exp /\ y.seq = x.seq /\ y.created = x.created
BY DEF Renamed

(* and of a character. *)
LEMMA RenamedDoc ==
    ASSUME NEW x \in CharacterDoc, NEW a \in Accounts, NEW realm \in {Realm, OtherRealm},
           NEW n \in Names
    PROVE  LET y == Renamed(x, a, realm, n) IN
           /\ y \in CharacterDoc /\ y.account = a /\ y.realm = realm
           /\ y.name = n /\ y.exp = x.exp /\ y.seq = x.seq /\ y.created = x.created
<1> DEFINE R == {Realm, OtherRealm}
           I == Int
           B == BOOLEAN
<1>1. CharacterDoc = [account : Accounts, realm : R, name : Names, exp : I, seq : I, created : B]
  BY DEF CharacterDoc
<1>2. realm \in R
  OBVIOUS
<1> HIDE DEF R, I, B
<1> QED BY <1>1, <1>2, RenamedRecord

(* provision_character keeps the counters of the character it finds. *)
LEMMA ProvisionCharacterMoves ==
    ASSUME DataOk(accounts, characters), NEW a \in Accounts, NEW realm \in {Realm, OtherRealm},
           NEW n \in Names, NEW c \in Characters, ProvisionCharacter(a, realm, n, c)
    PROVE  Moves
<1> DEFINE doc == IF characters[c] = None THEN NewCharacter(a, realm, n)
                  ELSE [characters[c] EXCEPT !.account = a, !.realm = realm, !.name = n]
<1>1. /\ accounts[a] # None /\ NameFree(realm, n, c)
      /\ characters[c] # None => characters[c].account = a /\ characters[c].realm = realm
  BY DEF ProvisionCharacter, Provisionable, Owned
<1>2. characters' = [characters EXCEPT ![c] = doc] /\ accounts' = accounts
  BY DEF ProvisionCharacter
<1>3. /\ doc \in CharacterDoc /\ doc.account = a /\ doc.realm = realm /\ doc.name = n
      /\ characters[c] = None => doc.exp = 0 /\ doc.seq = 0 /\ ~doc.created
      /\ characters[c] # None => /\ doc.exp = characters[c].exp /\ doc.seq = characters[c].seq
                                 /\ doc.created = characters[c].created
  <2>1. CASE characters[c] = None
    <3>1. doc = NewCharacter(a, realm, n)
      BY <2>1
    <3> HIDE DEF doc
    <3> QED BY <2>1, <3>1, NewIsCharacter
  <2>2. CASE characters[c] # None
    <3> DEFINE x == characters[c]
               y == Renamed(x, a, realm, n)
    <3>1. doc = y
      BY <2>2 DEF Renamed
    <3>2. x \in CharacterDoc
      BY <2>2 DEF DataOk
    <3>3. /\ y \in CharacterDoc /\ y.account = a /\ y.realm = realm
          /\ y.name = n /\ y.exp = x.exp /\ y.seq = x.seq /\ y.created = x.created
      <4> HIDE DEF x
      <4> QED BY <3>2, RenamedDoc
    <3> QED BY <2>2, <3>1, <3>3
  <2> QED BY <2>1, <2>2
<1> HIDE DEF doc
<1>4. characters[c] # None => characters[c].seq <= doc.seq /\ doc.seq <= characters[c].seq + 1
  BY <1>3 DEF CharacterDoc
<1>5. \A d \in Characters : characters'[d] = IF d = c THEN doc ELSE characters[d]
  BY <1>2 DEF DataOk
<1>6. WithinLimit(characters')
  BY <1>1, <1>3, <1>5, LimitKept DEF DataOk
<1>7. Counted(doc)
  <2>1. CASE characters[c] = None
    BY <1>3, <2>1, SessionsAssumption DEF Counted, SessionsAssumption
  <2>2. CASE characters[c] # None
    BY <1>3, <2>2 DEF Counted, DataOk
  <2> QED BY <2>1, <2>2
<1>8. /\ doc.exp = Missing => characters[c] # None /\ characters[c].exp = Missing
      /\ doc.seq = Missing => characters[c] # None /\ characters[c].seq = Missing
  BY <1>3 DEF Missing
<1> QED BY <1>1, <1>2, <1>3, <1>4, <1>6, <1>7, <1>8, CharacterMoves

(* A migration fills in a counter wherever it is missing. *)
LEMMA FilledMove ==
    ASSUME DataOk(accounts, characters), accounts' = accounts,
           characters' \in [Characters -> CharacterDoc \cup {None}],
           \A c \in Characters : characters'[c] # None =>
               /\ characters[c] # None /\ Counted(characters'[c])
               /\ characters'[c].account = characters[c].account
               /\ characters'[c].realm = characters[c].realm
               /\ characters'[c].name = characters[c].name
               /\ characters'[c].created = characters[c].created
               /\ characters[c].seq <= characters'[c].seq
               /\ characters'[c].seq <= characters[c].seq + 1
               /\ characters'[c].exp = Missing => characters[c].exp = Missing
               /\ characters'[c].seq = Missing => characters[c].seq = Missing,
           \A c \in Characters : characters[c] # None => characters'[c] # None
    PROVE  Moves
<1>1. Grows(characters, characters') /\ Fills(characters, characters')
  BY DEF Grows, Fills
<1>2. WithinLimit(characters')
  BY LimitKept DEF DataOk
<1>3. NamesUnique(characters') /\ Selections(accounts', characters')
  <2>1. NamesUnique(characters')
    BY DEF DataOk, NamesUnique
  <2>2. \A a \in Accounts : accounts[a] # None /\ accounts[a].selected # None =>
            accounts[a].selected \in Characters
    BY DEF DataOk, AccountDoc
  <2>3. Selections(accounts', characters')
    BY <2>2 DEF DataOk, Selections
  <2> QED BY <2>1, <2>3
<1> QED BY <1>1, <1>2, <1>3 DEF Moves, DataOk

(* The first half of the migration to schema 2 fills in the experience, *)
LEMMA MigrateExpMoves ==
    ASSUME DataOk(accounts, characters), MigrateField("exp")
    PROVE  Moves /\ \A c \in Characters : characters'[c] # None => characters'[c].exp # Missing
<1>1. \A c \in Characters : characters'[c] =
         IF characters[c] # None /\ characters[c].exp = Missing
           THEN [characters[c] EXCEPT !.exp = 0] ELSE characters[c]
  BY DEF MigrateField
<1>10. \A c \in Characters : characters[c] # None =>
         characters[c] \in CharacterDoc /\ characters[c].seq \in Int
  BY DEF DataOk, CharacterDoc
<1>2. ASSUME NEW c \in Characters, characters[c] # None
      PROVE  /\ characters'[c] \in CharacterDoc
             /\ characters'[c].account = characters[c].account
             /\ characters'[c].realm = characters[c].realm
             /\ characters'[c].name = characters[c].name
             /\ characters'[c].created = characters[c].created
             /\ characters'[c].seq = characters[c].seq
             /\ characters'[c].exp = IF characters[c].exp = Missing THEN 0 ELSE characters[c].exp
  <2> DEFINE x == characters[c]
             y == [x EXCEPT !.exp = 0]
  <2>1. x \in CharacterDoc
    BY <1>2, <1>10
  <2>2. CASE x.exp = Missing
    <3>1. characters'[c] = y
      BY <1>1, <1>2, <2>2
    <3>2. /\ y \in CharacterDoc /\ y.account = x.account /\ y.realm = x.realm
          /\ y.name = x.name /\ y.seq = x.seq /\ y.exp = 0 /\ y.created = x.created
      <4> HIDE DEF x
      <4> QED BY <2>1, FilledExp
    <3> QED BY <2>2, <3>1, <3>2
  <2>3. CASE x.exp # Missing
    BY <1>1, <1>2, <2>1, <2>3
  <2> QED BY <2>2, <2>3
<1>3. \A c \in Characters : characters'[c] = None <=> characters[c] = None
  BY <1>1, <1>2, DocumentsAssumption DEF DocumentsAssumption
<1>4. \A c \in Characters : characters[c] # None =>
         /\ characters'[c].account = characters[c].account
         /\ characters'[c].realm = characters[c].realm
         /\ characters'[c].name = characters[c].name
         /\ characters'[c].created = characters[c].created
         /\ characters'[c].seq = characters[c].seq /\ characters[c].seq \in Int
         /\ characters'[c].exp = IF characters[c].exp = Missing THEN 0 ELSE characters[c].exp
  BY <1>2, <1>10
<1>5. \A c \in Characters : characters'[c] # None => Counted(characters'[c])
  <2> SUFFICES ASSUME NEW c \in Characters, characters'[c] # None PROVE Counted(characters'[c])
    OBVIOUS
  <2>1. characters[c] # None /\ Counted(characters[c])
    BY <1>3 DEF DataOk
  <2> QED BY <1>4, <2>1, SessionsAssumption DEF Counted, Missing, SessionsAssumption
<1>6. characters' \in [Characters -> CharacterDoc \cup {None}] /\ accounts' = accounts
  BY <1>2, <1>3 DEF MigrateField
<1>7. \A c \in Characters : characters'[c] # None => characters'[c].exp # Missing
  BY <1>3, <1>4 DEF Missing
<1> QED BY <1>3, <1>4, <1>5, <1>6, <1>7, FilledMove

(* the second the sequence numbers. *)
LEMMA MigrateSeqMoves ==
    ASSUME DataOk(accounts, characters), MigrateField("seq"),
           \A c \in Characters : characters[c] # None => characters[c].exp # Missing
    PROVE  Moves /\ Complete(characters')
           /\ \A c \in Characters : characters'[c] # None => characters'[c].exp # Missing
<1>1. \A c \in Characters : characters'[c] =
         IF characters[c] # None /\ characters[c].seq = Missing
           THEN [characters[c] EXCEPT !.seq = 0] ELSE characters[c]
  BY DEF MigrateField
<1>10. \A c \in Characters : characters[c] # None =>
         characters[c] \in CharacterDoc /\ characters[c].seq \in Int
  BY DEF DataOk, CharacterDoc
<1>2. ASSUME NEW c \in Characters, characters[c] # None
      PROVE  /\ characters'[c] \in CharacterDoc
             /\ characters'[c].account = characters[c].account
             /\ characters'[c].realm = characters[c].realm
             /\ characters'[c].name = characters[c].name
             /\ characters'[c].created = characters[c].created
             /\ characters'[c].exp = characters[c].exp
             /\ characters'[c].seq = IF characters[c].seq = Missing THEN 0 ELSE characters[c].seq
  <2> DEFINE x == characters[c]
             y == [x EXCEPT !.seq = 0]
  <2>1. x \in CharacterDoc
    BY <1>2, <1>10
  <2>2. CASE x.seq = Missing
    <3>1. characters'[c] = y
      BY <1>1, <1>2, <2>2
    <3>2. /\ y \in CharacterDoc /\ y.account = x.account /\ y.realm = x.realm
          /\ y.name = x.name /\ y.exp = x.exp /\ y.seq = 0 /\ y.created = x.created
      <4> HIDE DEF x
      <4> QED BY <2>1, FilledSeq
    <3> QED BY <2>2, <3>1, <3>2
  <2>3. CASE x.seq # Missing
    BY <1>1, <1>2, <2>1, <2>3
  <2> QED BY <2>2, <2>3
<1>3. \A c \in Characters : characters'[c] = None <=> characters[c] = None
  BY <1>1, <1>2, DocumentsAssumption DEF DocumentsAssumption
<1>4. \A c \in Characters : characters[c] # None =>
         /\ characters'[c].account = characters[c].account
         /\ characters'[c].realm = characters[c].realm
         /\ characters'[c].name = characters[c].name
         /\ characters'[c].created = characters[c].created
         /\ characters'[c].exp = characters[c].exp /\ characters[c].seq \in Int
         /\ characters'[c].seq = IF characters[c].seq = Missing THEN 0 ELSE characters[c].seq
  BY <1>2, <1>10
<1>5. \A c \in Characters : characters'[c] # None =>
         /\ Counted(characters'[c])
         /\ characters[c].seq <= characters'[c].seq /\ characters'[c].seq <= characters[c].seq + 1
  <2> SUFFICES ASSUME NEW c \in Characters, characters'[c] # None
               PROVE  /\ Counted(characters'[c])
                      /\ characters[c].seq <= characters'[c].seq
                      /\ characters'[c].seq <= characters[c].seq + 1
    OBVIOUS
  <2>1. characters[c] # None /\ Counted(characters[c]) /\ characters[c].exp # Missing
    BY <1>3 DEF DataOk
  <2> QED BY <1>4, <2>1, SessionsAssumption DEF Counted, Missing, SessionsAssumption
<1>6. characters' \in [Characters -> CharacterDoc \cup {None}] /\ accounts' = accounts
  BY <1>2, <1>3 DEF MigrateField
<1>7. \A c \in Characters : characters'[c] # None =>
          characters'[c].exp # Missing /\ characters'[c].seq # Missing
  BY <1>3, <1>4 DEF Missing
<1>8. Moves
  BY <1>3, <1>4, <1>5, <1>6, <1>7, FilledMove
<1> QED BY <1>7, <1>8 DEF Complete

(* The import writes into collections that are empty. *)
LEMMA ImportMoves ==
    ASSUME DataOk(accounts, characters), ImportTxn
    PROVE  Moves
<1>1. CASE ~bootstrap_pending
  BY <1>1, UnchangedMoves DEF ImportTxn, database
<1>2. CASE bootstrap_pending
  <2>1. \A c \in Characters : characters[c] = None
    BY <1>2 DEF DataOk, CharacterDoc, bootstrap_pending
  <2> DEFINE doc == NewCharacter(Imported, Realm, ImportedName)
             acc == [NewAccount EXCEPT !.selected = ImportedCharacter]
  <2>2. /\ Imported \in Accounts /\ ImportedCharacter \in Characters /\ ImportedName \in Names
        /\ ImportedCharacter # None
    BY PlayerDataAssumption DEF PlayerDataAssumption
  <2>3. /\ doc \in CharacterDoc /\ doc # None /\ doc.account = Imported /\ doc.realm = Realm
        /\ doc.exp = 0 /\ doc.seq = 0 /\ ~doc.created
    BY <2>2, NewIsCharacter, DocumentsAssumption DEF DocumentsAssumption
  <2>4. acc \in AccountDoc /\ acc # None /\ acc.selected = ImportedCharacter
    BY <2>2, DocumentsAssumption DEF NewAccount, AccountDoc, DocumentsAssumption
  <2>5. /\ accounts' = [accounts EXCEPT ![Imported] = acc]
        /\ characters' = [characters EXCEPT ![ImportedCharacter] = doc]
    BY <1>2 DEF ImportTxn
  <2> HIDE DEF doc, acc
  <2>6. /\ \A c \in Characters : characters'[c] = IF c = ImportedCharacter THEN doc ELSE None
        /\ \A a \in Accounts : accounts'[a] = IF a = Imported THEN acc ELSE None
    BY <1>2, <2>1, <2>5 DEF DataOk, bootstrap_pending
  <2>7. Grows(characters, characters') /\ Fills(characters, characters')
    BY <2>1, <2>3, <2>6 DEF Grows, Fills, Missing
  <2>8. WithinLimit(characters')
    BY <2>3, <2>6, LimitKept DEF DataOk
  <2>9. Counted(doc)
    BY <2>3, SessionsAssumption DEF Counted, SessionsAssumption
  <2>10. Selections(accounts', characters') /\ NamesUnique(characters')
    BY <2>2, <2>3, <2>4, <2>6 DEF Selections, NamesUnique
  <2>11. /\ accounts' \in [Accounts -> AccountDoc \cup {None}]
         /\ characters' \in [Characters -> CharacterDoc \cup {None}]
    BY <2>2, <2>3, <2>4, <2>5 DEF DataOk
  <2>12. \A c \in Characters : characters'[c] # None =>
            Counted(characters'[c]) /\ accounts'[characters'[c].account] # None
    BY <2>2, <2>3, <2>4, <2>6, <2>9
  <2> QED BY <2>7, <2>8, <2>10, <2>11, <2>12 DEF Moves, DataOk
<1> QED BY <1>1, <1>2

(* How far the services that connect have brought the schema. *)
StartOk(st, sc, ch) ==
    /\ st \in [Services -> Steps] /\ sc \in {0, 1, 2}
    /\ sc = 2 => Complete(ch)
    /\ sc = 0 => \A c \in Characters : ch[c] = None
    /\ \A v \in Services :
         /\ st[v] \in {"migrate_exp", "migrate_seq", "mark"} => sc # 0
         /\ st[v] \in {"migrate_seq", "mark"} =>
              \A c \in Characters : ch[c] # None => ch[c].exp # Missing
         /\ st[v] = "mark" => Complete(ch)
         /\ st[v] \in {"check", "import", "serving"} => sc = 2

(* A selection that was checked and not yet written. *)
PickOk(se, ch) ==
    /\ se \in [account : Accounts, character : Characters] \cup {None}
    /\ se # None => ch[se.character] # None /\ ch[se.character].account = se.account

DataInv ==
    /\ DataOk(accounts, characters)
    /\ StartOk(start, schema, characters)
    /\ PickOk(selecting, characters)

DataMoves == DataInv' /\ Grows(characters, characters')

-----------------------------------------------------------------------------
(* A selection that was checked stays right, *)
LEMMA PickKept ==
    ASSUME PickOk(selecting, characters), Grows(characters, characters'), selecting' = selecting
    PROVE  PickOk(selecting', characters')
<1>1. selecting # None => selecting.character \in Characters
  BY DEF PickOk
<1> QED BY <1>1 DEF PickOk, Grows

(* and so does the state of a service that connects. *)
LEMMA StartKept ==
    ASSUME StartOk(start, schema, characters), Fills(characters, characters'),
           schema' = schema, start' = start, characters' = characters \/ schema = 2
    PROVE  StartOk(start', schema', characters')
<1>1. CASE characters' = characters
  BY <1>1
<1>2. CASE schema = 2
  BY <1>2 DEF StartOk, Fills, Complete
<1> QED BY <1>1, <1>2

(* The steps of a service that connects. *)
LEMMA StartMoves ==
    ASSUME DataInv, NEW v \in Services, StartStep(v)
    PROVE  DataMoves /\ start[v] # "serving" /\ \A u \in Services \ {v} : start'[u] = start[u]
<1>1. /\ DataOk(accounts, characters) /\ StartOk(start, schema, characters)
      /\ PickOk(selecting, characters)
      /\ start \in [Services -> Steps] /\ selecting' = selecting
  BY DEF DataInv, StartOk, StartStep
<1> SUFFICES Moves /\ StartOk(start', schema', characters')
             /\ start[v] # "serving" /\ \A u \in Services \ {v} : start'[u] = start[u]
  BY <1>1, PickKept DEF DataMoves, DataInv, Moves
<1>2. CASE /\ Starting(v, "connect", IF schema \in {0, schema_version} THEN "check" ELSE "migrate_exp")
           /\ UpsertSchema
  <2>1. Moves /\ characters' = characters
    BY <1>1, <1>2, UnchangedMoves DEF UpsertSchema
  <2>2. /\ start[v] = "connect"
        /\ start' = [start EXCEPT ![v] =
             IF schema \in {0, schema_version} THEN "check" ELSE "migrate_exp"]
        /\ schema' = IF schema = 0 THEN schema_version ELSE schema
    BY <1>2 DEF Starting, UpsertSchema
  <2>3. StartOk(start', schema', characters')
    BY <1>1, <2>1, <2>2 DEF StartOk, Complete, Steps, schema_version
  <2> QED BY <1>1, <2>1, <2>2, <2>3
<1>3. CASE Starting(v, "migrate_exp", "migrate_seq") /\ MigrateField("exp")
  <2>1. Moves /\ \A c \in Characters : characters'[c] # None => characters'[c].exp # Missing
    BY <1>1, <1>3, MigrateExpMoves
  <2>2. /\ start[v] = "migrate_exp" /\ start' = [start EXCEPT ![v] = "migrate_seq"]
        /\ schema' = schema
    BY <1>3 DEF Starting, MigrateField
  <2>3. Fills(characters, characters') /\ schema # 0
    BY <1>1, <2>1, <2>2 DEF Moves, StartOk
  <2>4. StartOk(start', schema', characters')
    BY <1>1, <2>1, <2>2, <2>3 DEF StartOk, Complete, Steps, Fills
  <2> QED BY <1>1, <2>1, <2>2, <2>4
<1>4. CASE Starting(v, "migrate_seq", "mark") /\ MigrateField("seq")
  <2>1. start[v] = "migrate_seq" /\ start' = [start EXCEPT ![v] = "mark"] /\ schema' = schema
    BY <1>4 DEF Starting, MigrateField
  <2>2. schema # 0 /\ \A c \in Characters : characters[c] # None => characters[c].exp # Missing
    BY <1>1, <2>1 DEF StartOk
  <2>3. Moves /\ Complete(characters')
        /\ \A c \in Characters : characters'[c] # None => characters'[c].exp # Missing
    BY <1>1, <1>4, <2>2, MigrateSeqMoves
  <2>4. StartOk(start', schema', characters')
    BY <1>1, <2>1, <2>2, <2>3 DEF StartOk, Steps
  <2> QED BY <1>1, <2>1, <2>3, <2>4
<1>5. CASE Starting(v, "mark", "check") /\ MarkMigrated
  <2>1. Moves /\ characters' = characters
    BY <1>1, <1>5, UnchangedMoves DEF MarkMigrated
  <2>2. /\ start[v] = "mark" /\ start' = [start EXCEPT ![v] = "check"]
        /\ schema' = IF schema < schema_version THEN schema_version ELSE schema
    BY <1>5 DEF Starting, MarkMigrated
  <2>3. schema' = 2 /\ Complete(characters)
    BY <1>1, <2>2 DEF StartOk, schema_version
  <2>4. StartOk(start', schema', characters')
    BY <1>1, <2>1, <2>2, <2>3 DEF StartOk, Steps
  <2> QED BY <1>1, <2>1, <2>2, <2>4
<1>6. CASE /\ Starting(v, "check", IF bootstrap_pending THEN "import" ELSE "serving")
           /\ UNCHANGED database
  <2>1. Moves /\ characters' = characters /\ schema' = schema
    BY <1>1, <1>6, UnchangedMoves DEF database
  <2>2. /\ start[v] = "check"
        /\ start' = [start EXCEPT ![v] = IF bootstrap_pending THEN "import" ELSE "serving"]
    BY <1>6 DEF Starting
  <2>3. StartOk(start', schema', characters')
    BY <1>1, <2>1, <2>2 DEF StartOk, Complete, Steps
  <2> QED BY <1>1, <2>1, <2>2, <2>3
<1>7. CASE Starting(v, "import", "serving") /\ ImportTxn
  <2>1. Moves
    BY <1>1, <1>7, ImportMoves
  <2>2. start[v] = "import" /\ start' = [start EXCEPT ![v] = "serving"]
    BY <1>7 DEF Starting
  <2>3. schema' = schema
    BY <1>7 DEF ImportTxn, database
  <2>4. schema = 2
    BY <1>1, <2>2 DEF StartOk
  <2>5. Fills(characters, characters')
    BY <2>1 DEF Moves
  <2>6. StartOk(start', schema', characters')
    BY <1>1, <2>2, <2>3, <2>4, <2>5 DEF StartOk, Complete, Steps, Fills
  <2> QED BY <1>1, <2>1, <2>2, <2>6
<1> QED BY <1>2, <1>3, <1>4, <1>5, <1>6, <1>7 DEF StartStep

(* Provisioning by an operator. *)
LEMMA AdminMoves ==
    ASSUME DataInv, Admin
    PROVE  DataMoves
<1>1. /\ DataOk(accounts, characters) /\ StartOk(start, schema, characters)
      /\ PickOk(selecting, characters) /\ start' = start
  BY DEF DataInv, Admin
<1>2. schema = 2
  BY <1>1 DEF Admin, StartOk
<1>3. ASSUME NEW a \in Accounts, ProvisionAccount(a), UNCHANGED selecting
      PROVE  DataMoves
  <2>1. Moves /\ schema' = schema
    BY <1>1, <1>3, ProvisionAccountMoves DEF ProvisionAccount
  <2> QED BY <1>1, <1>2, <1>3, <2>1, PickKept, StartKept DEF DataMoves, DataInv, Moves
<1>4. ASSUME NEW a \in Accounts, NEW c \in Characters, NEW n \in Names,
             NEW realm \in {Realm, OtherRealm}, ProvisionCharacter(a, realm, n, c),
             UNCHANGED selecting
      PROVE  DataMoves
  <2>1. Moves /\ schema' = schema
    BY <1>1, <1>4, ProvisionCharacterMoves DEF ProvisionCharacter
  <2> QED BY <1>1, <1>2, <1>4, <2>1, PickKept, StartKept DEF DataMoves, DataInv, Moves
<1>5. ASSUME NEW a \in Accounts, NEW c \in Characters,
             characters[c] # None, characters[c].account = a,
             selecting' = [account |-> a, character |-> c], UNCHANGED database
      PROVE  DataMoves
  <2>1. Moves /\ schema' = schema /\ characters' = characters
    BY <1>1, <1>5, UnchangedMoves DEF database
  <2>2. PickOk(selecting', characters')
    BY <1>5, <2>1 DEF PickOk
  <2> QED BY <1>1, <1>2, <2>1, <2>2, StartKept DEF DataMoves, DataInv, Moves
<1> QED BY <1>3, <1>4, <1>5 DEF Admin

(* The selection an operator provisions, checked before and written now. *)
LEMMA AdminSelectMoves ==
    ASSUME DataInv, AdminSelect
    PROVE  DataMoves
<1>1. /\ DataOk(accounts, characters) /\ StartOk(start, schema, characters)
      /\ PickOk(selecting, characters) /\ start' = start /\ selecting' = None
  BY DEF DataInv, AdminSelect
<1>2. /\ selecting.account \in Accounts /\ selecting.character \in Characters
      /\ characters[selecting.character] # None
      /\ characters[selecting.character].account = selecting.account
      /\ WriteSelected(selecting.account, selecting.character)
  BY <1>1 DEF AdminSelect, PickOk
<1>3. Moves /\ schema' = schema /\ characters' = characters
  BY <1>1, <1>2, SelectMoves DEF WriteSelected
<1>4. PickOk(selecting', characters')
  BY <1>1 DEF PickOk
<1> QED BY <1>1, <1>3, <1>4, StartKept DEF DataMoves, DataInv, Moves

(* An operation of the realm, whose start is over. *)
LEMMA RealmMoves ==
    ASSUME DataInv, start[RealmService] = "serving", Moves,
           UNCHANGED <<schema, start, selecting>>
    PROVE  DataMoves
<1>1. schema = 2
  BY FrameAssumption DEF DataInv, StartOk, FrameAssumption
<1> QED BY <1>1, PickKept, StartKept DEF DataMoves, DataInv, Moves

(* The start. *)
Uncounted(x) == [x EXCEPT !.exp = Missing, !.seq = Missing]

(* A character of schema 1. *)
LEMMA UncountedDoc ==
    ASSUME NEW x \in CharacterDoc
    PROVE  LET y == Uncounted(x) IN
           /\ y \in CharacterDoc /\ y.account = x.account /\ y.realm = x.realm
           /\ y.name = x.name /\ y.exp = Missing /\ y.seq = Missing /\ y.created = x.created
<1>1. Missing \in Int
  BY DEF Missing
<1> QED BY <1>1 DEF CharacterDoc, Uncounted

(* The collections the services find. *)
LEMMA InitDataInv == Init => DataInv
<1> SUFFICES ASSUME Init PROVE DataInv
  OBVIOUS
<1>0. /\ \A v \in Services : start[v] = "connect"
      /\ start \in [Services -> Steps] /\ selecting = None
  BY DEF Init, Steps
<1>1. /\ Imported \in Accounts /\ ImportedCharacter \in Characters /\ ImportedName \in Names
      /\ ImportedCharacter # None /\ MaxCharacters \in Nat
  BY PlayerDataAssumption DEF PlayerDataAssumption
<1>2. PickOk(selecting, characters)
  BY <1>0 DEF PickOk
<1>3. ASSUME \A c \in Characters : characters[c] # None => ~characters[c].created
      PROVE  WithinLimit(characters)
  <2>1. \A a, realm : Created(characters, a, realm) = {}
    BY <1>3 DEF Created
  <2> QED BY <1>1, <2>1, FS_EmptySet DEF WithinLimit
<1>4. CASE /\ schema = 0
           /\ accounts = [a \in Accounts |-> None]
           /\ characters = [c \in Characters |-> None]
  <2>1. WithinLimit(characters)
    BY <1>3, <1>4
  <2>2. DataOk(accounts, characters)
    BY <1>4, <2>1 DEF DataOk, Selections, NamesUnique
  <2>3. StartOk(start, schema, characters)
    BY <1>0, <1>4 DEF StartOk
  <2> QED BY <1>2, <2>2, <2>3 DEF DataInv
<1>5. CASE /\ schema = 1
           /\ accounts = [a \in Accounts |->
                [selected |-> IF a = Imported THEN ImportedCharacter ELSE None]]
           /\ characters = [c \in Characters |->
                IF c # ImportedCharacter THEN None
                ELSE [NewCharacter(Imported, Realm, ImportedName)
                        EXCEPT !.exp = Missing, !.seq = Missing]]
  <2> DEFINE doc == Uncounted(NewCharacter(Imported, Realm, ImportedName))
  <2>1. /\ doc \in CharacterDoc /\ doc.account = Imported /\ ~doc.created
        /\ doc.exp = Missing /\ doc.seq = Missing /\ doc # None
    <3>1. NewCharacter(Imported, Realm, ImportedName) \in CharacterDoc
      BY <1>1, NewIsCharacter
    <3>2. /\ NewCharacter(Imported, Realm, ImportedName).account = Imported
          /\ ~NewCharacter(Imported, Realm, ImportedName).created
      BY <1>1, NewIsCharacter
    <3> QED BY <3>1, <3>2, UncountedDoc, DocumentsAssumption DEF DocumentsAssumption
  <2>2. characters = [c \in Characters |-> IF c # ImportedCharacter THEN None ELSE doc]
    BY <1>5 DEF Uncounted
  <2> HIDE DEF doc
  <2>3. \A a \in Accounts : /\ accounts[a] \in AccountDoc /\ accounts[a] # None
                            /\ accounts[a].selected = IF a = Imported THEN ImportedCharacter
                                                      ELSE None
    BY <1>1, <1>5, DocumentsAssumption DEF AccountDoc, DocumentsAssumption
  <2>4. accounts \in [Accounts -> AccountDoc \cup {None}]
    BY <1>5, <2>3
  <2>5. WithinLimit(characters)
    BY <1>3, <2>1, <2>2
  <2>6. Selections(accounts, characters) /\ NamesUnique(characters)
    BY <1>1, <2>1, <2>2, <2>3 DEF Selections, NamesUnique
  <2>7. \A c \in Characters : characters[c] # None =>
            Counted(characters[c]) /\ accounts[characters[c].account] # None
    BY <1>1, <2>1, <2>2, <2>3 DEF Counted
  <2>8. characters \in [Characters -> CharacterDoc \cup {None}]
    BY <2>1, <2>2
  <2>9. StartOk(start, schema, characters)
    BY <1>0, <1>5 DEF StartOk
  <2> QED BY <1>2, <2>4, <2>5, <2>6, <2>7, <2>8, <2>9 DEF DataInv, DataOk
<1> QED BY <1>4, <1>5 DEF Init, InitData

(* A character as the database holds it, or held it earlier. *)
Valid(c, ch) ==
    /\ c \in Cached /\ ch[c.id] # None
    /\ c.seq \in 0..MaxLevelExp /\ c.exp = c.seq /\ c.seq <= ch[c.id].seq

SessionOk(x, ch) == x \in Session /\ (x.phase = "InGame" => Valid(x.character, ch))

(* Sessions, accounts and connections belong together. *)
SessionsOk(ss, on, au, to, ch) ==
    /\ ss \in [Sessions -> Session \cup {None}]
    /\ on \in [Accounts -> Sessions \cup {None}]
    /\ au \in [Sessions -> Accounts \cup {None, "closed"}]
    /\ \A s \in Sessions : ss[s] # None =>
         /\ SessionOk(ss[s], ch)
         /\ au[s] = ss[s].account /\ on[ss[s].account] = s
         /\ ss[s].waiting # <<>> => ss[s].busy
    /\ \A a \in Accounts : on[a] # None => ss[on[a]] # None /\ ss[on[a]].account = a
    /\ \A c \in to : Valid(c, ch)

(* A live session is busy with its one data access; a session that is gone *)
(* may have left one, and no connection gets its id again.                 *)
AccessesOk(p, ss, au) ==
    /\ p \in [DataIds -> Access \cup {None}]
    /\ \A i \in DataIds : p[i] # None =>
         /\ au[p[i].session] # None
         /\ ss[p[i].session] # None =>
              ss[p[i].session].busy /\ ss[p[i].session].account = p[i].account
    /\ \A i, j \in DataIds : p[i] # None /\ p[j] # None /\ p[i].session = p[j].session => i = j
    /\ \A s \in Sessions : ss[s] # None /\ ss[s].busy =>
         \E i \in DataIds : p[i] # None /\ p[i].session = s

Ids(s) == {s[i] : i \in 1..Len(s)}
Injective(s) == \A i, j \in 1..Len(s) : s[i] = s[j] => i = j

(* A data access is in exactly one place of the pool, or in the batch. *)
PoolOk(q, w, d, b, p, n) ==
    /\ q \in Seq(DataIds) /\ d \in Seq(DataIds) /\ b \in Seq(DataIds)
    /\ w \subseteq DataIds /\ n \in Nat
    /\ Injective(q) /\ Injective(d) /\ Injective(b)
    /\ Ids(q) \cap w = {} /\ Ids(q) \cap Ids(d) = {} /\ Ids(q) \cap Ids(b) = {}
    /\ w \cap Ids(d) = {} /\ w \cap Ids(b) = {} /\ Ids(d) \cap Ids(b) = {}
    /\ Ids(q) \cup w \cup Ids(d) \cup Ids(b) = {i \in DataIds : p[i] # None}
    /\ n = Len(q) + Cardinality(w) + Len(d)

(* What a data access asks of the database, *)
Asks(p, ch) ==
    /\ p.request.type = "create" => p.request.arg \in Names
    /\ p.request.type = "select" => p.request.arg \in Characters
    /\ p.request.type = "train" =>
         /\ p.request.arg \in 1..MaxLevelExp /\ p.exp = p.request.arg
         /\ p.character \in Characters /\ ch[p.character] # None

(* what its job is about to do, *)
Runs(p, j, ch) ==
    \/ j.pc = "list" /\ p.request.type = "list"
    \/ j.pc \in {"create", "create_check"} /\ p.request.type = "create"
    \/ j.pc = "select" /\ p.request.type = "select"
    \/ /\ j.pc = "select_write" /\ p.request.type = "select"
       /\ Valid(j.result, ch)
       /\ ch[p.request.arg] # None /\ ch[p.request.arg].account = p.account
    \/ j.pc \in {"train", "train_read"} /\ p.request.type = "train"

(* and what came of it. *)
Answers(p, r, ch) ==
    r.ok =>
      /\ p.request.type = "list" => \A c \in r.value : Valid(c, ch)
      /\ p.request.type = "select" => r.value = None \/ Valid(r.value, ch)
      /\ p.request.type = "train" => Valid(r.value.character, ch)

JobOk(active, p, j, ch) ==
    /\ Asks(p, ch)
    /\ active => Runs(p, j, ch)
    /\ ~active => Answers(p, j.result, ch)

JobsOk(q, w, p, j, ch) ==
    /\ DOMAIN j = DataIds
    /\ \A i \in DataIds : DOMAIN j[i] = {"pc", "attempt", "result"}
    /\ \A i \in DataIds : p[i] # None => JobOk(i \in Ids(q) \cup w, p[i], j[i], ch)

-----------------------------------------------------------------------------
(* What the characters do to the rest: nothing. *)
LEMMA ValidKept ==
    ASSUME NEW ch, NEW new, ch \in [Characters -> CharacterDoc \cup {None}],
           new \in [Characters -> CharacterDoc \cup {None}], Grows(ch, new),
           NEW c, Valid(c, ch)
    PROVE  Valid(c, new)
<1>1. c.id \in Characters /\ c.seq \in Int
  BY DEF Valid, Cached
<1>2. /\ ch[c.id] # None /\ new[c.id] # None /\ ch[c.id].seq <= new[c.id].seq
      /\ ch[c.id].seq \in Int /\ new[c.id].seq \in Int
  BY <1>1 DEF Valid, Grows, CharacterDoc
<1>3. c.seq <= new[c.id].seq
  BY <1>1, <1>2 DEF Valid
<1> QED BY <1>1, <1>2, <1>3 DEF Valid

(* Sessions are still right after the database has grown, *)
LEMMA SessionsGrow ==
    ASSUME NEW ch, NEW new, ch \in [Characters -> CharacterDoc \cup {None}],
           new \in [Characters -> CharacterDoc \cup {None}], Grows(ch, new),
           NEW ss, NEW on, NEW au, NEW to, SessionsOk(ss, on, au, to, ch)
    PROVE  SessionsOk(ss, on, au, to, new)
<1>1. \A c : Valid(c, ch) => Valid(c, new)
  BY ValidKept
<1> QED BY <1>1 DEF SessionsOk, SessionOk

(* a data access is, *)
LEMMA JobGrows ==
    ASSUME NEW ch, NEW new, ch \in [Characters -> CharacterDoc \cup {None}],
           new \in [Characters -> CharacterDoc \cup {None}], Grows(ch, new),
           NEW active, NEW p, NEW j, JobOk(active, p, j, ch)
    PROVE  JobOk(active, p, j, new)
<1>1. \A c : Valid(c, ch) => Valid(c, new)
  BY ValidKept
<1>2. Asks(p, new)
  BY DEF JobOk, Asks, Grows
<1>3. Runs(p, j, ch) => Runs(p, j, new)
  <2>1. p.request.type = "select" => p.request.arg \in Characters
    BY DEF JobOk, Asks
  <2> QED BY <1>1, <2>1 DEF Runs, Grows
<1>4. Answers(p, j.result, ch) => Answers(p, j.result, new)
  BY <1>1 DEF Answers
<1> QED BY <1>2, <1>3, <1>4 DEF JobOk

(* and so are all. *)
LEMMA JobsGrow ==
    ASSUME NEW ch, NEW new, ch \in [Characters -> CharacterDoc \cup {None}],
           new \in [Characters -> CharacterDoc \cup {None}], Grows(ch, new),
           NEW q, NEW w, NEW p, NEW j, JobsOk(q, w, p, j, ch)
    PROVE  JobsOk(q, w, p, j, new)
BY JobGrows DEF JobsOk

-----------------------------------------------------------------------------
(* Requests. *)
LEMMA AnsweredFacts ==
    ASSUME NEW session \in Session, NEW free, NEW lua
    PROVE  LET step == Answered(session, free, lua) IN
           /\ step.waits \in Seq(Requests)
           /\ step.sent = None => step.waits = <<>>
           /\ step.sent # None =>
                step.sent \in Requests /\ free /\ NeedsData(session, step.sent, lua)
           /\ \A c \in step.said : session.phase = "InGame" /\ c = session.character
<1> DEFINE n == Len(session.waiting)
           Stops(i) == free /\ NeedsData(session, session.waiting[i], lua)
           first == {i \in 1..n : Stops(i) /\ \A k \in 1..(i - 1) : ~Stops(k)}
           last == IF first = {} THEN n ELSE CHOOSE i \in first : TRUE
           waits == SubSeq(session.waiting, last + 1, n)
           sent == IF first = {} THEN None ELSE session.waiting[last]
           said == UNION {ToldAtOnce(session, session.waiting[i], lua) : i \in 1..last}
           step == Answered(session, free, lua)
<1>1. step.waits = waits /\ step.sent = sent /\ step.said = said
  BY DEF Answered
<1>2. session.waiting \in Seq(Requests)
  BY DEF Session
<1>3. n \in Nat
  BY <1>2
<1>4. \A i \in 1..n : session.waiting[i] \in Requests /\ session.waiting[i] # None
  BY <1>2, NoneAssumption DEF NoneAssumption
<1>5. first # {} => last \in first
  OBVIOUS
<1>6. first \subseteq 1..n
  OBVIOUS
<1>7. \A i \in first : Stops(i)
  OBVIOUS
<1>8. last \in Int /\ last <= n /\ 0 <= last
  <2>1. first = {} => last = n
    OBVIOUS
  <2> HIDE DEF first, n, last
  <2>2. last = n \/ last \in 1..n
    BY <1>5, <1>6, <2>1
  <2>3. CASE last = n
    BY <1>3, <2>3
  <2>4. CASE last \in 1..n
    BY <1>3, <2>4
  <2> QED BY <2>2, <2>3, <2>4
<1>9. waits \in Seq(Requests)
  <2> HIDE DEF first, n, last
  <2>1. \A i \in (last + 1)..n : session.waiting[i] \in Requests
    BY <1>4, <1>8, <1>3
  <2> QED BY <1>3, <1>8, <2>1
<1>10. sent = None => waits = <<>>
  <2> SUFFICES ASSUME sent = None PROVE waits = <<>>
    OBVIOUS
  <2>1. first = {}
    <3> HIDE DEF n, first
    <3> QED BY <1>4, <1>5, <1>6
  <2>2. last = n
    BY <2>1
  <2> HIDE DEF first, last, n
  <2> QED BY <1>3, <2>2
<1>11. sent # None => sent \in Requests /\ free /\ NeedsData(session, sent, lua)
  <2> HIDE DEF n, first, last
  <2> QED BY <1>4, <1>5, <1>6, <1>7 DEF first, last
<1>12. \A c \in said : session.phase = "InGame" /\ c = session.character
  BY DEF ToldAtOnce
<1> QED BY <1>1, <1>9, <1>10, <1>11, <1>12

(* What a request that needs the database makes of it. *)
LEMMA AccessFacts ==
    ASSUME NEW s \in Sessions, NEW session, NEW r \in Requests, NEW lua, NEW ch,
           SessionOk(session, ch), NeedsData(session, r, lua)
    PROVE  LET p == DataAccess(s, session, r) IN
           /\ p \in Access /\ p # None /\ p.session = s /\ p.account = session.account
           /\ Asks(p, ch)
           /\ \A j : j.pc = r.type => Runs(p, j, ch)
<1> DEFINE p == DataAccess(s, session, r)
<1>1. /\ p.session = s /\ p.account = session.account /\ p.request = r
      /\ p.character = (IF r.type = "train" THEN session.character.id ELSE None)
      /\ p.exp = (IF r.type = "train" THEN Train(session.character.exp) ELSE None)
      /\ p = [session |-> p.session, account |-> p.account, request |-> p.request,
              character |-> p.character, exp |-> p.exp]
  BY DEF DataAccess
<1>2. session.account \in Accounts
  BY DEF SessionOk, Session
<1>3. MaxLevelExp \in Nat
  BY SessionsAssumption DEF SessionsAssumption
<1>4. CASE r.type = "train"
  <2>1. /\ session.phase = "InGame" /\ r.arg = session.character.seq + 1
        /\ Train(session.character.exp) # None
    BY <1>4 DEF NeedsData
  <2>2. Valid(session.character, ch)
    BY <2>1 DEF SessionOk
  <2>3. /\ session.character.id \in Characters /\ ch[session.character.id] # None
        /\ session.character.seq \in 0..MaxLevelExp
        /\ session.character.exp = session.character.seq
    BY <2>2 DEF Valid, Cached
  <2>4. session.character.exp < MaxLevelExp
    BY <2>1 DEF Train
  <2>5. r.arg \in 1..MaxLevelExp /\ Train(session.character.exp) = r.arg
    BY <1>3, <2>1, <2>3, <2>4 DEF Train
  <2> HIDE DEF p
  <2>6. p.exp = r.arg /\ p.character \in Characters /\ ch[p.character] # None
    BY <1>1, <1>4, <2>3, <2>5
  <2>7. p \in Access
    BY <1>1, <1>2, <1>3, <2>5, <2>6 DEF Access
  <2>8. Asks(p, ch)
    BY <1>1, <1>4, <2>5, <2>6 DEF Asks
  <2>9. \A j : j.pc = r.type => Runs(p, j, ch)
    BY <1>1, <1>4 DEF Runs
  <2> QED BY <1>1, <2>7, <2>8, <2>9, NoneAssumption DEF p, NoneAssumption
<1>5. CASE r.type # "train"
  <2>1. r.arg # None \/ r.type = "list"
    BY <1>5 DEF NeedsData
  <2>2. \/ r.type = "list"
        \/ r.type = "create" /\ r.arg \in Names
        \/ r.type = "select" /\ r.arg \in Characters
    BY <1>5, <2>1 DEF Requests, Request
  <2> HIDE DEF p
  <2>3. p \in Access
    BY <1>1, <1>2, <1>5 DEF Access
  <2>4. Asks(p, ch)
    BY <1>1, <2>2 DEF Asks
  <2>5. \A j : j.pc = r.type => Runs(p, j, ch)
    BY <1>1, <2>2 DEF Runs
  <2> QED BY <1>1, <2>3, <2>4, <2>5, NoneAssumption DEF p, NoneAssumption
<1> QED BY <1>4, <1>5

(* An element put at the end of a sequence, *)
LEMMA IdsAppend ==
    ASSUME NEW S, NEW s \in Seq(S), NEW e \in S
    PROVE  /\ Append(s, e) \in Seq(S)
           /\ Ids(Append(s, e)) = Ids(s) \cup {e}
           /\ Injective(s) /\ e \notin Ids(s) => Injective(Append(s, e))
           /\ Len(Append(s, e)) = Len(s) + 1
<1> DEFINE t == Append(s, e)
<1>1. /\ Len(t) = Len(s) + 1 /\ t[Len(s) + 1] = e /\ Len(s) \in Nat
      /\ \A i \in 1..Len(s) : t[i] = s[i]
  OBVIOUS
<1>0. t \in Seq(S)
  OBVIOUS
<1> HIDE DEF t
<1>2. Ids(t) = Ids(s) \cup {e}
  BY <1>1 DEF Ids
<1>3. Injective(s) /\ e \notin Ids(s) => Injective(t)
  BY <1>1 DEF Injective, Ids
<1> QED BY <1>0, <1>1, <1>2, <1>3 DEF t

(* A sequence split in two. *)
LEMMA IdsSplit ==
    ASSUME NEW S, NEW s \in Seq(S), NEW n \in 0..Len(s)
    PROVE  LET h == SubSeq(s, 1, n)  t == SubSeq(s, n + 1, Len(s)) IN
           /\ h \in Seq(S) /\ t \in Seq(S)
           /\ Len(h) = n /\ Len(t) = Len(s) - n
           /\ Ids(s) = Ids(h) \cup Ids(t)
           /\ Injective(s) => Injective(h) /\ Injective(t) /\ Ids(h) \cap Ids(t) = {}
<1> DEFINE h == SubSeq(s, 1, n)
           t == SubSeq(s, n + 1, Len(s))
<1>0. Len(s) \in Nat /\ n \in Nat /\ n <= Len(s)
  OBVIOUS
<1>1. \A i \in 1..Len(s) : s[i] \in S
  OBVIOUS
<1>2. h \in Seq(S) /\ Len(h) = n /\ \A i \in 1..n : h[i] = s[i]
  <2>1. \A i \in 1..n : s[i] \in S
    BY <1>0, <1>1
  <2>2. h \in Seq(S)
    BY <1>0, <2>1
  <2>3. Len(h) = n
    BY <1>0
  <2>4. \A i \in 1..n : h[i] = s[i]
    BY <1>0
  <2> QED BY <2>2, <2>3, <2>4
<1>3. t \in Seq(S) /\ Len(t) = Len(s) - n /\ \A i \in 1..Len(s) - n : t[i] = s[i + n]
  <2>1. \A i \in (n + 1)..Len(s) : s[i] \in S
    BY <1>0, <1>1
  <2>2. t \in Seq(S)
    BY <1>0, <2>1
  <2>3. Len(t) = Len(s) - n
    BY <1>0
  <2>4. \A i \in 1..Len(s) - n : t[i] = s[i + n]
    BY <1>0
  <2> QED BY <2>2, <2>3, <2>4
<1> HIDE DEF h, t
<1>4. Ids(h) \cup Ids(t) \subseteq Ids(s)
  <2>1. \A i \in 1..Len(h) : i \in 1..Len(s) /\ h[i] = s[i]
    BY <1>0, <1>2
  <2>2. \A i \in 1..Len(t) : i + n \in 1..Len(s) /\ t[i] = s[i + n]
    BY <1>0, <1>3
  <2> QED BY <2>1, <2>2 DEF Ids
<1>5. Ids(s) \subseteq Ids(h) \cup Ids(t)
  <2> SUFFICES ASSUME NEW i \in 1..Len(s) PROVE s[i] \in Ids(h) \cup Ids(t)
    BY DEF Ids
  <2>1. CASE i <= n
    <3>1. i \in 1..Len(h) /\ h[i] = s[i]
      BY <1>0, <1>2, <2>1
    <3> QED BY <3>1 DEF Ids
  <2>2. CASE ~(i <= n)
    <3>1. i - n \in 1..Len(t) /\ t[i - n] = s[i]
      BY <1>0, <1>3, <2>2
    <3> QED BY <3>1 DEF Ids
  <2> QED BY <2>1, <2>2
<1>6. ASSUME Injective(s) PROVE Injective(h) /\ Injective(t) /\ Ids(h) \cap Ids(t) = {}
  <2>1. \A i \in 1..Len(h) : i \in 1..Len(s) /\ h[i] = s[i] /\ i <= n
    BY <1>0, <1>2
  <2>2. \A i \in 1..Len(t) : i + n \in 1..Len(s) /\ t[i] = s[i + n] /\ i + n > n
    BY <1>0, <1>3
  <2>3. Injective(h)
    BY <1>6, <2>1 DEF Injective
  <2>4. Injective(t)
    <3> SUFFICES ASSUME NEW i \in 1..Len(t), NEW j \in 1..Len(t), t[i] = t[j] PROVE i = j
      BY DEF Injective
    <3>1. i + n = j + n
      BY <1>6, <2>2 DEF Injective
    <3> QED BY <1>0, <3>1
  <2>5. Ids(h) \cap Ids(t) = {}
    <3> SUFFICES ASSUME NEW i \in 1..Len(h), NEW j \in 1..Len(t), h[i] = t[j] PROVE FALSE
      BY DEF Ids
    <3>1. i = j + n
      BY <1>6, <2>1, <2>2 DEF Injective
    <3> QED BY <1>0, <2>1, <2>2, <3>1
  <2> QED BY <2>3, <2>4, <2>5
<1> QED BY <1>2, <1>3, <1>4, <1>5, <1>6 DEF h, t

(* The first element taken from it. *)
LEMMA IdsTail ==
    ASSUME NEW S, NEW s \in Seq(S), s # <<>>
    PROVE  /\ Tail(s) \in Seq(S) /\ Head(s) \in S
           /\ Ids(s) = Ids(Tail(s)) \cup {Head(s)}
           /\ Injective(s) => Injective(Tail(s)) /\ Head(s) \notin Ids(Tail(s))
           /\ Len(Tail(s)) = Len(s) - 1
<1> DEFINE m == 1
           h == SubSeq(s, 1, m)
           t == SubSeq(s, m + 1, Len(s))
<1>1. Len(s) \in Nat /\ 1 <= Len(s) /\ m \in 0..Len(s)
  OBVIOUS
<1>2. /\ t \in Seq(S) /\ Len(h) = 1 /\ Len(t) = Len(s) - 1
      /\ Ids(s) = Ids(h) \cup Ids(t)
      /\ Injective(s) => Injective(t) /\ Ids(h) \cap Ids(t) = {}
  <2>1. /\ t \in Seq(S) /\ Len(h) = m /\ Len(t) = Len(s) - m
        /\ Ids(s) = Ids(h) \cup Ids(t)
        /\ Injective(s) => Injective(t) /\ Ids(h) \cap Ids(t) = {}
    <3> HIDE DEF m
    <3> QED BY <1>1, IdsSplit
  <2> QED BY <2>1
<1>3. Tail(s) = t
  BY <1>1
<1>4. Ids(h) = {Head(s)} /\ Head(s) \in S
  <2>1. Head(s) = s[1] /\ h[1] = s[1] /\ s[1] \in S
    BY <1>1
  <2> HIDE DEF h
  <2> QED BY <1>2, <2>1 DEF Ids
<1> HIDE DEF h, t
<1> QED BY <1>2, <1>3, <1>4

(* No more ids than elements. *)
LEMMA IdsCount ==
    ASSUME NEW S, NEW s \in Seq(S)
    PROVE  IsFiniteSet(Ids(s)) /\ Cardinality(Ids(s)) <= Len(s)
<1> DEFINE f == [i \in 1..Len(s) |-> s[i]]
<1>1. Len(s) \in Nat
  OBVIOUS
<1>2. f \in Surjection(1..Len(s), Ids(s))
  BY DEF Surjection, Ids
<1>3. IsFiniteSet(1..Len(s)) /\ Cardinality(1..Len(s)) = Len(s)
  <2>1. Cardinality(1..Len(s)) = IF 1 > Len(s) THEN 0 ELSE Len(s) - 1 + 1
    BY <1>1, FS_Interval
  <2>2. IsFiniteSet(1..Len(s))
    BY <1>1, FS_Interval
  <2> QED BY <1>1, <2>1, <2>2
<1> HIDE DEF f
<1> QED BY <1>2, <1>3, FS_Surjection

-----------------------------------------------------------------------------
(* The steps of the pool. *)
LEMMA PoolAccepts ==
    ASSUME NEW q, NEW w, NEW d, NEW b, NEW p, NEW n, PoolOk(q, w, d, b, p, n),
           NEW id \in DataIds, p[id] = None,
           NEW new, new[id] # None, \A j \in DataIds : j # id => new[j] = p[j]
    PROVE  PoolOk(Append(q, id), w, d, b, new, n + 1)
<1>1. id \notin Ids(q) \cup w \cup Ids(d) \cup Ids(b)
  BY DEF PoolOk
<1>2. /\ Append(q, id) \in Seq(DataIds) /\ Ids(Append(q, id)) = Ids(q) \cup {id}
      /\ Injective(Append(q, id)) /\ Len(Append(q, id)) = Len(q) + 1
  BY <1>1, IdsAppend DEF PoolOk
<1>3. {j \in DataIds : new[j] # None} = {j \in DataIds : p[j] # None} \cup {id}
  OBVIOUS
<1>4. Len(q) \in Nat /\ Len(d) \in Nat /\ Cardinality(w) \in Nat
  <2>1. IsFiniteSet(w)
    <3>1. IsFiniteSet(DataIds)
      BY SessionsAssumption, FS_Interval DEF SessionsAssumption, DataIds
    <3> QED BY <3>1, FS_Subset DEF PoolOk
  <2> QED BY <2>1, FS_CardinalityType DEF PoolOk
<1> DEFINE a == Append(q, id)
<1>5. n + 1 = Len(a) + Cardinality(w) + Len(d) /\ n + 1 \in Nat
  BY <1>2, <1>4 DEF PoolOk
<1> HIDE DEF a
<1> SUFFICES PoolOk(a, w, d, b, new, n + 1)
  BY DEF a
<1>6. /\ a \in Seq(DataIds) /\ Ids(a) = Ids(q) \cup {id} /\ Injective(a)
  BY <1>2 DEF a
<1> QED BY <1>1, <1>3, <1>5, <1>6 DEF PoolOk

(* a request that the pool refused is given up, *)
LEMMA PoolDrops ==
    ASSUME NEW q, NEW w, NEW d, NEW b, NEW p, NEW n, PoolOk(q, w, d, b, p, n), b # <<>>,
           NEW new, \A j \in DataIds : new[j] = IF j = Head(b) THEN None ELSE p[j]
    PROVE  /\ PoolOk(q, w, d, Tail(b), new, n)
           /\ Head(b) \in DataIds /\ p[Head(b)] # None /\ Head(b) \notin Ids(q) \cup w
<1> DEFINE t == Tail(b)
           h == Head(b)
<1>1. /\ t \in Seq(DataIds) /\ h \in DataIds /\ Ids(b) = Ids(t) \cup {h}
      /\ Injective(t) /\ h \notin Ids(t)
  BY IdsTail DEF PoolOk
<1> HIDE DEF t, h
<1>2. {j \in DataIds : new[j] # None} = {j \in DataIds : p[j] # None} \ {h}
  BY DEF h
<1>3. p[h] # None
  BY <1>1 DEF PoolOk
<1>4. Ids(q) \cup w \cup Ids(d) \cup Ids(t) = {j \in DataIds : new[j] # None}
  BY <1>1, <1>2 DEF PoolOk
<1>5. PoolOk(q, w, d, t, new, n) /\ h \notin Ids(q) \cup w
  BY <1>1, <1>4 DEF PoolOk
<1> QED BY <1>1, <1>3, <1>5 DEF t, h

(* a worker takes the first job, *)
LEMMA PoolTakes ==
    ASSUME NEW q, NEW w, NEW d, NEW b, NEW p, NEW n, PoolOk(q, w, d, b, p, n), q # <<>>
    PROVE  /\ PoolOk(Tail(q), w \cup {Head(q)}, d, b, p, n)
           /\ Ids(Tail(q)) \cup (w \cup {Head(q)}) = Ids(q) \cup w
<1> DEFINE t == Tail(q)
           h == Head(q)
<1>1. /\ t \in Seq(DataIds) /\ h \in DataIds /\ Ids(q) = Ids(t) \cup {h}
      /\ Injective(t) /\ h \notin Ids(t) /\ Len(t) = Len(q) - 1
  BY IdsTail DEF PoolOk
<1> HIDE DEF t, h
<1>2. Cardinality(w \cup {h}) = Cardinality(w) + 1 /\ Cardinality(w) \in Nat
  <2>1. IsFiniteSet(w)
    <3>1. IsFiniteSet(DataIds)
      BY SessionsAssumption, FS_Interval DEF SessionsAssumption, DataIds
    <3> QED BY <3>1, FS_Subset DEF PoolOk
  <2>2. h \notin w
    BY <1>1 DEF PoolOk
  <2> QED BY <2>1, <2>2, FS_AddElement, FS_CardinalityType
<1>3. Len(q) \in Nat /\ Len(d) \in Nat
  BY DEF PoolOk
<1>4. n = Len(t) + Cardinality(w \cup {h}) + Len(d)
  BY <1>1, <1>2, <1>3 DEF PoolOk
<1>5. PoolOk(t, w \cup {h}, d, b, p, n)
  BY <1>1, <1>4 DEF PoolOk
<1> QED BY <1>1, <1>5 DEF t, h

(* a job that ends leaves its completion, *)
LEMMA PoolFinishes ==
    ASSUME NEW q, NEW w, NEW d, NEW b, NEW p, NEW n, PoolOk(q, w, d, b, p, n), NEW id \in w
    PROVE  /\ PoolOk(q, w \ {id}, Append(d, id), b, p, n)
           /\ id \in DataIds /\ p[id] # None
           /\ id \notin Ids(q) \cup (w \ {id})
<1> DEFINE a == Append(d, id)
<1>0. id \in DataIds /\ id \notin Ids(d) /\ p[id] # None
  BY DEF PoolOk
<1>1. /\ a \in Seq(DataIds) /\ Ids(a) = Ids(d) \cup {id} /\ Injective(a) /\ Len(a) = Len(d) + 1
  BY <1>0, IdsAppend DEF PoolOk
<1> HIDE DEF a
<1>2. Cardinality(w \ {id}) = Cardinality(w) - 1 /\ Cardinality(w) \in Nat
  <2>1. IsFiniteSet(w)
    <3>1. IsFiniteSet(DataIds)
      BY SessionsAssumption, FS_Interval DEF SessionsAssumption, DataIds
    <3> QED BY <3>1, FS_Subset DEF PoolOk
  <2> QED BY <2>1, FS_RemoveElement, FS_CardinalityType
<1>3. Len(q) \in Nat /\ Len(d) \in Nat
  BY DEF PoolOk
<1>4. n = Len(q) + Cardinality(w \ {id}) + Len(a)
  <2>1. n = Len(q) + Cardinality(w) + Len(d)
    BY DEF PoolOk
  <2> QED BY <1>1, <1>2, <1>3, <2>1
<1>5. PoolOk(q, w \ {id}, a, b, p, n) /\ id \notin Ids(q) \cup (w \ {id})
  BY <1>0, <1>1, <1>4 DEF PoolOk
<1> QED BY <1>0, <1>5 DEF a

(* and the loop takes the batch of completions. *)
LEMMA PoolDrains ==
    ASSUME NEW q, NEW w, NEW d, NEW p, NEW n, PoolOk(q, w, d, <<>>, p, n), NEW k \in 0..Len(d)
    PROVE  PoolOk(q, w, SubSeq(d, k + 1, Len(d)), SubSeq(d, 1, k), p, n - k)
<1> DEFINE h == SubSeq(d, 1, k)
           t == SubSeq(d, k + 1, Len(d))
<1>1. /\ h \in Seq(DataIds) /\ t \in Seq(DataIds)
      /\ Len(t) = Len(d) - k /\ Ids(d) = Ids(h) \cup Ids(t)
      /\ Injective(h) /\ Injective(t) /\ Ids(h) \cap Ids(t) = {}
  BY IdsSplit DEF PoolOk
<1> HIDE DEF h, t
<1>2. Len(q) \in Nat /\ Len(d) \in Nat /\ Len(t) \in Nat /\ k \in Nat /\ Cardinality(w) \in Nat
  <2>1. IsFiniteSet(w)
    <3>1. IsFiniteSet(DataIds)
      BY SessionsAssumption, FS_Interval DEF SessionsAssumption, DataIds
    <3> QED BY <3>1, FS_Subset DEF PoolOk
  <2> QED BY <1>1, <2>1, FS_CardinalityType DEF PoolOk
<1>3. n - k = Len(q) + Cardinality(w) + Len(t) /\ n - k \in Nat
  BY <1>1, <1>2 DEF PoolOk
<1>4. Ids(<<>>) = {}
  BY DEF Ids
<1>5. PoolOk(q, w, t, h, p, n - k)
  BY <1>1, <1>3, <1>4 DEF PoolOk
<1> QED BY <1>5 DEF h, t

(* The number of elements of two sets. *)
LEMMA UnionBound ==
    ASSUME NEW S, NEW T, IsFiniteSet(S), IsFiniteSet(T)
    PROVE  /\ IsFiniteSet(S \cup T) /\ Cardinality(S \cup T) \in Nat
           /\ Cardinality(S \cup T) <= Cardinality(S) + Cardinality(T)
<1>1. IsFiniteSet(S \cup T)
  BY FS_Union
<1>2. Cardinality(S \cup T) = Cardinality(S) + Cardinality(T) - Cardinality(S \cap T)
  BY FS_Union
<1>3. IsFiniteSet(S \cap T)
  BY FS_Intersection
<1>4. /\ Cardinality(S) \in Nat /\ Cardinality(T) \in Nat /\ Cardinality(S \cap T) \in Nat
      /\ Cardinality(S \cup T) \in Nat
  BY <1>1, <1>3, FS_CardinalityType
<1> QED BY <1>1, <1>2, <1>4

(* The pool has an id for what it accepts. *)
LEMMA FreeId ==
    ASSUME NEW q, NEW w, NEW d, NEW p, NEW n, PoolOk(q, w, d, <<>>, p, n), n < DataCapacity
    PROVE  \E id \in DataIds : p[id] = None
<1> SUFFICES ASSUME \A id \in DataIds : p[id] # None PROVE FALSE
  OBVIOUS
<1>1. Ids(<<>>) = {}
  BY DEF Ids
<1>2. Ids(q) \cup w \cup Ids(d) = DataIds
  BY <1>1 DEF PoolOk
<1>3. IsFiniteSet(DataIds) /\ Cardinality(DataIds) = DataCapacity /\ DataCapacity \in Nat
  <2>1. DataCapacity \in Nat \ {0}
    BY SessionsAssumption DEF SessionsAssumption
  <2>2. Cardinality(1..DataCapacity) = IF 1 > DataCapacity THEN 0 ELSE DataCapacity - 1 + 1
    BY <2>1, FS_Interval
  <2>3. IsFiniteSet(1..DataCapacity)
    BY <2>1, FS_Interval
  <2> QED BY <2>1, <2>2, <2>3 DEF DataIds
<1>4. IsFiniteSet(Ids(q)) /\ Cardinality(Ids(q)) <= Len(q)
  BY IdsCount DEF PoolOk
<1>5. IsFiniteSet(Ids(d)) /\ Cardinality(Ids(d)) <= Len(d)
  BY IdsCount DEF PoolOk
<1>6. IsFiniteSet(w)
  BY <1>3, FS_Subset DEF PoolOk
<1>7. /\ Cardinality(Ids(q)) \in Nat /\ Cardinality(Ids(d)) \in Nat /\ Cardinality(w) \in Nat
      /\ Len(q) \in Nat /\ Len(d) \in Nat
  BY <1>4, <1>5, <1>6, FS_CardinalityType DEF PoolOk
<1>8. /\ IsFiniteSet(Ids(q) \cup w)
      /\ Cardinality(Ids(q) \cup w) <= Cardinality(Ids(q)) + Cardinality(w)
      /\ Cardinality(Ids(q) \cup w) \in Nat
  BY <1>4, <1>6, <1>7, UnionBound
<1>9. Cardinality(DataIds) <= Cardinality(Ids(q) \cup w) + Cardinality(Ids(d))
  BY <1>2, <1>5, <1>8, UnionBound
<1>10. n = Len(q) + Cardinality(w) + Len(d)
  BY DEF PoolOk
<1> QED BY <1>3, <1>4, <1>5, <1>7, <1>8, <1>9, <1>10

Waits(x, w, b) == [x EXCEPT !.waiting = w, !.busy = b]

(* A session with other requests waiting is one, of any record, *)
LEMMA WaitsRecord ==
    ASSUME NEW A, NEW P, NEW C, NEW B, NEW W,
           NEW x \in [account : A, phase : P, character : C, busy : B, waiting : W],
           NEW w \in W, NEW b \in B
    PROVE  LET y == Waits(x, w, b) IN
           /\ y \in [account : A, phase : P, character : C, busy : B, waiting : W]
           /\ y.account = x.account /\ y.phase = x.phase /\ y.character = x.character
           /\ y.waiting = w /\ y.busy = b
BY DEF Waits

(* and of the realm. *)
LEMMA WaitsSession ==
    ASSUME NEW x \in Session, NEW w \in Seq(Requests), NEW b \in BOOLEAN
    PROVE  LET y == Waits(x, w, b) IN
           /\ y \in Session
           /\ y.account = x.account /\ y.phase = x.phase /\ y.character = x.character
           /\ y.waiting = w /\ y.busy = b
<1> DEFINE P == {"Selecting", "InGame"}
           C == Cached \cup {None}
           B == BOOLEAN
           W == Seq(Requests)
<1>1. Session = [account : Accounts, phase : P, character : C, busy : B, waiting : W]
  BY DEF Session
<1>2. w \in W /\ b \in B
  OBVIOUS
<1> HIDE DEF P, C, B, W
<1> QED BY <1>1, <1>2, WaitsRecord

(* The session after process_next. *)
Served(session, x) ==
    /\ x \in Session
    /\ x.account = session.account /\ x.phase = session.phase
    /\ x.character = session.character

(* process_next found nothing for the database, *)
Idle(session, freed) ==
    /\ \A j \in DataIds : pending'[j] = IF j \in freed THEN None ELSE pending[j]
    /\ \A j \in DataIds : job'[j] = IF j \in freed THEN NoJob ELSE job[j]
    /\ UNCHANGED dataPool

(* or submits a data access. *)
Submits(s, session, freed, lua, r, id) ==
    /\ pending[id] = None \/ id \in freed
    /\ NeedsData(session, r, lua)
    /\ \A j \in DataIds : pending'[j] = IF j = id THEN DataAccess(s, session, r)
                                        ELSE IF j \in freed THEN None ELSE pending[j]
    /\ \A j \in DataIds : job'[j] = IF j = id THEN [NoJob EXCEPT !.pc = r.type]
                                    ELSE IF j \in freed THEN NoJob ELSE job[j]
    /\ Pool!Accept(id)

(* process_next answers until the queue is empty, or a request needs the database. *)
LEMMA ProcessFacts ==
    ASSUME NEW s \in Sessions, NEW session \in Session, NEW freed \in SUBSET DataIds,
           NEW said, NEW lua,
           inFlight < DataCapacity => \E i \in DataIds : pending[i] = None \/ i \in freed,
           ProcessNext(s, session, freed, said, lua)
    PROVE  /\ \A c \in told' : \/ c \in told \cup said
                               \/ session.phase = "InGame" /\ c = session.character
           /\ DOMAIN pending' = DataIds /\ DOMAIN job' = DataIds
           /\ pending' = [j \in DataIds |-> pending'[j]]
           /\ \E x : /\ Served(session, x) /\ sessions' = [sessions EXCEPT ![s] = x]
                     /\ \/ ~x.busy /\ x.waiting = <<>> /\ Idle(session, freed)
                        \/ /\ x.busy
                           /\ \E r \in Requests : \E id \in DataIds :
                                  Submits(s, session, freed, lua, r, id)
<1> DEFINE step == Answered(session, inFlight < DataCapacity, lua)
           ids == {i \in DataIds : pending[i] = None} \cup freed
           id == CHOOSE i \in ids : \A k \in ids : i <= k
           sends == step.sent # None
           x == Waits(session, step.waits, sends)
           Renew(f, new, none) == [i \in DataIds |->
               IF step.sent # None /\ i = id THEN new
               ELSE IF i \in freed THEN none ELSE f[i]]
<1>1. /\ sessions' = [sessions EXCEPT ![s] = x]
      /\ told' = told \cup said \cup step.said
      /\ pending' = Renew(pending, DataAccess(s, session, step.sent), None)
      /\ job' = Renew(job, [NoJob EXCEPT !.pc = step.sent.type], NoJob)
      /\ IF step.sent = None THEN UNCHANGED dataPool ELSE Pool!Accept(id)
  BY DEF ProcessNext, Waits
<1>2. /\ step.waits \in Seq(Requests)
      /\ step.sent = None => step.waits = <<>>
      /\ step.sent # None =>
           step.sent \in Requests /\ inFlight < DataCapacity /\ NeedsData(session, step.sent, lua)
      /\ \A c \in step.said : session.phase = "InGame" /\ c = session.character
  BY AnsweredFacts
<1> HIDE DEF step
<1>3. sends \in BOOLEAN
  OBVIOUS
<1>4. Served(session, x) /\ x.waiting = step.waits /\ x.busy = sends
  <2> HIDE DEF sends
  <2> QED BY <1>2, <1>3, WaitsSession DEF Served
<1>5. \A c \in told' : \/ c \in told \cup said
                       \/ session.phase = "InGame" /\ c = session.character
  BY <1>1, <1>2
<1>6. DOMAIN pending' = DataIds /\ DOMAIN job' = DataIds /\ pending' = [j \in DataIds |-> pending'[j]]
  BY <1>1
<1>7. CASE step.sent = None
  <2>1. Idle(session, freed)
    BY <1>1, <1>7 DEF Idle
  <2>2. ~x.busy /\ x.waiting = <<>>
    BY <1>2, <1>4, <1>7
  <2> HIDE DEF x
  <2> QED BY <1>1, <1>4, <1>5, <1>6, <2>1, <2>2
<1>8. CASE step.sent # None
  <2>1. x.busy
    BY <1>4, <1>8
  <2>2. ids \subseteq DataIds /\ ids # {} /\ ids \subseteq Nat
    <3>1. ids \subseteq DataIds
      OBVIOUS
    <3>2. \E i \in DataIds : i \in ids
      BY <1>2, <1>8
    <3>3. DataIds \subseteq Nat
      BY DEF DataIds
    <3> HIDE DEF ids
    <3> QED BY <3>1, <3>2, <3>3
  <2>3. \E i \in ids : \A k \in ids : i <= k
    <3> HIDE DEF ids
    <3> QED BY <2>2, LeastOf
  <2>4. id \in ids
    <3> HIDE DEF ids
    <3> QED BY <2>3
  <2>5. id \in DataIds /\ (pending[id] = None \/ id \in freed)
    BY <2>2, <2>4
  <2> HIDE DEF ids, id, x
  <2>6. Submits(s, session, freed, lua, step.sent, id)
    BY <1>1, <1>2, <1>8, <2>5 DEF Submits
  <2> QED BY <1>1, <1>2, <1>4, <1>5, <1>6, <1>8, <2>1, <2>5, <2>6
<1> QED BY <1>7, <1>8

-----------------------------------------------------------------------------
(* The data accesses without the ones whose ids are freed. *)
Less(p, freed, old) == \A j \in DataIds : p[j] = IF j \in freed THEN None ELSE old[j]

(* They are those of the sessions other than s. *)
Others(p, ss, au, s) ==
    /\ \A i \in DataIds : p[i] # None =>
         /\ p[i].session # s /\ au[p[i].session] # None
         /\ ss[p[i].session] # None =>
              ss[p[i].session].busy /\ ss[p[i].session].account = p[i].account
    /\ \A i, j \in DataIds : p[i] # None /\ p[j] # None /\ p[i].session = p[j].session => i = j
    /\ \A t \in Sessions : t # s /\ ss[t] # None /\ ss[t].busy =>
         \E i \in DataIds : p[i] # None /\ p[i].session = t

AllValid(said, ch) == \A c \in said : Valid(c, ch)

(* process_next on a session that has no data access left keeps the tables *)
(* and the pool in order.                                                  *)
LEMMA ProcessKeeps ==
    ASSUME NEW s \in Sessions, NEW session, NEW freed \in SUBSET DataIds, NEW said, NEW lua,
           NEW p, NEW b, NEW au,
           ProcessNext(s, session, freed, said, lua),
           UNCHANGED online,
           SessionsOk(sessions, online, au, told, characters),
           sessions[s] # None,
           SessionOk(session, characters), session.account = sessions[s].account,
           AllValid(said, characters),
           Less(p, freed, pending),
           pending \in [DataIds -> Access \cup {None}],
           Others(p, sessions, au, s),
           PoolOk(queue, working, done, b, p, inFlight),
           inFlight < DataCapacity => \E i \in DataIds : p[i] = None,
           JobsOk(queue, working, p, job, characters)
    PROVE  /\ SessionsOk(sessions', online', au, told', characters)
           /\ AccessesOk(pending', sessions', au)
           /\ PoolOk(queue', working', done', b, pending', inFlight')
           /\ JobsOk(queue', working', pending', job', characters)
           /\ cancelled' = cancelled
<1>1. /\ session \in Session /\ session.account \in Accounts
      /\ session.phase = "InGame" => Valid(session.character, characters)
  BY DEF SessionOk, Session
<1>0. /\ \A c \in said : Valid(c, characters)
      /\ \A j \in DataIds : p[j] = IF j \in freed THEN None ELSE pending[j]
  BY DEF AllValid, Less
<1>2. inFlight < DataCapacity => \E i \in DataIds : pending[i] = None \/ i \in freed
  BY <1>0
<1>3. /\ \A c \in told' : \/ c \in told \cup said
                          \/ session.phase = "InGame" /\ c = session.character
      /\ DOMAIN pending' = DataIds /\ DOMAIN job' = DataIds
      /\ pending' = [j \in DataIds |-> pending'[j]]
      /\ \E x : /\ Served(session, x) /\ sessions' = [sessions EXCEPT ![s] = x]
                /\ \/ ~x.busy /\ x.waiting = <<>> /\ Idle(session, freed)
                   \/ /\ x.busy
                      /\ \E r \in Requests : \E id \in DataIds :
                             Submits(s, session, freed, lua, r, id)
  BY <1>1, <1>2, ProcessFacts
<1>4. PICK x : /\ Served(session, x) /\ sessions' = [sessions EXCEPT ![s] = x]
               /\ \/ ~x.busy /\ x.waiting = <<>> /\ Idle(session, freed)
                  \/ /\ x.busy
                     /\ \E r \in Requests : \E id \in DataIds :
                            Submits(s, session, freed, lua, r, id)
  BY <1>3
<1>5. /\ x \in Session /\ x.account = sessions[s].account /\ SessionOk(x, characters)
      /\ x.waiting # <<>> => x.busy
      /\ x # None
  BY <1>1, <1>4, NoneAssumption DEF Served, SessionOk, NoneAssumption
<1>6. \A t \in Sessions : sessions'[t] = IF t = s THEN x ELSE sessions[t]
  BY <1>4 DEF SessionsOk
<1>7. sessions' \in [Sessions -> Session \cup {None}]
  BY <1>4, <1>5 DEF SessionsOk
<1>8. SessionsOk(sessions', online', au, told', characters)
  <2>1. \A c \in told' : Valid(c, characters)
    BY <1>0, <1>1, <1>3 DEF SessionsOk
  <2>2. \A t \in Sessions : sessions'[t] # None =>
          /\ SessionOk(sessions'[t], characters)
          /\ au[t] = sessions'[t].account /\ online'[sessions'[t].account] = t
          /\ sessions'[t].waiting # <<>> => sessions'[t].busy
    BY <1>5, <1>6 DEF SessionsOk
  <2>3. \A a \in Accounts : online'[a] # None =>
          sessions'[online'[a]] # None /\ sessions'[online'[a]].account = a
    BY <1>5, <1>6 DEF SessionsOk
  <2> QED BY <1>7, <2>1, <2>2, <2>3 DEF SessionsOk
<1>9. CASE ~x.busy /\ Idle(session, freed)
  <2>1. \A j \in DataIds : pending'[j] = p[j]
    BY <1>0, <1>9 DEF Idle
  <2>2. AccessesOk(pending', sessions', au)
    <3>1. \A i \in DataIds : pending'[i] \in Access \cup {None}
      BY <1>0, <2>1
    <3>2. pending' \in [DataIds -> Access \cup {None}]
      BY <1>3, <3>1
    <3>3. \A i \in DataIds : pending'[i] # None => pending'[i].session \in Sessions
      BY <3>1 DEF Access
    <3> QED BY <1>5, <1>6, <1>9, <2>1, <3>2, <3>3 DEF AccessesOk, Others
  <2>3. /\ queue' = queue /\ working' = working /\ done' = done /\ cancelled' = cancelled
        /\ inFlight' = inFlight
    BY <1>9 DEF Idle, dataPool
  <2>4. {j \in DataIds : pending'[j] # None} = {j \in DataIds : p[j] # None}
    BY <2>1
  <2>5. PoolOk(queue', working', done', b, pending', inFlight')
    BY <2>3, <2>4 DEF PoolOk
  <2>6. \A j \in DataIds : DOMAIN job'[j] = {"pc", "attempt", "result"}
    BY <1>9 DEF Idle, JobsOk, NoJob
  <2>7. \A j \in DataIds : pending'[j] # None => job'[j] = job[j]
    BY <1>9 DEF Idle
  <2>8. JobsOk(queue', working', pending', job', characters)
    BY <1>3, <2>1, <2>3, <2>6, <2>7 DEF JobsOk
  <2> QED BY <1>8, <2>2, <2>3, <2>5, <2>8
<1>10. CASE x.busy /\ \E r \in Requests : \E id \in DataIds :
                          Submits(s, session, freed, lua, r, id)
  <2>1. PICK r \in Requests, id \in DataIds : Submits(s, session, freed, lua, r, id)
    BY <1>10
  <2> DEFINE new == DataAccess(s, session, r)
             start0 == [NoJob EXCEPT !.pc = r.type]
  <2>2. /\ new \in Access /\ new # None /\ new.session = s /\ new.account = session.account
        /\ Asks(new, characters)
        /\ \A j : j.pc = r.type => Runs(new, j, characters)
    BY <2>1, AccessFacts DEF Submits
  <2>3. /\ start0.pc = r.type /\ DOMAIN start0 = {"pc", "attempt", "result"}
    BY DEF NoJob
  <2>4. /\ p[id] = None
        /\ \A j \in DataIds : pending'[j] = IF j = id THEN new ELSE p[j]
        /\ \A j \in DataIds : job'[j] = IF j = id THEN start0
                                        ELSE IF j \in freed THEN NoJob ELSE job[j]
    BY <1>0, <2>1 DEF Submits
  <2> HIDE DEF new, start0
  <2>5. /\ queue' = Append(queue, id) /\ inFlight' = inFlight + 1
        /\ working' = working /\ done' = done /\ cancelled' = cancelled
    BY <2>1 DEF Submits, Pool!Accept
  <2>6. PoolOk(queue', working', done', b, pending', inFlight')
    <3>1. pending'[id] # None /\ \A j \in DataIds : j # id => pending'[j] = p[j]
      BY <2>2, <2>4
    <3>2. PoolOk(Append(queue, id), working, done, b, pending', inFlight + 1)
      BY <2>4, <3>1, PoolAccepts
    <3> QED BY <2>5, <3>2
  <2>7. AccessesOk(pending', sessions', au)
    <3>1. \A i \in DataIds : pending'[i] \in Access \cup {None}
      BY <1>0, <2>2, <2>4
    <3>2. pending' \in [DataIds -> Access \cup {None}]
      BY <1>3, <3>1
    <3>3. \A i \in DataIds : pending'[i] # None => pending'[i].session \in Sessions
      BY <3>1 DEF Access
    <3>4. au[s] # None
      <4>1. au[s] = sessions[s].account /\ sessions[s].account \in Accounts
        BY <1>1 DEF SessionsOk
      <4> QED BY <4>1, PlayerDataAssumption DEF PlayerDataAssumption
    <3>5. \A i \in DataIds : pending'[i] # None =>
            /\ au[pending'[i].session] # None
            /\ sessions'[pending'[i].session] # None =>
                 /\ sessions'[pending'[i].session].busy
                 /\ sessions'[pending'[i].session].account = pending'[i].account
      BY <1>5, <1>6, <1>10, <2>2, <2>4, <3>3, <3>4 DEF Others
    <3>6. \A i, j \in DataIds :
            pending'[i] # None /\ pending'[j] # None
              /\ pending'[i].session = pending'[j].session => i = j
      <4>1. \A i \in DataIds : pending'[i] # None =>
              \/ i = id /\ pending'[i].session = s
              \/ i # id /\ pending'[i] = p[i] /\ p[i] # None /\ p[i].session # s
        BY <2>2, <2>4 DEF Others
      <4> QED BY <4>1 DEF Others
    <3>7. \A t \in Sessions : sessions'[t] # None /\ sessions'[t].busy =>
            \E i \in DataIds : pending'[i] # None /\ pending'[i].session = t
      <4> SUFFICES ASSUME NEW t \in Sessions, sessions'[t] # None, sessions'[t].busy
                   PROVE  \E i \in DataIds : pending'[i] # None /\ pending'[i].session = t
        OBVIOUS
      <4>1. CASE t = s
        BY <2>2, <2>4, <4>1
      <4>2. CASE t # s
        <5>1. PICK i \in DataIds : p[i] # None /\ p[i].session = t
          BY <1>6, <4>2 DEF Others
        <5>2. pending'[i] = p[i]
          BY <2>4, <5>1
        <5> QED BY <5>1, <5>2
      <4> QED BY <4>1, <4>2
    <3> QED BY <3>2, <3>5, <3>6, <3>7 DEF AccessesOk
  <2>8. Ids(queue') = Ids(queue) \cup {id}
    BY <2>5, IdsAppend DEF PoolOk
  <2>9. \A j \in DataIds : DOMAIN job'[j] = {"pc", "attempt", "result"}
    BY <2>3, <2>4 DEF JobsOk, NoJob
  <2>10. \A j \in DataIds : pending'[j] # None =>
            JobOk(j \in Ids(queue') \cup working', pending'[j], job'[j], characters)
    <3> SUFFICES ASSUME NEW j \in DataIds, pending'[j] # None
                 PROVE  JobOk(j \in Ids(queue') \cup working', pending'[j], job'[j], characters)
      OBVIOUS
    <3>1. CASE j = id
      BY <2>2, <2>3, <2>4, <2>8, <3>1 DEF JobOk
    <3>2. CASE j # id
      <4>1. pending'[j] = p[j] /\ job'[j] = job[j] /\ p[j] # None
        BY <1>0, <2>4, <3>2
      <4>2. j \in Ids(queue') \cup working' <=> j \in Ids(queue) \cup working
        BY <2>5, <2>8, <3>2
      <4>3. JobOk(j \in Ids(queue) \cup working, p[j], job[j], characters)
        BY <4>1 DEF JobsOk
      <4> QED BY <4>1, <4>2, <4>3 DEF JobOk
    <3> QED BY <3>1, <3>2
  <2>11. JobsOk(queue', working', pending', job', characters)
    BY <1>3, <2>9, <2>10 DEF JobsOk
  <2> QED BY <1>8, <2>5, <2>6, <2>7, <2>11
<1> QED BY <1>4, <1>9, <1>10

(* The inductive invariant. *)
TablesInv ==
    /\ SessionsOk(sessions, online, authenticated, told, characters)
    /\ AccessesOk(pending, sessions, authenticated)
    /\ PoolOk(queue, working, done, batch, pending, inFlight)
    /\ cancelled = {}
    /\ JobsOk(queue, working, pending, job, characters)
    /\ \A i \in DataIds : pending[i] # None => start[RealmService] = "serving"

Inv == DataInv /\ TablesInv

-----------------------------------------------------------------------------
(* Steps of the database alone. *)
LEMMA DataTypes ==
    ASSUME DataInv, DataMoves
    PROVE  /\ characters \in [Characters -> CharacterDoc \cup {None}]
           /\ characters' \in [Characters -> CharacterDoc \cup {None}]
           /\ Grows(characters, characters')
BY DEF DataInv, DataMoves, DataOk

(* What a step keeps: Inv, and the database only grows. *)
Kept == Inv' /\ Grows(characters, characters')

(* A step of the database leaves the tables right. *)
LEMMA TablesKept ==
    ASSUME Inv, DataMoves, UNCHANGED <<tables, batch, told, dataPool, authenticated>>,
           start[RealmService] = "serving" => start'[RealmService] = "serving"
    PROVE  Kept
<1>1. /\ characters \in [Characters -> CharacterDoc \cup {None}]
      /\ characters' \in [Characters -> CharacterDoc \cup {None}]
      /\ Grows(characters, characters')
  BY DataTypes DEF Inv
<1>2. SessionsOk(sessions, online, authenticated, told, characters')
  BY <1>1, SessionsGrow DEF Inv, TablesInv
<1>3. JobsOk(queue, working, pending, job, characters')
  BY <1>1, JobsGrow DEF Inv, TablesInv
<1> QED BY <1>2, <1>3 DEF Kept, Inv, TablesInv, DataMoves, tables, dataPool

(* A service connects, *)
LEMMA StartKeeps ==
    ASSUME Inv, NEW v \in Services, StartStep(v)
    PROVE  Kept
<1>1. DataMoves /\ start[v] # "serving" /\ \A u \in Services \ {v} : start'[u] = start[u]
  BY StartMoves DEF Inv
<1>2. start[RealmService] = "serving" => start'[RealmService] = "serving"
  BY <1>1, FrameAssumption DEF FrameAssumption
<1> QED BY <1>1, <1>2, TablesKept DEF StartStep, frame

(* an operator provisions an account or character, *)
LEMMA AdminKeeps ==
    ASSUME Inv, Admin, UNCHANGED <<tables, batch, told, dataPool, frame>>
    PROVE  Kept
<1>1. DataMoves
  BY AdminMoves DEF Inv
<1> QED BY <1>1, TablesKept DEF Admin, frame

(* and a selection. *)
LEMMA AdminSelectKeeps ==
    ASSUME Inv, AdminSelect, UNCHANGED <<dynamic, frame>>
    PROVE  Kept
<1>1. DataMoves
  BY AdminSelectMoves DEF Inv
<1> QED BY <1>1, TablesKept DEF AdminSelect, frame, dynamic

(* A step that leaves the database alone. *)
LEMMA DataUnchanged ==
    ASSUME DataInv, UNCHANGED <<database, world>>
    PROVE  DataMoves /\ characters' = characters /\ start' = start
<1>1. Moves
  BY UnchangedMoves DEF DataInv, database
<1> QED BY <1>1 DEF DataInv, DataMoves, Moves, database, world

-----------------------------------------------------------------------------
(* Connections. *)
LEMMA ClosedKeeps ==
    ASSUME Inv, NEW s \in Sessions, Closed(s)
    PROVE  Inv'
<1>0. DataMoves /\ characters' = characters /\ start' = start
  BY DataUnchanged DEF Inv, Closed
<1>1. /\ SessionsOk(sessions, online, authenticated, told, characters)
      /\ AccessesOk(pending, sessions, authenticated)
  BY DEF Inv, TablesInv
<1>2. /\ sessions' = [sessions EXCEPT ![s] = None]
      /\ online' = IF sessions[s] # None /\ online[sessions[s].account] = s
                     THEN [online EXCEPT ![sessions[s].account] = None] ELSE online
      /\ authenticated' = [authenticated EXCEPT ![s] = "closed"]
      /\ UNCHANGED <<pending, job, told, batch, dataPool>>
  BY DEF Closed, Forget
<1>3. None # "closed" /\ None \notin Sessions
  BY NoneAssumption DEF NoneAssumption
<1>4. \A t \in Sessions : /\ sessions'[t] = IF t = s THEN None ELSE sessions[t]
                          /\ authenticated'[t] = IF t = s THEN "closed" ELSE authenticated[t]
  BY <1>1, <1>2 DEF SessionsOk
<1>5. \A a \in Accounts : online'[a] = IF online[a] = s THEN None ELSE online[a]
  BY <1>1, <1>2, <1>3 DEF SessionsOk, SessionOk, Session
<1>6. SessionsOk(sessions', online', authenticated', told', characters')
  <2>1. sessions' \in [Sessions -> Session \cup {None}]
    BY <1>1, <1>2 DEF SessionsOk
  <2>2. online' \in [Accounts -> Sessions \cup {None}]
    <3>1. DOMAIN online' = Accounts /\ online' = [a \in Accounts |-> online'[a]]
      BY <1>1, <1>2 DEF SessionsOk
    <3> QED BY <1>1, <1>5, <3>1 DEF SessionsOk
  <2>3. authenticated' \in [Sessions -> Accounts \cup {None, "closed"}]
    BY <1>1, <1>2 DEF SessionsOk
  <2>4. \A t \in Sessions : sessions'[t] # None =>
          /\ SessionOk(sessions'[t], characters')
          /\ authenticated'[t] = sessions'[t].account /\ online'[sessions'[t].account] = t
          /\ sessions'[t].waiting # <<>> => sessions'[t].busy
    BY <1>0, <1>1, <1>4, <1>5 DEF SessionsOk, SessionOk, Session
  <2>5. \A a \in Accounts : online'[a] # None =>
          sessions'[online'[a]] # None /\ sessions'[online'[a]].account = a
    BY <1>1, <1>4, <1>5 DEF SessionsOk
  <2>6. \A c \in told' : Valid(c, characters')
    BY <1>0, <1>1, <1>2 DEF SessionsOk
  <2> QED BY <2>1, <2>2, <2>3, <2>4, <2>5, <2>6 DEF SessionsOk
<1>7. AccessesOk(pending', sessions', authenticated')
  <2>1. \A i \in DataIds : pending[i] # None => pending[i].session \in Sessions
    BY <1>1 DEF AccessesOk, Access
  <2> QED BY <1>1, <1>2, <1>3, <1>4, <2>1 DEF AccessesOk
<1> QED BY <1>0, <1>2, <1>6, <1>7 DEF Inv, TablesInv, DataMoves, dataPool

(* An account enters, and displaces its session of before. *)
LEMMA EnterKeeps ==
    ASSUME Inv, NEW s \in Sessions, NEW a \in Players, EnterRealm(s, a)
    PROVE  Inv'
<1>0. DataMoves /\ characters' = characters /\ start' = start
  BY DataUnchanged DEF Inv, EnterRealm
<1>1. /\ SessionsOk(sessions, online, authenticated, told, characters)
      /\ AccessesOk(pending, sessions, authenticated)
  BY DEF Inv, TablesInv
<1>2. /\ sessions' = [t \in Sessions |->
           IF t = s THEN NewSession(a) ELSE IF t = online[a] THEN None ELSE sessions[t]]
      /\ online' = [online EXCEPT ![a] = s]
      /\ authenticated[s] = None
      /\ authenticated' = [authenticated EXCEPT ![s] = a]
      /\ UNCHANGED <<pending, job, told, batch, dataPool>>
  BY DEF EnterRealm, Enter
<1>3. a \in Accounts /\ None \notin Sessions /\ None \notin Accounts
  BY FrameAssumption, NoneAssumption, PlayerDataAssumption
     DEF FrameAssumption, NoneAssumption, PlayerDataAssumption
<1> DEFINE new == NewSession(a)
<1>4. /\ new \in Session /\ new # None /\ new.account = a /\ new.phase = "Selecting"
      /\ new.waiting = <<>> /\ ~new.busy
  <2>1. new \in Session
    BY <1>3 DEF NewSession, Session
  <2> QED BY <2>1, NoneAssumption DEF NewSession, NoneAssumption
<1>5. /\ \A t \in Sessions :
           /\ sessions'[t] = IF t = s THEN new ELSE IF t = online[a] THEN None ELSE sessions[t]
           /\ authenticated'[t] = IF t = s THEN a ELSE authenticated[t]
      /\ \A b \in Accounts : online'[b] = IF b = a THEN s ELSE online[b]
  BY <1>1, <1>2, <1>3 DEF SessionsOk
<1> HIDE DEF new
<1>6. sessions[s] = None
  BY <1>1, <1>2, <1>3 DEF SessionsOk, SessionOk, Session
<1>7. SessionsOk(sessions', online', authenticated', told', characters')
  <2>1. sessions' \in [Sessions -> Session \cup {None}]
    <3>1. \A t \in Sessions : sessions'[t] \in Session \cup {None}
      BY <1>1, <1>4, <1>5 DEF SessionsOk
    <3> QED BY <1>2, <3>1
  <2>2. online' \in [Accounts -> Sessions \cup {None}]
    BY <1>1, <1>2 DEF SessionsOk
  <2>3. authenticated' \in [Sessions -> Accounts \cup {None, "closed"}]
    BY <1>1, <1>2, <1>3 DEF SessionsOk
  <2>4. \A t \in Sessions : sessions'[t] # None =>
          /\ SessionOk(sessions'[t], characters')
          /\ authenticated'[t] = sessions'[t].account /\ online'[sessions'[t].account] = t
          /\ sessions'[t].waiting # <<>> => sessions'[t].busy
    <3> SUFFICES ASSUME NEW t \in Sessions, sessions'[t] # None
                 PROVE  /\ SessionOk(sessions'[t], characters')
                        /\ authenticated'[t] = sessions'[t].account
                        /\ online'[sessions'[t].account] = t
                        /\ sessions'[t].waiting # <<>> => sessions'[t].busy
      OBVIOUS
    <3>1. CASE t = s
      BY <1>3, <1>4, <1>5, <3>1 DEF SessionOk
    <3>2. CASE t # s
      <4>1. sessions'[t] = sessions[t] /\ t # online[a] /\ sessions[t] # None
        BY <1>5, <3>2
      <4>2. /\ SessionOk(sessions[t], characters) /\ sessions[t].account \in Accounts
            /\ authenticated[t] = sessions[t].account /\ online[sessions[t].account] = t
            /\ sessions[t].waiting # <<>> => sessions[t].busy
        BY <1>1, <4>1 DEF SessionsOk, SessionOk, Session
      <4>3. sessions[t].account # a
        BY <4>1, <4>2
      <4> QED BY <1>0, <1>5, <3>2, <4>1, <4>2, <4>3
    <3> QED BY <3>1, <3>2
  <2>5. \A b \in Accounts : online'[b] # None =>
          sessions'[online'[b]] # None /\ sessions'[online'[b]].account = b
    <3> SUFFICES ASSUME NEW b \in Accounts, online'[b] # None
                 PROVE  sessions'[online'[b]] # None /\ sessions'[online'[b]].account = b
      OBVIOUS
    <3>1. CASE b = a
      BY <1>4, <1>5, <3>1
    <3>2. CASE b # a
      <4>1. /\ online'[b] = online[b] /\ online[b] \in Sessions
            /\ sessions[online[b]] # None /\ sessions[online[b]].account = b
        BY <1>1, <1>5, <3>2 DEF SessionsOk
      <4>2. online[b] # s
        BY <1>6, <4>1
      <4>3. online[b] # online[a]
        BY <1>1, <1>3, <3>2, <4>1 DEF SessionsOk
      <4> QED BY <1>5, <4>1, <4>2, <4>3
    <3> QED BY <3>1, <3>2
  <2>6. \A c \in told' : Valid(c, characters')
    BY <1>0, <1>1, <1>2 DEF SessionsOk
  <2> QED BY <2>1, <2>2, <2>3, <2>4, <2>5, <2>6 DEF SessionsOk
<1>8. AccessesOk(pending', sessions', authenticated')
  <2>1. \A i \in DataIds : pending[i] # None =>
          pending[i].session \in Sessions /\ pending[i].session # s
    BY <1>1, <1>2 DEF AccessesOk, Access
  <2> QED BY <1>1, <1>2, <1>4, <1>5, <2>1 DEF AccessesOk
<1> QED BY <1>0, <1>2, <1>7, <1>8 DEF Inv, TablesInv, DataMoves, dataPool

Queued(x, r) == [x EXCEPT !.waiting = Append(x.waiting, r)]

(* A session with one request more, *)
LEMMA QueuedSession ==
    ASSUME NEW x \in Session, NEW r \in Requests
    PROVE  LET y == Queued(x, r) IN
           /\ y \in Session
           /\ y.account = x.account /\ y.phase = x.phase /\ y.character = x.character
           /\ y.busy = x.busy
<1>1. Append(x.waiting, r) \in Seq(Requests)
  BY DEF Session
<1> DEFINE w == Append(x.waiting, r)
           W == Seq(Requests)
<1>2. w \in W
  BY <1>1
<1>3. Queued(x, r) = [x EXCEPT !.waiting = w]
  BY DEF Queued
<1> HIDE DEF w, W
<1> QED BY <1>2, <1>3 DEF Session, W

(* of the requests there are. *)
LEMMA RequestTypes ==
    ASSUME NEW r \in Requests
    PROVE  r.type \in {"list", "create", "select", "train"}
BY DEF Requests, Request

(* A message of a client: answered, queued or made a data access. *)
LEMMA MessageKeeps ==
    ASSUME Inv, NEW s \in Sessions, NEW r \in Requests, Message(s, r)
    PROVE  Inv'
<1>0. DataMoves /\ characters' = characters /\ start' = start
  BY DataUnchanged DEF Inv, Message
<1>1. /\ SessionsOk(sessions, online, authenticated, told, characters)
      /\ AccessesOk(pending, sessions, authenticated)
      /\ PoolOk(queue, working, done, batch, pending, inFlight)
      /\ JobsOk(queue, working, pending, job, characters)
      /\ cancelled = {}
  BY DEF Inv, TablesInv
<1>2. /\ Handle(s, r) /\ batch = <<>> /\ batch' = batch /\ start[RealmService] = "serving"
      /\ authenticated' = authenticated
  BY DEF Message, AtEvents
<1> DEFINE queued == [sessions[s] EXCEPT !.waiting = Append(@, r)]
<1>3. sessions[s] # None /\ online' = online
  BY <1>2 DEF Handle
<1>4. sessions[s] \in Session /\ SessionOk(sessions[s], characters)
  BY <1>1, <1>3 DEF SessionsOk, SessionOk
<1>5. /\ queued \in Session /\ queued # None /\ SessionOk(queued, characters)
      /\ queued.account = sessions[s].account /\ queued.busy = sessions[s].busy
  <2>1. queued = Queued(sessions[s], r)
    BY DEF Queued
  <2> HIDE DEF queued
  <2>2. /\ queued \in Session /\ queued.account = sessions[s].account
        /\ queued.phase = sessions[s].phase /\ queued.character = sessions[s].character
        /\ queued.busy = sessions[s].busy
    BY <1>4, <2>1, QueuedSession
  <2> QED BY <1>4, <2>2, NoneAssumption DEF SessionOk, NoneAssumption
<1>6. \/ UNCHANGED <<tables, told, dataPool>>
      \/ /\ sessions[s].busy /\ sessions' = [sessions EXCEPT ![s] = queued]
         /\ UNCHANGED <<pending, job, told, dataPool>>
      \/ ~sessions[s].busy /\ \E lua \in BOOLEAN : ProcessNext(s, queued, {}, {}, lua)
  BY <1>2 DEF Handle
<1> HIDE DEF queued
<1>7. CASE UNCHANGED <<tables, told, dataPool>>
  BY <1>0, <1>2, <1>7, TablesKept DEF Inv, Kept
<1>8. CASE /\ sessions[s].busy /\ sessions' = [sessions EXCEPT ![s] = queued]
           /\ UNCHANGED <<pending, job, told, dataPool>>
  <2>1. \A t \in Sessions : sessions'[t] = IF t = s THEN queued ELSE sessions[t]
    BY <1>1, <1>8 DEF SessionsOk
  <2>2. SessionsOk(sessions', online', authenticated', told', characters')
    <3>1. sessions' \in [Sessions -> Session \cup {None}]
      BY <1>1, <1>5, <1>8 DEF SessionsOk
    <3>2. \A t \in Sessions : sessions'[t] # None =>
            /\ SessionOk(sessions'[t], characters)
            /\ authenticated[t] = sessions'[t].account /\ online[sessions'[t].account] = t
            /\ sessions'[t].waiting # <<>> => sessions'[t].busy
      BY <1>1, <1>3, <1>5, <1>8, <2>1 DEF SessionsOk
    <3>3. \A a \in Accounts : online[a] # None =>
            sessions'[online[a]] # None /\ sessions'[online[a]].account = a
      BY <1>1, <1>5, <2>1 DEF SessionsOk
    <3>4. /\ \A c \in told' : Valid(c, characters')
          /\ online' = online /\ authenticated' = authenticated /\ characters' = characters
      BY <1>0, <1>1, <1>2, <1>3, <1>8 DEF SessionsOk
    <3> QED BY <1>1, <3>1, <3>2, <3>3, <3>4 DEF SessionsOk
  <2>3. AccessesOk(pending', sessions', authenticated')
    <3>1. \A i \in DataIds : pending[i] # None => pending[i].session \in Sessions
      BY <1>1 DEF AccessesOk, Access
    <3>2. pending' = pending /\ authenticated' = authenticated
      BY <1>2, <1>8
    <3>3. \A t \in Sessions : /\ sessions'[t] = None <=> sessions[t] = None
                              /\ sessions'[t] # None => /\ sessions'[t].busy = sessions[t].busy
                                                        /\ sessions'[t].account = sessions[t].account
      BY <1>3, <1>5, <2>1
    <3> QED BY <1>1, <3>1, <3>2, <3>3 DEF AccessesOk
  <2> QED BY <1>0, <1>1, <1>2, <1>8, <2>2, <2>3 DEF Inv, TablesInv, DataMoves, dataPool
<1>9. ASSUME ~sessions[s].busy, NEW lua \in BOOLEAN, ProcessNext(s, queued, {}, {}, lua)
      PROVE  Inv'
  <2>1. Others(pending, sessions, authenticated, s)
    BY <1>1, <1>3, <1>9 DEF AccessesOk, Others
  <2>2. inFlight < DataCapacity => \E i \in DataIds : pending[i] = None
    BY <1>1, <1>2, FreeId
  <2>3. pending \in [DataIds -> Access \cup {None}]
    BY <1>1 DEF AccessesOk
  <2>4. {} \in SUBSET DataIds /\ AllValid({}, characters) /\ Less(pending, {}, pending)
    BY DEF AllValid, Less
  <2>5. /\ SessionsOk(sessions', online', authenticated, told', characters)
        /\ AccessesOk(pending', sessions', authenticated)
        /\ PoolOk(queue', working', done', batch, pending', inFlight')
        /\ JobsOk(queue', working', pending', job', characters)
        /\ cancelled' = cancelled
    BY <1>1, <1>3, <1>5, <1>9, <2>1, <2>2, <2>3, <2>4, ProcessKeeps
  <2> QED BY <1>0, <1>1, <1>2, <2>5 DEF Inv, TablesInv, DataMoves
<1> QED BY <1>6, <1>7, <1>8, <1>9

-----------------------------------------------------------------------------
(* The pool. *)
LEMMA TakeKeeps ==
    ASSUME Inv, TakeJob, UNCHANGED <<frame, world>>
    PROVE  Inv'
<1>0. DataMoves /\ characters' = characters /\ start' = start
  BY DataUnchanged DEF Inv, TakeJob
<1>1. /\ SessionsOk(sessions, online, authenticated, told, characters)
      /\ AccessesOk(pending, sessions, authenticated)
      /\ PoolOk(queue, working, done, batch, pending, inFlight)
      /\ JobsOk(queue, working, pending, job, characters)
      /\ cancelled = {}
  BY DEF Inv, TablesInv
<1>2. /\ queue # <<>> /\ working' = working \cup {Head(queue)} /\ queue' = Tail(queue)
      /\ UNCHANGED <<tables, batch, told, done, cancelled, inFlight, authenticated>>
  BY DEF TakeJob, Pool!Take, frame
<1>3. /\ PoolOk(queue', working', done, batch, pending, inFlight)
      /\ Ids(queue') \cup working' = Ids(queue) \cup working
  BY <1>1, <1>2, PoolTakes
<1>4. JobsOk(queue', working', pending, job, characters)
  BY <1>1, <1>3 DEF JobsOk
<1> QED BY <1>0, <1>1, <1>2, <1>3, <1>4 DEF Inv, TablesInv, DataMoves, tables

(* The loop takes the completions. *)
LEMMA DrainKeeps ==
    ASSUME Inv, DrainBatch, UNCHANGED <<frame, world>>
    PROVE  Inv'
<1>0. DataMoves /\ characters' = characters /\ start' = start
  BY DataUnchanged DEF Inv, DrainBatch
<1>1. /\ SessionsOk(sessions, online, authenticated, told, characters)
      /\ AccessesOk(pending, sessions, authenticated)
      /\ PoolOk(queue, working, done, <<>>, pending, inFlight)
      /\ JobsOk(queue, working, pending, job, characters)
      /\ cancelled = {}
  BY DEF Inv, TablesInv, DrainBatch
<1> DEFINE n == IF Len(done) < MaxEvents THEN Len(done) ELSE MaxEvents
<1>2. /\ n \in 1..Len(done) /\ done' = SubSeq(done, n + 1, Len(done))
      /\ batch' = SubSeq(done, 1, n) /\ inFlight' = inFlight - n
      /\ UNCHANGED <<tables, told, queue, working, cancelled, authenticated>>
  BY DEF DrainBatch, Pool!TakeResults, frame
<1> HIDE DEF n
<1>3. n \in 0..Len(done)
  BY <1>2
<1>4. PoolOk(queue, working, done', batch', pending, inFlight')
  BY <1>1, <1>2, <1>3, PoolDrains
<1> QED BY <1>0, <1>1, <1>2, <1>4 DEF Inv, TablesInv, DataMoves, tables

-----------------------------------------------------------------------------
(* The completions. *)
Finishing(x, c, phase) == [x EXCEPT !.character = c, !.phase = phase]

(* What finished() makes of a completion is right, *)
LEMMA FinishedFacts ==
    ASSUME NEW session, SessionOk(session, characters), NEW p, NEW r, NEW lua \in BOOLEAN,
           p.request.type \in {"list", "create", "select", "train"},
           Answers(p, r, characters)
    PROVE  LET f == Finished(session, p.request, r, lua) IN
           /\ SessionOk(f.session, characters) /\ f.session.account = session.account
           /\ \A c \in f.said : Valid(c, characters)
<1> DEFINE f == Finished(session, p.request, r, lua)
<1>0. session \in Session /\ (session.phase = "InGame" => Valid(session.character, characters))
  BY DEF SessionOk
<1>1. CASE ~r.ok \/ p.request.type = "create"
  <2>1. f.session = session /\ f.said = {}
    BY <1>1 DEF Finished
  <2> QED BY <2>1
<1>2. CASE r.ok /\ p.request.type = "list"
  <2>1. f.session = session /\ f.said \subseteq r.value
    BY <1>2 DEF Finished
  <2> HIDE DEF f
  <2> QED BY <1>2, <2>1 DEF Answers, f
<1>3. CASE r.ok /\ p.request.type = "select"
  <2>1. CASE r.value = None \/ ~lua
    <3>1. f.session = session /\ f.said = {}
      BY <1>3, <2>1 DEF Finished
    <3> QED BY <3>1
  <2>2. CASE ~(r.value = None \/ ~lua)
    <3> DEFINE c == r.value
               y == [session EXCEPT !.character = c, !.phase = "InGame"]
    <3>1. f.session = y /\ f.said = {c}
      BY <1>3, <2>2 DEF Finished
    <3>2. Valid(c, characters) /\ c \in Cached
      BY <1>3, <2>2 DEF Answers, Valid
    <3>3. /\ y \in Session /\ y.account = session.account /\ y.character = c
      <4> HIDE DEF c
      <4> QED BY <1>0, <3>2 DEF Session
    <3> HIDE DEF y, c, f
    <3> QED BY <3>1, <3>2, <3>3 DEF SessionOk, f
  <2> QED BY <2>1, <2>2
<1>4. CASE r.ok /\ p.request.type = "train"
  <2> DEFINE c == r.value.character
             y == [session EXCEPT !.character = c]
  <2>1. f.session = y /\ f.said \subseteq {c}
    BY <1>4 DEF Finished
  <2>2. Valid(c, characters) /\ c \in Cached
    BY <1>4 DEF Answers, Valid
  <2>3. /\ y \in Session /\ y.account = session.account /\ y.character = c
    <3> HIDE DEF c
    <3> QED BY <1>0, <2>2 DEF Session
  <2> HIDE DEF y, c, f
  <2> QED BY <2>1, <2>2, <2>3 DEF SessionOk, f
<1> HIDE DEF f
<1>5. LET g == f IN /\ SessionOk(g.session, characters) /\ g.session.account = session.account
                    /\ \A c \in g.said : Valid(c, characters)
  BY <1>1, <1>2, <1>3, <1>4 DEF f
<1> QED BY <1>5 DEF f

(* and the session goes on with the requests that waited. *)
LEMMA VisitKeeps ==
    ASSUME Inv, Visit, UNCHANGED <<frame, world>>
    PROVE  Inv'
<1>0. DataMoves /\ characters' = characters /\ start' = start
  BY DataUnchanged DEF Inv, Visit
<1>1. /\ SessionsOk(sessions, online, authenticated, told, characters)
      /\ AccessesOk(pending, sessions, authenticated)
      /\ PoolOk(queue, working, done, batch, pending, inFlight)
      /\ JobsOk(queue, working, pending, job, characters)
      /\ cancelled = {}
      /\ \A j \in DataIds : pending[j] # None => start[RealmService] = "serving"
  BY DEF Inv, TablesInv
<1> DEFINE i == Head(batch)
           a == pending[i]
           p == [j \in DataIds |-> IF j \in {i} THEN None ELSE pending[j]]
<1>2. /\ batch # <<>> /\ batch' = Tail(batch)
      /\ online' = online /\ authenticated' = authenticated
      /\ IF ~Current(a)
           THEN /\ pending' = [pending EXCEPT ![i] = None]
                /\ job' = [job EXCEPT ![i] = NoJob]
                /\ UNCHANGED <<sessions, told, dataPool>>
           ELSE \E lua \in BOOLEAN :
                  ProcessNext(a.session, Finished(sessions[a.session], a.request, job[i].result, lua).session,
                              {i}, Finished(sessions[a.session], a.request, job[i].result, lua).said, lua)
  BY DEF Visit, frame
<1> DEFINE b == Tail(batch)
<1>3. /\ PoolOk(queue, working, done, b, p, inFlight)
      /\ i \in DataIds /\ a # None /\ i \notin Ids(queue) \cup working
  <2>1. \A j \in DataIds : p[j] = IF j = i THEN None ELSE pending[j]
    OBVIOUS
  <2> HIDE DEF p
  <2> QED BY <1>1, <1>2, <2>1, PoolDrops
<1>4. JobsOk(queue, working, p, job, characters)
  BY <1>1 DEF JobsOk
<1>5. /\ a \in Access /\ a.session \in Sessions /\ authenticated[a.session] # None
      /\ start[RealmService] = "serving"
  BY <1>1, <1>3 DEF AccessesOk, Access
<1>6. Others(p, sessions, authenticated, a.session)
  <2>1. \A j \in DataIds : p[j] # None => j # i /\ p[j] = pending[j]
    OBVIOUS
  <2>2. \A j \in DataIds : j # i => p[j] = pending[j]
    OBVIOUS
  <2>3. \A j \in DataIds : p[j] # None =>
           /\ p[j].session # a.session /\ authenticated[p[j].session] # None
           /\ sessions[p[j].session] # None =>
                /\ sessions[p[j].session].busy
                /\ sessions[p[j].session].account = p[j].account
    BY <1>1, <1>3, <2>1 DEF AccessesOk
  <2>4. \A j, k \in DataIds :
          p[j] # None /\ p[k] # None /\ p[j].session = p[k].session => j = k
    BY <1>1, <2>1 DEF AccessesOk
  <2>5. \A t \in Sessions : t # a.session /\ sessions[t] # None /\ sessions[t].busy =>
           \E j \in DataIds : p[j] # None /\ p[j].session = t
    <3> SUFFICES ASSUME NEW t \in Sessions, t # a.session, sessions[t] # None, sessions[t].busy
                 PROVE  \E j \in DataIds : p[j] # None /\ p[j].session = t
      OBVIOUS
    <3>1. PICK j \in DataIds : pending[j] # None /\ pending[j].session = t
      BY <1>1 DEF AccessesOk
    <3>2. j # i
      BY <3>1
    <3> QED BY <2>2, <3>1, <3>2
  <2> HIDE DEF p
  <2> QED BY <2>3, <2>4, <2>5 DEF Others
<1>7. CASE ~Current(a)
  <2>1. /\ pending' = p /\ UNCHANGED <<sessions, told, dataPool>>
        /\ job' = [job EXCEPT ![i] = NoJob]
    BY <1>1, <1>2, <1>7 DEF AccessesOk
  <2>2. ~(sessions[a.session] # None)
    BY <1>1, <1>3, <1>5, <1>7 DEF AccessesOk, Current, Live
  <2>3. AccessesOk(p, sessions, authenticated)
    <3>1. p \in [DataIds -> Access \cup {None}]
      BY <1>1 DEF AccessesOk
    <3> HIDE DEF p
    <3> QED BY <1>6, <2>2, <3>1 DEF AccessesOk, Others
  <2>4. JobsOk(queue, working, p, job', characters)
    <3>1. \A j \in DataIds : p[j] # None => job'[j] = job[j]
      BY <1>4, <2>1 DEF JobsOk
    <3>2. DOMAIN job' = DataIds /\ \A j \in DataIds : DOMAIN job'[j] = {"pc", "attempt", "result"}
      BY <1>4, <2>1 DEF JobsOk, NoJob
    <3> HIDE DEF p
    <3> QED BY <1>4, <3>1, <3>2 DEF JobsOk
  <2> HIDE DEF p
  <2> QED BY <1>0, <1>1, <1>2, <1>3, <1>5, <2>1, <2>3, <2>4
          DEF Inv, TablesInv, DataMoves, dataPool
<1>8. ASSUME Current(a), NEW lua \in BOOLEAN,
             ProcessNext(a.session, Finished(sessions[a.session], a.request, job[i].result, lua).session,
                         {i}, Finished(sessions[a.session], a.request, job[i].result, lua).said, lua)
      PROVE  Inv'
  <2> DEFINE f == Finished(sessions[a.session], a.request, job[i].result, lua)
  <2>1. sessions[a.session] # None /\ SessionOk(sessions[a.session], characters)
    BY <1>1, <1>8 DEF Current, Live, SessionsOk
  <2>2. a.request.type \in {"list", "create", "select", "train"}
    <3>1. a.request \in Requests
      BY <1>5 DEF Access
    <3> HIDE DEF a
    <3> QED BY <3>1, RequestTypes
  <2>3. Answers(a, job[i].result, characters)
    BY <1>1, <1>3 DEF JobsOk, JobOk
  <2>4. /\ SessionOk(f.session, characters) /\ f.session.account = sessions[a.session].account
        /\ AllValid(f.said, characters)
    BY <2>1, <2>2, <2>3, FinishedFacts DEF AllValid
  <2> HIDE DEF f
  <2>5. ProcessNext(a.session, f.session, {i}, f.said, lua)
    BY <1>8 DEF f
  <2>6. inFlight < DataCapacity => \E j \in DataIds : p[j] = None
    BY <1>3
  <2>7. Less(p, {i}, pending)
    BY DEF Less
  <2>8. {i} \in SUBSET DataIds /\ pending \in [DataIds -> Access \cup {None}]
    BY <1>1, <1>3 DEF AccessesOk
  <2> HIDE DEF p, a, i, b
  <2>9. /\ SessionsOk(sessions', online', authenticated, told', characters)
        /\ AccessesOk(pending', sessions', authenticated)
        /\ PoolOk(queue', working', done', b, pending', inFlight')
        /\ JobsOk(queue', working', pending', job', characters)
        /\ cancelled' = cancelled
    BY <1>1, <1>2, <1>3, <1>4, <1>5, <1>6, <2>1, <2>4, <2>5, <2>6, <2>7, <2>8, ProcessKeeps
  <2> QED BY <1>0, <1>1, <1>2, <1>5, <2>9 DEF Inv, TablesInv, DataMoves, b
<1> QED BY <1>2, <1>7, <1>8

(* What the realm reads of a character is what the database holds. *)
LEMMA ReadValid ==
    ASSUME DataInv, start[RealmService] = "serving", NEW c \in Characters, characters[c] # None
    PROVE  Valid(RealmCharacter(c), characters)
<1>1. schema = 2 /\ characters[c].seq # Missing /\ Counted(characters[c])
  BY FrameAssumption DEF DataInv, DataOk, StartOk, Complete, FrameAssumption
<1>2. characters[c].seq \in 0..MaxLevelExp /\ characters[c].exp = characters[c].seq
  BY <1>1 DEF Counted
<1>3. characters[c].seq \in Int /\ characters[c].exp \in Int
  BY <1>2
<1> DEFINE x == RealmCharacter(c)
<1>4. x.id = c /\ x.exp = characters[c].exp /\ x.seq = characters[c].seq /\ x \in Cached
  BY <1>3 DEF RealmCharacter, Cached
<1> HIDE DEF x
<1>5. Valid(x, characters)
  BY <1>2, <1>3, <1>4 DEF Valid
<1> QED BY <1>5 DEF x

(* The parts of the tables a job reads. *)
LEMMA JobFacts ==
    ASSUME Inv, NEW i \in working
    PROVE  /\ i \in DataIds /\ pending[i] \in Access /\ pending[i] # None
           /\ start[RealmService] = "serving"
           /\ Asks(pending[i], characters) /\ Runs(pending[i], job[i], characters)
           /\ DOMAIN job = DataIds /\ DOMAIN job[i] = {"pc", "attempt", "result"}
<1>1. i \in DataIds /\ pending[i] # None
  BY DEF Inv, TablesInv, PoolOk
<1> QED BY <1>1 DEF Inv, TablesInv, AccessesOk, JobsOk, JobOk

(* A job that ends, *)
LEMMA EndKeeps ==
    ASSUME Inv, NEW i \in working, NEW result, End(i, result), DataMoves,
           Answers(pending[i], result, characters'),
           UNCHANGED <<sessions, online, pending, batch, told, authenticated, start>>
    PROVE  Kept
<1>1. /\ characters \in [Characters -> CharacterDoc \cup {None}]
      /\ characters' \in [Characters -> CharacterDoc \cup {None}]
      /\ Grows(characters, characters')
  BY DataTypes DEF Inv
<1>2. SessionsOk(sessions, online, authenticated, told, characters')
  BY <1>1, SessionsGrow DEF Inv, TablesInv
<1>3. JobsOk(queue, working, pending, job, characters')
  BY <1>1, JobsGrow DEF Inv, TablesInv
<1>4. /\ job' = [job EXCEPT ![i].pc = "ended", ![i].result = result]
      /\ working' = working \ {i} /\ done' = Append(done, i)
      /\ queue' = queue /\ inFlight' = inFlight /\ cancelled' = cancelled
  BY DEF End, Pool!Finish, Inv, TablesInv
<1>5. /\ PoolOk(queue', working', done', batch, pending, inFlight')
      /\ i \in DataIds /\ pending[i] # None /\ i \notin Ids(queue') \cup working'
  BY <1>4, PoolFinishes DEF Inv, TablesInv
<1>6. /\ DOMAIN job' = DataIds
      /\ \A j \in DataIds : DOMAIN job'[j] = {"pc", "attempt", "result"}
      /\ \A j \in DataIds : j # i => job'[j] = job[j]
      /\ job'[i].result = result
  BY <1>3, <1>4, <1>5 DEF JobsOk
<1>7. JobsOk(queue', working', pending, job', characters')
  <2> SUFFICES ASSUME NEW j \in DataIds, pending[j] # None
               PROVE  JobOk(j \in Ids(queue') \cup working', pending[j], job'[j], characters')
    BY <1>6 DEF JobsOk
  <2>1. JobOk(j \in Ids(queue) \cup working, pending[j], job[j], characters')
    BY <1>3 DEF JobsOk
  <2>2. CASE j = i
    BY <1>5, <1>6, <2>1, <2>2 DEF JobOk
  <2>3. CASE j # i
    <3>1. j \in Ids(queue') \cup working' <=> j \in Ids(queue) \cup working
      BY <1>4, <2>3
    <3> QED BY <1>6, <2>1, <2>3, <3>1 DEF JobOk
  <2> QED BY <2>2, <2>3
<1> QED BY <1>2, <1>4, <1>5, <1>7 DEF Kept, Inv, TablesInv, DataMoves

(* and one that goes on. *)
LEMMA GoesOnKeeps ==
    ASSUME Inv, NEW i \in working, DataMoves,
           UNCHANGED dataPool, DOMAIN job' = DataIds,
           \A j \in DataIds : j # i => job'[j] = job[j],
           DOMAIN job'[i] = {"pc", "attempt", "result"},
           Runs(pending[i], job'[i], characters'),
           UNCHANGED <<sessions, online, pending, batch, told, authenticated, start>>
    PROVE  Kept
<1>1. /\ characters \in [Characters -> CharacterDoc \cup {None}]
      /\ characters' \in [Characters -> CharacterDoc \cup {None}]
      /\ Grows(characters, characters')
  BY DataTypes DEF Inv
<1>2. SessionsOk(sessions, online, authenticated, told, characters')
  BY <1>1, SessionsGrow DEF Inv, TablesInv
<1>3. JobsOk(queue, working, pending, job, characters')
  BY <1>1, JobsGrow DEF Inv, TablesInv
<1>4. JobsOk(queue, working, pending, job', characters')
  <2>1. \A j \in DataIds : DOMAIN job'[j] = {"pc", "attempt", "result"}
    BY <1>3 DEF JobsOk
  <2>2. ASSUME NEW j \in DataIds, pending[j] # None
        PROVE  JobOk(j \in Ids(queue) \cup working, pending[j], job'[j], characters')
    <3>1. JobOk(j \in Ids(queue) \cup working, pending[j], job[j], characters')
      BY <1>3, <2>2 DEF JobsOk
    <3>2. CASE j = i
      BY <3>1, <3>2 DEF JobOk
    <3>3. CASE j # i
      BY <3>1, <3>3
    <3> QED BY <3>2, <3>3
  <2> QED BY <2>1, <2>2 DEF JobsOk
<1> QED BY <1>2, <1>4 DEF Kept, Inv, TablesInv, DataMoves, dataPool

(* A step of a job: one operation on the database, whose answer is about what the database *)
(* holds.                                                                                  *)
LEMMA JobKeeps ==
    ASSUME Inv, NEW i \in DataIds, JobStep(i), UNCHANGED <<frame, world>>
    PROVE  Kept
<1> DEFINE p == pending[i]
           a == p.account
           r == p.request
<1>1. /\ i \in working
      /\ UNCHANGED <<sessions, online, pending, batch, told, authenticated, start, selecting>>
  BY DEF JobStep, frame, world
<1>2. /\ p \in Access /\ p # None /\ start[RealmService] = "serving"
      /\ Asks(p, characters) /\ Runs(p, job[i], characters)
      /\ DOMAIN job = DataIds /\ DOMAIN job[i] = {"pc", "attempt", "result"}
  BY <1>1, JobFacts
<1>3. DataInv /\ DataOk(accounts, characters) /\ a \in Accounts
  BY <1>2 DEF Inv, DataInv, Access
<1>4. ASSUME UNCHANGED database
      PROVE  DataMoves /\ characters' = characters
  BY <1>1, <1>3, <1>4, DataUnchanged DEF world
<1>5. ASSUME NEW pc, Runs(p, [job[i] EXCEPT !.pc = pc], characters'), DataMoves, GoTo(i, pc)
      PROVE  Kept
  <2>1. /\ UNCHANGED dataPool /\ DOMAIN job' = DataIds
        /\ \A j \in DataIds : j # i => job'[j] = job[j]
        /\ DOMAIN job'[i] = {"pc", "attempt", "result"}
        /\ job'[i] = [job[i] EXCEPT !.pc = pc]
    BY <1>2, <1>5 DEF GoTo
  <2> HIDE DEF p
  <2> QED BY <1>1, <1>5, <2>1, GoesOnKeeps DEF p
<1>6. CASE /\ job[i].pc = "list"
           /\ End(i, Ok(ListCharacters(a, Realm).characters))
           /\ UNCHANGED database
  <2> DEFINE value == ListCharacters(a, Realm).characters
  <2>1. p.request.type = "list"
    BY <1>2, <1>6 DEF Runs
  <2>2. value = {RealmCharacter(c) : c \in Roster(a, Realm)}
    BY DEF ListCharacters
  <2>3. \A c \in Roster(a, Realm) : c \in Characters /\ characters[c] # None
    BY DEF Roster, Owned
  <2>4. \A c \in value : Valid(c, characters)
    BY <1>2, <1>3, <2>2, <2>3, ReadValid
  <2>5. Ok(value).value = value
    BY DEF Ok
  <2> HIDE DEF value
  <2>6. Answers(p, Ok(value), characters)
    BY <2>1, <2>4, <2>5 DEF Answers
  <2>7. End(i, Ok(value))
    BY <1>6 DEF value
  <2> HIDE DEF p
  <2> QED BY <1>1, <1>4, <1>6, <2>6, <2>7, EndKeeps DEF p
<1>7. ASSUME job[i].pc = "create", NEW c \in Characters,
             AfterCreate(i, CreateTxn(a, Realm, r.arg, c)), ApplyCreate(a, Realm, r.arg, c)
      PROVE  Kept
  <2>1. r.type = "create" /\ r.arg \in Names
    BY <1>2, <1>7 DEF Runs, Asks
  <2>2. Moves /\ schema' = schema
    BY <1>3, <1>7, <2>1, CreateMoves DEF ApplyCreate
  <2>3. DataMoves
    BY <1>1, <1>2, <1>3, <2>2, RealmMoves
  <2>4. \A result : Answers(p, result, characters')
    BY <2>1 DEF Answers
  <2>5. Runs(p, [job[i] EXCEPT !.pc = "create_check"], characters')
    BY <1>2, <2>1 DEF Runs
  <2>6. \/ \E result : End(i, result)
        \/ GoTo(i, "create_check")
    <3>1. CreateTxn(a, Realm, r.arg, c) \in {"created", "limit", "missing_account", "duplicate_key"}
      BY DEF CreateTxn
    <3> HIDE DEF a, r
    <3> QED BY <1>7, <3>1 DEF AfterCreate
  <2>7. CASE GoTo(i, "create_check")
    BY <1>5, <2>3, <2>5, <2>7
  <2>8. ASSUME NEW result, End(i, result)
        PROVE  Kept
    BY <1>1, <2>3, <2>4, <2>8, EndKeeps
  <2> QED BY <2>6, <2>7, <2>8
<1>8. CASE /\ job[i].pc = "create_check"
           /\ IF ~NameFree(Realm, r.arg, None)
                THEN End(i, Ok("refused"))
              ELSE IF job[i].attempt + 1 = IdAttempts
                THEN End(i, [ok |-> FALSE])
              ELSE /\ job' = [job EXCEPT ![i].pc = "create", ![i].attempt = @ + 1]
                   /\ UNCHANGED dataPool
           /\ UNCHANGED database
  <2>1. r.type = "create"
    BY <1>2, <1>8 DEF Runs
  <2>2. \A result : Answers(p, result, characters')
    BY <2>1 DEF Answers
  <2>3. DataMoves
    BY <1>4, <1>8
  <2>4. \/ \E result : End(i, result)
        \/ /\ job' = [job EXCEPT ![i].pc = "create", ![i].attempt = @ + 1]
           /\ UNCHANGED dataPool
    BY <1>8
  <2>5. ASSUME NEW result, End(i, result)
        PROVE  Kept
    BY <1>1, <2>2, <2>3, <2>5, EndKeeps
  <2>6. CASE /\ job' = [job EXCEPT ![i].pc = "create", ![i].attempt = @ + 1]
             /\ UNCHANGED dataPool
    <3>1. /\ DOMAIN job' = DataIds
          /\ \A j \in DataIds : j # i => job'[j] = job[j]
          /\ DOMAIN job'[i] = {"pc", "attempt", "result"}
          /\ job'[i].pc = "create"
      BY <1>2, <2>6
    <3>2. Runs(p, job'[i], characters')
      BY <2>1, <3>1 DEF Runs
    <3> QED BY <1>1, <2>3, <2>6, <3>1, <3>2, GoesOnKeeps
  <2> QED BY <2>4, <2>5, <2>6
<1>9. CASE /\ job[i].pc = "select"
           /\ IF Owned(a, Realm, r.arg)
                THEN /\ job' = [job EXCEPT ![i].pc = "select_write",
                                           ![i].result = RealmCharacter(r.arg)]
                     /\ UNCHANGED dataPool
                ELSE End(i, Ok(None))
           /\ UNCHANGED database
  <2>1. r.type = "select" /\ r.arg \in Characters
    BY <1>2, <1>9 DEF Runs, Asks
  <2>2. DataMoves /\ characters' = characters
    BY <1>4, <1>9
  <2>3. CASE Owned(a, Realm, r.arg)
    <3>1. characters[r.arg] # None /\ characters[r.arg].account = a
      BY <2>3 DEF Owned
    <3>2. Valid(RealmCharacter(r.arg), characters)
      BY <1>2, <1>3, <2>1, <3>1, ReadValid
    <3>3. /\ DOMAIN job' = DataIds
          /\ \A j \in DataIds : j # i => job'[j] = job[j]
          /\ DOMAIN job'[i] = {"pc", "attempt", "result"}
          /\ job'[i].pc = "select_write" /\ job'[i].result = RealmCharacter(r.arg)
          /\ UNCHANGED dataPool
      BY <1>2, <1>9, <2>3
    <3>4. Runs(p, job'[i], characters')
      BY <2>1, <2>2, <3>1, <3>2, <3>3 DEF Runs
    <3> QED BY <1>1, <2>2, <3>3, <3>4, GoesOnKeeps
  <2>4. CASE ~Owned(a, Realm, r.arg)
    <3>1. Answers(p, Ok(None), characters')
      BY <2>1 DEF Answers, Ok
    <3> QED BY <1>1, <1>9, <2>2, <2>4, <3>1, EndKeeps
  <2> QED BY <2>3, <2>4
<1>10. CASE /\ job[i].pc = "select_write"
            /\ End(i, Ok(job[i].result))
            /\ WriteSelected(a, r.arg)
  <2>1. /\ r.type = "select" /\ r.arg \in Characters
        /\ Valid(job[i].result, characters)
        /\ characters[r.arg] # None /\ characters[r.arg].account = a
    BY <1>2, <1>10 DEF Runs, Asks
  <2>2. Moves /\ schema' = schema /\ characters' = characters
    BY <1>3, <1>10, <2>1, SelectMoves DEF WriteSelected
  <2>3. DataMoves
    BY <1>1, <1>2, <1>3, <2>2, RealmMoves
  <2>4. Answers(p, Ok(job[i].result), characters')
    BY <2>1, <2>2 DEF Answers, Ok
  <2> QED BY <1>1, <1>10, <2>3, <2>4, EndKeeps
<1>11. CASE /\ job[i].pc = "train"
            /\ IF TrainingMatches(a, Realm, pending[i].character, r.arg)
                 THEN End(i, Ok([committed |-> TRUE,
                                 character |-> [id |-> pending[i].character,
                                                seq |-> r.arg, exp |-> pending[i].exp]]))
                 ELSE GoTo(i, "train_read")
            /\ ApplyTraining(a, Realm, pending[i].character, r.arg, pending[i].exp)
  <2>1. /\ r.type = "train" /\ r.arg \in 1..MaxLevelExp /\ pending[i].exp = r.arg
        /\ pending[i].character \in Characters /\ characters[pending[i].character] # None
    BY <1>2, <1>11 DEF Runs, Asks
  <2> DEFINE c == pending[i].character
  <2>2. Moves /\ schema' = schema
    <3>1. ApplyTraining(a, Realm, c, r.arg, r.arg)
      BY <1>11, <2>1
    <3>2. schema' = schema
      BY <3>1 DEF ApplyTraining
    <3> HIDE DEF a, r, c
    <3> QED BY <1>3, <2>1, <3>1, <3>2, TrainMoves DEF c, r
  <2>3. DataMoves
    BY <1>1, <1>2, <1>3, <2>2, RealmMoves
  <2>4. CASE TrainingMatches(a, Realm, c, r.arg)
    <3> DEFINE x == [id |-> c, seq |-> r.arg, exp |-> pending[i].exp]
    <3>1. characters'[c] # None /\ characters'[c].seq = r.arg
      <4>1. characters' = [characters EXCEPT ![c].seq = r.arg, ![c].exp = pending[i].exp]
        BY <1>11, <2>4 DEF ApplyTraining
      <4>2. characters'[c] # None
        BY <2>1, <2>2 DEF Moves, Grows
      <4>3. characters[c] \in CharacterDoc
        BY <1>3, <2>1 DEF DataOk
      <4>4. characters'[c].seq = r.arg
        <5>1. characters'[c] = Trained(characters[c], r.arg, pending[i].exp)
          BY <1>3, <2>1, <4>1 DEF Trained, DataOk
        <5>2. r.arg \in Int /\ pending[i].exp \in Int
          BY <2>1
        <5> QED BY <4>3, <5>1, <5>2, TrainedDoc
      <4> QED BY <4>2, <4>4
    <3>2. Valid(x, characters')
      <4>1. /\ x.id = c /\ x.seq = r.arg /\ x.exp = r.arg /\ r.arg \in Int
            /\ r.arg \in 0..MaxLevelExp /\ x \in Cached
        BY <2>1 DEF Cached
      <4> HIDE DEF x, c
      <4> QED BY <3>1, <4>1 DEF Valid
    <3>3. End(i, Ok([committed |-> TRUE, character |-> x]))
      BY <1>11, <2>4
    <3> HIDE DEF x
    <3>4. Answers(p, Ok([committed |-> TRUE, character |-> x]), characters')
      BY <2>1, <3>2 DEF Answers, Ok
    <3> QED BY <1>1, <2>3, <3>3, <3>4, EndKeeps
  <2>5. CASE ~TrainingMatches(a, Realm, c, r.arg)
    <3>1. GoTo(i, "train_read")
      BY <1>11, <2>5
    <3>2. Runs(p, [job[i] EXCEPT !.pc = "train_read"], characters')
      BY <1>2, <2>1 DEF Runs
    <3> QED BY <1>5, <2>3, <3>1, <3>2
  <2> QED BY <2>4, <2>5
<1>12. CASE /\ job[i].pc = "train_read"
            /\ End(i, Ok([committed |-> FALSE,
                          character |-> RealmCharacter(pending[i].character)]))
            /\ UNCHANGED database
  <2> DEFINE x == RealmCharacter(pending[i].character)
  <2>1. /\ r.type = "train"
        /\ pending[i].character \in Characters /\ characters[pending[i].character] # None
    BY <1>2, <1>12 DEF Runs, Asks
  <2>2. DataMoves /\ characters' = characters
    BY <1>4, <1>12
  <2>3. Valid(x, characters)
    BY <1>2, <1>3, <2>1, ReadValid
  <2>4. End(i, Ok([committed |-> FALSE, character |-> x]))
    BY <1>12
  <2> HIDE DEF x
  <2>5. Answers(p, Ok([committed |-> FALSE, character |-> x]), characters')
    BY <2>1, <2>2, <2>3 DEF Answers, Ok
  <2> QED BY <1>1, <2>2, <2>4, <2>5, EndKeeps
<1> QED BY <1>6, <1>7, <1>8, <1>9, <1>10, <1>11, <1>12 DEF JobStep

(* The database answers with an error, or does not answer after it wrote. *)
LEMMA FailKeeps ==
    ASSUME Inv, NEW i \in DataIds, JobFails(i), UNCHANGED <<frame, world>>
    PROVE  Kept
<1> DEFINE p == pending[i]
<1>1. /\ i \in working /\ End(i, [ok |-> FALSE])
      /\ UNCHANGED <<sessions, online, pending, batch, told, authenticated, start, selecting>>
  BY DEF JobFails, frame, world
<1>2. /\ p \in Access /\ p # None /\ start[RealmService] = "serving"
      /\ Asks(p, characters) /\ Runs(p, job[i], characters)
  BY <1>1, JobFacts
<1>3. DataInv /\ DataOk(accounts, characters) /\ p.account \in Accounts
  BY <1>2 DEF Inv, DataInv, Access
<1>4. Answers(p, [ok |-> FALSE], characters')
  BY DEF Answers
<1>5. CASE UNCHANGED database
  <2>1. DataMoves
    BY <1>1, <1>3, <1>5, DataUnchanged DEF world
  <2> QED BY <1>1, <1>4, <2>1, EndKeeps
<1>6. CASE /\ job[i].pc = "train"
           /\ ApplyTraining(p.account, Realm, p.character, p.request.arg, p.exp)
  <2>1. /\ p.request.arg \in 1..MaxLevelExp /\ p.exp = p.request.arg /\ p.character \in Characters
    BY <1>2, <1>6 DEF Runs, Asks
  <2>2. Moves /\ schema' = schema
    <3>1. ApplyTraining(p.account, Realm, p.character, p.request.arg, p.request.arg)
      BY <1>6, <2>1
    <3>2. schema' = schema
      BY <3>1 DEF ApplyTraining
    <3> QED BY <1>3, <2>1, <3>1, <3>2, TrainMoves
  <2>3. DataMoves
    BY <1>1, <1>2, <1>3, <2>2, RealmMoves
  <2> QED BY <1>1, <1>4, <2>3, EndKeeps
<1>7. ASSUME job[i].pc = "create", NEW c \in Characters,
             ApplyCreate(p.account, Realm, p.request.arg, c)
      PROVE  Kept
  <2>1. p.request.arg \in Names
    BY <1>2, <1>7 DEF Runs, Asks
  <2>2. Moves /\ schema' = schema
    BY <1>3, <1>7, <2>1, CreateMoves DEF ApplyCreate
  <2>3. DataMoves
    BY <1>1, <1>2, <1>3, <2>2, RealmMoves
  <2> QED BY <1>1, <1>4, <2>3, EndKeeps
<1>8. CASE job[i].pc = "select_write" /\ WriteSelected(p.account, p.request.arg)
  <2>1. /\ p.request.arg \in Characters
        /\ characters[p.request.arg] # None /\ characters[p.request.arg].account = p.account
    BY <1>2, <1>8 DEF Runs, Asks
  <2>2. Moves /\ schema' = schema
    BY <1>3, <1>8, <2>1, SelectMoves DEF WriteSelected
  <2>3. DataMoves
    BY <1>1, <1>2, <1>3, <2>2, RealmMoves
  <2> QED BY <1>1, <1>4, <2>3, EndKeeps
<1> QED BY <1>5, <1>6, <1>7, <1>8 DEF JobFails

(* Inv holds at the start, *)
LEMMA InitInv == Init => Inv
<1> SUFFICES ASSUME Init PROVE Inv
  OBVIOUS
<1>0. DataInv
  BY InitDataInv
<1>1. /\ sessions = [s \in Sessions |-> None] /\ online = [a \in Accounts |-> None]
      /\ authenticated = [s \in Sessions |-> None] /\ told = {}
      /\ pending = [i \in DataIds |-> None] /\ job = [i \in DataIds |-> NoJob]
      /\ batch = <<>> /\ queue = <<>> /\ working = {} /\ done = <<>> /\ cancelled = {}
      /\ inFlight = 0
  BY DEF Init, InitSessions
<1>2. SessionsOk(sessions, online, authenticated, told, characters)
  BY <1>1 DEF SessionsOk
<1>3. AccessesOk(pending, sessions, authenticated)
  BY <1>1 DEF AccessesOk
<1>4. PoolOk(queue, working, done, batch, pending, inFlight)
  <2>1. <<>> \in Seq(DataIds) /\ Len(<<>>) = 0 /\ Ids(<<>>) = {} /\ Injective(<<>>)
    BY DEF Ids, Injective
  <2>2. Cardinality({}) = 0
    BY FS_EmptySet
  <2>3. {i \in DataIds : pending[i] # None} = {}
    BY <1>1
  <2> QED BY <1>1, <2>1, <2>2, <2>3 DEF PoolOk
<1>5. JobsOk(queue, working, pending, job, characters)
  BY <1>1 DEF JobsOk, NoJob
<1> QED BY <1>0, <1>1, <1>2, <1>3, <1>4, <1>5 DEF Inv, TablesInv

(* every step keeps it, *)
LEMMA NextKeeps == Inv /\ [Next]_vars => Kept
<1> SUFFICES ASSUME Inv, [Next]_vars PROVE Kept
  OBVIOUS
<1>0. ASSUME UNCHANGED database
      PROVE  Grows(characters, characters')
  BY <1>0, UnchangedMoves DEF Inv, DataInv, database, Moves
<1>1. CASE UNCHANGED vars
  <2>1. DataMoves
    BY <1>1, DataUnchanged DEF Inv, vars, world
  <2> QED BY <1>1, <2>1, TablesKept DEF vars, dynamic, frame, world
<1>2. ASSUME NEW v \in Services, StartStep(v)
      PROVE  Kept
  BY <1>2, StartKeeps
<1>3. ASSUME NEW s \in Sessions, Closed(s)
      PROVE  Kept
  BY <1>0, <1>3, ClosedKeeps DEF Kept, Closed
<1>4. ASSUME NEW s \in Sessions, NEW a \in Players, EnterRealm(s, a)
      PROVE  Kept
  BY <1>0, <1>4, EnterKeeps DEF Kept, EnterRealm
<1>5. ASSUME NEW s \in Sessions, NEW r \in Requests, Message(s, r)
      PROVE  Kept
  BY <1>0, <1>5, MessageKeeps DEF Kept, Message
<1>6. ASSUME Data, UNCHANGED <<frame, world>>
      PROVE  Kept
  BY <1>0, <1>6, TakeKeeps, JobKeeps, FailKeeps DEF Kept, Data, TakeJob
<1>7. ASSUME FrameData, UNCHANGED <<frame, world>>
      PROVE  Kept
  BY <1>0, <1>7, DrainKeeps, VisitKeeps DEF Kept, FrameData, DrainBatch, Visit
<1>8. ASSUME Admin, UNCHANGED <<tables, batch, told, dataPool, frame>>
      PROVE  Kept
  BY <1>8, AdminKeeps
<1>9. ASSUME AdminSelect, UNCHANGED <<dynamic, frame>>
      PROVE  Kept
  BY <1>9, AdminSelectKeeps
<1> QED BY <1>1, <1>2, <1>3, <1>4, <1>5, <1>6, <1>7, <1>8, <1>9 DEF Next

(* and so it always holds. *)
LEMMA InvHolds == Spec => []Inv
<1>1. Init => Inv
  BY InitInv
<1>2. Inv /\ [Next]_vars => Inv'
  BY NextKeeps DEF Kept
<1> QED BY <1>1, <1>2, PTL DEF Spec

-----------------------------------------------------------------------------
(* ExperienceSound: a step leaves every stored character with the experience that the rule gives *)
(* for the trainings its sequence number counts, and counts at most one training more of it: no   *)
(* repeated, late or displaced write does anything else.                                          *)
THEOREM ExperienceIsSound == Spec => ExperienceSound
<1>1. Inv /\ [Next]_vars =>
        [\A c \in Characters :
           LET old == characters[c]  new == characters'[c] IN
           /\ HasCounters(new) => new.exp = ExpAfter[new.seq]
           /\ HasCounters(old) => HasCounters(new) /\ new.seq \in {old.seq, old.seq + 1}]_characters
  <2> SUFFICES ASSUME Inv, [Next]_vars, NEW c \in Characters
               PROVE  /\ HasCounters(characters'[c]) => characters'[c].exp = ExpAfter[characters'[c].seq]
                      /\ HasCounters(characters[c]) =>
                           /\ HasCounters(characters'[c])
                           /\ characters'[c].seq \in {characters[c].seq, characters[c].seq + 1}
    OBVIOUS
  <2>1. Inv' /\ Grows(characters, characters')
    BY NextKeeps DEF Kept
  <2>2. ASSUME HasCounters(characters'[c])
        PROVE  characters'[c].exp = ExpAfter[characters'[c].seq]
    <3>1. characters'[c].seq \in 0..MaxLevelExp /\ characters'[c].exp = characters'[c].seq
      BY <2>1, <2>2 DEF Inv, DataInv, DataOk, Counted, HasCounters
    <3> QED BY <3>1, ExpAfterIs
  <2>3. ASSUME HasCounters(characters[c])
        PROVE  /\ HasCounters(characters'[c])
               /\ characters'[c].seq \in {characters[c].seq, characters[c].seq + 1}
    <3>1. characters[c].seq \in 0..MaxLevelExp
      BY <2>3 DEF Inv, DataInv, DataOk, Counted, HasCounters
    <3>2. /\ characters'[c] # None
          /\ characters[c].seq <= characters'[c].seq /\ characters'[c].seq <= characters[c].seq + 1
      BY <2>1, <2>3 DEF Grows, HasCounters
    <3>3. characters'[c].seq \in 0..MaxLevelExp /\ characters'[c].exp = characters'[c].seq
      BY <2>1, <3>1, <3>2, SessionsAssumption DEF Inv, DataInv, DataOk, Counted, Missing, SessionsAssumption
    <3>4. HasCounters(characters'[c])
      BY <3>2, <3>3, SessionsAssumption DEF HasCounters, Missing, SessionsAssumption
    <3>5. characters'[c].seq \in {characters[c].seq, characters[c].seq + 1}
      BY <3>1, <3>2, <3>3, SessionsAssumption DEF SessionsAssumption
    <3> QED BY <3>4, <3>5
  <2> QED BY <2>2, <2>3
<1> QED BY <1>1, InvHolds, PTL DEF Spec, ExperienceSound

(* TrueReplies: whatever the realm told a client of a character, at entry or in an answer, is *)
(* or was in the database: the character is there, and has not fewer trainings now.           *)
THEOREM RepliesAreTrue == Spec => []TrueReplies
<1>1. Inv => TrueReplies
  <2> SUFFICES ASSUME Inv, NEW c \in told
               PROVE  /\ characters[c.id] # None /\ c.seq <= characters[c.id].seq
                      /\ c.exp = ExpAfter[c.seq]
    BY DEF TrueReplies
  <2>1. Valid(c, characters)
    BY DEF Inv, TablesInv, SessionsOk
  <2> QED BY <2>1, ExpAfterIs DEF Valid
<1> QED BY <1>1, InvHolds, PTL

(* RosterSound: a selected character belongs to the account that selected it, no two characters *)
(* of a realm share a name, and no account has created more characters in a realm than          *)
(* create_character allows.                                                                     *)
THEOREM RosterIsSound == Spec => []RosterSound
<1>1. Inv => RosterSound
  <2> SUFFICES ASSUME Inv PROVE RosterSound
    OBVIOUS
  <2>1. DataOk(accounts, characters)
    BY DEF Inv, DataInv
  <2>2. \A a \in Accounts : accounts[a] # None /\ accounts[a].selected # None =>
          /\ characters[accounts[a].selected] # None
          /\ characters[accounts[a].selected].account = a
    BY <2>1 DEF DataOk, Selections
  <2>3. \A c \in Characters : characters[c] # None =>
          NameFree(characters[c].realm, characters[c].name, c)
    BY <2>1, NameStays
  <2>4. \A a \in Accounts, realm \in {Realm, OtherRealm} :
          Cardinality({c \in Roster(a, realm) : characters[c].created}) <= MaxCharacters
    <3> SUFFICES ASSUME NEW a \in Accounts, NEW realm \in {Realm, OtherRealm}
                 PROVE  Cardinality({c \in Roster(a, realm) : characters[c].created})
                          <= MaxCharacters
      OBVIOUS
    <3>1. {c \in Roster(a, realm) : characters[c].created} = Created(characters, a, realm)
      BY DEF Roster, Owned, Created
    <3> QED BY <2>1, <3>1 DEF DataOk, WithinLimit
  <2> QED BY <2>2, <2>3, <2>4 DEF RosterSound
<1> QED BY <1>1, InvHolds, PTL

(* SessionsSound: online_ and sessions_ agree, a busy session has exactly one data access,      *)
(* queued, running or completed, and an access of a session that was displaced or closed is not *)
(* taken for one of its successor.                                                              *)
THEOREM SessionsAreSound == Spec => []SessionsSound
<1>1. Inv => SessionsSound
  <2> SUFFICES ASSUME Inv PROVE SessionsSound
    OBVIOUS
  <2>1. /\ SessionsOk(sessions, online, authenticated, told, characters)
        /\ AccessesOk(pending, sessions, authenticated)
        /\ PoolOk(queue, working, done, batch, pending, inFlight)
    BY DEF Inv, TablesInv
  <2>2. OneSessionPerAccount
    BY <2>1 DEF OneSessionPerAccount, Live, SessionsOk
  <2> DEFINE held == {queue[i] : i \in DOMAIN queue} \cup working
                       \cup {done[i] : i \in DOMAIN done} \cup {batch[i] : i \in DOMAIN batch}
             Accesses(s) == {i \in held : pending[i] # None /\ pending[i].session = s}
  <2>3. held = {i \in DataIds : pending[i] # None}
    <3>1. /\ {queue[i] : i \in DOMAIN queue} = Ids(queue)
          /\ {done[i] : i \in DOMAIN done} = Ids(done)
          /\ {batch[i] : i \in DOMAIN batch} = Ids(batch)
      <4>1. /\ DOMAIN queue = 1..Len(queue) /\ DOMAIN done = 1..Len(done)
            /\ DOMAIN batch = 1..Len(batch)
        BY <2>1 DEF PoolOk
      <4> QED BY <4>1 DEF Ids
    <3>2. held = Ids(queue) \cup working \cup Ids(done) \cup Ids(batch)
      BY <3>1
    <3> HIDE DEF held
    <3> QED BY <2>1, <3>2 DEF PoolOk
  <2> HIDE DEF held
  <2>4. \A s \in Live :
          /\ sessions[s].waiting # <<>> => sessions[s].busy
          /\ Cardinality(Accesses(s)) = (IF sessions[s].busy THEN 1 ELSE 0)
    <3> SUFFICES ASSUME NEW s \in Live
                 PROVE  /\ sessions[s].waiting # <<>> => sessions[s].busy
                        /\ Cardinality(Accesses(s)) = (IF sessions[s].busy THEN 1 ELSE 0)
      OBVIOUS
    <3>1. /\ s \in Sessions /\ sessions[s] # None
          /\ sessions[s].waiting # <<>> => sessions[s].busy
      BY <2>1 DEF Live, SessionsOk
    <3>2. CASE sessions[s].busy
      <4>1. PICK i \in DataIds : pending[i] # None /\ pending[i].session = s
        BY <2>1, <3>1, <3>2 DEF AccessesOk
      <4>2. Accesses(s) = {i}
        BY <2>1, <2>3, <4>1 DEF AccessesOk
      <4> HIDE DEF Accesses
      <4>3. Cardinality(Accesses(s)) = 1
        BY <4>2, FS_Singleton
      <4> QED BY <3>1, <3>2, <4>3
    <3>3. CASE ~sessions[s].busy
      <4>1. Accesses(s) = {}
        BY <2>1, <2>3, <3>1, <3>3 DEF AccessesOk
      <4> HIDE DEF Accesses
      <4>2. Cardinality(Accesses(s)) = 0
        BY <4>1, FS_EmptySet
      <4> QED BY <3>1, <3>3, <4>2
    <3> QED BY <3>2, <3>3
  <2>5. BusyMatched
    BY <2>3, <2>4 DEF BusyMatched, held
  <2> QED BY <2>2, <2>5 DEF SessionsSound
<1> QED BY <1>1, InvHolds, PTL
=============================================================================
