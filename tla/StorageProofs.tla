--------------------------- MODULE StorageProofs ----------------------------
(***************************************************************************)
(* Proofs about what MC_Storage runs.  First the user database, for every  *)
(* number of names, callers, accounts, uids, failing accesses and power    *)
(* losses; then the FAT32 volume, for every number of clusters, slots,     *)
(* names, contents and faults.                                             *)
(***************************************************************************)
EXTENDS MC_Storage, FiniteSetTheorems, WellFoundedInduction, TLAPS

\* A file that is not there, or that cannot be read, is told from one that holds
\* accounts (the header and the lines of user.c).
FilesTell == {Absent, Corrupt} \cap SUBSET Records = {}

-----------------------------------------------------------------------------
(***************************************************************************)
(* The uid after the highest one in use                                    *)
(***************************************************************************)
LEMMA OrderOfNat == \E R : IsWellFoundedOn(R, Nat) /\ \A x, y \in Nat : x < y => <<x, y>> \in R
<1>1. IsWellFoundedOn(OpToRel(<, Nat), Nat)
  BY NatLessThanWellFounded, Zenon
<1>2. \A x, y \in Nat : x < y => <<x, y>> \in OpToRel(<, Nat)
  BY DEF OpToRel
<1> QED BY <1>1, <1>2, Zenon

LEMMA Least == ASSUME NEW T, T \subseteq Nat, T # {} PROVE \E x \in T : \A y \in T : x <= y
<1>1. PICK R : IsWellFoundedOn(R, Nat) /\ \A x, y \in Nat : x < y => <<x, y>> \in R
  BY OrderOfNat
<1>2. IsWellFoundedOn(R, Nat)
  BY <1>1
<1>3. \E x \in T : \A y \in T : ~(<<y, x>> \in R)
  BY <1>2, WFMin
<1>4. PICK x \in T : \A y \in T : ~(<<y, x>> \in R)
  BY <1>3
<1>5. x \in Nat /\ \A y \in T : y \in Nat /\ ~(y < x)
  BY <1>1, <1>4
<1> QED BY <1>4, <1>5

\* A set of accounts that a file of the system can hold: no uid twice, and the
\* administrator's is there.
Good(A) ==
    /\ A \subseteq Records
    /\ \E a \in A : a.uid = 0
    /\ \A a, b \in A : a.uid = b.uid => a = b

LEMMA NextUidAbove ==
    ASSUME NEW A, Good(A)
    PROVE  U!NextUid(A) \in Nat /\ \A a \in A : a.uid < U!NextUid(A)
<1> DEFINE ids == {a.uid : a \in A}
           bounds == {n \in Nat : \A a \in A : a.uid <= n}
<1>1. /\ \A a \in A : a.uid \in Nat /\ a.uid <= MaxUid
      /\ \E a \in A : a.uid = 0
      /\ MaxUid \in Nat
  BY StorageAssumption DEF Good, Records
<1>2. PICK m \in bounds : \A n \in bounds : m <= n
  <2>1. bounds \subseteq Nat /\ MaxUid \in bounds
    BY <1>1
  <2> HIDE DEF bounds
  <2> QED BY <2>1, Least
<1>3. \E a \in A : a.uid = m
  <2> SUFFICES ASSUME \A a \in A : a.uid # m PROVE FALSE
    OBVIOUS
  <2>1. m \in Nat /\ (\A a \in A : a.uid <= m)
    OBVIOUS
  <2>2. m # 0
    BY <1>1
  <2>3. \A a \in A : a.uid <= m - 1
    BY <1>1, <2>1
  <2>4. m - 1 \in bounds
    BY <2>1, <2>2, <2>3
  <2> QED BY <1>2, <2>1, <2>4
<1>4. m \in ids /\ \A a \in A : a.uid <= m
  BY <1>3
<1> DEFINE u == CHOOSE u \in ids : \A a \in A : a.uid <= u
<1>5. u \in ids /\ \A a \in A : a.uid <= u
  BY <1>4, Zenon
<1>6. U!NextUid(A) = 1 + u
  BY DEF U!NextUid
<1> HIDE DEF u
<1>7. u \in Nat
  BY <1>1, <1>5
<1> QED BY <1>1, <1>5, <1>6, <1>7

-----------------------------------------------------------------------------
(***************************************************************************)
(* Users: what the files hold is what has been answered, or is being saved *)
(***************************************************************************)
UnderSave == save # NoSave
Saves == [stage : {"bak", "db"}, back : SUBSET Records, by : Callers \cup {U!Init_}]
FirstAccounts == {U!Account(U!RootAdmin, 0, Default, TRUE)}

UPhase == phase \in {"boot", "heal", "up", "halt"}
\* What the files may hold are sets of accounts; what they hold is one of those.
UFiles ==
    /\ \A m \in may : Good(m)
    /\ \A f \in {db, bak} : f \notin {Absent, Corrupt} => f \in may
\* The accounts in memory are one of those too, with the uids that are used up.
UMemory ==
    /\ phase \in {"heal", "up"} \/ UnderSave => s_users \in may
    /\ s_next_uid \in Nat
    /\ \A a \in s_users : a.uid \in Nat /\ a.uid < s_next_uid
\* A save writes the backup first, and can take back what it saves.
USave ==
    UnderSave =>
        /\ save \in Saves
        /\ save.stage = "db" => bak = s_users
        /\ IF save.by = U!Init_ THEN phase = "boot" /\ may = {s_users} /\ save.back = {}
           ELSE /\ phase = "up" /\ save.back \in may
                /\ \A a \in save.back : a.uid \in Nat /\ a.uid < s_next_uid
\* Nothing was ever answered while both files are missing.
UFirst ==
    db = Absent /\ bak = Absent => phase \notin {"heal", "up"} /\ may \subseteq {FirstAccounts}
UsersInv == UPhase /\ UFiles /\ UMemory /\ USave /\ UFirst

LEMMA FirstAccountsGood == Good(FirstAccounts) /\ \A a \in FirstAccounts : a.uid = 0
<1>1. U!Account(U!RootAdmin, 0, Default, TRUE) \in Records
  BY StorageAssumption DEF U!Account, Records
<1>2. U!Account(U!RootAdmin, 0, Default, TRUE).uid = 0
  BY DEF U!Account
<1> QED BY <1>1, <1>2 DEF Good, FirstAccounts

\* Sets of accounts are no missing and no broken file.
LEMMA GoodIsFile == ASSUME FilesTell, NEW A, Good(A) PROVE A # Absent /\ A # Corrupt
BY DEF FilesTell, Good

LEMMA UsersBegin == ASSUME U!Init PROVE UsersInv
<1> USE DEF U!Init
<1>1. UPhase /\ UFiles
  BY DEF UPhase, UFiles
<1>2. UMemory /\ USave /\ UFirst
  BY DEF UMemory, USave, UFirst, UnderSave
<1> QED BY <1>1, <1>2 DEF UsersInv

LEMMA UsersBoot ==
    ASSUME FilesTell, UsersInv, NEW r \in {0, 1}, NEW s \in {0, 1}, U!user_init(r, s)
    PROVE  UsersInv'
<1> DEFINE d == IF r = 1 THEN Corrupt ELSE db
           b == IF s = 1 THEN Corrupt ELSE bak
           load(f) == s_users' = f /\ s_next_uid' = U!NextUid(f) /\ UNCHANGED <<save, may>>
<1>1. phase = "boot" /\ ~UnderSave /\ db' = db /\ bak' = bak
  BY DEF U!user_init, U!files, UnderSave
<1>2. \/ U!Usable(d) /\ load(d) /\ phase' = "up"
      \/ ~U!Usable(d) /\ U!Usable(b) /\ load(b) /\ phase' = "heal"
      \/ /\ U!FirstBoot(d, b)
         /\ s_users' = FirstAccounts
         /\ s_next_uid' = 1
         /\ save' = [stage |-> "bak", back |-> {}, by |-> U!Init_]
         /\ may' = IF may = {} THEN {s_users'} ELSE may
         /\ UNCHANGED phase
      \/ phase' = "halt" /\ UNCHANGED <<s_users, s_next_uid, save, may>>
  BY DEF U!user_init, U!memory, FirstAccounts
<1>3. /\ d \notin {Absent, Corrupt} => d = db
      /\ b \notin {Absent, Corrupt} => b = bak
      /\ d = Absent => db = Absent
      /\ b = Absent => bak = Absent
  BY StorageAssumption
<1> HIDE DEF d, b
\* Memory is loaded from a file that can be read.
<1>4. ASSUME NEW f \in {d, b}, U!Usable(f), load(f), phase' \in {"up", "heal"}
      PROVE  UsersInv'
  <2>1. f \in {db, bak} /\ f \notin {Absent, Corrupt}
    BY <1>3, <1>4 DEF U!Usable
  <2>2. f \in may /\ Good(f)
    BY <2>1 DEF UsersInv, UFiles
  <2>3. /\ s_users' = f /\ s_next_uid' = U!NextUid(f) /\ save' = save /\ may' = may
        /\ s_next_uid' \in Nat /\ \A a \in s_users' : a.uid < s_next_uid'
    BY <1>4, <2>2, NextUidAbove
  <2>4. \A a \in f : a.uid \in Nat
    BY <2>2 DEF Good, Records
  <2>5. UPhase' /\ UFiles'
    BY <1>1, <1>4, <2>3 DEF UsersInv, UPhase, UFiles
  <2>6. UMemory'
    BY <1>4, <2>2, <2>3, <2>4 DEF UMemory
  <2>7. USave'
    BY <1>1, <2>3 DEF USave, UnderSave
  <2>8. UFirst'
    BY <1>1, <2>1, <2>3 DEF UsersInv, UFirst
  <2> QED BY <2>5, <2>6, <2>7, <2>8 DEF UsersInv
\* Both files are missing: the administrator is made, and saved.
<1>5. ASSUME U!FirstBoot(d, b),
             s_users' = FirstAccounts,
             s_next_uid' = 1,
             save' = [stage |-> "bak", back |-> {}, by |-> U!Init_],
             may' = IF may = {} THEN {s_users'} ELSE may,
             UNCHANGED phase
      PROVE  UsersInv'
  <2>1. db = Absent /\ bak = Absent
    BY <1>3, <1>5 DEF U!FirstBoot
  <2>2. may' = {FirstAccounts} /\ may \subseteq may'
    BY <1>1, <1>5, <2>1 DEF UsersInv, UFirst
  <2>3. UPhase' /\ UFiles'
    BY <1>1, <1>5, <2>1, <2>2, FirstAccountsGood DEF UsersInv, UPhase, UFiles
  <2>4. UMemory'
    BY <1>5, <2>2, FirstAccountsGood DEF UMemory
  <2>5. USave'
    <3>1. save' \in Saves /\ save'.stage = "bak" /\ save'.by = U!Init_ /\ save'.back = {}
      BY <1>5 DEF Saves
    <3> QED BY <1>1, <1>5, <2>2, <3>1 DEF USave
  <2>6. UFirst'
    BY <1>1, <1>5, <2>2 DEF UFirst
  <2> QED BY <2>3, <2>4, <2>5, <2>6 DEF UsersInv
<1>6. ASSUME phase' = "halt", UNCHANGED <<s_users, s_next_uid, save, may>> PROVE UsersInv'
  <2>1. UPhase' /\ UFiles' /\ UFirst'
    BY <1>1, <1>6 DEF UsersInv, UPhase, UFiles, UFirst
  <2>2. UMemory' /\ USave'
    BY <1>1, <1>6 DEF UsersInv, UMemory, USave, UnderSave
  <2> QED BY <2>1, <2>2 DEF UsersInv
<1> QED BY <1>2, <1>4, <1>5, <1>6

LEMMA UsersHeal == ASSUME FilesTell, UsersInv, U!Heal PROVE UsersInv'
<1>1. /\ phase = "heal" /\ phase' = "up"
      /\ db' = s_users \/ db' = db
      /\ bak' = bak /\ s_users' = s_users /\ s_next_uid' = s_next_uid /\ save' = save /\ may' = may
  BY DEF U!Heal, U!memory
<1>2. s_users \in may /\ s_users # Absent
  BY <1>1, GoodIsFile DEF UsersInv, UFiles, UMemory
<1>3. ~UnderSave
  BY <1>1 DEF UsersInv, USave
<1>4. UPhase' /\ UFiles'
  BY <1>1, <1>2 DEF UsersInv, UPhase, UFiles
<1>5. UMemory' /\ USave'
  BY <1>1, <1>2, <1>3 DEF UsersInv, UMemory, USave, UnderSave
<1>6. UFirst'
  BY <1>1, <1>2 DEF UsersInv, UFirst
<1> QED BY <1>4, <1>5, <1>6 DEF UsersInv

LEMMA SaveIs ==
    ASSUME UsersInv, UnderSave
    PROVE  /\ save \in Saves /\ s_users \in may /\ Good(s_users)
           /\ save.stage = "db" => bak = s_users
           /\ save.stage \in {"bak", "db"}
           /\ save.by = U!Init_ => phase = "boot" /\ may = {s_users} /\ save.back = {}
           /\ save.by # U!Init_ => /\ phase = "up" /\ save.back \in may
                                  /\ \A a \in save.back : a.uid \in Nat /\ a.uid < s_next_uid
BY DEF UsersInv, USave, UMemory, UFiles, Saves

\* The first write done, the second is to come; the second done, the call is answered.
LEMMA UsersWriteOk == ASSUME FilesTell, UsersInv, U!WriteOk PROVE UsersInv'
<1>1. UnderSave /\ U!Put(s_users) /\ s_next_uid' = s_next_uid
  BY DEF U!WriteOk, UnderSave
<1>2. /\ save \in Saves /\ s_users \in may /\ Good(s_users)
      /\ save.stage \in {"bak", "db"} /\ s_users # Absent
  BY <1>1, SaveIs, GoodIsFile
<1>3. CASE save.stage = "bak"
  <2>1. /\ bak' = s_users /\ db' = db /\ save' = [save EXCEPT !.stage = "db"]
        /\ s_users' = s_users /\ may' = may /\ phase' = phase
    BY <1>1, <1>3 DEF U!WriteOk, U!Put
  <2>2. /\ save' \in Saves /\ save'.stage = "db" /\ save'.by = save.by /\ save'.back = save.back
    BY <1>2, <2>1 DEF Saves
  <2>3. UPhase' /\ UFiles'
    BY <1>2, <2>1 DEF UsersInv, UPhase, UFiles
  <2>4. UMemory'
    BY <1>1, <1>2, <2>1 DEF UsersInv, UMemory
  <2>5. USave'
    BY <1>1, <2>1, <2>2, SaveIs DEF USave
  <2>6. UFirst'
    BY <1>2, <2>1 DEF UFirst
  <2> QED BY <2>3, <2>4, <2>5, <2>6 DEF UsersInv
<1>4. CASE save.stage = "db"
  <2>1. /\ db' = s_users /\ bak' = bak /\ U!Saved(TRUE)
    BY <1>1, <1>4 DEF U!WriteOk, U!Put
  <2>2. /\ save' = NoSave /\ s_users' = s_users /\ may' = {s_users} /\ bak' = s_users
        /\ phase' = "up"
    BY <1>1, <1>4, <2>1, SaveIs DEF U!Saved
  <2>3. UPhase' /\ UFiles'
    BY <1>2, <2>1, <2>2 DEF UPhase, UFiles
  <2>4. UMemory' /\ USave'
    BY <1>1, <1>2, <2>2 DEF UsersInv, UMemory, USave, UnderSave
  <2>5. UFirst'
    BY <1>2, <2>1 DEF UFirst
  <2> QED BY <2>3, <2>4, <2>5 DEF UsersInv
<1> QED BY <1>2, <1>3, <1>4

\* A write fails: memory goes back to what it was before the call.
LEMMA UsersWriteError == ASSUME FilesTell, UsersInv, U!WriteError PROVE UsersInv'
<1>1. UnderSave /\ U!Saved(FALSE) /\ s_next_uid' = s_next_uid
  BY DEF U!WriteError, UnderSave
<1>2. PICK contents \in {U!File, s_users} : U!Put(contents)
  BY DEF U!WriteError
<1>3. /\ save \in Saves /\ s_users \in may /\ Good(s_users) /\ s_users # Absent
      /\ save.stage \in {"bak", "db"}
  BY <1>1, SaveIs, GoodIsFile
<1>4. (db' = db \/ db' = s_users) /\ (bak' = bak \/ bak' = s_users)
  BY <1>2, <1>3 DEF U!Put, U!File
<1>5. /\ save' = NoSave /\ s_users' = save.back /\ may' = may
      /\ phase' = IF save.by = U!Init_ THEN "halt" ELSE phase
  BY <1>1 DEF U!Saved
<1>6. UPhase' /\ UFiles'
  BY <1>3, <1>4, <1>5 DEF UsersInv, UPhase, UFiles
<1>7. USave' /\ UFirst'
  BY <1>1, <1>3, <1>4, <1>5, SaveIs DEF UsersInv, USave, UnderSave, UFirst
<1>8. UMemory'
  <2>1. CASE save.by = U!Init_
    <3>1. save.back = {}
      BY <1>1, <2>1, SaveIs
    <3> QED BY <1>1, <1>5, <2>1, <3>1 DEF UsersInv, UMemory, UnderSave
  <2>2. CASE save.by # U!Init_
    BY <1>1, <1>5, <2>2, SaveIs DEF UsersInv, UMemory, UnderSave
  <2> QED BY <2>1, <2>2
<1> QED BY <1>6, <1>7, <1>8 DEF UsersInv

\* The power goes: a file being written may have the old, the new or broken contents.
LEMMA UsersPowerLoss == ASSUME FilesTell, UsersInv, U!PowerLoss PROVE UsersInv'
<1>1. /\ phase' = "boot" /\ s_users' = {} /\ s_next_uid' = 0 /\ save' = NoSave /\ may' = may
  BY DEF U!PowerLoss
<1>2. /\ db' \in {db, s_users, Corrupt} /\ bak' \in {bak, s_users, Corrupt}
      /\ db' # db \/ bak' # bak => UnderSave \/ phase = "heal"
  <2>1. CASE save # NoSave
    <3>1. PICK contents \in {U!File, s_users, Corrupt} : U!Put(contents)
      BY <2>1 DEF U!PowerLoss
    <3> QED BY <2>1, <3>1 DEF U!Put, U!File, UnderSave
  <2>2. CASE save = NoSave
    BY <2>2 DEF U!PowerLoss, U!files
  <2> QED BY <2>1, <2>2
<1>3. UnderSave \/ phase = "heal" => s_users \in may /\ s_users # Absent
  BY GoodIsFile DEF UsersInv, UMemory, UFiles
<1>4. UPhase' /\ UFiles'
  BY <1>1, <1>2, <1>3 DEF UsersInv, UPhase, UFiles
<1>5. UMemory' /\ USave'
  BY <1>1 DEF UMemory, USave, UnderSave
<1>6. UFirst'
  BY <1>1, <1>2, <1>3, StorageAssumption DEF UsersInv, UFirst
<1> QED BY <1>4, <1>5, <1>6 DEF UsersInv

\* A call begins its save: accounts that a file can hold, with uids that are given out.
LEMMA UsersCommit ==
    ASSUME FilesTell, UsersInv, U!Unlocked, NEW c \in Callers,
           NEW A, Good(A), s_users' = A, s_next_uid' \in Nat, s_next_uid <= s_next_uid',
           \A a \in A : a.uid < s_next_uid',
           save' = [stage |-> "bak", back |-> s_users, by |-> c],
           may' = may \cup {A}, UNCHANGED <<db, bak, phase>>
    PROVE  UsersInv'
<1>1. phase = "up" /\ ~UnderSave /\ c # U!Init_
  BY StorageAssumption DEF U!Unlocked, UnderSave
<1>2. s_users \in may /\ Good(s_users)
  BY <1>1 DEF UsersInv, UMemory, UFiles
<1>3. UPhase' /\ UFiles' /\ UFirst'
  BY <1>1 DEF UsersInv, UPhase, UFiles, UFirst
<1>4. UMemory'
  <2>1. \A a \in A : a.uid \in Nat
    BY DEF Good, Records
  <2> QED BY <1>1, <2>1 DEF UMemory
<1>5. USave'
  <2>1. save' \in Saves /\ save'.by = c /\ save'.back = s_users /\ save'.stage = "bak"
    BY <1>2 DEF Saves, Good
  <2>2. \A a \in s_users : a.uid \in Nat /\ a.uid < s_next_uid'
    BY DEF UsersInv, UMemory
  <2> QED BY <1>1, <1>2, <2>1, <2>2 DEF USave
<1> QED BY <1>3, <1>4, <1>5 DEF UsersInv

-----------------------------------------------------------------------------
(***************************************************************************)
(* Users: what a call knows of the account it has looked up, while the     *)
(* lock is open.                                                           *)
(***************************************************************************)
Sessions == [pc : {"session"}, uid : 0 .. MaxUid]
Passes == Passwords \cup {Default}
CallerStates ==
    {U!Idle} \cup Sessions \cup [pc : {"auth"}, uid : 0 .. MaxUid]
    \cup [pc : {"hash"}, op : {"login", "passwd"}, uid : 0 .. MaxUid,
          name : Names \cup {U!RootAdmin}, pw : Passes, next : Sessions]
    \cup [pc : {"hash"}, op : {"add"}, name : Names \cup {U!RootAdmin}, pw : Passes, next : Sessions]
    \cup [pc : {"delete"}, op : {"delete"}, next : Sessions]
UCallers ==
    /\ caller \in [Callers -> CallerStates]
    /\ phase # "up" => \A c \in Callers : caller[c] = U!Idle
    /\ UnderSave /\ save.by # U!Init_ => caller[save.by].pc \in {"hash", "delete"}

\* s is a password change for a uid below n, of which A knows no other name.
Changing(s) == s.pc = "hash" /\ s.op # "add"
Knows(s, n, A) ==
    Changing(s) => s.uid \in Nat /\ s.uid < n /\ \A a \in A : a.uid = s.uid => a.name = s.name
UKnown ==
    \A c \in Callers :
        /\ Knows(caller[c], s_next_uid, s_users)
        /\ UnderSave => Knows(caller[c], s_next_uid, save.back)
CallsInv == UsersInv /\ UCallers /\ UKnown

LEMMA CallersBegin == ASSUME U!Init PROVE CallsInv
<1>1. UCallers
  <2>1. U!Idle \in CallerStates
    BY DEF CallerStates
  <2> QED BY <2>1 DEF U!Init, UCallers, UnderSave
<1>2. UKnown
  BY DEF U!Init, UKnown, UnderSave, Knows, Changing, U!Idle
<1> QED BY <1>1, <1>2, UsersBegin DEF CallsInv

\* While nobody is up, nobody knows anything.
LEMMA CallersIdle ==
    ASSUME NEW who \in [Callers -> {U!Idle}], caller' = who, ~UnderSave' \/ save'.by = U!Init_
    PROVE  UCallers' /\ UKnown'
<1>1. \A c \in Callers : caller'[c] = U!Idle
  OBVIOUS
<1>2. UCallers'
  <2>1. caller' \in [Callers -> CallerStates]
    BY DEF CallerStates
  <2> QED BY <1>1, <2>1 DEF UCallers
<1>3. UKnown'
  BY <1>1 DEF UKnown, Knows, Changing, U!Idle
<1> QED BY <1>2, <1>3

LEMMA CallersDown ==
    ASSUME FilesTell, CallsInv,
           (\E r, s \in {0, 1} : U!user_init(r, s)) \/ U!Heal \/ U!PowerLoss
    PROVE  UCallers' /\ UKnown'
<1>1. CASE U!PowerLoss
  <2>1. caller' = [c \in Callers |-> U!Idle] /\ save' = NoSave
    BY <1>1 DEF U!PowerLoss
  <2> QED BY <2>1, CallersIdle DEF UnderSave
<1>2. CASE U!Heal \/ \E r, s \in {0, 1} : U!user_init(r, s)
  <2>1. phase \in {"heal", "boot"} /\ ~UnderSave /\ caller' = caller
    BY <1>2 DEF U!Heal, U!user_init, CallsInv, UsersInv, USave, UnderSave
  <2>2. caller \in [Callers -> {U!Idle}]
    BY <2>1 DEF CallsInv, UCallers
  <2>3. ~UnderSave' \/ save'.by = U!Init_
    <3>1. CASE U!Heal
      BY <2>1, <3>1 DEF U!Heal, U!memory, UnderSave
    <3>2. ASSUME NEW r \in {0, 1}, NEW s \in {0, 1}, U!user_init(r, s)
          PROVE  save' = save \/ save' = [stage |-> "bak", back |-> {}, by |-> U!Init_]
      BY <3>2, Zenon DEF U!user_init, U!memory
    <3> QED BY <1>2, <2>1, <3>1, <3>2 DEF UnderSave
  <2> QED BY <2>1, <2>2, <2>3, CallersIdle
<1> QED BY <1>1, <1>2

\* A save is answered: its call goes on, in a session or from the start.
LEMMA CallersAnswered ==
    ASSUME CallsInv, UnderSave, NEW ok \in BOOLEAN, U!Saved(ok), s_next_uid' = s_next_uid
    PROVE  UCallers' /\ UKnown'
<1>1. save' = NoSave /\ s_users' = IF ok THEN s_users ELSE save.back
  BY DEF U!Saved
<1>2. CASE save.by = U!Init_
  <2>1. phase = "boot" /\ caller' = caller
    BY <1>2, SaveIs DEF U!Saved, CallsInv
  <2>2. caller \in [Callers -> {U!Idle}]
    BY <2>1 DEF CallsInv, UCallers
  <2> QED BY <1>1, <2>1, <2>2, CallersIdle DEF UnderSave
<1>3. CASE save.by # U!Init_
  <2> DEFINE s == caller[save.by]
             t == IF ok \/ s.op # "login" THEN s.next ELSE U!Idle
  <2>1. save.by \in Callers /\ phase = "up"
    BY <1>3, SaveIs DEF CallsInv, Saves
  <2>2. caller' = [caller EXCEPT ![save.by] = t] /\ phase' = phase
    BY <1>3 DEF U!Saved
  <2>3. s \in CallerStates /\ s.pc \in {"hash", "delete"}
    BY <1>3, <2>1 DEF CallsInv, UCallers
  <2>4. s.next \in Sessions
    BY <2>3 DEF CallerStates, Sessions, U!Idle
  <2>5. t \in CallerStates /\ t.pc # "hash"
    BY <2>4 DEF CallerStates, Sessions, U!Idle
  <2> HIDE DEF t
  <2>6. UCallers'
    BY <1>1, <2>1, <2>2, <2>5 DEF CallsInv, UCallers, UnderSave
  <2>7. UKnown'
    <3> SUFFICES ASSUME NEW c \in Callers PROVE Knows(caller'[c], s_next_uid', s_users')
      BY <1>1 DEF UKnown, UnderSave
    <3>1. CASE c = save.by
      BY <2>1, <2>2, <2>5, <3>1 DEF Knows, Changing, CallsInv, UCallers
    <3>2. CASE c # save.by
      <4>1. caller'[c] = caller[c]
        BY <2>2, <3>2 DEF CallsInv, UCallers
      <4> QED BY <1>1, <4>1 DEF CallsInv, UKnown
    <3> QED BY <3>1, <3>2
  <2> QED BY <2>6, <2>7
<1> QED BY <1>2, <1>3

LEMMA CallersWrite == ASSUME CallsInv, U!WriteOk \/ U!WriteError PROVE UCallers' /\ UKnown'
<1>1. UnderSave /\ s_next_uid' = s_next_uid
  BY DEF U!WriteOk, U!WriteError, UnderSave
<1>2. CASE U!Saved(TRUE) \/ U!Saved(FALSE)
  BY <1>1, <1>2, CallersAnswered
<1>3. CASE U!WriteOk /\ ~U!Saved(TRUE)
  <2>1. /\ save' = [save EXCEPT !.stage = "db"]
        /\ UNCHANGED <<s_users, phase, caller>>
    BY <1>3 DEF U!WriteOk
  <2>2. save'.back = save.back /\ save'.by = save.by
    BY <1>1, <2>1, SaveIs DEF CallsInv, Saves
  <2>3. UCallers'
    BY <1>1, <2>1, <2>2 DEF CallsInv, UCallers
  <2>4. UKnown'
    BY <1>1, <2>1, <2>2 DEF CallsInv, UKnown
  <2> QED BY <2>3, <2>4
<1> QED BY <1>2, <1>3 DEF U!WriteError

\* A call only goes from one part to the next.
LEMMA CallersTo ==
    ASSUME CallsInv, U!Unlocked, NEW c \in Callers, NEW s \in CallerStates, U!To(c, s),
           Knows(s, s_next_uid, s_users)
    PROVE  CallsInv'
<1>1. /\ phase = "up" /\ ~UnderSave
      /\ caller' = [caller EXCEPT ![c] = s]
      /\ UNCHANGED <<s_users, s_next_uid, save, db, bak, phase, may>>
  BY DEF U!Unlocked, U!To, U!memory, U!files, UnderSave
<1>2. UPhase' /\ UFiles' /\ UFirst'
  BY <1>1 DEF CallsInv, UsersInv, UPhase, UFiles, UFirst
<1>3. UMemory' /\ USave'
  BY <1>1 DEF CallsInv, UsersInv, UMemory, USave, UnderSave
<1>4. UCallers'
  BY <1>1 DEF CallsInv, UCallers, UnderSave
<1>5. UKnown'
  <2> SUFFICES ASSUME NEW d \in Callers PROVE Knows(caller'[d], s_next_uid, s_users)
    BY <1>1 DEF UKnown, UnderSave
  <2>1. caller'[d] = IF d = c THEN s ELSE caller[d]
    BY <1>1 DEF CallsInv, UCallers
  <2> QED BY <2>1 DEF CallsInv, UKnown
<1> QED BY <1>2, <1>3, <1>4, <1>5 DEF CallsInv, UsersInv

\* A call begins its save: an account keeps its uid and its name, or has a new uid.
LEMMA CallersCommit ==
    ASSUME FilesTell, CallsInv, U!Unlocked, NEW c \in Callers,
           NEW A, Good(A), s_users' = A, s_next_uid' \in Nat, s_next_uid <= s_next_uid',
           \A a \in A : a.uid < s_next_uid',
           \A a \in A : a.uid >= s_next_uid \/ \E b \in s_users : b.uid = a.uid /\ b.name = a.name,
           save' = [stage |-> "bak", back |-> s_users, by |-> c],
           may' = may \cup {A}, UNCHANGED <<db, bak, phase>>,
           NEW s \in CallerStates, caller' = [caller EXCEPT ![c] = s], s.pc \in {"hash", "delete"},
           s = caller[c] \/ s.pc = "delete"
    PROVE  CallsInv'
<1>1. UsersInv'
  BY UsersCommit DEF CallsInv
<1>2. phase' = "up" /\ save'.by = c /\ save'.back = s_users
  BY DEF U!Unlocked
<1>3. UCallers'
  BY <1>2 DEF CallsInv, UCallers
<1>4. UKnown'
  <2> SUFFICES ASSUME NEW d \in Callers
               PROVE  /\ Knows(caller'[d], s_next_uid', A)
                      /\ Knows(caller'[d], s_next_uid', s_users)
    BY <1>2 DEF UKnown
  <2>1. caller'[d] = caller[d] \/ ~Changing(caller'[d])
    BY DEF CallsInv, UCallers, Changing
  <2>2. CASE ~Changing(caller'[d])
    BY <2>2 DEF Knows
  <2>3. CASE caller'[d] = caller[d] /\ Changing(caller[d])
    <3>1. /\ caller[d].uid \in Nat /\ caller[d].uid < s_next_uid
          /\ \A a \in s_users : a.uid = caller[d].uid => a.name = caller[d].name
      BY <2>3 DEF CallsInv, UKnown, Knows
    <3>2. s_next_uid \in Nat
      BY DEF CallsInv, UsersInv, UMemory
    <3>3. \A a \in A : a.uid = caller[d].uid => a.name = caller[d].name
      BY <3>1, <3>2
    <3> QED BY <2>3, <3>1, <3>2, <3>3 DEF Knows
  <2> QED BY <2>1, <2>2, <2>3
<1> QED BY <1>1, <1>3, <1>4 DEF CallsInv

LEMMA CallerIs ==
    ASSUME CallsInv, NEW c \in Callers
    PROVE  /\ caller[c] \in CallerStates
           /\ caller[c].pc \in {"session", "auth"} => caller[c].uid \in 0 .. MaxUid
           /\ caller[c].pc = "session" => caller[c] \in Sessions
           /\ caller[c].pc = "hash" =>
                 /\ caller[c].pw \in Passes /\ caller[c].next \in Sessions
                 /\ caller[c].name \in Names \cup {U!RootAdmin}
                 /\ caller[c].op # "add" => caller[c].uid \in 0 .. MaxUid
<1>1. caller[c] \in CallerStates
  BY DEF CallsInv, UCallers
<1> QED BY <1>1 DEF CallerStates, Sessions, U!Idle

\* In the locked parts memory holds accounts that a file can hold.
LEMMA MemoryIs ==
    ASSUME FilesTell, CallsInv, U!Unlocked
    PROVE  /\ Good(s_users) /\ s_next_uid \in Nat
           /\ \A a \in s_users : a \in Records /\ a.uid \in Nat /\ a.uid < s_next_uid
<1>1. phase = "up"
  BY DEF U!Unlocked
<1>2. Good(s_users)
  BY <1>1 DEF CallsInv, UsersInv, UMemory, UFiles
<1> QED BY <1>2 DEF CallsInv, UsersInv, UMemory, Good

LEMMA CallsEasy ==
    ASSUME FilesTell, CallsInv, NEW c \in Callers,
           \/ \E n \in Names \cup {U!RootAdmin}, p \in Passes : U!Login(c, n, p)
           \/ U!LoginShell(c) \/ U!Logout(c)
    PROVE  CallsInv'
<1>1. U!Unlocked
  BY DEF U!Login, U!LoginShell, U!Logout
<1>2. ASSUME NEW s \in CallerStates, U!To(c, s), s.pc # "hash" PROVE CallsInv'
  BY <1>1, <1>2, CallersTo DEF Knows, Changing
<1>3. ASSUME NEW n \in Names \cup {U!RootAdmin}, NEW p \in Passes, U!Login(c, n, p)
      PROVE  CallsInv'
  <2>1. PICK a \in s_users : U!To(c, [pc |-> "auth", uid |-> a.uid])
    BY <1>3 DEF U!Login, U!find_user
  <2>2. a.uid \in 0 .. MaxUid
    BY <1>1, MemoryIs DEF Records
  <2>3. [pc |-> "auth", uid |-> a.uid] \in CallerStates
    BY <2>2 DEF CallerStates
  <2> QED BY <1>2, <2>1, <2>3
<1>4. CASE U!LoginShell(c)
  <2>1. caller[c].uid \in 0 .. MaxUid
    BY <1>4, CallerIs DEF U!LoginShell
  <2>2. U!Session(caller[c].uid) \in CallerStates /\ U!Session(caller[c].uid).pc # "hash"
    BY <2>1 DEF CallerStates, Sessions, U!Session
  <2> QED BY <1>2, <1>4, <2>2 DEF U!LoginShell
<1>5. CASE U!Logout(c)
  <2>1. U!Idle \in CallerStates /\ U!Idle.pc # "hash"
    BY DEF CallerStates, U!Idle
  <2> QED BY <1>2, <1>5, <2>1 DEF U!Logout
<1> QED BY <1>3, <1>4, <1>5

\* user_change_password: the uid looked up is the one that is changed.
LEMMA CallsChangeFind ==
    ASSUME FilesTell, CallsInv, NEW c \in Callers, NEW p \in Passes, U!ChangeFind(c, p)
    PROVE  CallsInv'
<1> DEFINE S(a) == [pc |-> "hash", op |-> IF caller[c].pc = "auth" THEN "login" ELSE "passwd",
                    uid |-> a.uid, name |-> a.name, pw |-> p, next |-> U!Session(a.uid)]
<1>1. PICK a \in s_users : U!To(c, S(a))
  BY DEF U!ChangeFind, U!ByUid
<1>2. U!Unlocked
  BY DEF U!ChangeFind
<1>3. /\ a \in Records /\ a.uid \in Nat /\ a.uid < s_next_uid
      /\ \A b \in s_users : a.uid = b.uid => a = b
  BY <1>2, MemoryIs DEF Good
<1>4. a.uid \in 0 .. MaxUid /\ a.name \in Names \cup {U!RootAdmin}
  BY <1>3 DEF Records
<1>5. U!Session(a.uid) \in Sessions
  BY <1>4 DEF U!Session, Sessions
<1>6. S(a) \in CallerStates
  BY <1>4, <1>5 DEF CallerStates
<1>7. Knows(S(a), s_next_uid, s_users)
  BY <1>3 DEF Knows
<1> HIDE DEF S
<1> QED BY <1>1, <1>2, <1>6, <1>7, CallersTo

LEMMA CallsChangeCommit ==
    ASSUME FilesTell, CallsInv, NEW c \in Callers, U!ChangeCommit(c) PROVE CallsInv'
<1>1. /\ U!Unlocked /\ caller[c].pc = "hash" /\ caller[c].op # "add" /\ s_next_uid' = s_next_uid
      /\ caller[c] \in CallerStates /\ caller[c].pw \in Passes /\ caller[c].next \in Sessions
  BY CallerIs DEF U!ChangeCommit
<1>2. ASSUME NEW a \in s_users,
             U!Commit(c, (s_users \ {a}) \cup {[a EXCEPT !.pw = caller[c].pw, !.must = FALSE]})
      PROVE  CallsInv'
  <2> DEFINE b == [a EXCEPT !.pw = caller[c].pw, !.must = FALSE]
             A == (s_users \ {a}) \cup {b}
  <2>1. a \in Records /\ Good(s_users) /\ \A x \in s_users : x \in Records /\ x.uid < s_next_uid
    BY <1>1, MemoryIs
  <2>2. b \in Records /\ b.uid = a.uid /\ b.name = a.name
    BY <1>1, <2>1 DEF Records, Passes
  <2> HIDE DEF b
  <2>3. Good(A)
    BY <2>1, <2>2 DEF Good
  <2>4. /\ \A x \in A : x.uid < s_next_uid
        /\ \A x \in A : \E y \in s_users : y.uid = x.uid /\ y.name = x.name
    BY <2>1, <2>2
  <2>5. /\ s_users' = A /\ may' = may \cup {A} /\ caller' = caller
        /\ save' = [stage |-> "bak", back |-> s_users, by |-> c]
        /\ UNCHANGED <<db, bak, phase>>
    BY <1>2 DEF U!Commit, U!files, b
  <2>6. caller' = [caller EXCEPT ![c] = caller[c]]
    BY <2>5 DEF CallsInv, UCallers
  <2>7. /\ s_next_uid' \in Nat /\ s_next_uid <= s_next_uid'
        /\ \A x \in A : x.uid < s_next_uid'
        /\ \A x \in A : x.uid >= s_next_uid \/ \E y \in s_users : y.uid = x.uid /\ y.name = x.name
    BY <1>1, <2>4, MemoryIs
  <2> HIDE DEF A
  <2> QED BY <1>1, <2>3, <2>5, <2>6, <2>7, CallersCommit
<1>3. ASSUME U!To(c, IF caller[c].op = "login" THEN U!Idle ELSE caller[c].next)
      PROVE  CallsInv'
  <2> DEFINE t == IF caller[c].op = "login" THEN U!Idle ELSE caller[c].next
  <2>1. t \in CallerStates /\ t.pc # "hash"
    BY <1>1 DEF CallerStates, Sessions, U!Idle
  <2> HIDE DEF t
  <2>2. U!To(c, t)
    BY <1>3 DEF t
  <2> QED BY <1>1, <2>1, <2>2, CallersTo DEF Knows, Changing
<1> QED BY <1>2, <1>3 DEF U!ChangeCommit, U!ByUid

\* user_add: the new account has a uid that nobody had before.
LEMMA CallsAddCheck ==
    ASSUME FilesTell, CallsInv, NEW c \in Callers, NEW n \in Names \cup {U!RootAdmin},
           NEW p \in Passes, U!AddCheck(c, n, p)
    PROVE  CallsInv'
<1> DEFINE s == [pc |-> "hash", op |-> "add", name |-> n, pw |-> p, next |-> caller[c]]
<1>1. U!Unlocked /\ caller[c].pc = "session" /\ U!To(c, s)
  BY DEF U!AddCheck, U!InSession
<1>2. s \in CallerStates
  BY <1>1, CallerIs DEF CallerStates
<1>3. Knows(s, s_next_uid, s_users)
  BY DEF Knows, Changing
<1> HIDE DEF s
<1> QED BY <1>1, <1>2, <1>3, CallersTo

LEMMA CallsAddCommit ==
    ASSUME FilesTell, CallsInv, NEW c \in Callers, U!AddCommit(c) PROVE CallsInv'
<1>1. /\ U!Unlocked /\ caller[c].pc = "hash"
      /\ caller[c] \in CallerStates /\ caller[c].pw \in Passes /\ caller[c].next \in Sessions
      /\ caller[c].name \in Names \cup {U!RootAdmin}
  BY CallerIs DEF U!AddCommit
<1> DEFINE b == U!Account(caller[c].name, s_next_uid, caller[c].pw, TRUE)
           A == s_users \cup {b}
<1>2. ASSUME s_next_uid < MaxUid, U!Commit(c, A), s_next_uid' = s_next_uid + 1
      PROVE  CallsInv'
  <2>1. /\ Good(s_users) /\ s_next_uid \in Nat
        /\ \A x \in s_users : x \in Records /\ x.uid \in Nat /\ x.uid < s_next_uid
    BY <1>1, MemoryIs
  <2>2. b \in Records /\ b.uid = s_next_uid
    BY <1>1, <1>2, <2>1, StorageAssumption DEF U!Account, Records, Passes
  <2>3. /\ s_users' = A /\ may' = may \cup {A} /\ caller' = caller
        /\ save' = [stage |-> "bak", back |-> s_users, by |-> c]
        /\ UNCHANGED <<db, bak, phase>>
    BY <1>2 DEF U!Commit, U!files
  <2> HIDE DEF b
  <2>4. Good(A)
    BY <2>1, <2>2 DEF Good
  <2>5. /\ \A x \in A : x.uid < s_next_uid'
        /\ \A x \in A : x.uid >= s_next_uid \/ \E y \in s_users : y.uid = x.uid /\ y.name = x.name
    BY <1>2, <2>1, <2>2
  <2>6. caller' = [caller EXCEPT ![c] = caller[c]]
    BY <2>3 DEF CallsInv, UCallers
  <2>7. s_next_uid' \in Nat /\ s_next_uid <= s_next_uid'
    BY <1>2, <2>1
  <2> HIDE DEF A
  <2> QED BY <1>1, <2>3, <2>4, <2>5, <2>6, <2>7, CallersCommit
<1>3. ASSUME U!To(c, caller[c].next) PROVE CallsInv'
  <2>1. caller[c].next \in CallerStates /\ caller[c].next.pc # "hash"
    BY <1>1 DEF CallerStates, Sessions
  <2> QED BY <1>1, <1>3, <2>1, CallersTo DEF Knows, Changing
<1> QED BY <1>2, <1>3 DEF U!AddCommit, U!FreshUid

LEMMA CallsDelete ==
    ASSUME FilesTell, CallsInv, NEW c \in Callers, NEW n \in Names, U!Delete(c, n) PROVE CallsInv'
<1> DEFINE s == [pc |-> "delete", op |-> "delete", next |-> caller[c]]
<1>1. PICK a \in s_users :
          /\ a.uid # 0 /\ s_users' = s_users \ {a}
          /\ save' = [stage |-> "bak", back |-> s_users, by |-> c]
          /\ may' = may \cup {s_users'}
          /\ caller' = [caller EXCEPT ![c] = s]
  BY DEF U!Delete, U!find_user
<1>2. U!Unlocked /\ caller[c].pc = "session" /\ UNCHANGED <<s_next_uid, db, bak, phase>>
  BY DEF U!Delete, U!InSession, U!files
<1>3. /\ Good(s_users) /\ s_next_uid \in Nat
      /\ \A x \in s_users : x \in Records /\ x.uid \in Nat /\ x.uid < s_next_uid
  BY <1>2, MemoryIs
<1>4. Good(s_users \ {a})
  BY <1>1, <1>3 DEF Good
<1>5. s \in CallerStates /\ s.pc = "delete"
  BY <1>2, CallerIs DEF CallerStates
<1> HIDE DEF s
<1> DEFINE A == s_users \ {a}
<1>6. /\ s_next_uid' \in Nat /\ s_next_uid <= s_next_uid'
      /\ \A x \in A : x.uid < s_next_uid'
      /\ \A x \in A : x.uid >= s_next_uid \/ \E y \in s_users : y.uid = x.uid /\ y.name = x.name
  BY <1>2, <1>3
<1>7. /\ s_users' = A /\ may' = may \cup {A} /\ Good(A)
      /\ save' = [stage |-> "bak", back |-> s_users, by |-> c]
      /\ caller' = [caller EXCEPT ![c] = s]
  BY <1>1, <1>4
<1> HIDE DEF A
<1> QED BY <1>2, <1>5, <1>6, <1>7, CallersCommit

LEMMA CallsStep == ASSUME FilesTell, CallsInv, U!Next PROVE CallsInv'
<1>1. ASSUME NEW r \in {0, 1}, NEW s \in {0, 1}, U!user_init(r, s) PROVE CallsInv'
  BY <1>1, UsersBoot, CallersDown DEF CallsInv
<1>2. CASE U!Heal
  BY <1>2, UsersHeal, CallersDown DEF CallsInv
<1>3. CASE U!WriteOk
  BY <1>3, UsersWriteOk, CallersWrite DEF CallsInv
<1>4. CASE U!WriteError
  BY <1>4, UsersWriteError, CallersWrite DEF CallsInv
<1>5. CASE U!PowerLoss
  BY <1>5, UsersPowerLoss, CallersDown DEF CallsInv
<1>6. ASSUME NEW c \in Callers,
             \/ \E n \in Names \cup {U!RootAdmin}, p \in Passes : U!Login(c, n, p) \/ U!AddCheck(c, n, p)
             \/ U!LoginShell(c) \/ U!Logout(c)
      PROVE  CallsInv'
  BY <1>6, CallsEasy, CallsAddCheck
<1>7. ASSUME NEW c \in Callers,
             \/ \E p \in Passwords : U!ChangeFind(c, p)
             \/ U!ChangeCommit(c) \/ U!AddCommit(c)
             \/ \E n \in Names : U!Delete(c, n)
      PROVE  CallsInv'
  BY <1>7, CallsChangeFind, CallsChangeCommit, CallsAddCommit, CallsDelete DEF Passes
<1> QED BY <1>1, <1>2, <1>3, <1>4, <1>5, <1>6, <1>7 DEF U!Next, Passes

LEMMA CallsInductive == ASSUME FilesTell PROVE StorageSpec => []CallsInv
<1>1. StorageInit => CallsInv
  BY CallersBegin DEF StorageInit
<1>2. CallsInv /\ [StorageNext]_storage_vars => CallsInv'
  <2> SUFFICES ASSUME CallsInv, [StorageNext]_storage_vars PROVE CallsInv'
    OBVIOUS
  <2>1. CASE UNCHANGED accounts
    <3>1. UPhase' /\ UFiles' /\ UMemory' /\ UFirst'
      BY <2>1 DEF accounts, CallsInv, UsersInv, UPhase, UFiles, UMemory, UFirst, UnderSave
    <3>2. USave' /\ UCallers' /\ UKnown'
      BY <2>1 DEF accounts, CallsInv, UsersInv, USave, UCallers, UKnown, UnderSave
    <3> QED BY <3>1, <3>2 DEF CallsInv, UsersInv
  <2>2. U!Next \/ UNCHANGED accounts
    BY DEF StorageNext, InFat32, InUsers, InUsb, storage_vars
  <2> QED BY <2>1, <2>2, CallsStep
<1> QED BY <1>1, <1>2, PTL DEF StorageSpec

\* What was answered ok stays: memory, and whatever a file can be read as at the next
\* boot, is the state of the last save that answered ok or one being saved since.
THEOREM AnswersLast == ASSUME FilesTell PROVE StorageSpec => []Durable
<1>1. CallsInv => Durable
  BY DEF CallsInv, UsersInv, UFiles, UMemory, Durable, U!Durable, U!Usable
<1> QED BY <1>1, CallsInductive, PTL

\* A password change that was checked against one account is never given to another.
THEOREM ChangesReachTheirOwn == ASSUME FilesTell PROVE StorageSpec => []UidStable
<1>1. CallsInv => UidStable
  BY DEF CallsInv, UKnown, Knows, Changing, UidStable, U!UidStable, U!ByUid
<1> QED BY <1>1, CallsInductive, PTL

-----------------------------------------------------------------------------
(***************************************************************************)
(* Users: one of the two files can always be read. The primary stands      *)
(* while nothing is saved and while the backup is written; while it is     *)
(* written itself, the backup has been. This needs the write that heals    *)
(* the primary after a boot to succeed, or writes that cannot tear: the    *)
(* code does not look at its result (user.c:401).                          *)
(***************************************************************************)
HealMatters == ~(HealFails /\ Tears)
Copies ==
    /\ AlwaysAGoodCopy
    /\ phase = "up" \/ UnderSave => db # Corrupt
    /\ phase = "heal" => U!Usable(bak)
    /\ ~Tears => db # Corrupt
CopiesInv == CallsInv /\ Copies

LEMMA CopiesBegin == ASSUME U!Init PROVE Copies
BY StorageAssumption DEF U!Init, Copies, AlwaysAGoodCopy, U!AlwaysAGoodCopy, UnderSave, U!Usable

LEMMA CopiesBoot ==
    ASSUME CopiesInv, NEW r \in {0, 1}, NEW s \in {0, 1}, U!user_init(r, s) PROVE Copies'
<1>1. phase = "boot" /\ db' = db /\ bak' = bak
  BY DEF U!user_init, U!files
<1>2. \/ U!Usable(db) /\ phase' = "up"
      \/ U!Usable(bak) /\ phase' = "heal" /\ save' = save
      \/ db = Absent /\ phase' = phase
      \/ phase' = "halt" /\ save' = save
  <2> DEFINE d == IF r = 1 THEN Corrupt ELSE db
             b == IF s = 1 THEN Corrupt ELSE bak
  <2>1. \/ U!Usable(d) /\ phase' = "up"
        \/ U!Usable(b) /\ phase' = "heal" /\ save' = save
        \/ U!FirstBoot(d, b) /\ UNCHANGED phase
        \/ phase' = "halt" /\ save' = save
    BY DEF U!user_init, U!memory
  <2>2. /\ U!Usable(d) => U!Usable(db)
        /\ U!Usable(b) => U!Usable(bak)
        /\ U!FirstBoot(d, b) => db = Absent
    BY StorageAssumption DEF U!Usable, U!FirstBoot
  <2> HIDE DEF d, b
  <2> QED BY <2>1, <2>2
<1>3. save = NoSave
  BY DEF U!user_init
<1> QED BY <1>1, <1>2, <1>3, StorageAssumption
        DEF CopiesInv, Copies, AlwaysAGoodCopy, U!AlwaysAGoodCopy, UnderSave, U!Usable

\* Accounts in memory that are saved, or that a file was healed from, make a good file.
LEMMA MemoryIsFile ==
    ASSUME FilesTell, CopiesInv, phase \in {"heal", "up"} \/ UnderSave
    PROVE  U!Usable(s_users) /\ s_users # Corrupt /\ s_users # Absent
<1>1. Good(s_users)
  BY DEF CopiesInv, CallsInv, UsersInv, UMemory, UFiles
<1> QED BY <1>1, GoodIsFile DEF U!Usable

LEMMA CopiesHeal == ASSUME FilesTell, HealMatters, CopiesInv, U!Heal PROVE Copies'
<1>1. /\ phase = "heal" /\ phase' = "up" /\ bak' = bak
      /\ db' = s_users \/ (HealFails /\ db' = db)
  BY DEF U!Heal
<1>2. U!Usable(s_users) /\ s_users # Corrupt
  BY <1>1, MemoryIsFile
<1>3. db' # Corrupt
  BY <1>1, <1>2 DEF HealMatters, CopiesInv, Copies
<1> QED BY <1>1, <1>2, <1>3
        DEF CopiesInv, Copies, AlwaysAGoodCopy, U!AlwaysAGoodCopy, U!Usable

LEMMA CopiesWrite == ASSUME FilesTell, CopiesInv, U!WriteOk \/ U!WriteError PROVE Copies'
<1>1. /\ UnderSave
      /\ (db' = db \/ db' = s_users) /\ (bak' = bak \/ bak' = s_users)
  BY DEF U!WriteOk, U!WriteError, U!Put, U!File, UnderSave
<1>2. U!Usable(s_users) /\ s_users # Corrupt
  BY <1>1, MemoryIsFile
<1>3. db # Corrupt /\ phase # "heal"
  <2>1. save.by = U!Init_ => phase = "boot"
    BY <1>1, SaveIs DEF CopiesInv, CallsInv
  <2>2. save.by # U!Init_ => phase = "up"
    BY <1>1, SaveIs DEF CopiesInv, CallsInv
  <2> QED BY <1>1, <2>1, <2>2 DEF CopiesInv, Copies
<1>4. phase' # "heal"
  BY <1>3 DEF U!WriteOk, U!WriteError, U!Saved
<1> QED BY <1>1, <1>2, <1>3, <1>4
        DEF CopiesInv, Copies, AlwaysAGoodCopy, U!AlwaysAGoodCopy, U!Usable

LEMMA CopiesPowerLoss == ASSUME FilesTell, CopiesInv, U!PowerLoss PROVE Copies'
<1>1. phase' = "boot" /\ save' = NoSave
  BY DEF U!PowerLoss
<1>2. ASSUME UnderSave PROVE AlwaysAGoodCopy' /\ (~Tears => db' # Corrupt)
  <2>1. PICK contents \in {U!File, s_users} \cup (IF Tears THEN {Corrupt} ELSE {}) : U!Put(contents)
    BY <1>2 DEF U!PowerLoss, UnderSave
  <2>2. U!Usable(s_users) /\ s_users # Corrupt /\ save.stage \in {"bak", "db"}
    BY <1>2, MemoryIsFile, SaveIs DEF CopiesInv, CallsInv
  <2>3. db # Corrupt
    BY <1>2 DEF CopiesInv, Copies
  <2>4. CASE save.stage = "bak"
    BY <2>1, <2>3, <2>4 DEF U!Put, AlwaysAGoodCopy, U!AlwaysAGoodCopy, U!Usable
  <2>5. CASE save.stage = "db"
    <3>1. bak' = s_users /\ (db' = contents)
      BY <1>2, <2>1, <2>5, SaveIs DEF U!Put, CopiesInv, CallsInv
    <3>2. ~Tears => contents \in {db, s_users}
      BY <2>1, <2>5 DEF U!File
    <3> QED BY <2>2, <2>3, <3>1, <3>2 DEF AlwaysAGoodCopy, U!AlwaysAGoodCopy
  <2> QED BY <2>2, <2>4, <2>5
<1>3. ASSUME ~UnderSave, phase = "heal" PROVE AlwaysAGoodCopy' /\ (~Tears => db' # Corrupt)
  <2>1. bak' = bak /\ db' \in {db, s_users} \cup (IF Tears THEN {Corrupt} ELSE {})
    BY <1>3 DEF U!PowerLoss, UnderSave
  <2>2. U!Usable(bak) /\ s_users # Corrupt
    BY <1>3, MemoryIsFile DEF CopiesInv, Copies
  <2> QED BY <2>1, <2>2 DEF CopiesInv, Copies, AlwaysAGoodCopy, U!AlwaysAGoodCopy, U!Usable
<1>4. ASSUME ~UnderSave, phase # "heal" PROVE AlwaysAGoodCopy' /\ (~Tears => db' # Corrupt)
  BY <1>4 DEF U!PowerLoss, UnderSave, U!files, CopiesInv, Copies, AlwaysAGoodCopy,
     U!AlwaysAGoodCopy, U!Usable
<1> QED BY <1>1, <1>2, <1>3, <1>4 DEF Copies, UnderSave

LEMMA CopiesStep == ASSUME FilesTell, HealMatters, CopiesInv, U!Next PROVE Copies'
<1>1. ASSUME NEW r \in {0, 1}, NEW s \in {0, 1}, U!user_init(r, s) PROVE Copies'
  BY <1>1, CopiesBoot
<1>2. CASE U!Heal
  BY <1>2, CopiesHeal
<1>3. CASE U!WriteOk \/ U!WriteError
  BY <1>3, CopiesWrite
<1>4. CASE U!PowerLoss
  BY <1>4, CopiesPowerLoss
<1>5. ASSUME U!Unlocked, UNCHANGED <<db, bak, phase>> PROVE Copies'
  <2>1. phase = "up"
    BY <1>5 DEF U!Unlocked
  <2> QED BY <1>5, <2>1 DEF CopiesInv, Copies, AlwaysAGoodCopy, U!AlwaysAGoodCopy, UnderSave, U!Usable
<1>6. ASSUME NEW c \in Callers,
             \/ \E n \in Names \cup {U!RootAdmin}, p \in Passes : U!Login(c, n, p) \/ U!AddCheck(c, n, p)
             \/ U!LoginShell(c) \/ U!Logout(c)
             \/ \E p \in Passwords : U!ChangeFind(c, p)
      PROVE  U!Unlocked /\ UNCHANGED <<db, bak, phase>>
  BY <1>6 DEF U!Login, U!AddCheck, U!LoginShell, U!Logout, U!ChangeFind, U!InSession, U!To, U!files
<1>7. ASSUME NEW c \in Callers,
             U!ChangeCommit(c) \/ U!AddCommit(c) \/ \E n \in Names : U!Delete(c, n)
      PROVE  U!Unlocked /\ UNCHANGED <<db, bak, phase>>
  BY <1>7 DEF U!ChangeCommit, U!AddCommit, U!Delete, U!InSession, U!Commit, U!To, U!files
<1> QED BY <1>1, <1>2, <1>3, <1>4, <1>5, <1>6, <1>7 DEF U!Next, Passes

\* Once both files have been written there is always one to boot from, so that the gate
\* of kmain locks nobody out.
THEOREM OneCopyStands == ASSUME FilesTell, HealMatters PROVE StorageSpec => []AlwaysAGoodCopy
<1>1. StorageInit => Copies
  BY CopiesBegin DEF StorageInit
<1>2. CallsInv /\ Copies /\ [StorageNext]_storage_vars => Copies'
  <2> SUFFICES ASSUME CallsInv, Copies, [StorageNext]_storage_vars PROVE Copies'
    OBVIOUS
  <2>1. CASE UNCHANGED accounts
    BY <2>1 DEF accounts, Copies, AlwaysAGoodCopy, U!AlwaysAGoodCopy, UnderSave, U!Usable
  <2>2. U!Next \/ UNCHANGED accounts
    BY DEF StorageNext, InFat32, InUsers, InUsb, storage_vars
  <2> QED BY <2>1, <2>2, CopiesStep DEF CopiesInv
<1>3. Copies => AlwaysAGoodCopy
  BY DEF Copies
<1> QED BY <1>1, <1>2, <1>3, CallsInductive, PTL DEF StorageSpec

-----------------------------------------------------------------------------
(***************************************************************************)
(* Chains of the FAT: the path from a cluster, found as the least number of steps *)
(***************************************************************************)
Fats == [Clusters -> Clusters \cup {Free, Eoc}]
Follow(f, s) == f[s[Len(s)]]
More(f, s) == Follow(f, s) \in Clusters /\ \A i \in DOMAIN s : s[i] # Follow(f, s)
Body(f, g, s) == IF More(f, s) THEN g[Append(s, Follow(f, s))] ELSE s
Steps(f) == CHOOSE g : g = [s \in Seq(Clusters) |-> Body(f, g, s)]

LEMMA ChainDef == ASSUME NEW f, NEW c PROVE Chain(f, c) = IF c \in Clusters THEN Steps(f)[<<c>>] ELSE <<>>
  BY Zenon DEF Chain, Steps, Body, More, Follow, Valid

\* A set of numbers that no least number can leave
Left(s) == Cardinality(Clusters \ ToSet(s))

LEMMA LeftIs == ASSUME NEW s \in Seq(Clusters) PROVE Left(s) \in Nat
  BY FatAssumption, FS_Difference, FS_CardinalityType DEF Left

LEMMA LeftLess ==
    ASSUME NEW s \in Seq(Clusters), NEW n \in Clusters, \A i \in DOMAIN s : s[i] # n
    PROVE  Left(Append(s, n)) < Left(s)
<1>1. ToSet(Append(s, n)) = ToSet(s) \cup {n}
  <2> DEFINE t == Append(s, n)
  <2>1. Len(s) \in Nat /\ DOMAIN s = 1 .. Len(s) /\ DOMAIN t = 1 .. Len(s) + 1
    OBVIOUS
  <2>2. t[Len(s) + 1] = n /\ \A i \in 1 .. Len(s) : t[i] = s[i]
    OBVIOUS
  <2> HIDE DEF t
  <2>3. \A i \in 1 .. Len(s) + 1 : i \in 1 .. Len(s) \/ i = Len(s) + 1
    BY <2>1
  <2>4. \A i \in 1 .. Len(s) : i \in 1 .. Len(s) + 1
    BY <2>1
  <2>5. Len(s) + 1 \in 1 .. Len(s) + 1
    BY <2>1
  <2>6. {t[i] : i \in DOMAIN t} = {s[i] : i \in DOMAIN s} \cup {n}
    BY <2>1, <2>2, <2>3, <2>4, <2>5
  <2> QED BY <2>6 DEF ToSet, t
<1>2. Clusters \ ToSet(Append(s, n)) = (Clusters \ ToSet(s)) \ {n}
  BY <1>1
<1>3. n \in Clusters \ ToSet(s)
  BY DEF ToSet
<1>4. IsFiniteSet(Clusters \ ToSet(s))
  BY FatAssumption, FS_Difference
<1>5. Cardinality((Clusters \ ToSet(s)) \ {n}) = Cardinality(Clusters \ ToSet(s)) - 1
  BY <1>3, <1>4, FS_RemoveElement
<1>6. Left(s) \in Nat
  BY LeftIs
<1>7. Left(Append(s, n)) = Left(s) - 1
  BY <1>2, <1>5 DEF Left
<1> QED BY <1>6, <1>7

Solves(f, h, k) == \A s \in Seq(Clusters) : Left(s) < k => h[s] = Body(f, h, s)

LEMMA StepsExist == ASSUME NEW f PROVE \E g : g = [s \in Seq(Clusters) |-> Body(f, g, s)]
<1> DEFINE T == {k \in Nat : ~ \E h : Solves(f, h, k)}
<1>1. 0 \notin T
  <2>1. \A s \in Seq(Clusters) : ~(Left(s) < 0)
    BY LeftIs
  <2> QED BY <2>1 DEF Solves
<1>2. ASSUME NEW k \in Nat, NEW h, Solves(f, h, k) PROVE \E g : Solves(f, g, k + 1)
  <2> DEFINE g == [s \in Seq(Clusters) |-> Body(f, h, s)]
  <2>1. ASSUME NEW s \in Seq(Clusters), Left(s) < k + 1 PROVE g[s] = Body(f, g, s)
    <3>1. CASE ~More(f, s)
      BY <3>1 DEF Body
    <3>2. CASE More(f, s)
      <4> DEFINE t == Append(s, Follow(f, s))
      <4>1. t \in Seq(Clusters) /\ Left(t) < Left(s)
        BY <3>2, LeftLess DEF More
      <4>2. Left(t) < k
        <5>1. Left(t) \in Nat /\ Left(s) \in Nat
          BY <4>1, LeftIs
        <5> QED BY <4>1, <2>1, <5>1
      <4>3. h[t] = Body(f, h, t)
        BY <4>1, <4>2, <1>2 DEF Solves
      <4>4. g[t] = Body(f, h, t) /\ g[s] = h[t]
        BY <4>1, <3>2 DEF Body
      <4> QED BY <4>3, <4>4, <3>2 DEF Body
    <3> QED BY <3>1, <3>2
  <2> HIDE DEF g
  <2>2. Solves(f, g, k + 1)
    BY <2>1 DEF Solves
  <2> QED BY <2>2
<1>3. T = {}
  <2> SUFFICES ASSUME T # {} PROVE FALSE
    OBVIOUS
  <2>1. T \subseteq Nat
    OBVIOUS
  <2>2. PICK k \in T : \A y \in T : k <= y
    <3> HIDE DEF T
    <3> QED BY <2>1, Least
  <2>3. k \in Nat /\ k # 0 /\ k - 1 \in Nat /\ k - 1 \notin T /\ (k - 1) + 1 = k
    BY <1>1, <2>2
  <2>4. \E h : Solves(f, h, k - 1)
    BY <2>3
  <2>5. \E g : Solves(f, g, (k - 1) + 1)
    BY <2>3, <2>4, <1>2
  <2>6. \E g : Solves(f, g, k)
    BY <2>3, <2>5
  <2> QED BY <2>2, <2>6
<1> DEFINE N == Cardinality(Clusters) + 1
<1>4. N \in Nat
  BY FatAssumption, FS_CardinalityType
<1>5. PICK h : Solves(f, h, N)
  BY <1>3, <1>4
<1>6. \A s \in Seq(Clusters) : h[s] = Body(f, h, s)
  <2> SUFFICES ASSUME NEW s \in Seq(Clusters) PROVE Left(s) < N
    BY <1>5 DEF Solves
  <2>1. Cardinality(Clusters \ ToSet(s)) <= Cardinality(Clusters)
    BY FatAssumption, FS_Subset
  <2>2. Left(s) \in Nat /\ Cardinality(Clusters) \in Nat
    BY LeftIs, FatAssumption, FS_CardinalityType
  <2> QED BY <2>1, <2>2 DEF Left
<1> DEFINE g == [s \in Seq(Clusters) |-> h[s]]
<1>7. \A s \in Seq(Clusters) : g[s] = Body(f, g, s)
  <2> SUFFICES ASSUME NEW s \in Seq(Clusters) PROVE g[s] = Body(f, g, s)
    OBVIOUS
  <2>1. More(f, s) => Append(s, Follow(f, s)) \in Seq(Clusters)
    BY DEF More
  <2> QED BY <2>1, <1>6 DEF Body
<1>8. g = [s \in Seq(Clusters) |-> Body(f, g, s)]
  BY <1>7
<1> HIDE DEF g
<1> QED BY <1>8

LEMMA StepsIs ==
    ASSUME NEW f, NEW s \in Seq(Clusters)
    PROVE  Steps(f)[s] = IF More(f, s) THEN Steps(f)[Append(s, Follow(f, s))] ELSE s
<1>1. Steps(f) = [t \in Seq(Clusters) |-> Body(f, Steps(f), t)]
  BY StepsExist DEF Steps
<1> QED BY <1>1 DEF Body

\* The path of f from c: all of its clusters, to the end.
Path(f, c, s) ==
    /\ s \in Seq(Clusters) /\ s # <<>> /\ s[1] = c
    /\ \A i \in 1 .. Len(s) - 1 : f[s[i]] = s[i + 1]
    /\ \A i, j \in 1 .. Len(s) : s[i] = s[j] => i = j
    /\ f[s[Len(s)]] = Eoc

LEMMA ChainIs == ASSUME NEW f, NEW c, NEW s, Path(f, c, s) PROVE c \in Clusters /\ Chain(f, c) = s
<1> DEFINE m == Len(s)
           p(i) == SubSeq(s, 1, i)
           T == {k \in Nat : k < m /\ Steps(f)[p(m - k)] # s}
<1>1. s \in Seq(Clusters) /\ m \in Nat /\ m >= 1 /\ s[1] = c /\ c \in Clusters
  BY DEF Path
<1>2. ASSUME NEW i \in 1 .. m
      PROVE  /\ p(i) \in Seq(Clusters) /\ Len(p(i)) = i /\ DOMAIN p(i) = 1 .. i
             /\ \A j \in 1 .. i : p(i)[j] = s[j]
  BY <1>1
<1>3. p(m) = s
  BY <1>1
<1>4. Steps(f)[s] = s
  <2>1. Follow(f, s) \notin Clusters
    BY FatAssumption DEF Path, Follow
  <2> QED BY <1>1, <2>1, StepsIs DEF More
<1>5. ASSUME NEW i \in 1 .. m - 1 PROVE Steps(f)[p(i)] = Steps(f)[p(i + 1)]
  <2>1. i \in 1 .. m /\ i + 1 \in 1 .. m
    BY <1>1
  <2>2. Follow(f, p(i)) = s[i + 1] /\ s[i + 1] \in Clusters
    BY <1>1, <1>2, <2>1 DEF Path, Follow
  <2>3. More(f, p(i))
    <3>1. \A j \in 1 .. i : s[j] # s[i + 1]
      BY <2>1 DEF Path
    <3> QED BY <2>1, <2>2, <3>1, <1>2 DEF More
  <2>4. Append(p(i), s[i + 1]) = p(i + 1)
    <3>1. Append(p(i), s[i + 1]) \in Seq(Clusters) /\ Len(Append(p(i), s[i + 1])) = i + 1
      BY <1>2, <2>1, <2>2
    <3>2. \A j \in 1 .. i + 1 : Append(p(i), s[i + 1])[j] = s[j]
      BY <1>2, <2>1, <2>2
    <3> HIDE DEF p
    <3> QED BY <3>1, <3>2, <1>2, <2>1
  <2>5. p(i) \in Seq(Clusters)
    BY <1>2, <2>1
  <2> HIDE DEF p
  <2>6. Steps(f)[p(i)] = Steps(f)[Append(p(i), Follow(f, p(i)))]
    BY <2>3, <2>5, StepsIs
  <2> QED BY <2>2, <2>4, <2>6
<1>6. T = {}
  <2> SUFFICES ASSUME T # {} PROVE FALSE
    OBVIOUS
  <2>1. T \subseteq Nat
    OBVIOUS
  <2>2. PICK k \in T : \A y \in T : k <= y
    <3> HIDE DEF T
    <3> QED BY <2>1, Least
  <2>3. k # 0
    <3> SUFFICES ASSUME k = 0 PROVE FALSE
      OBVIOUS
    <3>1. m - k = m
      BY <1>1
    <3>2. Steps(f)[p(m - k)] = s
      BY <3>1, <1>3, <1>4
    <3> QED BY <2>2, <3>2
  <2>4. k - 1 \in Nat /\ k - 1 \notin T /\ k < m
    BY <2>2, <2>3
  <2>5. Steps(f)[p(m - (k - 1))] = s
    BY <2>4, <1>1
  <2>6. m - k \in 1 .. m - 1 /\ (m - k) + 1 = m - (k - 1)
    BY <2>2, <2>3, <2>4, <1>1
  <2>7. Steps(f)[p(m - k)] = Steps(f)[p((m - k) + 1)]
    BY <2>6, <1>5
  <2> QED BY <2>2, <2>5, <2>6, <2>7
<1>7. Steps(f)[p(1)] = s
  <2>1. m - 1 \in Nat /\ m - 1 \notin T /\ m - (m - 1) = 1
    BY <1>1, <1>6
  <2> QED BY <2>1, <1>1
<1>8. p(1) = <<c>>
  <2>1. 1 \in 1 .. m
    BY <1>1
  <2>2. p(1) \in Seq(Clusters) /\ Len(p(1)) = 1 /\ p(1)[1] = c
    BY <1>1, <1>2, <2>1
  <2> HIDE DEF p
  <2> QED BY <2>2
<1> QED BY <1>1, <1>7, <1>8, ChainDef

-----------------------------------------------------------------------------
(***************************************************************************)
(* Setting an entry of the FAT                                             *)
(***************************************************************************)
Owns(f, h) == ToSet(Chain(f, h))
IsTop(f, h) == Path(f, h, Chain(f, h))
\* g is f with the entry of c set to v.
Sets(f, g, c, v) == g \in Fats /\ g[c] = v /\ \A x \in Clusters : x # c => g[x] = f[x]

\* What a chain that ends holds: its first and its last cluster, and no free one.
LEMMA TopFacts ==
    ASSUME NEW f, NEW h, IsTop(f, h)
    PROVE  /\ Chain(f, h) \in Seq(Clusters) /\ Len(Chain(f, h)) \in Nat /\ Len(Chain(f, h)) >= 1
           /\ Chain(f, h)[1] = h /\ h \in Owns(f, h) /\ h \in Clusters
           /\ Owns(f, h) \subseteq Clusters
           /\ Owns(f, h) = {Chain(f, h)[i] : i \in 1 .. Len(Chain(f, h))}
           /\ Last(Chain(f, h)) = Chain(f, h)[Len(Chain(f, h))]
           /\ Last(Chain(f, h)) \in Owns(f, h) /\ f[Last(Chain(f, h))] = Eoc
           /\ \A c \in Owns(f, h) : f[c] \in Clusters \cup {Eoc} /\ f[c] # Free
<1> DEFINE s == Chain(f, h)
<1>1. /\ s \in Seq(Clusters) /\ s # <<>> /\ s[1] = h
      /\ \A i \in 1 .. Len(s) - 1 : f[s[i]] = s[i + 1]
      /\ f[s[Len(s)]] = Eoc
  BY DEF IsTop, Path
<1>2. Owns(f, h) = {s[i] : i \in DOMAIN s}
  BY DEF Owns, ToSet
<1> HIDE DEF s
<1>3. Len(s) \in Nat /\ Len(s) >= 1 /\ DOMAIN s = 1 .. Len(s)
  BY <1>1
<1>4. Last(s) = s[Len(s)] /\ Last(s) \in Owns(f, h) /\ h \in Owns(f, h) /\ f[Last(s)] = Eoc
  BY <1>1, <1>2, <1>3 DEF Last
<1>5. \A c \in Owns(f, h) : c \in Clusters /\ f[c] \in Clusters \cup {Eoc} /\ f[c] # Free
  <2> SUFFICES ASSUME NEW i \in 1 .. Len(s) PROVE s[i] \in Clusters /\ f[s[i]] \in Clusters \cup {Eoc} /\ f[s[i]] # Free
    BY <1>2, <1>3
  <2>1. s[i] \in Clusters
    BY <1>1, <1>3
  <2>2. CASE i = Len(s)
    BY <1>1, <2>1, <2>2, FatAssumption
  <2>3. CASE i # Len(s)
    <3>1. i \in 1 .. Len(s) - 1 /\ i + 1 \in 1 .. Len(s)
      <4>1. ASSUME NEW m \in Nat, NEW j \in 1 .. m, j # m PROVE j \in 1 .. m - 1 /\ j + 1 \in 1 .. m
        BY <4>1
      <4> QED BY <4>1, <2>3, <1>3
    <3>2. f[s[i]] = s[i + 1] /\ s[i + 1] \in Clusters
      BY <3>1, <1>1, <1>3
    <3> QED BY <2>1, <3>2, FatAssumption
  <2> QED BY <2>2, <2>3
<1> QED BY <1>1, <1>2, <1>3, <1>4, <1>5 DEF s

\* A chain depends on the entries of its own clusters only.
LEMMA ChainFrame ==
    ASSUME NEW f, NEW g, NEW h, IsTop(f, h), \A c \in Owns(f, h) : g[c] = f[c]
    PROVE  IsTop(g, h) /\ Chain(g, h) = Chain(f, h) /\ Owns(g, h) = Owns(f, h)
<1> DEFINE s == Chain(f, h)
<1>1. Path(f, h, s)
  BY DEF IsTop
<1>2. /\ s \in Seq(Clusters) /\ Len(s) \in Nat /\ Len(s) >= 1
      /\ \A i \in 1 .. Len(s) : g[s[i]] = f[s[i]]
  BY TopFacts
<1> HIDE DEF s
<1>3. Path(g, h, s)
  BY <1>1, <1>2 DEF Path
<1>4. Chain(g, h) = s
  BY <1>3, ChainIs
<1> QED BY <1>3, <1>4 DEF s, IsTop, Owns

\* A cluster that ends a chain is one.
LEMMA ChainOne ==
    ASSUME NEW f, NEW c \in Clusters, f[c] = Eoc
    PROVE  IsTop(f, c) /\ Chain(f, c) = <<c>> /\ Owns(f, c) = {c}
<1>1. Path(f, c, <<c>>)
  BY DEF Path
<1>2. Chain(f, c) = <<c>>
  BY <1>1, ChainIs
<1> QED BY <1>1, <1>2 DEF IsTop, Owns, ToSet

\* A cluster is linked behind the last one.
LEMMA ChainAppend ==
    ASSUME NEW f \in Fats, NEW h, IsTop(f, h), NEW c \in Clusters, c \notin Owns(f, h), f[c] = Eoc,
           NEW g, Sets(f, g, Last(Chain(f, h)), c)
    PROVE  IsTop(g, h) /\ Chain(g, h) = Append(Chain(f, h), c) /\ Owns(g, h) = Owns(f, h) \cup {c}
<1> DEFINE s == Chain(f, h)
           n == Len(s)
           t == Append(s, c)
<1>1. Path(f, h, s) /\ s \in Seq(Clusters) /\ n \in Nat /\ n >= 1 /\ Last(s) = s[n] /\ s[1] = h
  BY TopFacts DEF IsTop
<1>2. \A i \in 1 .. n : s[i] \in Clusters /\ s[i] \in Owns(f, h) /\ s[i] # c
  BY TopFacts
<1>3. g[s[n]] = c /\ \A x \in Clusters : x # s[n] => g[x] = f[x]
  BY <1>1, <1>2 DEF Sets
<1> HIDE DEF s
<1>4. /\ t \in Seq(Clusters) /\ Len(t) = n + 1 /\ t[n + 1] = c /\ \A i \in 1 .. n : t[i] = s[i]
  BY <1>1
<1> HIDE DEF t
<1>5. \A i \in 1 .. n : g[t[i]] = t[i + 1]
  <2> SUFFICES ASSUME NEW i \in 1 .. n PROVE g[t[i]] = t[i + 1]
    OBVIOUS
  <2>1. CASE i = n
    BY <2>1, <1>3, <1>4
  <2>2. CASE i # n
    <3>1. i \in 1 .. n - 1 /\ i + 1 \in 1 .. n /\ n \in 1 .. n
      BY <2>2, <1>1
    <3>2. s[i] # s[n]
      BY <3>1, <2>2, <1>1 DEF Path
    <3>3. g[s[i]] = f[s[i]] /\ f[s[i]] = s[i + 1]
      BY <3>1, <3>2, <1>1, <1>2, <1>3 DEF Path
    <3> QED BY <3>1, <3>3, <1>4
  <2> QED BY <2>1, <2>2
<1>6. \A i, j \in 1 .. n + 1 : t[i] = t[j] => i = j
  <2> SUFFICES ASSUME NEW i \in 1 .. n + 1, NEW j \in 1 .. n + 1, t[i] = t[j] PROVE i = j
    OBVIOUS
  <2>1. CASE i \in 1 .. n /\ j \in 1 .. n
    BY <2>1, <1>1, <1>4 DEF Path
  <2>2. CASE i \notin 1 .. n \/ j \notin 1 .. n
    BY <2>2, <1>1, <1>2, <1>4
  <2> QED BY <2>1, <2>2
<1>7. c # s[n] /\ g[c] = Eoc
  BY <1>1, <1>2, <1>3
<1>8. Path(g, h, t)
  <2>1. t # <<>> /\ t[1] = h
    BY <1>1, <1>4
  <2> QED BY <2>1, <1>1, <1>4, <1>5, <1>6, <1>7 DEF Path
<1>9. Chain(g, h) = t
  BY <1>8, ChainIs
<1>10. ToSet(t) = ToSet(s) \cup {c}
  <2>1. ToSet(t) = {t[i] : i \in 1 .. n + 1} /\ ToSet(s) = {s[i] : i \in 1 .. n}
    BY <1>1, <1>4 DEF ToSet
  <2>2. ToSet(t) \subseteq ToSet(s) \cup {c}
    BY <2>1, <1>1, <1>4
  <2>3. ToSet(s) \cup {c} \subseteq ToSet(t)
    <3>1. n + 1 \in 1 .. n + 1 /\ \A i \in 1 .. n : i \in 1 .. n + 1
      BY <1>1
    <3> QED BY <2>1, <3>1, <1>4
  <2> QED BY <2>2, <2>3
<1> QED BY <1>8, <1>9, <1>10 DEF IsTop, Owns, s, t

\* The head of a chain is freed: the rest is the chain of the next.
LEMMA ChainTail ==
    ASSUME NEW f \in Fats, NEW h, IsTop(f, h), NEW g, Sets(f, g, h, Free)
    PROVE  \/ f[h] = Eoc /\ Owns(f, h) = {h}
           \/ /\ f[h] \in Clusters /\ IsTop(g, f[h]) /\ Owns(g, f[h]) = Owns(f, h) \ {h}
<1> DEFINE s == Chain(f, h)
           n == Len(s)
           t == [i \in 1 .. n - 1 |-> s[i + 1]]
<1>1. Path(f, h, s) /\ s \in Seq(Clusters) /\ n \in Nat /\ n >= 1 /\ Last(s) = s[n] /\ s[1] = h /\ f[s[n]] = Eoc
  BY TopFacts DEF IsTop
<1>2. \A i \in 1 .. n : s[i] \in Clusters
  BY <1>1
<1>3. Owns(f, h) = {s[i] : i \in 1 .. n}
  BY TopFacts
<1> HIDE DEF s
<1>4. CASE n = 1
  BY <1>1, <1>3, <1>4
<1>5. CASE n # 1
  <2>1. n - 1 \in Nat /\ n - 1 >= 1 /\ 1 \in 1 .. n - 1 /\ \A i \in 1 .. n - 1 : i + 1 \in 1 .. n /\ i + 1 # 1
    <3>1. ASSUME NEW m \in Nat, m >= 1, m # 1
          PROVE  m - 1 \in Nat /\ m - 1 >= 1 /\ 1 \in 1 .. m - 1 /\ \A i \in 1 .. m - 1 : i + 1 \in 1 .. m /\ i + 1 # 1
      BY <3>1
    <3> HIDE DEF t
    <3> QED BY <3>1, <1>1, <1>5
  <2>2. f[h] = s[2] /\ s[2] \in Clusters
    <3>1. f[s[1]] = s[1 + 1]
      BY <2>1, <1>1 DEF Path
    <3> QED BY <3>1, <2>1, <1>1, <1>2
  <2>3. t \in Seq(Clusters) /\ Len(t) = n - 1
    BY <2>1, <1>2
  <2>4. \A i \in 1 .. n - 1 : t[i] = s[i + 1] /\ t[i] \in Clusters /\ t[i] # h /\ g[t[i]] = f[t[i]]
    <3> SUFFICES ASSUME NEW i \in 1 .. n - 1 PROVE s[i + 1] \in Clusters /\ s[i + 1] # h /\ g[s[i + 1]] = f[s[i + 1]]
      OBVIOUS
    <3>1. i + 1 \in 1 .. n /\ 1 \in 1 .. n /\ i + 1 # 1
      BY <2>1, <1>1
    <3>2. s[i + 1] # s[1]
      BY <3>1, <1>1 DEF Path
    <3> QED BY <3>1, <3>2, <1>1, <1>2 DEF Sets
  <2> HIDE DEF t
  <2>5. \A i \in 1 .. (n - 1) - 1 : g[t[i]] = t[i + 1]
    <3> SUFFICES ASSUME NEW i \in 1 .. (n - 1) - 1 PROVE g[t[i]] = t[i + 1]
      OBVIOUS
    <3>1. i \in 1 .. n - 1 /\ i + 1 \in 1 .. n - 1
      BY <2>1
    <3>2. f[s[i + 1]] = s[(i + 1) + 1]
      BY <3>1, <1>1 DEF Path
    <3> QED BY <3>1, <3>2, <2>4
  <2>6. \A i, j \in 1 .. n - 1 : t[i] = t[j] => i = j
    <3> SUFFICES ASSUME NEW i \in 1 .. n - 1, NEW j \in 1 .. n - 1, t[i] = t[j] PROVE i = j
      OBVIOUS
    <3>1. i + 1 = j + 1
      BY <2>1, <2>4, <1>1 DEF Path
    <3> QED BY <3>1
  <2>7. g[t[n - 1]] = Eoc
    <3>1. n - 1 \in 1 .. n - 1 /\ (n - 1) + 1 = n
      BY <2>1
    <3> QED BY <3>1, <2>4, <1>1
  <2>8. Path(g, s[2], t)
    <3>1. t # <<>> /\ t[1] = s[2]
      BY <2>1, <2>3, <2>4
    <3> QED BY <3>1, <2>3, <2>5, <2>6, <2>7 DEF Path
  <2>9. Chain(g, s[2]) = t
    BY <2>8, ChainIs
  <2>10. ToSet(t) = {s[i] : i \in 1 .. n} \ {h}
    <3>1. ToSet(t) = {t[i] : i \in 1 .. n - 1}
      BY <2>3 DEF ToSet
    <3>2. ToSet(t) \subseteq {s[i] : i \in 1 .. n} \ {h}
      BY <3>1, <2>1, <2>4
    <3>3. ASSUME NEW i \in 1 .. n, s[i] # h PROVE s[i] \in ToSet(t)
      <4>1. i # 1 /\ i - 1 \in 1 .. n - 1 /\ (i - 1) + 1 = i
        BY <3>3, <1>1, <2>1
      <4> QED BY <4>1, <3>1, <2>4
    <3> QED BY <3>2, <3>3
  <2> QED BY <2>2, <2>8, <2>9, <2>10, <1>3 DEF IsTop, Owns
<1> QED BY <1>4, <1>5

-----------------------------------------------------------------------------
(***************************************************************************)
(* What the volume holds: entries, the chains that are live, the chains held *)
(***************************************************************************)
SlotVals ==
    [kind : {"0x00", "0xE5", "lfn", "."}]
        \cup [kind : {"entry"}, name : Dirs \cup Leaves, clus : Clusters \cup {Nil}, size : Nat, dir : BOOLEAN]
Sectors == [kind : {"dir"}, slots : [1 .. Slots -> SlotVals]] \cup [kind : {"data"}, v : Data, k : Nat]
Medium == [Clusters -> Sectors]

Val(S, x) == IF S[x[1]].kind = "dir" THEN S[x[1]].slots[x[2]] ELSE Slot("0xE5")
AllSlots == Clusters \X (1 .. Slots)
E(S) == {x \in AllSlots : Val(S, x).kind = "entry"}
Live(S) == {Root} \cup ({Val(S, x).clus : x \in E(S)} \cap Clusters)
DirTops(S) == {Root} \cup {Val(S, x).clus : x \in {y \in E(S) : Val(S, y).dir}}

Tops(f, S, H) ==
    /\ \A h \in Live(S) \cup H : IsTop(f, h)
    /\ \A h, k \in Live(S) \cup H : h # k => Owns(f, h) \cap Owns(f, k) = {}
    /\ Live(S) \cap H = {}
LeafEntry(f, e) == ~e.dir /\ e.name \in Leaves /\ (IF e.clus = Nil THEN e.size = 0 ELSE Len(Chain(f, e.clus)) = e.size)
DirEntry(e) == e.dir /\ e.name \in Dirs /\ e.clus \in Clusters /\ e.size = 0
NamesOk(f, S) ==
    /\ \A x, y \in E(S) : Val(S, x).clus = Val(S, y).clus /\ Val(S, x).clus \in Clusters => x = y
    /\ \A x \in E(S) : Val(S, x).clus # Root
    /\ \A x \in E(S) : LeafEntry(f, Val(S, x)) \/ (DirEntry(Val(S, x)) /\ x[1] \in Owns(f, Root))
    /\ \A d \in DirTops(S) : \A x, y \in E(S) :
           x[1] \in Owns(f, d) /\ y[1] \in Owns(f, d) /\ Val(S, x).name = Val(S, y).name => x = y
Lies(f, S, R) == \A x \in E(S) : x[1] \notin R /\ \E d \in DirTops(S) : x[1] \in Owns(f, d)
Before(i, a, j, b) == i < j \/ (i = j /\ a < b)
TailFree(S, s, R) ==
    \A i, j \in 1 .. Len(s), a, b \in 1 .. Slots :
        Before(i, a, j, b) /\ Val(S, <<s[i], a>>).kind = "0x00" /\ s[j] \notin R => Val(S, <<s[j], b>>).kind = "0x00"
DirsOk(f, S, R) ==
    \A d \in DirTops(S) :
        /\ \A c \in Owns(f, d) : c \notin R => S[c].kind = "dir"
        /\ TailFree(S, Chain(f, d), R)
VolTypes(f, S, H) == f \in Fats /\ S \in Medium /\ H \subseteq Clusters
Vol(f, S, H, R) == VolTypes(f, S, H) /\ Tops(f, S, H) /\ NamesOk(f, S) /\ Lies(f, S, R) /\ DirsOk(f, S, R)

LEMMA ValType == ASSUME NEW S \in Medium, NEW x \in AllSlots PROVE Val(S, x) \in SlotVals
  BY DEF Medium, AllSlots, Val, Sectors, SlotVals, Slot

LEMMA EntryType ==
    ASSUME NEW S \in Medium, NEW x \in E(S)
    PROVE  /\ x \in AllSlots /\ x[1] \in Clusters /\ x[2] \in 1 .. Slots /\ x = <<x[1], x[2]>>
           /\ Val(S, x) \in [kind : {"entry"}, name : Dirs \cup Leaves, clus : Clusters \cup {Nil}, size : Nat, dir : BOOLEAN]
<1>1. x \in AllSlots /\ Val(S, x).kind = "entry"
  BY DEF E
<1>2. Val(S, x) \in SlotVals
  BY <1>1, ValType
<1>3. Val(S, x) \in [kind : {"entry"}, name : Dirs \cup Leaves, clus : Clusters \cup {Nil}, size : Nat, dir : BOOLEAN]
  BY <1>1, <1>2 DEF SlotVals
<1> QED BY <1>1, <1>3 DEF AllSlots

\* The first clusters of directories are among those of all that is live.
LEMMA DirsLive ==
    ASSUME NEW f, NEW S \in Medium, NamesOk(f, S)
    PROVE  DirTops(S) \subseteq Live(S) /\ Root \in DirTops(S) /\ Root \in Live(S) /\ Live(S) \subseteq Clusters
<1>1. Root \in Clusters
  BY FatAssumption
<1>2. ASSUME NEW x \in E(S), Val(S, x).dir PROVE Val(S, x).clus \in Live(S)
  <2>1. Val(S, x).clus \in Clusters
    BY <1>2 DEF NamesOk, LeafEntry, DirEntry
  <2> QED BY <2>1 DEF Live
<1> QED BY <1>1, <1>2 DEF DirTops, Live

\* What is live has a chain that ends.
LEMMA LiveTops ==
    ASSUME NEW f, NEW S, NEW H, NEW R, Vol(f, S, H, R)
    PROVE  /\ \A h \in Live(S) \cup H : IsTop(f, h)
           /\ \A d \in DirTops(S) : d \in Live(S) /\ IsTop(f, d)
           /\ \A x \in E(S) : Val(S, x).clus # Nil => Val(S, x).clus \in Live(S) /\ IsTop(f, Val(S, x).clus)
<1>1. S \in Medium /\ Tops(f, S, H) /\ NamesOk(f, S)
  BY DEF Vol, VolTypes
<1>2. ASSUME NEW x \in E(S), Val(S, x).clus # Nil PROVE Val(S, x).clus \in Live(S)
  BY <1>1, <1>2, EntryType DEF Live
<1> QED BY <1>1, <1>2, DirsLive DEF Tops

(* f changes, nothing that is live does; the held chains are given anew. *)
LEMMA VolFat ==
    ASSUME NEW f, NEW S, NEW H, NEW R, Vol(f, S, H, R),
           NEW g \in Fats, NEW K \in SUBSET Clusters,
           \A h \in Live(S) : \A c \in Owns(f, h) : g[c] = f[c],
           \A h \in K : IsTop(g, h) /\ h \notin Live(S),
           \A h \in K, k \in Live(S) : Owns(g, h) \cap Owns(f, k) = {},
           \A h, k \in K : h # k => Owns(g, h) \cap Owns(g, k) = {}
    PROVE  Vol(g, S, K, R) /\ \A h \in Live(S) : Chain(g, h) = Chain(f, h) /\ Owns(g, h) = Owns(f, h)
<1>1. f \in Fats /\ S \in Medium /\ H \subseteq Clusters /\ Tops(f, S, H) /\ NamesOk(f, S) /\ Lies(f, S, R) /\ DirsOk(f, S, R)
  BY DEF Vol, VolTypes
<1>2. \A h \in Live(S) : IsTop(g, h) /\ Chain(g, h) = Chain(f, h) /\ Owns(g, h) = Owns(f, h)
  BY LiveTops, ChainFrame
<1>3. Tops(g, S, K)
  BY <1>1, <1>2 DEF Tops
<1>4. DirTops(S) \subseteq Live(S) /\ Root \in Live(S)
  BY <1>1, DirsLive
<1>5. NamesOk(g, S)
  <2>1. ASSUME NEW x \in E(S), LeafEntry(f, Val(S, x)) PROVE LeafEntry(g, Val(S, x))
    BY <2>1, <1>2, LiveTops DEF LeafEntry
  <2> QED BY <1>1, <1>2, <1>4, <2>1 DEF NamesOk
<1>6. Lies(g, S, R)
  BY <1>1, <1>2, <1>4 DEF Lies
<1>7. DirsOk(g, S, R)
  BY <1>1, <1>2, <1>4 DEF DirsOk
<1> QED BY <1>1, <1>2, <1>3, <1>5, <1>6, <1>7 DEF Vol, VolTypes

\* A held chain is let go.
LEMMA VolShrink ==
    ASSUME NEW f, NEW S, NEW H, NEW R, Vol(f, S, H, R), NEW K \in SUBSET H
    PROVE  Vol(f, S, K, R)
<1>1. f \in Fats /\ Tops(f, S, H) /\ K \in SUBSET Clusters
  BY DEF Vol, VolTypes
<1> QED BY <1>1, VolFat DEF Tops

\* A cluster in no chain is made one.
LEMMA VolTake ==
    ASSUME NEW f, NEW S, NEW H, NEW R, Vol(f, S, H, R), NEW c \in Clusters,
           \A h \in Live(S) \cup H : c \notin Owns(f, h), NEW g, Sets(f, g, c, Eoc)
    PROVE  /\ Vol(g, S, H \cup {c}, R)
           /\ \A h \in Live(S) \cup H : Chain(g, h) = Chain(f, h) /\ Owns(g, h) = Owns(f, h)
           /\ Chain(g, c) = <<c>> /\ g[c] = Eoc
<1>1. f \in Fats /\ Tops(f, S, H) /\ H \subseteq Clusters
  BY DEF Vol, VolTypes
<1>2. g \in Fats /\ g[c] = Eoc /\ \A x \in Clusters : x # c => g[x] = f[x]
  BY DEF Sets
<1>3. \A h \in Live(S) \cup H : IsTop(f, h) /\ Owns(f, h) \subseteq Clusters
  BY LiveTops, TopFacts
<1>4. \A h \in Live(S) \cup H : IsTop(g, h) /\ Chain(g, h) = Chain(f, h) /\ Owns(g, h) = Owns(f, h)
  <2> SUFFICES ASSUME NEW h \in Live(S) \cup H
               PROVE  IsTop(g, h) /\ Chain(g, h) = Chain(f, h) /\ Owns(g, h) = Owns(f, h)
    OBVIOUS
  <2>1. IsTop(f, h) /\ \A x \in Owns(f, h) : g[x] = f[x]
    BY <1>2, <1>3
  <2> QED BY <2>1, ChainFrame
<1>5. IsTop(g, c) /\ Chain(g, c) = <<c>> /\ Owns(g, c) = {c}
  BY <1>2, ChainOne
<1>6. \A h \in Live(S) \cup H : h # c
  BY <1>3, TopFacts
<1>7. H \cup {c} \in SUBSET Clusters
  BY <1>1
<1>8. \A h \in H \cup {c} : IsTop(g, h) /\ h \notin Live(S)
  BY <1>1, <1>4, <1>5, <1>6 DEF Tops
<1>9. \A h \in H \cup {c}, k \in Live(S) : Owns(g, h) \cap Owns(f, k) = {}
  <2> SUFFICES ASSUME NEW h \in H \cup {c}, NEW k \in Live(S) PROVE Owns(g, h) \cap Owns(f, k) = {}
    OBVIOUS
  <2>1. CASE h = c
    BY <2>1, <1>5
  <2>2. CASE h # c
    BY <2>2, <1>1, <1>4 DEF Tops
  <2> QED BY <2>1, <2>2
<1>10. \A h, k \in H \cup {c} : h # k => Owns(g, h) \cap Owns(g, k) = {}
  <2> SUFFICES ASSUME NEW h \in H \cup {c}, NEW k \in H \cup {c}, h # k PROVE Owns(g, h) \cap Owns(g, k) = {}
    OBVIOUS
  <2>1. CASE h = c \/ k = c
    BY <2>1, <1>4, <1>5
  <2>2. CASE h # c /\ k # c
    BY <2>2, <1>1, <1>4 DEF Tops
  <2> QED BY <2>1, <2>2
<1>11. \A h \in Live(S) : \A x \in Owns(f, h) : g[x] = f[x]
  BY <1>2, <1>3
<1>12. Vol(g, S, H \cup {c}, R)
  <2> DEFINE K == H \cup {c}
  <2>1. K \in SUBSET Clusters /\ (\A h \in K : IsTop(g, h) /\ h \notin Live(S))
        /\ (\A h \in K, k \in Live(S) : Owns(g, h) \cap Owns(f, k) = {})
        /\ (\A h, k \in K : h # k => Owns(g, h) \cap Owns(g, k) = {})
    BY <1>7, <1>8, <1>9, <1>10
  <2> HIDE DEF K
  <2>2. Vol(g, S, K, R)
    BY <1>2, <1>11, <2>1, VolFat
  <2> QED BY <2>2 DEF K
<1> QED BY <1>2, <1>4, <1>5, <1>12

\* A held cluster goes behind the last one of another held chain.
Linked(f, g, S, H, R, t, c) ==
    /\ Vol(g, S, H \ {c}, R)
    /\ \A h \in (Live(S) \cup H) \ {t, c} : Chain(g, h) = Chain(f, h) /\ Owns(g, h) = Owns(f, h)
    /\ Chain(g, t) = Append(Chain(f, t), c) /\ Owns(g, t) = Owns(f, t) \cup {c}
LEMMA VolLink ==
    ASSUME NEW f, NEW S, NEW H, NEW R, Vol(f, S, H, R), NEW t \in H, NEW c \in H, t # c, f[c] = Eoc,
           NEW g, Sets(f, g, Last(Chain(f, t)), c)
    PROVE  Linked(f, g, S, H, R, t, c)
<1>1. f \in Fats /\ Tops(f, S, H) /\ H \subseteq Clusters /\ c \in Clusters
  BY DEF Vol, VolTypes
<1>2. Owns(f, c) = {c} /\ IsTop(f, c)
  BY <1>1, ChainOne
<1>3. IsTop(f, t) /\ c \notin Owns(f, t)
  BY <1>1, <1>2 DEF Tops
<1>4. IsTop(g, t) /\ Chain(g, t) = Append(Chain(f, t), c) /\ Owns(g, t) = Owns(f, t) \cup {c}
  <2>1. f \in Fats /\ IsTop(f, t) /\ c \in Clusters /\ c \notin Owns(f, t) /\ f[c] = Eoc
    BY <1>1, <1>3
  <2> HIDE DEF Fats, IsTop, Owns
  <2> QED BY <2>1, ChainAppend
<1>5. Last(Chain(f, t)) \in Owns(f, t) /\ Last(Chain(f, t)) \in Clusters
  BY <1>3, TopFacts
<1>6. g \in Fats /\ \A x \in Clusters : x # Last(Chain(f, t)) => g[x] = f[x]
  BY DEF Sets
<1>7. \A h \in (Live(S) \cup H) \ {t} : \A x \in Owns(f, h) : g[x] = f[x]
  <2> SUFFICES ASSUME NEW h \in (Live(S) \cup H) \ {t}, NEW x \in Owns(f, h) PROVE x \in Clusters /\ x # Last(Chain(f, t))
    BY <1>6
  <2>1. IsTop(f, h) /\ Owns(f, h) \cap Owns(f, t) = {}
    BY <1>1 DEF Tops
  <2> QED BY <2>1, <1>5, TopFacts
<1>8. \A h \in (Live(S) \cup H) \ {t} : IsTop(g, h) /\ Chain(g, h) = Chain(f, h) /\ Owns(g, h) = Owns(f, h)
  <2> SUFFICES ASSUME NEW h \in (Live(S) \cup H) \ {t}
               PROVE  IsTop(g, h) /\ Chain(g, h) = Chain(f, h) /\ Owns(g, h) = Owns(f, h)
    OBVIOUS
  <2>1. IsTop(f, h) /\ \A x \in Owns(f, h) : g[x] = f[x]
    BY <1>1, <1>7 DEF Tops
  <2> QED BY <2>1, ChainFrame
<1>9. \A h \in Live(S) : h \notin H
  BY <1>1 DEF Tops
<1> DEFINE K == H \ {c}
<1>10. K \in SUBSET Clusters /\ t \in K /\ c \notin K /\ K \subseteq H
  BY <1>1
<1>11. \A h \in K : IsTop(g, h) /\ h \notin Live(S)
  BY <1>4, <1>8, <1>9
<1>12. \A h \in K, k \in Live(S) : Owns(g, h) \cap Owns(f, k) = {}
  <2> SUFFICES ASSUME NEW h \in K, NEW k \in Live(S) PROVE Owns(g, h) \cap Owns(f, k) = {}
    OBVIOUS
  <2>1. Owns(f, h) \cap Owns(f, k) = {} /\ Owns(f, c) \cap Owns(f, k) = {}
    BY <1>1, <1>9 DEF Tops
  <2> QED BY <2>1, <1>2, <1>4, <1>8
<1>13. \A h, k \in K : h # k => Owns(g, h) \cap Owns(g, k) = {}
  <2> SUFFICES ASSUME NEW h \in K, NEW k \in K, h # k PROVE Owns(g, h) \cap Owns(g, k) = {}
    OBVIOUS
  <2>1. Owns(f, h) \cap Owns(f, k) = {} /\ Owns(f, c) \cap Owns(f, k) = {} /\ Owns(f, c) \cap Owns(f, h) = {}
    BY <1>1 DEF Tops
  <2> QED BY <2>1, <1>2, <1>4, <1>8
<1>14. \A h \in Live(S) : \A x \in Owns(f, h) : g[x] = f[x]
  BY <1>7, <1>9
<1> HIDE DEF K
<1>15. Vol(g, S, K, R)
  BY <1>6, <1>10, <1>11, <1>12, <1>13, <1>14, VolFat
<1> QED BY <1>4, <1>8, <1>15 DEF K, Linked

\* The head of a held chain is freed.
Headless(f, g, S, H, R, t) ==
    /\ Vol(g, S, (H \ {t}) \cup ({f[t]} \cap Clusters), R)
    /\ \A h \in (Live(S) \cup H) \ {t} : Chain(g, h) = Chain(f, h) /\ Owns(g, h) = Owns(f, h)
    /\ f[t] \in Clusters => Owns(g, f[t]) = Owns(f, t) \ {t} /\ f[t] \notin H
    /\ f[t] \notin Clusters => Owns(f, t) = {t}
LEMMA VolFree ==
    ASSUME NEW f, NEW S, NEW H, NEW R, Vol(f, S, H, R), NEW t \in H, NEW g, Sets(f, g, t, Free)
    PROVE  Headless(f, g, S, H, R, t)
<1>1. f \in Fats /\ Tops(f, S, H) /\ H \subseteq Clusters /\ t \in Clusters /\ IsTop(f, t) /\ t \in Owns(f, t)
  BY LiveTops, TopFacts DEF Vol, VolTypes
<1>2. g \in Fats /\ \A x \in Clusters : x # t => g[x] = f[x]
  BY DEF Sets
<1>3. \/ f[t] = Eoc /\ Owns(f, t) = {t}
      \/ f[t] \in Clusters /\ IsTop(g, f[t]) /\ Owns(g, f[t]) = Owns(f, t) \ {t}
  BY <1>1, ChainTail
<1>4. \A h \in (Live(S) \cup H) \ {t} : \A x \in Owns(f, h) : g[x] = f[x]
  <2> SUFFICES ASSUME NEW h \in (Live(S) \cup H) \ {t}, NEW x \in Owns(f, h) PROVE x \in Clusters /\ x # t
    BY <1>2
  <2>1. IsTop(f, h) /\ Owns(f, h) \cap Owns(f, t) = {}
    BY <1>1 DEF Tops
  <2> QED BY <2>1, <1>1, TopFacts
<1>5. \A h \in (Live(S) \cup H) \ {t} : IsTop(g, h) /\ Chain(g, h) = Chain(f, h) /\ Owns(g, h) = Owns(f, h)
  <2> SUFFICES ASSUME NEW h \in (Live(S) \cup H) \ {t}
               PROVE  IsTop(g, h) /\ Chain(g, h) = Chain(f, h) /\ Owns(g, h) = Owns(f, h)
    OBVIOUS
  <2>1. IsTop(f, h) /\ \A x \in Owns(f, h) : g[x] = f[x]
    BY <1>1, <1>4 DEF Tops
  <2> QED BY <2>1, ChainFrame
<1>6. \A h \in Live(S) : h \notin H
  BY <1>1 DEF Tops
<1>7. Eoc \notin Clusters
  BY FatAssumption
<1> DEFINE K == (H \ {t}) \cup ({f[t]} \cap Clusters)
<1>8. ASSUME f[t] \in Clusters PROVE f[t] \in Owns(f, t) /\ f[t] \notin Live(S) \cup H
  <2>1. f[t] \in Owns(f, t) \ {t}
    <3>1. f[t] \in Owns(g, f[t])
      BY <1>3, <1>7, <1>8, TopFacts
    <3> QED BY <3>1, <1>3, <1>7, <1>8
  <2>2. ASSUME NEW h \in (Live(S) \cup H) \ {t} PROVE f[t] # h
    <3>1. h \in Owns(f, h) /\ Owns(f, h) \cap Owns(f, t) = {}
      BY <1>1, TopFacts DEF Tops
    <3> QED BY <3>1, <2>1
  <2> QED BY <2>1, <2>2
<1>9. K \in SUBSET Clusters
  BY <1>1
<1>10. \A h \in K : IsTop(g, h) /\ h \notin Live(S)
  BY <1>3, <1>5, <1>6, <1>7, <1>8
<1>11. ASSUME NEW h \in K PROVE (h \in H \ {t} /\ Owns(g, h) = Owns(f, h)) \/ (h = f[t] /\ Owns(g, h) \subseteq Owns(f, t))
  BY <1>3, <1>5, <1>7
<1>12. \A h \in K, k \in Live(S) : Owns(g, h) \cap Owns(f, k) = {}
  <2> SUFFICES ASSUME NEW h \in K, NEW k \in Live(S) PROVE Owns(g, h) \cap Owns(f, k) = {}
    OBVIOUS
  <2>1. Owns(f, t) \cap Owns(f, k) = {} /\ (h \in H => Owns(f, h) \cap Owns(f, k) = {})
    BY <1>1, <1>6 DEF Tops
  <2> QED BY <2>1, <1>11
<1>13. \A h, k \in K : h # k => Owns(g, h) \cap Owns(g, k) = {}
  <2> SUFFICES ASSUME NEW h \in K, NEW k \in K, h # k PROVE Owns(g, h) \cap Owns(g, k) = {}
    OBVIOUS
  <2>1. (h \in H \ {t} => Owns(f, h) \cap Owns(f, t) = {}) /\ (k \in H \ {t} => Owns(f, k) \cap Owns(f, t) = {})
        /\ (h \in H /\ k \in H => Owns(f, h) \cap Owns(f, k) = {})
    BY <1>1 DEF Tops
  <2>2. (h \in H \ {t} /\ Owns(g, h) = Owns(f, h)) \/ (h = f[t] /\ Owns(g, h) \subseteq Owns(f, t))
    BY <1>11
  <2>3. (k \in H \ {t} /\ Owns(g, k) = Owns(f, k)) \/ (k = f[t] /\ Owns(g, k) \subseteq Owns(f, t))
    BY <1>11
  <2> QED BY <2>1, <2>2, <2>3
<1>14. \A h \in Live(S) : \A x \in Owns(f, h) : g[x] = f[x]
  BY <1>4, <1>6
<1> HIDE DEF K
<1>15. Vol(g, S, K, R)
  BY <1>2, <1>9, <1>10, <1>12, <1>13, <1>14, VolFat
<1> QED BY <1>3, <1>5, <1>7, <1>8, <1>15 DEF K, Headless

-----------------------------------------------------------------------------
(***************************************************************************)
(* Sectors written that change no entry                                    *)
(***************************************************************************)
\* T is S with another sector c.
Rewrites(S, T, c) == S \in Medium /\ T \in Medium /\ c \in Clusters /\ \A x \in Clusters : x # c => T[x] = S[x]
SameEntries(S, T) == E(T) = E(S) /\ \A x \in E(S) : Val(T, x) = Val(S, x)

LEMMA SlotType ==
    ASSUME NEW S \in Medium, NEW c \in Clusters, NEW a \in 1 .. Slots
    PROVE  /\ Val(S, <<c, a>>) = IF S[c].kind = "dir" THEN S[c].slots[a] ELSE Slot("0xE5")
           /\ Val(S, <<c, a>>) \in SlotVals
           /\ <<c, a>> \in E(S) <=> Val(S, <<c, a>>).kind = "entry"
<1>1. <<c, a>> \in AllSlots /\ <<c, a>>[1] = c /\ <<c, a>>[2] = a
  BY DEF AllSlots
<1> QED BY <1>1, ValType DEF Val, E

LEMMA OtherSlots ==
    ASSUME NEW S, NEW T, NEW c, Rewrites(S, T, c)
    PROVE  /\ \A x \in AllSlots : x[1] # c => Val(T, x) = Val(S, x) /\ (x \in E(T) <=> x \in E(S))
           /\ \A d \in Clusters, a \in 1 .. Slots : d # c => Val(T, <<d, a>>) = Val(S, <<d, a>>)
<1>1. \A x \in AllSlots : x[1] # c => Val(T, x) = Val(S, x)
  BY DEF Rewrites, AllSlots, Val
<1>2. \A d \in Clusters, a \in 1 .. Slots : <<d, a>> \in AllSlots /\ <<d, a>>[1] = d
  BY DEF AllSlots
<1> QED BY <1>1, <1>2 DEF E

\* The entries stay when those of the one sector do.
LEMMA SameInOne ==
    ASSUME NEW S, NEW T, NEW c, Rewrites(S, T, c),
           \A a \in 1 .. Slots : \/ Val(T, <<c, a>>) = Val(S, <<c, a>>)
                                 \/ Val(T, <<c, a>>).kind # "entry" /\ Val(S, <<c, a>>).kind # "entry"
    PROVE  SameEntries(S, T)
<1>1. ASSUME NEW x \in AllSlots PROVE (x \in E(S) <=> x \in E(T)) /\ (x \in E(S) => Val(T, x) = Val(S, x))
  <2>1. x[2] \in 1 .. Slots /\ x = <<x[1], x[2]>>
    BY DEF AllSlots
  <2>2. CASE x[1] # c
    BY <2>2, OtherSlots
  <2>3. CASE x[1] = c
    <3>1. \/ Val(T, x) = Val(S, x)
          \/ Val(T, x).kind # "entry" /\ Val(S, x).kind # "entry"
      BY <2>1, <2>3
    <3> QED BY <3>1 DEF E
  <2> QED BY <2>2, <2>3
<1>2. E(S) \subseteq AllSlots /\ E(T) \subseteq AllSlots
  BY DEF E
<1> QED BY <1>1, <1>2 DEF SameEntries

LEMMA SameLive ==
    ASSUME NEW S, NEW T, SameEntries(S, T)
    PROVE  Live(T) = Live(S) /\ DirTops(T) = DirTops(S)
<1>1. {Val(T, x).clus : x \in E(T)} = {Val(S, x).clus : x \in E(S)}
  BY DEF SameEntries
<1>2. {x \in E(T) : Val(T, x).dir} = {x \in E(S) : Val(S, x).dir}
  BY DEF SameEntries
<1>3. {Val(T, x).clus : x \in {y \in E(T) : Val(T, y).dir}} = {Val(S, x).clus : x \in {y \in E(S) : Val(S, y).dir}}
  BY <1>2 DEF SameEntries
<1> QED BY <1>1, <1>3 DEF Live, DirTops

(* The sectors change, no entry does. *)
LEMMA VolSec ==
    ASSUME NEW f, NEW S, NEW H, NEW R, Vol(f, S, H, R), NEW T \in Medium, SameEntries(S, T),
           NEW Q \in SUBSET R, DirsOk(f, T, Q)
    PROVE  Vol(f, T, H, Q)
<1>1. VolTypes(f, S, H) /\ Tops(f, S, H) /\ NamesOk(f, S) /\ Lies(f, S, R)
  BY DEF Vol
<1>2. Live(T) = Live(S) /\ DirTops(T) = DirTops(S)
  BY SameLive
<1>3. E(T) = E(S) /\ \A x \in E(S) : Val(T, x) = Val(S, x)
  BY DEF SameEntries
<1>4. Tops(f, T, H)
  BY <1>1, <1>2 DEF Tops
<1>5. NamesOk(f, T)
  BY <1>1, <1>2, <1>3 DEF NamesOk
<1>6. Lies(f, T, Q)
  BY <1>1, <1>2, <1>3 DEF Lies
<1> QED BY <1>1, <1>4, <1>5, <1>6 DEF Vol, VolTypes

\* Only the sectors of directories matter.
LEMMA DirsFrame ==
    ASSUME NEW f, NEW S, NEW R, NEW T, DirsOk(f, S, R), DirTops(T) = DirTops(S),
           \A d \in DirTops(S) : IsTop(f, d),
           \A d \in DirTops(S) : \A x \in Owns(f, d) : T[x] = S[x]
    PROVE  DirsOk(f, T, R)
<1> SUFFICES ASSUME NEW d \in DirTops(S)
             PROVE  (\A c \in Owns(f, d) : c \notin R => T[c].kind = "dir") /\ TailFree(T, Chain(f, d), R)
  BY DEF DirsOk
<1>1. \A i \in 1 .. Len(Chain(f, d)) : Chain(f, d)[i] \in Owns(f, d)
  BY TopFacts
<1>2. \A i \in 1 .. Len(Chain(f, d)) : \A a \in 1 .. Slots : Val(T, <<Chain(f, d)[i], a>>) = Val(S, <<Chain(f, d)[i], a>>)
  BY <1>1 DEF Val
<1>3. TailFree(S, Chain(f, d), R) /\ \A c \in Owns(f, d) : c \notin R => S[c].kind = "dir"
  BY DEF DirsOk
<1>4. TailFree(T, Chain(f, d), R)
  BY <1>2, <1>3 DEF TailFree
<1> QED BY <1>3, <1>4

\* A sector of a held chain is written: a block, or the first sector of a directory.
LEMMA VolHeld ==
    ASSUME NEW f, NEW S, NEW H, NEW R, Vol(f, S, H, R), NEW h \in H, NEW c \in Owns(f, h), NEW T, Rewrites(S, T, c),
           \A a \in 1 .. Slots : Val(T, <<c, a>>).kind # "entry"
    PROVE  Vol(f, T, H, R) /\ SameEntries(S, T)
<1>1. VolTypes(f, S, H) /\ Tops(f, S, H) /\ NamesOk(f, S) /\ Lies(f, S, R) /\ DirsOk(f, S, R)
  BY DEF Vol
<1>2. \A d \in DirTops(S) : d \in Live(S) /\ IsTop(f, d)
  BY LiveTops
<1>3. \A d \in DirTops(S) : c \notin Owns(f, d)
  BY <1>1, <1>2 DEF Tops
<1>4. SameEntries(S, T)
  <2>1. ASSUME NEW a \in 1 .. Slots PROVE Val(S, <<c, a>>).kind # "entry"
    <3>1. <<c, a>> \notin E(S)
      BY <1>1, <1>3 DEF Lies
    <3>2. c \in Clusters /\ S \in Medium
      BY DEF Rewrites
    <3> QED BY <3>1, <3>2, SlotType
  <2> QED BY <2>1, SameInOne
<1>5. \A d \in DirTops(S) : \A x \in Owns(f, d) : T[x] = S[x]
  BY <1>2, <1>3, TopFacts DEF Rewrites
<1>6. DirTops(T) = DirTops(S)
  BY <1>4, SameLive
<1>7. DirsOk(f, T, R)
  BY <1>1, <1>2, <1>5, <1>6, DirsFrame
<1>8. T \in Medium /\ R \in SUBSET R
  BY DEF Rewrites
<1> QED BY <1>4, <1>7, <1>8, VolSec

\* The cluster a directory has been given is zeroed.
LEMMA VolZero ==
    ASSUME NEW f, NEW S, NEW H, NEW c, Vol(f, S, H, {c}), NEW d \in DirTops(S), c = Last(Chain(f, d)),
           NEW T, Rewrites(S, T, c), T[c] = Blank
    PROVE  Vol(f, T, H, {}) /\ SameEntries(S, T)
<1>1. VolTypes(f, S, H) /\ Tops(f, S, H) /\ NamesOk(f, S) /\ Lies(f, S, {c}) /\ DirsOk(f, S, {c})
  BY DEF Vol
<1>2. \A e \in DirTops(S) : e \in Live(S) /\ IsTop(f, e)
  BY LiveTops
<1>3. c \in Owns(f, d) /\ c \in Clusters
  BY <1>2, TopFacts
<1>4. ASSUME NEW a \in 1 .. Slots PROVE Val(S, <<c, a>>).kind # "entry" /\ Val(T, <<c, a>>) = Slot("0x00")
  <2>1. <<c, a>> \notin E(S)
    BY <1>1 DEF Lies
  <2>2. Val(S, <<c, a>>).kind # "entry"
    BY <2>1, <1>3, SlotType DEF Rewrites
  <2>3. T[c].kind = "dir" /\ T[c].slots[a] = Slot("0x00")
    BY DEF Blank, Dir
  <2> QED BY <2>2, <2>3, <1>3, SlotType DEF Rewrites
<1>5. SameEntries(S, T)
  BY <1>4, SameInOne DEF Slot
<1>6. DirTops(T) = DirTops(S)
  BY <1>5, SameLive
<1>7. ASSUME NEW e \in DirTops(S), NEW x \in Owns(f, e) PROVE T[x].kind = "dir"
  <2>1. CASE x = c
    BY <2>1 DEF Blank, Dir
  <2>2. CASE x # c
    <3>1. x \in Clusters /\ S[x].kind = "dir"
      BY <2>2, <1>1, <1>2, TopFacts DEF DirsOk
    <3> QED BY <2>2, <3>1 DEF Rewrites
  <2> QED BY <2>1, <2>2
<1>8. ASSUME NEW e \in DirTops(S) PROVE TailFree(T, Chain(f, e), {})
  <2> DEFINE s == Chain(f, e)
  <2>1. IsTop(f, e) /\ s \in Seq(Clusters) /\ Len(s) \in Nat /\ Last(s) = s[Len(s)] /\ \A i \in 1 .. Len(s) : s[i] \in Clusters /\ s[i] \in Owns(f, e)
    BY <1>2, TopFacts
  <2>2. TailFree(S, s, {c}) /\ \A i, j \in 1 .. Len(s) : s[i] = s[j] => i = j
    BY <1>1, <2>1 DEF DirsOk, IsTop, Path
  <2>3. ASSUME NEW i \in 1 .. Len(s), s[i] = c PROVE i = Len(s)
    <3>1. e = d
      BY <1>1, <1>2, <1>3, <2>1, <2>3 DEF Tops
    <3>2. s[i] = s[Len(s)] /\ Len(s) \in 1 .. Len(s)
      BY <3>1, <2>1, <2>3
    <3> QED BY <3>2, <2>2
  <2> HIDE DEF s
  <2> SUFFICES ASSUME NEW i \in 1 .. Len(s), NEW j \in 1 .. Len(s), NEW a \in 1 .. Slots, NEW b \in 1 .. Slots,
                      Before(i, a, j, b), Val(T, <<s[i], a>>).kind = "0x00"
               PROVE  Val(T, <<s[j], b>>).kind = "0x00"
    BY DEF TailFree, s
  <2>4. CASE s[j] = c
    BY <2>4, <1>4 DEF Slot
  <2>5. CASE s[j] # c
    <3>1. s[i] # c
      <4>1. SUFFICES ASSUME s[i] = c PROVE i = j
        BY <2>5
      <4>2. i = Len(s)
        BY <4>1, <2>3
      <4> QED BY <4>2, <2>1 DEF Before
    <3>2. Val(T, <<s[i], a>>) = Val(S, <<s[i], a>>) /\ Val(T, <<s[j], b>>) = Val(S, <<s[j], b>>)
      BY <2>1, <2>5, <3>1, OtherSlots
    <3> QED BY <2>2, <2>5, <3>2 DEF TailFree
  <2> QED BY <2>4, <2>5
<1>9. DirsOk(f, T, {})
  BY <1>6, <1>7, <1>8 DEF DirsOk
<1>10. T \in Medium /\ {} \in SUBSET {c}
  BY DEF Rewrites
<1> QED BY <1>5, <1>9, <1>10, VolSec

\* dir_alloc_run marks the free slots of a sector behind which the directory goes on.
Marked(v) == IF v.kind = "0x00" THEN Slot("0xE5") ELSE v
LEMMA VolMark ==
    ASSUME NEW f, NEW S, NEW H, Vol(f, S, H, {}), NEW d \in DirTops(S),
           NEW g \in 1 .. Len(Chain(f, d)), NEW T, Rewrites(S, T, Chain(f, d)[g]), T[Chain(f, d)[g]].kind = "dir",
           \A a \in 1 .. Slots : Val(T, <<Chain(f, d)[g], a>>) = Marked(Val(S, <<Chain(f, d)[g], a>>)),
           \A i \in 1 .. g - 1, a \in 1 .. Slots : Val(S, <<Chain(f, d)[i], a>>).kind # "0x00"
    PROVE  Vol(f, T, H, {}) /\ SameEntries(S, T)
<1> DEFINE s == Chain(f, d)
           c == s[g]
<1>1. VolTypes(f, S, H) /\ Tops(f, S, H) /\ NamesOk(f, S) /\ Lies(f, S, {}) /\ DirsOk(f, S, {})
  BY DEF Vol
<1>2. \A e \in DirTops(S) : e \in Live(S) /\ IsTop(f, e)
  BY LiveTops
<1>3. c \in Owns(f, d) /\ c \in Clusters /\ S \in Medium /\ T \in Medium
  BY <1>2, TopFacts DEF Rewrites
<1>4. SameEntries(S, T)
  BY SameInOne DEF Marked, Slot
<1>5. DirTops(T) = DirTops(S)
  BY <1>4, SameLive
<1>6. ASSUME NEW e \in DirTops(S), NEW x \in Owns(f, e) PROVE T[x].kind = "dir"
  <2>1. CASE x = c
    BY <2>1
  <2>2. CASE x # c
    <3>1. x \in Clusters /\ S[x].kind = "dir"
      BY <1>1, <1>2, TopFacts DEF DirsOk
    <3> QED BY <2>2, <3>1 DEF Rewrites
  <2> QED BY <2>1, <2>2
<1>7. ASSUME NEW e \in DirTops(S) PROVE TailFree(T, Chain(f, e), {})
  <2> DEFINE t == Chain(f, e)
  <2>1. IsTop(f, e) /\ t \in Seq(Clusters) /\ Len(t) \in Nat /\ \A i \in 1 .. Len(t) : t[i] \in Clusters /\ t[i] \in Owns(f, e)
    BY <1>2, TopFacts
  <2>2. TailFree(S, t, {}) /\ \A i, j \in 1 .. Len(t) : t[i] = t[j] => i = j
    BY <1>1, <2>1 DEF DirsOk, IsTop, Path
  <2>3. ASSUME NEW i \in 1 .. Len(t), t[i] = c PROVE i = g /\ \A k \in 1 .. g - 1, a \in 1 .. Slots : Val(S, <<t[k], a>>).kind # "0x00"
    <3>1. e = d
      BY <1>1, <1>2, <1>3, <2>1, <2>3 DEF Tops
    <3> QED BY <3>1, <2>2, <2>3
  <2> HIDE DEF t
  <2> SUFFICES ASSUME NEW i \in 1 .. Len(t), NEW j \in 1 .. Len(t), NEW a \in 1 .. Slots, NEW b \in 1 .. Slots,
                      Before(i, a, j, b), Val(T, <<t[i], a>>).kind = "0x00"
               PROVE  Val(T, <<t[j], b>>).kind = "0x00"
    BY DEF TailFree, t
  <2>4. t[i] # c
    <3>1. Val(T, <<c, a>>).kind # "0x00"
      <4>1. Val(T, <<c, a>>) = Marked(Val(S, <<c, a>>))
        OBVIOUS
      <4> QED BY <4>1 DEF Marked, Slot
    <3> HIDE DEF c
    <3> QED BY <3>1
  <2>5. Val(S, <<t[i], a>>).kind = "0x00"
    BY <2>1, <2>4, OtherSlots
  <2>6. t[j] # c
    <3>1. SUFFICES ASSUME t[j] = c PROVE i \in 1 .. g - 1
      BY <2>3, <2>5
    <3>2. j = g /\ i # j
      BY <3>1, <2>3, <2>4
    <3> QED BY <3>2, <2>1 DEF Before
  <2>7. Val(T, <<t[j], b>>) = Val(S, <<t[j], b>>)
    BY <2>1, <2>6, OtherSlots
  <2> QED BY <2>2, <2>5, <2>7 DEF TailFree
<1>8. DirsOk(f, T, {})
  BY <1>5, <1>6, <1>7 DEF DirsOk
<1> QED BY <1>3, <1>4, <1>8, VolSec

\* The files stay: their entries, their chains and what their clusters hold.
Still(f, S, g, T) ==
    /\ SameEntries(S, T)
    /\ \A d \in DirTops(S) : \A x \in E(S) : x[1] \in Owns(g, d) <=> x[1] \in Owns(f, d)
    /\ \A x \in E(S) : ~Val(S, x).dir =>
           /\ Chain(g, Val(S, x).clus) = Chain(f, Val(S, x).clus)
           /\ \A c \in Owns(f, Val(S, x).clus) : T[c] = S[c]

LEMMA StillSelf == ASSUME NEW f, NEW S PROVE Still(f, S, f, S)
  BY DEF Still, SameEntries

LEMMA NilHas == ASSUME NEW f PROVE Chain(f, Nil) = <<>> /\ Owns(f, Nil) = {}
<1>1. Chain(f, Nil) = <<>>
  BY ChainDef, FatAssumption
<1> QED BY <1>1 DEF Owns, ToSet

\* No file has the chain of a directory, nor one that is held.
LEMMA FilesApart ==
    ASSUME NEW f, NEW S, NEW H, NEW R, Vol(f, S, H, R), NEW x \in E(S), ~Val(S, x).dir, NEW h \in H \cup DirTops(S)
    PROVE  Owns(f, Val(S, x).clus) \cap Owns(f, h) = {}
<1> DEFINE k == Val(S, x).clus
<1>1. S \in Medium /\ Tops(f, S, H) /\ NamesOk(f, S)
  BY DEF Vol, VolTypes
<1>2. CASE k = Nil
  BY <1>2, NilHas
<1>3. CASE k # Nil
  <2>1. k \in Live(S) /\ k \in Clusters /\ k # Root
    BY <1>1, <1>3, LiveTops, TopFacts DEF NamesOk
  <2>2. k # h
    <3>1. CASE h \in H
      BY <1>1, <2>1, <3>1 DEF Tops
    <3>2. CASE h \in DirTops(S)
      <4>1. SUFFICES ASSUME NEW y \in E(S), Val(S, y).dir, Val(S, y).clus = k PROVE FALSE
        BY <2>1, <3>2 DEF DirTops
      <4>2. x = y
        BY <1>1, <2>1, <4>1 DEF NamesOk
      <4> QED BY <4>1, <4>2
    <3> QED BY <3>1, <3>2
  <2>3. h \in Live(S) \cup H
    BY <1>1, LiveTops
  <2> HIDE DEF k
  <2>4. Owns(f, k) \cap Owns(f, h) = {}
    BY <1>1, <2>1, <2>2, <2>3 DEF Tops
  <2> QED BY <2>4 DEF k
<1> QED BY <1>2, <1>3

\* A file's chain is not a directory's.
LEMMA FileNoDir ==
    ASSUME NEW f, NEW S, NEW H, NEW R, Vol(f, S, H, R), NEW x \in E(S), ~Val(S, x).dir, Val(S, x).clus # Nil, NEW d \in DirTops(S)
    PROVE  Val(S, x).clus # d
<1>1. NamesOk(f, S)
  BY DEF Vol
<1>2. Val(S, x).clus # Root
  BY <1>1, FatAssumption DEF NamesOk, LeafEntry
<1>3. SUFFICES ASSUME NEW y \in E(S), Val(S, y).dir, Val(S, y).clus = Val(S, x).clus PROVE FALSE
  BY <1>2 DEF DirTops
<1>4. Val(S, x).clus \in Clusters
  BY EntryType DEF Vol, VolTypes
<1>5. x = y
  BY <1>1, <1>3, <1>4 DEF NamesOk
<1> QED BY <1>3, <1>5

LEMMA ToSetAppend == ASSUME NEW s \in Seq(Clusters), NEW c \in Clusters PROVE ToSet(Append(s, c)) = ToSet(s) \cup {c}
<1> DEFINE t == Append(s, c)
           n == Len(s)
<1>1. n \in Nat /\ DOMAIN s = 1 .. n /\ DOMAIN t = 1 .. n + 1 /\ t[n + 1] = c /\ \A i \in 1 .. n : t[i] = s[i]
  OBVIOUS
<1>2. ToSet(t) = {t[i] : i \in 1 .. n + 1} /\ ToSet(s) = {s[i] : i \in 1 .. n}
  BY <1>1 DEF ToSet
<1> HIDE DEF n, t
<1>3. \A i \in 1 .. n + 1 : i \in 1 .. n \/ i = n + 1
  BY <1>1
<1>4. (\A i \in 1 .. n : i \in 1 .. n + 1) /\ n + 1 \in 1 .. n + 1
  BY <1>1
<1>5. ToSet(t) = ToSet(s) \cup {c}
  BY <1>1, <1>2, <1>3, <1>4
<1> QED BY <1>5 DEF t

\* A sector of a directory or of a held chain is written.
LEMMA StillSec ==
    ASSUME NEW f, NEW S, NEW H, NEW R, Vol(f, S, H, R), NEW T, SameEntries(S, T), NEW c, Rewrites(S, T, c),
           NEW h \in H \cup DirTops(S), c \in Owns(f, h)
    PROVE  Still(f, S, f, T)
<1>1. ASSUME NEW x \in E(S), ~Val(S, x).dir, NEW y \in Owns(f, Val(S, x).clus) PROVE T[y] = S[y]
  <2>1. y # c
    BY <1>1, FilesApart
  <2>2. y \in Clusters
    BY <1>1, NilHas, LiveTops, TopFacts
  <2> QED BY <2>1, <2>2 DEF Rewrites
<1> QED BY <1>1 DEF Still

\* The FAT changes, the chains of the files do not.
LEMMA StillFat ==
    ASSUME NEW f, NEW S, NEW H, NEW R, Vol(f, S, H, R), NEW g,
           \A x \in E(S) : ~Val(S, x).dir /\ Val(S, x).clus \in Clusters => Chain(g, Val(S, x).clus) = Chain(f, Val(S, x).clus),
           \A d \in DirTops(S) : \A x \in E(S) : x[1] \in Owns(g, d) <=> x[1] \in Owns(f, d)
    PROVE  Still(f, S, g, S)
<1>1. ASSUME NEW x \in E(S), ~Val(S, x).dir PROVE Chain(g, Val(S, x).clus) = Chain(f, Val(S, x).clus)
  <2>1. Val(S, x).clus \in Clusters \cup {Nil}
    BY EntryType DEF Vol, VolTypes
  <2> QED BY <1>1, <2>1, NilHas
<1> QED BY <1>1 DEF Still, SameEntries

-----------------------------------------------------------------------------
(***************************************************************************)
(* An entry comes, an entry goes                                           *)
(***************************************************************************)
\* What a new entry changes: the live chains, and the directories if it is one.
LEMMA PutLive ==
    ASSUME NEW S \in Medium, NEW T \in Medium, NEW x0, x0 \notin E(S), E(T) = E(S) \cup {x0},
           \A x \in E(S) : Val(T, x) = Val(S, x)
    PROVE  /\ Live(T) = Live(S) \cup ({Val(T, x0).clus} \cap Clusters)
           /\ DirTops(T) = DirTops(S) \cup (IF Val(T, x0).dir THEN {Val(T, x0).clus} ELSE {})
<1>1. {Val(T, x).clus : x \in E(T)} = {Val(S, x).clus : x \in E(S)} \cup {Val(T, x0).clus}
  OBVIOUS
<1>2. {x \in E(T) : Val(T, x).dir} = {x \in E(S) : Val(S, x).dir} \cup (IF Val(T, x0).dir THEN {x0} ELSE {})
  OBVIOUS
<1>3. {Val(T, x).clus : x \in {y \in E(T) : Val(T, y).dir}}
        = {Val(S, x).clus : x \in {y \in E(S) : Val(S, y).dir}} \cup (IF Val(T, x0).dir THEN {Val(T, x0).clus} ELSE {})
  BY <1>2
<1> QED BY <1>1, <1>3 DEF Live, DirTops

(* A new entry, for nothing or for a held chain. *)
LEMMA VolPut ==
    ASSUME NEW f, NEW S, NEW H, Vol(f, S, H, {}), NEW T \in Medium, NEW d0 \in DirTops(S),
           NEW x0 \in AllSlots, x0 \notin E(S), E(T) = E(S) \cup {x0}, x0[1] \in Owns(f, d0),
           \A x \in E(S) : Val(T, x) = Val(S, x),
           LeafEntry(f, Val(T, x0)) \/ (DirEntry(Val(T, x0)) /\ d0 = Root),
           \A x \in E(S) : x[1] \in Owns(f, d0) => Val(S, x).name # Val(T, x0).name,
           Val(T, x0).clus = Nil \/ Val(T, x0).clus \in H,
           DirsOk(f, T, {})
    PROVE  Vol(f, T, H \ {Val(T, x0).clus}, {})
<1> DEFINE e == Val(T, x0)
           K == H \ {e.clus}
<1>1. VolTypes(f, S, H) /\ Tops(f, S, H) /\ NamesOk(f, S) /\ Lies(f, S, {}) /\ S \in Medium /\ H \subseteq Clusters
  BY DEF Vol, VolTypes
<1>2. Live(T) = Live(S) \cup ({e.clus} \cap Clusters) /\ DirTops(T) = DirTops(S) \cup (IF e.dir THEN {e.clus} ELSE {})
  BY <1>1, PutLive
<1>3. DirTops(S) \subseteq Live(S) /\ Root \in Live(S)
  BY <1>1, DirsLive
<1>4. e.clus \in Clusters <=> e.clus \in H
  BY <1>1, FatAssumption
<1>5. x0 \in E(T) /\ T \in Medium
  OBVIOUS
<1>6. e \in [kind : {"entry"}, name : Dirs \cup Leaves, clus : Clusters \cup {Nil}, size : Nat, dir : BOOLEAN]
  BY <1>5, EntryType
<1>7. e.dir => e.clus \in H /\ d0 = Root
  BY <1>4 DEF LeafEntry, DirEntry
<1> HIDE DEF e
<1>8. Tops(f, T, K)
  <2>1. Live(T) \cup K \subseteq Live(S) \cup H
    BY <1>2, <1>4
  <2>2. Live(T) \cap K = {}
    BY <1>1, <1>2 DEF Tops
  <2> QED BY <1>1, <2>1, <2>2 DEF Tops
<1>9. ASSUME NEW y \in E(S), Val(S, y).clus \in Clusters PROVE Val(S, y).clus \in Live(S) /\ Val(S, y).clus \notin H
  BY <1>1, <1>9 DEF Live, Tops
<1>10. ASSUME NEW d \in DirTops(S), x0[1] \in Owns(f, d) PROVE d = d0
  BY <1>1, <1>3, <1>10 DEF Tops
<1>11. ASSUME e.dir, NEW x \in E(T) PROVE x[1] \notin Owns(f, e.clus)
  <2>1. \E d \in DirTops(S) : x[1] \in Owns(f, d)
    BY <1>1 DEF Lies
  <2>2. e.clus \in H
    BY <1>7, <1>11
  <2>3. \A d \in DirTops(S) : Owns(f, d) \cap Owns(f, e.clus) = {}
    BY <2>2, <1>1, <1>3 DEF Tops
  <2> QED BY <2>1, <2>3
<1>12. NamesOk(f, T)
  <2>1. ASSUME NEW x \in E(T), NEW y \in E(T), Val(T, x).clus = Val(T, y).clus, Val(T, x).clus \in Clusters PROVE x = y
    <3>1. CASE x \in E(S) /\ y \in E(S)
      BY <3>1, <2>1, <1>1 DEF NamesOk
    <3>2. CASE x = x0 /\ y \in E(S)
      BY <3>2, <2>1, <1>4, <1>9 DEF e
    <3>3. CASE x \in E(S) /\ y = x0
      BY <3>3, <2>1, <1>4, <1>9 DEF e
    <3> QED BY <3>1, <3>2, <3>3
  <2>2. ASSUME NEW x \in E(T) PROVE Val(T, x).clus # Root
    <3>1. CASE x \in E(S)
      BY <3>1, <1>1 DEF NamesOk
    <3>2. CASE x = x0
      <4>1. Root \notin H /\ Root \in Clusters
        BY <1>1, <1>3, FatAssumption DEF Tops
      <4> QED BY <3>2, <4>1, <1>4 DEF e
    <3> QED BY <3>1, <3>2
  <2>3. ASSUME NEW x \in E(T) PROVE LeafEntry(f, Val(T, x)) \/ (DirEntry(Val(T, x)) /\ x[1] \in Owns(f, Root))
    BY <1>1 DEF NamesOk
  <2>4. ASSUME NEW d \in DirTops(T), NEW x \in E(T), NEW y \in E(T), x[1] \in Owns(f, d), y[1] \in Owns(f, d),
               Val(T, x).name = Val(T, y).name
        PROVE  x = y
    <3>1. d \in DirTops(S)
      BY <2>4, <1>2, <1>11
    <3>2. CASE x \in E(S) /\ y \in E(S)
      BY <3>1, <3>2, <2>4, <1>1 DEF NamesOk
    <3>3. CASE x = x0 /\ y \in E(S)
      BY <3>1, <3>3, <2>4, <1>10 DEF e
    <3>4. CASE x \in E(S) /\ y = x0
      BY <3>1, <3>4, <2>4, <1>10 DEF e
    <3> QED BY <3>2, <3>3, <3>4
  <2> QED BY <2>1, <2>2, <2>3, <2>4 DEF NamesOk
<1>13. Lies(f, T, {})
  BY <1>1, <1>2 DEF Lies
<1>14. VolTypes(f, T, K)
  BY <1>1 DEF VolTypes
<1> QED BY <1>8, <1>12, <1>13, <1>14 DEF Vol, e

(* An entry goes; its chain is held. *)
LEMMA VolUnlink ==
    ASSUME NEW f, NEW S, NEW H, Vol(f, S, H, {}), NEW T \in Medium, NEW x0 \in E(S), E(T) = E(S) \ {x0},
           \A x \in E(T) : Val(T, x) = Val(S, x),
           Val(S, x0).dir => \A x \in E(S) : x[1] \notin Owns(f, Val(S, x0).clus),
           \A d \in DirTops(S) : (\A c \in Owns(f, d) : T[c].kind = "dir") /\ TailFree(T, Chain(f, d), {})
    PROVE  /\ Vol(f, T, H \cup ({Val(S, x0).clus} \cap Clusters), {})
           /\ Live(T) = Live(S) \ {Val(S, x0).clus}
           /\ DirTops(T) = DirTops(S) \ (IF Val(S, x0).dir THEN {Val(S, x0).clus} ELSE {})
<1> DEFINE e == Val(S, x0)
           K == H \cup ({e.clus} \cap Clusters)
<1>1. VolTypes(f, S, H) /\ Tops(f, S, H) /\ NamesOk(f, S) /\ Lies(f, S, {}) /\ S \in Medium /\ H \subseteq Clusters
  BY DEF Vol, VolTypes
<1>2. e \in [kind : {"entry"}, name : Dirs \cup Leaves, clus : Clusters \cup {Nil}, size : Nat, dir : BOOLEAN]
  BY <1>1, EntryType
<1> HIDE DEF e
<1>3. \A x \in E(T) : Val(T, x).clus = e.clus /\ e.clus \in Clusters => FALSE
  BY <1>1 DEF NamesOk, e
<1>4. x0 \notin E(T) /\ E(S) = E(T) \cup {x0} /\ \A x \in E(T) : Val(S, x) = Val(T, x)
  OBVIOUS
<1>5. Live(S) = Live(T) \cup ({e.clus} \cap Clusters) /\ DirTops(S) = DirTops(T) \cup (IF e.dir THEN {e.clus} ELSE {})
  BY <1>1, <1>4, PutLive DEF e
<1>6. e.clus # Root /\ Root \in Clusters /\ (e.dir => e.clus \in Clusters)
  BY <1>1, FatAssumption DEF NamesOk, LeafEntry, DirEntry, e
<1>7. e.clus \notin Live(T) /\ e.clus \notin DirTops(T)
  <2>1. e.clus \in Live(T) => e.clus \in Clusters
    BY <1>6 DEF Live
  <2>2. e.clus \notin Live(T)
    BY <2>1, <1>3, <1>6 DEF Live
  <2>3. ASSUME NEW x \in E(T), Val(T, x).dir PROVE Val(T, x).clus # e.clus
    <3>1. Val(T, x).clus \in Clusters
      BY <2>3, <1>1, <1>4 DEF NamesOk, LeafEntry, DirEntry
    <3> QED BY <3>1, <1>3
  <2>4. e.clus \notin DirTops(T)
    BY <2>3, <1>6 DEF DirTops
  <2> QED BY <2>2, <2>4
<1>8. Live(T) = Live(S) \ {e.clus} /\ DirTops(T) = DirTops(S) \ (IF e.dir THEN {e.clus} ELSE {})
  <2>1. CASE e.dir
    BY <2>1, <1>5, <1>7
  <2>2. CASE ~e.dir
    BY <2>2, <1>5, <1>7
  <2> QED BY <2>1, <2>2
<1>9. Tops(f, T, K)
  <2>1. Live(T) \cup K \subseteq Live(S) \cup H
    BY <1>5
  <2>2. Live(T) \cap K = {}
    BY <1>1, <1>8 DEF Tops
  <2> QED BY <1>1, <2>1, <2>2 DEF Tops
<1>10. NamesOk(f, T)
  <2>1. E(T) \subseteq E(S) /\ DirTops(T) \subseteq DirTops(S) /\ \A x \in E(T) : Val(T, x) = Val(S, x)
    BY <1>4, <1>8
  <2> QED BY <2>1, <1>1 DEF NamesOk
<1>11. Lies(f, T, {})
  <2> SUFFICES ASSUME NEW x \in E(T) PROVE \E d \in DirTops(T) : x[1] \in Owns(f, d)
    BY DEF Lies
  <2>1. PICK d \in DirTops(S) : x[1] \in Owns(f, d)
    BY <1>1, <1>4 DEF Lies
  <2>2. e.dir => d # e.clus
    BY <2>1, <1>4 DEF e
  <2> QED BY <2>1, <2>2, <1>8
<1>12. DirsOk(f, T, {})
  BY <1>8 DEF DirsOk
<1>13. VolTypes(f, T, K)
  BY <1>1 DEF VolTypes
<1> QED BY <1>8, <1>9, <1>10, <1>11, <1>12, <1>13 DEF Vol, e

(* Slots are filled of which no unfilled free one lies before. *)
LEMMA DirsPut ==
    ASSUME NEW f, NEW S, NEW H, Vol(f, S, H, {}), NEW d0 \in DirTops(S), NEW g \in 1 .. Len(Chain(f, d0)),
           NEW T, Rewrites(S, T, Chain(f, d0)[g]), T[Chain(f, d0)[g]].kind = "dir", NEW Q \in SUBSET (1 .. Slots),
           \A a \in Q : Val(T, <<Chain(f, d0)[g], a>>).kind # "0x00",
           \A a \in (1 .. Slots) \ Q : Val(T, <<Chain(f, d0)[g], a>>) = Val(S, <<Chain(f, d0)[g], a>>),
           \A i \in 1 .. Len(Chain(f, d0)), a \in 1 .. Slots, q \in Q :
               Before(i, a, g, q) /\ (i # g \/ a \notin Q) => Val(S, <<Chain(f, d0)[i], a>>).kind # "0x00",
           NEW d \in DirTops(S)
    PROVE  (\A c \in Owns(f, d) : T[c].kind = "dir") /\ TailFree(T, Chain(f, d), {})
<1> DEFINE s == Chain(f, d0)
           c == s[g]
           t == Chain(f, d)
<1>1. VolTypes(f, S, H) /\ Tops(f, S, H) /\ NamesOk(f, S) /\ Lies(f, S, {}) /\ DirsOk(f, S, {})
  BY DEF Vol
<1>2. \A e \in DirTops(S) : e \in Live(S) /\ IsTop(f, e)
  BY LiveTops
<1>3. c \in Owns(f, d0) /\ c \in Clusters /\ S \in Medium /\ T \in Medium
  BY <1>2, TopFacts DEF Rewrites
<1>4. ASSUME NEW x \in Owns(f, d) PROVE T[x].kind = "dir"
  <2>1. CASE x = c
    BY <2>1
  <2>2. CASE x # c
    <3>1. x \in Clusters /\ S[x].kind = "dir"
      BY <1>1, <1>2, TopFacts DEF DirsOk
    <3> QED BY <2>2, <3>1 DEF Rewrites
  <2> QED BY <2>1, <2>2
<1>5. IsTop(f, d) /\ t \in Seq(Clusters) /\ Len(t) \in Nat /\ \A i \in 1 .. Len(t) : t[i] \in Clusters /\ t[i] \in Owns(f, d)
  BY <1>2, TopFacts
<1>6. TailFree(S, t, {}) /\ \A i, j \in 1 .. Len(t) : t[i] = t[j] => i = j
  BY <1>1, <1>5 DEF DirsOk, IsTop, Path
<1>7. ASSUME NEW i \in 1 .. Len(t), t[i] = c PROVE i = g /\ t = s
  <2>1. d = d0
    BY <1>1, <1>2, <1>3, <1>5, <1>7 DEF Tops
  <2> QED BY <2>1, <1>6, <1>7
<1>8. \A i \in 1 .. Len(s), a \in 1 .. Slots, q \in Q : Before(i, a, g, q) /\ (i # g \/ a \notin Q) => Val(S, <<s[i], a>>).kind # "0x00"
  OBVIOUS
<1>9. /\ \A a \in Q : Val(T, <<c, a>>).kind # "0x00"
      /\ \A a \in (1 .. Slots) \ Q : Val(T, <<c, a>>) = Val(S, <<c, a>>)
  OBVIOUS
<1>10. \A x \in Clusters, a \in 1 .. Slots : x # c => Val(T, <<x, a>>) = Val(S, <<x, a>>)
  BY OtherSlots
<1>11. TailFree(T, t, {})
  <2> HIDE DEF t, s, c
  <2> SUFFICES ASSUME NEW i \in 1 .. Len(t), NEW j \in 1 .. Len(t), NEW a \in 1 .. Slots, NEW b \in 1 .. Slots,
                      Before(i, a, j, b), Val(T, <<t[i], a>>).kind = "0x00"
               PROVE  Val(T, <<t[j], b>>).kind = "0x00"
    BY DEF TailFree
  <2>1. Val(S, <<t[i], a>>).kind = "0x00" /\ (t[i] = c => a \notin Q)
    BY <1>5, <1>9, <1>10
  <2>2. Val(S, <<t[j], b>>).kind = "0x00"
    BY <2>1, <1>6 DEF TailFree
  <2>3. ~(t[j] = c /\ b \in Q)
    <3> SUFFICES ASSUME t[j] = c, b \in Q PROVE FALSE
      OBVIOUS
    <3>1. j = g /\ t = s
      BY <1>7
    <3>2. i # g \/ a \notin Q
      BY <2>1, <3>1
    <3> QED BY <3>1, <3>2, <2>1, <1>8
  <2>4. Val(T, <<t[j], b>>) = Val(S, <<t[j], b>>)
    BY <2>3, <1>5, <1>9, <1>10
  <2> QED BY <2>2, <2>4
<1> QED BY <1>4, <1>11

-----------------------------------------------------------------------------
(***************************************************************************)
(* The slots of a directory, as they are scanned                           *)
(***************************************************************************)
LEMMA ValueOf == ASSUME NEW v PROVE \A T : T = {v} => (CHOOSE r \in T : TRUE) = v
  OBVIOUS

\* The least number of a set
LEMMA MinIs == ASSUME NEW T, T \subseteq Nat, T # {} PROVE Min(T) \in T /\ \A y \in T : Min(T) <= y
  BY Least DEF Min

\* The slots of a directory in the order they are scanned.
SlotsIn(s) == [k \in 1 .. (Len(s) * Slots) |-> <<s[((k - 1) \div Slots) + 1], ((k - 1) % Slots) + 1>>]
LEMMA SlotsOfIs == ASSUME NEW f, NEW d PROVE SlotsOf(f, d) = SlotsIn(Chain(f, d))
  BY DEF SlotsOf, Let, SlotsIn

FirstFree(all) == {k \in 1 .. Len(all) : At(all[k]).kind = "0x00"}
LEMMA SeenDef ==
    ASSUME NEW f, NEW d, NEW all, all = SlotsOf(f, d)
    PROVE  Seen(f, d) = Range(IF FirstFree(all) = {} \/ Min(FirstFree(all)) = 0 THEN all ELSE SubSeq(all, 1, Min(FirstFree(all)) - 1))
<1>1. \A end : end = SelectInSeq(all, LAMBDA x : At(x).kind = "0x00") =>
         Seen(f, d) = Range(IF end = 0 THEN all ELSE SubSeq(all, 1, end - 1))
  BY DEF Seen, Let
<1>2. SelectInSeq(all, LAMBDA x : At(x).kind = "0x00") = IF FirstFree(all) # {} THEN Min(FirstFree(all)) ELSE 0
  BY DEF SelectInSeq, FirstFree
<1> QED BY <1>1, <1>2

LEMMA SlotArith ==
    /\ \A k \in Nat : (k \div Slots) \in Nat /\ (k % Slots) \in 0 .. Slots - 1 /\ k = Slots * (k \div Slots) + (k % Slots)
    /\ \A q \in Nat, r \in 0 .. Slots - 1 : (Slots * q + r) \div Slots = q /\ (Slots * q + r) % Slots = r
    /\ \A p, q \in Nat : p < q => Slots * p + Slots <= Slots * q
<1>1. Slots \in Nat \ {0}
  BY FatAssumption
<1>2. ASSUME NEW n \in Nat \ {0}, NEW i \in Nat PROVE i % n \in 0 .. n - 1
  OBVIOUS
<1>3. ASSUME NEW n \in Nat \ {0}, NEW i \in Nat PROVE i \div n \in Nat
  OBVIOUS
<1>4. ASSUME NEW n \in Nat \ {0}, NEW i \in Nat PROVE i = n * (i \div n) + (i % n)
  OBVIOUS
<1>5. ASSUME NEW n \in Nat \ {0}, NEW q \in Nat, NEW r \in 0 .. n - 1 PROVE (n * q + r) \div n = q
  OBVIOUS
<1>6. ASSUME NEW n \in Nat \ {0}, NEW q \in Nat, NEW r \in 0 .. n - 1 PROVE (n * q + r) % n = r
  OBVIOUS
<1>7. ASSUME NEW n \in Nat \ {0}, NEW q \in Nat, NEW p \in Nat, p < q PROVE n * p + n <= n * q
  BY <1>7
<1> QED BY <1>1, <1>2, <1>3, <1>4, <1>5, <1>6, <1>7

Index(i, a) == Slots * (i - 1) + a
LEMMA SlotsInIs ==
    ASSUME NEW s \in Seq(Clusters)
    PROVE  /\ SlotsIn(s) \in Seq(AllSlots) /\ Len(SlotsIn(s)) = Len(s) * Slots /\ Len(s) * Slots \in Nat
           /\ \A k \in 1 .. (Len(s) * Slots) : \E i \in 1 .. Len(s), a \in 1 .. Slots : SlotsIn(s)[k] = <<s[i], a>> /\ k = Index(i, a)
           /\ \A i \in 1 .. Len(s), a \in 1 .. Slots : Index(i, a) \in 1 .. (Len(s) * Slots) /\ SlotsIn(s)[Index(i, a)] = <<s[i], a>>
<1> DEFINE n == Len(s)
<1>1. n \in Nat /\ Slots \in Nat /\ Slots >= 1 /\ n * Slots \in Nat /\ n * Slots = Slots * n
  BY FatAssumption
<1>2. ASSUME NEW k \in 1 .. (n * Slots)
      PROVE  ((k - 1) \div Slots) + 1 \in 1 .. n /\ ((k - 1) % Slots) + 1 \in 1 .. Slots
             /\ k = Index(((k - 1) \div Slots) + 1, ((k - 1) % Slots) + 1)
  <2> DEFINE q == (k - 1) \div Slots
             r == (k - 1) % Slots
  <2>1. k - 1 \in Nat /\ k - 1 < Slots * n
    BY <1>1
  <2>2. q \in Nat /\ r \in 0 .. Slots - 1 /\ k - 1 = Slots * q + r
    BY <2>1, SlotArith
  <2> HIDE DEF q, r
  <2>3. q < n
    <3>1. SUFFICES ASSUME ~(q < n) PROVE Slots * n <= Slots * q
      <4>1. Slots * q <= k - 1
        BY <1>1, <2>2
      <4> QED BY <1>1, <2>1, <2>2, <3>1, <4>1
    <3>2. CASE q = n
      BY <3>2, <1>1
    <3>3. CASE n < q
      <4>1. Slots * n + Slots <= Slots * q
        BY <3>3, <1>1, <2>2, SlotArith
      <4>2. Slots * n \in Nat /\ Slots * q \in Nat
        BY <1>1, <2>2
      <4> QED BY <4>1, <4>2, <1>1
    <3> QED BY <3>1, <3>2, <3>3, <1>1, <2>2
  <2>4. q + 1 \in 1 .. n /\ r + 1 \in 1 .. Slots
    BY <2>2, <2>3, <1>1
  <2>5. k = Slots * ((q + 1) - 1) + (r + 1)
    BY <2>2, <1>1
  <2> QED BY <2>4, <2>5 DEF Index, q, r
<1>3. ASSUME NEW i \in 1 .. n, NEW a \in 1 .. Slots
      PROVE  Index(i, a) \in 1 .. (n * Slots) /\ ((Index(i, a) - 1) \div Slots) + 1 = i /\ ((Index(i, a) - 1) % Slots) + 1 = a
  <2> DEFINE q == i - 1
             r == a - 1
  <2>1. q \in Nat /\ r \in 0 .. Slots - 1 /\ q < n /\ q + 1 = i /\ r + 1 = a
    BY <1>1
  <2>2. Index(i, a) = Slots * q + a /\ Slots * q \in Nat
    BY <1>1, <2>1 DEF Index
  <2>3. Slots * q + Slots <= Slots * n
    BY <2>1, <1>1, SlotArith
  <2> HIDE DEF q, r
  <2>4. Index(i, a) - 1 = Slots * q + r
    BY <2>1, <2>2, <1>1
  <2>5. Index(i, a) \in 1 .. (n * Slots)
    BY <1>1, <2>1, <2>2, <2>3
  <2> QED BY <2>1, <2>4, <2>5, SlotArith
<1>4. ASSUME NEW k \in 1 .. (n * Slots) PROVE SlotsIn(s)[k] \in AllSlots
  BY <1>2 DEF SlotsIn, AllSlots
<1>5. SlotsIn(s) \in Seq(AllSlots) /\ Len(SlotsIn(s)) = n * Slots
  BY <1>1, <1>4 DEF SlotsIn
<1>6. \A k \in 1 .. (n * Slots) : \E i \in 1 .. n, a \in 1 .. Slots : SlotsIn(s)[k] = <<s[i], a>> /\ k = Index(i, a)
  BY <1>2 DEF SlotsIn
<1>7. \A i \in 1 .. n, a \in 1 .. Slots : Index(i, a) \in 1 .. (n * Slots) /\ SlotsIn(s)[Index(i, a)] = <<s[i], a>>
  BY <1>3 DEF SlotsIn
<1> QED BY <1>1, <1>5, <1>6, <1>7

\* The order of the scan
LEMMA IndexOrder ==
    ASSUME NEW i \in Nat \ {0}, NEW j \in Nat \ {0}, NEW a \in 1 .. Slots, NEW b \in 1 .. Slots
    PROVE  /\ Before(i, a, j, b) <=> Index(i, a) < Index(j, b)
           /\ Index(i, a) = Index(j, b) => i = j /\ a = b
           /\ Index(i, a) \in Nat
<1>1. Slots \in Nat /\ Slots >= 1 /\ Slots * (i - 1) \in Nat /\ Slots * (j - 1) \in Nat
  BY FatAssumption
<1>2. CASE i = j
  BY <1>1, <1>2 DEF Before, Index
<1>3. CASE i < j
  <2>1. Slots * (i - 1) + Slots <= Slots * (j - 1)
    BY <1>3, SlotArith
  <2> QED BY <1>1, <1>3, <2>1 DEF Before, Index
<1>4. CASE j < i
  <2>1. Slots * (j - 1) + Slots <= Slots * (i - 1)
    BY <1>4, SlotArith
  <2> QED BY <1>1, <1>4, <2>1 DEF Before, Index
<1> QED BY <1>2, <1>3, <1>4

ListOf(s, all, n) ==
    /\ Len(all) = n /\ n \in Nat
    /\ \A k \in 1 .. n : \E i \in 1 .. Len(s), a \in 1 .. Slots : all[k] = <<s[i], a>> /\ k = Index(i, a)
    /\ \A i \in 1 .. Len(s), a \in 1 .. Slots : Index(i, a) \in 1 .. n /\ all[Index(i, a)] = <<s[i], a>>
LEMMA SlotsListed == ASSUME NEW s \in Seq(Clusters) PROVE ListOf(s, SlotsIn(s), Len(s) * Slots)
BY SlotsInIs DEF ListOf

\* What a directory holds, of all that is seen in it: its entries.
LEMMA SeenIs ==
    ASSUME NEW f, NEW d, NEW R, IsTop(f, d), sec \in Medium, TailFree(sec, Chain(f, d), R),
           \A x \in E(sec) : x[1] \notin R
    PROVE  /\ {x \in Seen(f, d) : At(x).kind = "entry"} = {x \in E(sec) : x[1] \in Owns(f, d)}
           /\ \A x \in Seen(f, d) : At(x) = Val(sec, x)
<1> DEFINE s == Chain(f, d)
           all == SlotsOf(f, d)
           n == Len(s) * Slots
           Z == FirstFree(all)
           m == Min(Z)
<1>1. /\ s \in Seq(Clusters) /\ Len(s) \in Nat /\ Owns(f, d) = {s[i] : i \in 1 .. Len(s)}
      /\ \A i \in 1 .. Len(s) : s[i] \in Clusters
  BY TopFacts
<1>2. all = SlotsIn(s)
  BY SlotsOfIs
<1> HIDE DEF all
<1>3. /\ all \in Seq(AllSlots) /\ Len(all) = n /\ n \in Nat
      /\ \A k \in 1 .. n : \E i \in 1 .. Len(s), a \in 1 .. Slots : all[k] = <<s[i], a>> /\ k = Index(i, a)
      /\ \A i \in 1 .. Len(s), a \in 1 .. Slots : Index(i, a) \in 1 .. n /\ all[Index(i, a)] = <<s[i], a>>
  <2>1. all \in Seq(AllSlots)
    BY <1>1, <1>2, SlotsInIs
  <2>2. ListOf(s, all, n)
    BY <1>1, <1>2, SlotsListed
  <2> HIDE DEF n, s
  <2> QED BY <2>1, <2>2 DEF ListOf
<1> HIDE DEF n
<1>4. \A x : At(x) = Val(sec, x)
  BY DEF At, Val, IsDir
<1>5. Z = {k \in 1 .. n : Val(sec, all[k]).kind = "0x00"}
  BY <1>3, <1>4 DEF FirstFree
<1> HIDE DEF Z
<1>6. Z # {} => m \in Z /\ m \in 1 .. n /\ \A k \in Z : m <= k
  <2>1. Z \subseteq Nat
    BY <1>3, <1>5
  <2> QED BY <2>1, <1>3, <1>5, MinIs
<1> HIDE DEF m
<1> DEFINE W == IF Z = {} THEN n ELSE m - 1
<1>7. W \in Nat /\ W <= n /\ Seen(f, d) = {all[k] : k \in 1 .. W}
  <2>1. CASE Z = {}
    <3>1. Seen(f, d) = Range(all)
      BY <2>1, SeenDef DEF all, Z
    <3>2. Range(all) = {all[k] : k \in 1 .. n}
      <4>1. DOMAIN all = 1 .. n
        BY <1>3
      <4> HIDE DEF s
      <4> QED BY <4>1 DEF Range
    <3>3. W = n /\ n \in Nat
      BY <1>3, <2>1
    <3> HIDE DEF W, s
    <3> QED BY <3>1, <3>2, <3>3
  <2>2. CASE Z # {}
    <3>1. m # 0 /\ m - 1 \in Nat /\ m - 1 <= n
      <4>1. n \in Nat
        BY <1>3
      <4>2. m \in 1 .. n
        BY <2>2, <1>6
      <4> QED BY <4>1, <4>2
    <3>2. Seen(f, d) = Range(SubSeq(all, 1, m - 1))
      BY <2>2, <3>1, SeenDef DEF all, Z, m
    <3>3. DOMAIN SubSeq(all, 1, m - 1) = 1 .. m - 1 /\ \A k \in 1 .. m - 1 : SubSeq(all, 1, m - 1)[k] = all[k]
      BY <3>1, <1>3
    <3> QED BY <2>2, <3>1, <3>2, <3>3 DEF Range
  <2> QED BY <2>1, <2>2
<1> HIDE DEF W
<1>8. ASSUME NEW x \in Seen(f, d), At(x).kind = "entry" PROVE x \in E(sec) /\ x[1] \in Owns(f, d)
  <2>1. PICK k \in 1 .. W : x = all[k]
    BY <1>7
  <2>2. k \in 1 .. n
    BY <1>3, <1>7
  <2>3. PICK i \in 1 .. Len(s), a \in 1 .. Slots : x = <<s[i], a>>
    BY <2>1, <2>2, <1>3
  <2> QED BY <2>3, <1>1, <1>4, <1>8, SlotType
<1>9. ASSUME NEW x \in E(sec), x[1] \in Owns(f, d) PROVE x \in Seen(f, d)
  <2>1. PICK j \in 1 .. Len(s) : x[1] = s[j]
    BY <1>1, <1>9
  <2>2. x[2] \in 1 .. Slots /\ x = <<s[j], x[2]>>
    BY <2>1, EntryType
  <2>3. PICK b \in 1 .. Slots : x = <<s[j], b>>
    BY <2>2
  <2> DEFINE k == Index(j, b)
  <2>4. k \in 1 .. n /\ all[k] = x
    BY <2>3, <1>3
  <2>5. Val(sec, x).kind = "entry"
    BY DEF E
  <2>6. k <= W
    <3>1. CASE Z = {}
      BY <3>1, <2>4, <1>3 DEF W
    <3>2. CASE Z # {}
      <4>1. m \in Z /\ m \in 1 .. n
        BY <3>2, <1>6
      <4>2. PICK i \in 1 .. Len(s), a \in 1 .. Slots : all[m] = <<s[i], a>> /\ m = Index(i, a)
        BY <4>1, <1>3
      <4>3. Val(sec, <<s[i], a>>).kind = "0x00"
        BY <4>1, <4>2, <1>5
      <4>4. ~Before(i, a, j, b)
        BY <4>3, <2>1, <2>3, <2>5 DEF TailFree
      <4>5. ~(m < k)
        <5>1. i \in Nat \ {0} /\ j \in Nat \ {0}
          OBVIOUS
        <5> QED BY <4>2, <4>4, <5>1, IndexOrder
      <4>6. m # k
        BY <4>2, <4>3, <2>3, <2>4, <2>5
      <4>7. k < m
        <5>1. m \in Int /\ k \in Int
          BY <4>1, <2>4
        <5> HIDE DEF k
        <5> QED BY <4>5, <4>6, <5>1
      <4>8. k <= m - 1
        <5>1. m \in Int /\ k \in Int
          BY <4>1, <2>4
        <5> HIDE DEF k
        <5> QED BY <4>7, <5>1
      <4> QED BY <3>2, <4>8 DEF W
    <3> QED BY <3>1, <3>2
  <2>7. k \in 1 .. W
    BY <2>4, <2>6, <1>7
  <2> QED BY <2>4, <2>7, <1>7
<1>10. E(sec) \subseteq AllSlots /\ \A x \in E(sec) : At(x).kind = "entry"
  BY <1>4 DEF E
<1> QED BY <1>4, <1>8, <1>9, <1>10

-----------------------------------------------------------------------------
(***************************************************************************)
(* The invariant of the volume                                             *)
(***************************************************************************)
\* The chains the running call holds: the new one, the cluster just taken, and what
\* is left of one being freed.
Freeing(o) == o.pc = "free" \/ (o.pc = "set" /\ o.then = "free")
Linking(o) == o.pc = "set" /\ o.then \in {"data", "zero"}
TodoOf(o) == IF o.pc = "set" /\ o.copy = 2 THEN o.c ELSE o.todo
HeldFirst(o) ==
    IF o.first \in Clusters /\ o.pc # "ret" /\ ~o.applied /\ (Freeing(o) => o.after = "undo") THEN {o.first} ELSE {}
HeldC(o) == IF o.pc = "flush" \/ (Linking(o) /\ o.copy = 1) THEN {o.c} ELSE {}
HeldTodo(o) == IF Freeing(o) THEN {TodoOf(o)} \cap Clusters ELSE {}
Held(o) == IF o = NoCall THEN {} ELSE HeldFirst(o) \cup HeldC(o) \cup HeldTodo(o)
\* The cluster a directory has been given and that is not zeroed yet.
Raw(o) ==
    IF o # NoCall /\ o.use = "grow" /\ (o.pc = "zero" \/ (o.pc = "set" /\ o.then = "zero" /\ o.copy > 1))
    THEN {o.c} ELSE {}

\* The directory of a call's path, and the entries of its name there
DirIs(S, dir, d) == IF dir = Absent THEN d = Root ELSE \E x \in E(S) : Val(S, x).name = dir /\ d = Val(S, x).clus
ParentIs(S, call, d) == IF call.do \in {"write", "delete"} THEN DirIs(S, call.path.dir, d) ELSE d = Root
Named(f, S, d, n) == {x \in E(S) : x[1] \in Owns(f, d) /\ Val(S, x).name = n}
Target(f, S, o, d) ==
    IF Named(f, S, d, LeafOf(o.call)) = {} THEN o.old = Nil
    ELSE \A x \in Named(f, S, d, LeafOf(o.call)) : Val(S, x).clus = o.old

\* How far the new chain is
Dots == Dir([i \in 1..Slots |-> IF i <= 2 THEN Slot(".") ELSE Slot("0x00")])
Built(f, S, o, n) == \A i \in 1 .. n : S[Chain(f, o.first)[i]] = Block(o.call.v, i)
Ready(f, S, o) ==
    \/ /\ o.call.do = "write" /\ o.k = Blocks[o.call.v]
       /\ IF o.first = Nil THEN o.k = 0 ELSE Len(Chain(f, o.first)) = o.k /\ Built(f, S, o, o.k)
    \/ o.call.do = "mkdir" /\ o.first \in Clusters /\ Chain(f, o.first) = <<o.first>> /\ S[o.first] = Dots
Writing(f, S, o) ==
    /\ o.use = "file" /\ o.call.do = "write" /\ o.k < Blocks[o.call.v]
    /\ IF o.k = 0 THEN o.first = Nil
       ELSE /\ o.first \in Clusters /\ Len(Chain(f, o.first)) = o.k /\ o.prev = Last(Chain(f, o.first))
            /\ Built(f, S, o, o.k)
Extended(f, S, o) ==
    /\ o.use = "file" /\ o.call.do = "write" /\ o.k < Blocks[o.call.v] /\ o.first \in Clusters
    /\ Len(Chain(f, o.first)) = o.k + 1 /\ o.c = Last(Chain(f, o.first)) /\ Built(f, S, o, o.k)
Growing(f, S, o, d) ==
    /\ Ready(f, S, o) /\ o.use = "grow" /\ o.prev = Last(Chain(f, d))
    /\ \A c \in Owns(f, d), a \in 1 .. Slots : Val(S, <<c, a>>).kind # "0x00"
MakingDir(o) == o.call.do = "mkdir" /\ o.first = Nil /\ o.use = IF o.pc = "find" THEN "file" ELSE "dir"
Asks(f, S, o, d) == Writing(f, S, o) \/ Growing(f, S, o, d) \/ MakingDir(o)

AtUnlink(f, S, o, d) ==
    o.pc = "unlink" =>
        /\ o.call.do \in {"delete", "rmdir"} /\ o.first = Nil
        /\ Named(f, S, d, LeafOf(o.call)) # {}
        /\ o.call.do = "rmdir" => \A x \in E(S) : x[1] \notin Owns(f, o.old)
AtMaking(f, S, o, d) ==
    o.pc # "unlink" =>
        /\ o.call.do \in {"write", "mkdir"}
        /\ o.call.do = "mkdir" => Named(f, S, d, LeafOf(o.call)) = {}
AtFind(f, S, o, d) == o.pc = "find" => Asks(f, S, o, d)
AtTake(f, S, o, d) ==
    o.pc = "set" /\ o.then = "flush" =>
        /\ o.at = o.c /\ o.val = Eoc /\ o.c \in Clusters /\ Asks(f, S, o, d)
        /\ \A h \in Live(S) \cup Held(o) : o.c \notin Owns(f, h)
        /\ o.copy = 2 => f[o.c] = Eoc
AtFlush(f, S, o, d) == o.pc = "flush" => Asks(f, S, o, d) /\ f[o.c] = Eoc /\ o.c # o.first
AtLink(f, S, o, d) ==
    o.pc = "set" /\ o.then = "data" =>
        /\ o.at = o.prev /\ o.val = o.c /\ o.first \in Clusters
        /\ IF o.copy = 1 THEN Writing(f, S, o) /\ f[o.c] = Eoc /\ o.c # o.first ELSE Extended(f, S, o)
AtData(f, S, o, d) == o.pc = "data" => Extended(f, S, o)
AtDots(f, S, o, d) ==
    o.pc = "dots" => o.call.do = "mkdir" /\ o.use = "dir" /\ o.first = o.c /\ o.c \in Clusters /\ Chain(f, o.c) = <<o.c>>
AtPut(f, S, o, d) == o.pc = "entry" => Ready(f, S, o)
AtGrow(f, S, o, d) ==
    o.pc = "set" /\ o.then = "zero" =>
        /\ o.at = o.prev /\ o.val = o.c /\ o.use = "grow"
        /\ IF o.copy = 1 THEN Growing(f, S, o, d) /\ f[o.c] = Eoc /\ o.c # o.first
           ELSE Ready(f, S, o) /\ o.c = Last(Chain(f, d))
AtZero(f, S, o, d) == o.pc = "zero" => Ready(f, S, o) /\ o.use = "grow" /\ o.c = Last(Chain(f, d))
Works(f, S, o, d) ==
    /\ d \in DirTops(S) /\ ParentIs(S, o.call, d) /\ ~o.applied /\ Target(f, S, o, d)
    /\ AtUnlink(f, S, o, d) /\ AtMaking(f, S, o, d) /\ AtFind(f, S, o, d) /\ AtTake(f, S, o, d)
    /\ AtFlush(f, S, o, d) /\ AtLink(f, S, o, d) /\ AtData(f, S, o, d) /\ AtDots(f, S, o, d)
    /\ AtPut(f, S, o, d) /\ AtGrow(f, S, o, d) /\ AtZero(f, S, o, d)
Frees(f, o) ==
    /\ o.after = "ok" => o.applied
    /\ o.after = "undo" => ~o.applied /\ (o.first \in Clusters => o.first # TodoOf(o))
    /\ o.pc = "set" => o.at = o.todo /\ o.todo \in Clusters /\ o.val = Free
    /\ o.pc = "set" /\ o.copy = 1 => o.c = f[o.todo]
Returns(o) == (o.after = "ok" => o.applied) /\ o.after # "undo"
Working(o) == ~Freeing(o) /\ o.pc # "ret"
OpInv(f, S, o) ==
    /\ Working(o) => \E d \in Clusters : Works(f, S, o, d)
    /\ Freeing(o) => Frees(f, o)
    /\ o.pc = "ret" => Returns(o)
    /\ o.pc = "set" => o.copy \in 1 .. num_fats /\ o.then # ""

Cache(f, S, H, b) == b # NoCache => \A h \in Live(S) \cup H : \A c \in Owns(f, h) : b[c] = f[c]
Fresh(b, o) == o.pc = "flush" \/ Linking(o) => b = NoCache
FatTypes ==
    /\ num_fats \in {1, 2} /\ fat \in [1 .. num_fats -> Fats] /\ sec \in Medium
    /\ fsinfo \in Nat /\ free_count \in Nat /\ (fatbuf = NoCache \/ fatbuf \in Fats)
    /\ op \in Ops \cup {NoCall} /\ answer \in {"none", "ok", "err"} /\ faults \in Nat
VolInv == Vol(fat[1], sec, Held(op), Raw(op))
CacheInv == Cache(fat[1], sec, Held(op), fatbuf) /\ (op # NoCall => Fresh(fatbuf, op))
CallInv == op # NoCall => OpInv(fat[1], sec, op)
FatInv == FatTypes /\ VolInv /\ CacheInv /\ CallInv

-----------------------------------------------------------------------------
(***************************************************************************)
(* The cached FAT sector and the medium                                    *)
(***************************************************************************)
\* Two FATs have the same live chains.
Agrees(f, g, S) == \A h \in Live(S) : IsTop(g, h) /\ Chain(g, h) = Chain(f, h) /\ Owns(g, h) = Owns(f, h)

LEMMA AgreesSelf == ASSUME NEW f, NEW S, NEW H, NEW R, Vol(f, S, H, R) PROVE Agrees(f, f, S)
  BY LiveTops DEF Agrees

\* The cached sector has the live and the held chains of the medium.
LEMMA CachedIs ==
    ASSUME NEW H, NEW R, Vol(fat[1], sec, H, R), Cache(fat[1], sec, H, fatbuf)
    PROVE  /\ Agrees(fat[1], Cached, sec)
           /\ \A h \in Live(sec) \cup H : /\ IsTop(Cached, h) /\ Chain(Cached, h) = Chain(fat[1], h)
                                          /\ \A c \in Owns(fat[1], h) : Cached[c] = fat[1][c]
<1> SUFFICES ASSUME NEW h \in Live(sec) \cup H
             PROVE  /\ IsTop(Cached, h) /\ Chain(Cached, h) = Chain(fat[1], h) /\ Owns(Cached, h) = Owns(fat[1], h)
                    /\ \A c \in Owns(fat[1], h) : Cached[c] = fat[1][c]
  BY DEF Agrees
<1>1. IsTop(fat[1], h)
  BY LiveTops
<1>2. \A c \in Owns(fat[1], h) : Cached[c] = fat[1][c]
  BY DEF Cached, Cache
<1> HIDE DEF Cached
<1> QED BY <1>1, <1>2, ChainFrame

LEMMA FoundIs ==
    ASSUME NEW f, NEW g, NEW H, NEW R, Vol(f, sec, H, R), Agrees(f, g, sec), NEW d \in DirTops(sec)
    PROVE  /\ {x \in Seen(g, d) : At(x).kind = "entry"} = {x \in E(sec) : x[1] \in Owns(f, d)}
           /\ \A n : Found(g, d, n) = Named(f, sec, d, n)
           /\ \A x : At(x) = Val(sec, x)
<1>1. d \in Live(sec) /\ IsTop(g, d) /\ Chain(g, d) = Chain(f, d) /\ Owns(g, d) = Owns(f, d)
  BY LiveTops DEF Agrees
<1>2. sec \in Medium /\ TailFree(sec, Chain(g, d), R) /\ \A x \in E(sec) : x[1] \notin R
  BY <1>1 DEF Vol, VolTypes, DirsOk, Lies
<1>3. /\ {x \in Seen(g, d) : At(x).kind = "entry"} = {x \in E(sec) : x[1] \in Owns(f, d)}
      /\ \A x \in Seen(g, d) : At(x) = Val(sec, x)
  BY <1>1, <1>2, SeenIs
<1>4. \A x : At(x) = Val(sec, x)
  BY DEF At, Val, IsDir
<1>5. ASSUME NEW n PROVE Found(g, d, n) = Named(f, sec, d, n)
  BY <1>3, <1>4 DEF Found, Named
<1> QED BY <1>3, <1>4, <1>5

\* dir_lookup: no entry of the name, or the one there is.
LEMMA LookupIs ==
    ASSUME NEW f, NEW g, NEW H, NEW R, Vol(f, sec, H, R), Agrees(f, g, sec), NEW d \in DirTops(sec), NEW n
    PROVE  /\ Named(f, sec, d, n) = {} <=> Lookup(g, d, n) = Absent
           /\ \A x \in Named(f, sec, d, n) :
                  /\ Named(f, sec, d, n) = {x} /\ Lookup(g, d, n) = Val(sec, x)
                  /\ Val(sec, x) \in Entries /\ x \in E(sec)
<1>1. Found(g, d, n) = Named(f, sec, d, n) /\ \A x : At(x) = Val(sec, x)
  BY FoundIs
<1>2. Lookup(g, d, n) = IF Named(f, sec, d, n) = {} THEN Absent ELSE At(CHOOSE x \in Named(f, sec, d, n) : TRUE)
  BY <1>1 DEF Lookup, Let
<1>3. ASSUME NEW x \in Named(f, sec, d, n), NEW y \in Named(f, sec, d, n) PROVE x = y
  BY DEF Vol, NamesOk, Named
<1>4. ASSUME NEW x \in Named(f, sec, d, n) PROVE Val(sec, x) \in Entries /\ x \in E(sec)
  BY EntryType DEF Named, Entries, Vol, VolTypes
<1>5. ASSUME NEW x \in Named(f, sec, d, n) PROVE Named(f, sec, d, n) = {x} /\ Lookup(g, d, n) = Val(sec, x)
  <2>1. Named(f, sec, d, n) = {x}
    BY <1>3
  <2>2. (CHOOSE y \in Named(f, sec, d, n) : TRUE) = x
    BY <2>1
  <2> QED BY <2>1, <2>2, <1>1, <1>2
<1>6. Absent \notin Entries
  BY FatAssumption
<1>7. Named(f, sec, d, n) = {} <=> Lookup(g, d, n) = Absent
  <2>1. CASE Named(f, sec, d, n) = {}
    BY <2>1, <1>2
  <2>2. CASE Named(f, sec, d, n) # {}
    BY <2>2, <1>4, <1>5, <1>6
  <2> QED BY <2>1, <2>2
<1> QED BY <1>4, <1>5, <1>7

\* A directory's name is in the root, for a directory.
LEMMA DirNames ==
    ASSUME NEW f, NEW S, NEW H, NEW R, Vol(f, S, H, R), NEW x \in E(S)
    PROVE  /\ Val(S, x).dir <=> Val(S, x).name \in Dirs
           /\ Val(S, x).dir <=> Val(S, x).name \notin Leaves
           /\ Val(S, x).dir => /\ DirEntry(Val(S, x)) /\ x[1] \in Owns(f, Root) /\ Val(S, x).clus \in DirTops(S)
                               /\ Val(S, x).clus \in Clusters
           /\ ~Val(S, x).dir => LeafEntry(f, Val(S, x))
<1>1. NamesOk(f, S) /\ Dirs \cap Leaves = {}
  BY FatAssumption DEF Vol
<1>2. LeafEntry(f, Val(S, x)) \/ (DirEntry(Val(S, x)) /\ x[1] \in Owns(f, Root))
  BY <1>1 DEF NamesOk
<1>3. Val(S, x).dir => Val(S, x).clus \in DirTops(S)
  BY DEF DirTops
<1> QED BY <1>1, <1>2, <1>3 DEF LeafEntry, DirEntry

\* walk_to_parent
LEMMA ParentFound ==
    ASSUME NEW f, NEW g, NEW H, NEW R, Vol(f, sec, H, R), Agrees(f, g, sec), NEW dir \in Dirs \cup {Absent}, NEW d
    PROVE  /\ DirIs(sec, dir, d) <=> Parent(g, dir) = d /\ d # Absent
           /\ DirIs(sec, dir, d) => d \in DirTops(sec) /\ d \in Clusters
<1>1. Root \in DirTops(sec) /\ Root \in Clusters /\ Absent \notin Clusters /\ Absent \notin Dirs
  BY FatAssumption DEF DirTops
<1>2. CASE dir = Absent
  <2>1. Parent(g, dir) = Root
    BY <1>2 DEF Parent
  <2> QED BY <2>1, <1>1, <1>2 DEF DirIs
<1>3. CASE dir # Absent
  <2>1. dir \in Dirs
    BY <1>3
  <2>2. Parent(g, dir) = IF Lookup(g, Root, dir) = Absent THEN Absent ELSE Lookup(g, Root, dir).clus
    BY <1>3 DEF Parent, Let
  <2>3. \A x \in E(sec) : Val(sec, x).name = dir <=> x \in Named(f, sec, Root, dir)
    BY <2>1, DirNames DEF Named
  <2>4. DirIs(sec, dir, d) <=> \E x \in Named(f, sec, Root, dir) : d = Val(sec, x).clus
    BY <2>3, <1>3 DEF DirIs, Named
  <2>5. ASSUME NEW x \in Named(f, sec, Root, dir)
        PROVE  /\ Named(f, sec, Root, dir) = {x} /\ Parent(g, dir) = Val(sec, x).clus
               /\ Val(sec, x).clus \in DirTops(sec) /\ Val(sec, x).clus \in Clusters
    <3>1. Named(f, sec, Root, dir) = {x} /\ Lookup(g, Root, dir) = Val(sec, x) /\ Lookup(g, Root, dir) # Absent /\ x \in E(sec)
      BY <1>1, LookupIs
    <3>2. Val(sec, x).name = dir
      BY DEF Named
    <3> QED BY <3>1, <3>2, <2>1, <2>2, DirNames
  <2>6. Named(f, sec, Root, dir) = {} => Parent(g, dir) = Absent
    BY <1>1, <2>2, LookupIs
  <2>7. CASE Named(f, sec, Root, dir) = {}
    BY <2>4, <2>6, <2>7
  <2>8. CASE Named(f, sec, Root, dir) # {}
    <3>1. PICK x : x \in Named(f, sec, Root, dir)
      BY <2>8
    <3> QED BY <3>1, <2>4, <2>5, <1>1
  <2> QED BY <2>7, <2>8
<1> QED BY <1>2, <1>3

\* The directories that can be reached, and the files in them
LEMMA StartsAre ==
    ASSUME NEW H, NEW R, Vol(fat[1], sec, H, R)
    PROVE  /\ Starts = DirTops(sec)
           /\ FileEntries = {x \in E(sec) : ~Val(sec, x).dir}
           /\ \A x : At(x) = Val(sec, x)
<1> DEFINE f == fat[1]
<1>1. Agrees(f, f, sec) /\ Root \in DirTops(sec) /\ DirTops(sec) \subseteq Live(sec)
  BY AgreesSelf, LiveTops DEF DirTops
<1> HIDE DEF f
<1>0. Vol(f, sec, H, R)
  BY DEF f
<1>2. \A x : At(x) = Val(sec, x)
  BY DEF At, Val, IsDir
<1>3. \A n \in Dirs : \A x \in E(sec) : Val(sec, x).name = n <=> x \in Named(f, sec, Root, n)
  BY <1>0, DirNames DEF Named
<1>4. ASSUME NEW n \in Dirs, Lookup(f, Root, n) # Absent PROVE Lookup(f, Root, n).clus \in DirTops(sec)
  <2>1. PICK x \in Named(f, sec, Root, n) : TRUE
    BY <1>0, <1>1, <1>4, LookupIs
  <2>2. x \in E(sec) /\ Val(sec, x).name = n /\ Lookup(f, Root, n) = Val(sec, x)
    BY <1>0, <1>1, <2>1, LookupIs DEF Named
  <2> QED BY <1>0, <2>2, DirNames
<1>5. ASSUME NEW x \in E(sec), Val(sec, x).dir
      PROVE  /\ Val(sec, x).name \in {m \in Dirs : Lookup(f, Root, m) # Absent}
             /\ Lookup(f, Root, Val(sec, x).name).clus = Val(sec, x).clus
  <2>1. Val(sec, x).name \in Dirs
    BY <1>0, <1>5, DirNames
  <2>2. x \in Named(f, sec, Root, Val(sec, x).name)
    BY <1>3, <2>1
  <2>3. Lookup(f, Root, Val(sec, x).name) = Val(sec, x) /\ Lookup(f, Root, Val(sec, x).name) # Absent
    BY <1>0, <1>1, <2>2, LookupIs
  <2> QED BY <2>1, <2>3
<1>6. DirStarts(f) \subseteq DirTops(sec)
  BY <1>1, <1>4 DEF DirStarts
<1>7. DirTops(sec) \subseteq DirStarts(f)
  <2> SUFFICES ASSUME NEW d \in DirTops(sec), d # Root PROVE d \in DirStarts(f)
    BY DEF DirStarts
  <2>1. PICK x \in E(sec) : Val(sec, x).dir /\ d = Val(sec, x).clus
    BY DEF DirTops
  <2>2. /\ Val(sec, x).name \in {m \in Dirs : Lookup(f, Root, m) # Absent}
        /\ Lookup(f, Root, Val(sec, x).name).clus = d
    BY <1>5, <2>1
  <2> QED BY <2>2 DEF DirStarts
<1>8. Starts = DirTops(sec)
  BY <1>6, <1>7 DEF Starts, f
<1>9. \A d \in DirTops(sec) : {x \in Seen(f, d) : At(x).kind = "entry"} = {x \in E(sec) : x[1] \in Owns(f, d)}
  BY <1>0, <1>1, FoundIs
<1>10. \A x \in E(sec) : \E d \in DirTops(sec) : x[1] \in Owns(f, d)
  BY <1>0 DEF Vol, Lies
<1>11. \A x \in E(sec) : At(x).kind = "entry"
  BY <1>2 DEF E
<1>12. \A x : x \in FileEntries <=> x \in E(sec) /\ ~Val(sec, x).dir
  <2> SUFFICES ASSUME NEW x
               PROVE  (\E d \in DirTops(sec) : x \in Seen(f, d) /\ At(x).kind = "entry") <=> x \in E(sec)
    BY <1>2, <1>8 DEF FileEntries, f
  <2> QED BY <1>9, <1>10, <1>11
<1> QED BY <1>2, <1>8, <1>12

-----------------------------------------------------------------------------
(***************************************************************************)
(* What the invariant says of the volume and of the cached sector          *)
(***************************************************************************)
\* No cluster is twice in a chain: it holds as many as it is long.
LEMMA ChainCount == ASSUME NEW f, NEW h, IsTop(f, h) PROVE Cardinality(Owns(f, h)) = Len(Chain(f, h))
<1> DEFINE s == Chain(f, h)
<1>1. Len(s) \in Nat /\ Owns(f, h) = {s[i] : i \in 1 .. Len(s)}
  BY TopFacts
<1>2. \A i, j \in 1 .. Len(s) : s[i] = s[j] => i = j
  BY DEF IsTop, Path
<1> HIDE DEF s
<1> DEFINE m == [i \in 1 .. Len(s) |-> s[i]]
<1>3. m \in Bijection(1 .. Len(s), Owns(f, h))
  <2>1. m \in [1 .. Len(s) -> Owns(f, h)]
    BY <1>1
  <2>2. IsInjective(m)
    BY <1>2 DEF IsInjective
  <2>3. \A t \in Owns(f, h) : \E i \in 1 .. Len(s) : m[i] = t
    BY <1>1
  <2> QED BY <2>1, <2>2, <2>3 DEF Bijection, Injection, Surjection
<1>4. ExistsBijection(1 .. Len(s), Owns(f, h))
  BY <1>3 DEF ExistsBijection
<1> QED BY <1>1, <1>4, FS_CountingElements DEF s

\* The invariant says what Sound says, where no directory is half grown.
LEMMA SoundIs == ASSUME FatInv PROVE AtMostOrphans
<1> DEFINE f == fat[1]
<1>1. Vol(f, sec, Held(op), Raw(op))
  BY DEF FatInv, VolInv
<1> SUFFICES ASSUME ~HalfGrown PROVE Sound
  BY DEF AtMostOrphans
<1>2. Raw(op) = {}
  BY DEF HalfGrown, Raw, Idle, Is
<1>3. Starts = DirTops(sec) /\ FileEntries = {x \in E(sec) : ~Val(sec, x).dir} /\ \A x : At(x) = Val(sec, x)
  BY <1>1, StartsAre
<1> HIDE DEF f
<1>4. \A h \in Live(sec) : Reach(h) = Owns(f, h) /\ IsTop(f, h)
  BY <1>1, LiveTops DEF Reach, Owns, f
<1>5. Reach(Nil) = {} /\ Nil \notin Clusters
  BY NilHas, FatAssumption DEF Reach, Owns
<1>6. \A d \in DirTops(sec) : d \in Live(sec)
  BY <1>1, LiveTops
<1>7. ASSUME NEW x \in E(sec), Val(sec, x).clus # Nil PROVE Val(sec, x).clus \in Live(sec) /\ Val(sec, x).clus \in Clusters
  BY <1>1, <1>7, LiveTops, TopFacts
<1>8. ASSUME NEW d \in DirTops(sec), NEW c \in Reach(d) PROVE f[c] # Free /\ IsDir(c)
  <2>1. c \in Owns(f, d) /\ IsTop(f, d)
    BY <1>4, <1>6
  <2>2. sec[c].kind = "dir"
    BY <1>1, <1>2, <2>1 DEF Vol, DirsOk
  <2> QED BY <2>1, <2>2, TopFacts DEF IsDir
<1>9. ASSUME NEW x \in E(sec), ~Val(sec, x).dir
      PROVE  /\ Cardinality(Reach(Val(sec, x).clus)) = Val(sec, x).size
             /\ \A c \in Reach(Val(sec, x).clus) : f[c] # Free
  <2>1. LeafEntry(f, Val(sec, x))
    BY <1>1, <1>9, DirNames
  <2>2. CASE Val(sec, x).clus = Nil
    BY <2>1, <2>2, <1>5, FS_EmptySet DEF LeafEntry
  <2>3. CASE Val(sec, x).clus # Nil
    <3>1. IsTop(f, Val(sec, x).clus) /\ Reach(Val(sec, x).clus) = Owns(f, Val(sec, x).clus)
      BY <2>3, <1>4, <1>7
    <3> QED BY <3>1, <2>1, <2>3, ChainCount, TopFacts DEF LeafEntry
  <2> QED BY <2>2, <2>3
<1>10. \A h, k \in Live(sec) : h # k => Reach(h) \cap Reach(k) = {}
  BY <1>1, <1>4 DEF Vol, Tops
<1>11. ASSUME NEW x \in E(sec), NEW y \in E(sec), x # y PROVE Reach(Val(sec, x).clus) \cap Reach(Val(sec, y).clus) = {}
  <2>1. CASE Val(sec, x).clus = Nil \/ Val(sec, y).clus = Nil
    BY <2>1, <1>5
  <2>2. CASE Val(sec, x).clus # Nil /\ Val(sec, y).clus # Nil
    <3>1. Val(sec, x).clus # Val(sec, y).clus
      BY <2>2, <1>1, <1>7, <1>11 DEF Vol, NamesOk
    <3> QED BY <3>1, <2>2, <1>7, <1>10
  <2> QED BY <2>1, <2>2
<1>12. ASSUME NEW d \in DirTops(sec), NEW x \in E(sec), ~Val(sec, x).dir PROVE Reach(d) \cap Reach(Val(sec, x).clus) = {}
  <2>1. CASE Val(sec, x).clus = Nil
    BY <2>1, <1>5
  <2>2. CASE Val(sec, x).clus # Nil
    <3>1. d # Val(sec, x).clus
      <4>1. CASE d = Root
        BY <4>1, <1>1 DEF Vol, NamesOk
      <4>2. CASE d # Root
        <5>1. PICK y \in E(sec) : Val(sec, y).dir /\ d = Val(sec, y).clus
          BY <4>2 DEF DirTops
        <5>2. x # y
          BY <5>1, <1>12
        <5> QED BY <5>1, <5>2, <2>2, <1>1, <1>7 DEF Vol, NamesOk
      <4> QED BY <4>1, <4>2
    <3> QED BY <3>1, <2>2, <1>6, <1>7, <1>10
  <2> QED BY <2>1, <2>2
<1> DEFINE own == [c \in Starts \cup {At(x).clus : x \in FileEntries} |-> Reach(c)]
<1>13. (\A d \in Starts : own[d] = Reach(d)) /\ (\A x \in FileEntries : own[At(x).clus] = Reach(At(x).clus))
  OBVIOUS
<1> HIDE DEF own
<1>14. \A d \in Starts : \A c \in own[d] : fat[1][c] # Free /\ IsDir(c)
  BY <1>3, <1>8, <1>13 DEF f
<1>15. \A x \in FileEntries :
          Cardinality(own[At(x).clus]) = At(x).size /\ \A c \in own[At(x).clus] : fat[1][c] # Free
  BY <1>3, <1>9, <1>13 DEF f
<1>16. \A d, e \in Starts : d # e => own[d] \cap own[e] = {}
  BY <1>3, <1>6, <1>10, <1>13
<1>17. \A x, y \in FileEntries : x # y => own[At(x).clus] \cap own[At(y).clus] = {}
  BY <1>3, <1>11, <1>13
<1>18. \A d \in Starts, x \in FileEntries : own[d] \cap own[At(x).clus] = {}
  BY <1>3, <1>12, <1>13
<1> QED BY <1>14, <1>15, <1>16, <1>17, <1>18 DEF Sound, own

LEMMA ContentsSame == ASSUME NEW f, NEW g, NEW x, Chain(f, x.clus) = Chain(g, x.clus) PROVE Contents(f, x) = Contents(g, x)
  BY DEF Contents, Let

\* A FAT with the live chains shows the files there are.
LEMMA ReadsSame ==
    ASSUME NEW f, NEW g, NEW H, NEW R, Vol(f, sec, H, R), Agrees(f, g, sec), NEW p \in Paths
    PROVE  ReadFile(g, p) = ReadFile(f, p)
<1>1. Agrees(f, f, sec) /\ p.dir \in Dirs \cup {Absent}
  BY AgreesSelf, FatAssumption
<1>2. \A d : DirIs(sec, p.dir, d) => d \in DirTops(sec)
  BY <1>1, ParentFound
<1>3. \A d : (Parent(g, p.dir) = d /\ d # Absent) <=> (Parent(f, p.dir) = d /\ d # Absent)
  <2>1. \A d : DirIs(sec, p.dir, d) <=> (Parent(g, p.dir) = d /\ d # Absent)
    BY <1>1, ParentFound
  <2>2. \A d : DirIs(sec, p.dir, d) <=> (Parent(f, p.dir) = d /\ d # Absent)
    BY <1>1, ParentFound
  <2> QED BY <2>1, <2>2
<1>4. Parent(g, p.dir) = Parent(f, p.dir)
  BY <1>3
<1>5. CASE Parent(f, p.dir) = Absent
  BY <1>4, <1>5 DEF ReadFile, Let
<1>6. CASE Parent(f, p.dir) # Absent
  <2> DEFINE d == Parent(f, p.dir)
  <2>1. d \in DirTops(sec)
    <3>1. DirIs(sec, p.dir, d)
      BY <1>1, <1>6, ParentFound
    <3> QED BY <3>1, <1>2
  <2> HIDE DEF d
  <2>2. /\ Lookup(g, d, p.leaf) = Absent <=> Lookup(f, d, p.leaf) = Absent
        /\ \A x \in Named(f, sec, d, p.leaf) : Lookup(g, d, p.leaf) = Val(sec, x) /\ Lookup(f, d, p.leaf) = Val(sec, x) /\ x \in E(sec)
        /\ Named(f, sec, d, p.leaf) = {} <=> Lookup(f, d, p.leaf) = Absent
    BY <1>1, <2>1, LookupIs
  <2>3. Lookup(g, d, p.leaf) = Lookup(f, d, p.leaf)
    BY <2>2
  <2>4. ReadFile(f, p) = IF Lookup(f, d, p.leaf) = Absent THEN Absent ELSE Contents(f, Lookup(f, d, p.leaf))
    BY <1>6 DEF ReadFile, Let, d
  <2>5. ReadFile(g, p) = IF Lookup(g, d, p.leaf) = Absent THEN Absent ELSE Contents(g, Lookup(g, d, p.leaf))
    BY <1>4, <1>6 DEF ReadFile, Let, d
  <2>6. ASSUME Lookup(f, d, p.leaf) # Absent PROVE Chain(g, Lookup(f, d, p.leaf).clus) = Chain(f, Lookup(f, d, p.leaf).clus)
    <3>1. PICK x \in E(sec) : Lookup(f, d, p.leaf) = Val(sec, x)
      BY <2>2, <2>6
    <3>2. CASE Val(sec, x).clus = Nil
      BY <3>1, <3>2, NilHas
    <3>3. CASE Val(sec, x).clus # Nil
      BY <3>1, <3>3, LiveTops DEF Agrees
    <3> QED BY <3>2, <3>3
  <2> QED BY <2>3, <2>4, <2>5, <2>6, ContentsSame
<1> QED BY <1>5, <1>6

LEMMA CacheHarmlessIs == ASSUME FatInv PROVE CacheHarmless
<1>1. Vol(fat[1], sec, Held(op), Raw(op)) /\ Cache(fat[1], sec, Held(op), fatbuf)
  BY DEF FatInv, VolInv, CacheInv
<1>2. Agrees(fat[1], Cached, sec)
  BY <1>1, CachedIs
<1> QED BY <1>1, <1>2, ReadsSame DEF CacheHarmless

-----------------------------------------------------------------------------
(***************************************************************************)
(* Calls begin, fail, lose power and return                                *)
(***************************************************************************)
CallOp(call, pc, old) ==
    [call |-> call, pc |-> pc, first |-> Nil, prev |-> Nil, k |-> 0, use |-> "file",
     c |-> Nil, at |-> Nil, val |-> Nil, copy |-> 0, then |-> "", todo |-> Nil, freed |-> 0,
     after |-> "ok", io |-> FALSE, applied |-> FALSE, old |-> old]

\* Only the running call moves on; it holds no more than it did.
LEMMA CallMoves ==
    ASSUME FatInv, num_fats' = num_fats, fat' \in [1 .. num_fats -> Fats], fat'[1] = fat[1], sec' = sec,
           fatbuf' = fatbuf \/ fatbuf' = Cached \/ fatbuf' = NoCache,
           fsinfo' \in Nat, free_count' \in Nat, answer' \in {"none", "ok", "err"}, faults' \in Nat,
           op' \in Ops \cup {NoCall}, Held(op') \subseteq Held(op), Raw(op') = Raw(op),
           op' # NoCall => Fresh(fatbuf', op') /\ OpInv(fat[1], sec, op')
    PROVE  FatInv'
<1>1. FatTypes /\ Vol(fat[1], sec, Held(op), Raw(op)) /\ Cache(fat[1], sec, Held(op), fatbuf)
  BY DEF FatInv, VolInv, CacheInv
<1>2. fat[1] \in Fats
  BY <1>1 DEF FatTypes
<1>3. FatTypes'
  BY <1>1, <1>2 DEF FatTypes, Cached
<1>4. VolInv'
  BY <1>1, VolShrink DEF VolInv
<1>5. Cache(fat[1], sec, Held(op'), fatbuf')
  BY <1>1 DEF Cache, Cached
<1>6. CacheInv'
  BY <1>5 DEF CacheInv
<1>7. CallInv'
  BY <1>3 DEF CallInv, OpInv, FatTypes
<1> QED BY <1>3, <1>4, <1>6, <1>7 DEF FatInv

\* What an idle volume is.
LEMMA IdleIs ==
    ASSUME FatInv, Idle
    PROVE  /\ Held(op) = {} /\ Raw(op) = {} /\ Vol(fat[1], sec, {}, {}) /\ Agrees(fat[1], Cached, sec) /\ FatTypes
           /\ Root \in DirTops(sec)
<1>1. Held(op) = {} /\ Raw(op) = {}
  BY DEF Idle, Held, Raw
<1>2. Vol(fat[1], sec, {}, {}) /\ Cache(fat[1], sec, {}, fatbuf) /\ FatTypes
  BY <1>1 DEF FatInv, VolInv, CacheInv
<1> QED BY <1>1, <1>2, CachedIs DEF DirTops

\* A call begins: what it has found holds.
LEMMA BeginsWell ==
    ASSUME FatInv, NEW call \in Calls, NEW pc \in {"find", "entry", "unlink"}, NEW old \in Clusters \cup {Nil}, Begin(call, pc, old),
           NEW d \in DirTops(sec), ParentIs(sec, call, d),
           LET o == CallOp(call, pc, old) IN
               Target(fat[1], sec, o, d) /\ AtUnlink(fat[1], sec, o, d) /\ AtMaking(fat[1], sec, o, d)
               /\ AtFind(fat[1], sec, o, d) /\ AtPut(fat[1], sec, o, d)
    PROVE  FatInv'
<1> DEFINE o == CallOp(call, pc, old)
<1>1. op' = o /\ Idle /\ UNCHANGED <<num_fats, fat, sec, fsinfo, fatbuf, free_count, faults>> /\ answer' = "none"
  BY DEF Begin, CallOp, disk
<1>2. o \in Ops
  <2>1. Nil \in Clusters \cup {Nil} /\ Nil \in Numbers /\ 0 \in 0..2 /\ 0 \in Nat /\ FALSE \in BOOLEAN
        /\ pc \in {"find", "set", "flush", "data", "dots", "entry", "zero", "unlink", "free", "ret"}
    BY DEF Numbers
  <2> QED BY <2>1 DEF CallOp, Ops
<1>3. /\ o.pc = pc /\ o.call = call /\ o.applied = FALSE /\ o.then = "" /\ o.first = Nil /\ o.use = "file"
  BY DEF CallOp
<1> HIDE DEF o
<1>4. Held(o) = {} /\ Raw(o) = {} /\ o # NoCall
  BY <1>2, <1>3, FatAssumption DEF Held, HeldFirst, HeldC, HeldTodo, Raw, Freeing, Linking
<1>5. Held(op) = {} /\ Raw(op) = {} /\ FatTypes /\ d \in Clusters
  BY <1>1, IdleIs, LiveTops, TopFacts
<1>6. Works(fat[1], sec, o, d)
  <2>1. d \in DirTops(sec) /\ ParentIs(sec, o.call, d) /\ ~o.applied
    BY <1>3
  <2>2. Target(fat[1], sec, o, d) /\ AtUnlink(fat[1], sec, o, d) /\ AtMaking(fat[1], sec, o, d)
        /\ AtFind(fat[1], sec, o, d) /\ AtPut(fat[1], sec, o, d)
    BY DEF o
  <2>3. AtTake(fat[1], sec, o, d) /\ AtLink(fat[1], sec, o, d) /\ AtGrow(fat[1], sec, o, d)
        /\ AtFlush(fat[1], sec, o, d) /\ AtData(fat[1], sec, o, d) /\ AtDots(fat[1], sec, o, d) /\ AtZero(fat[1], sec, o, d)
    BY <1>3 DEF AtTake, AtLink, AtGrow, AtFlush, AtData, AtDots, AtZero
  <2> QED BY <2>1, <2>2, <2>3 DEF Works
<1>7. OpInv(fat[1], sec, o)
  BY <1>3, <1>5, <1>6 DEF OpInv, Freeing, Working
<1>8. Fresh(fatbuf, o)
  BY <1>3 DEF Fresh, Linking
<1>9. fat' \in [1 .. num_fats -> Fats] /\ fsinfo' \in Nat /\ free_count' \in Nat /\ faults' \in Nat
  BY <1>1, <1>5 DEF FatTypes
<1> QED BY <1>1, <1>2, <1>4, <1>5, <1>7, <1>8, <1>9, CallMoves

LEMMA BeginWrite == ASSUME FatInv, NEW p \in Paths, NEW v \in Data, fat32_write_file(p, v) PROVE FatInv'
<1> DEFINE d == Parent(Cached, p.dir)
           call == [do |-> "write", path |-> p, v |-> v]
           old == IF Lookup(Cached, d, p.leaf) = Absent THEN Nil ELSE Lookup(Cached, d, p.leaf).clus
           pc == IF Blocks[v] > 0 THEN "find" ELSE "entry"
           o == CallOp(call, pc, old)
<1>1. d # Absent /\ Begin(call, pc, old) /\ Idle
  BY DEF fat32_write_file, Begin
<1>2. call \in Calls /\ p.dir \in Dirs \cup {Absent} /\ Blocks[v] \in Nat
  BY FatAssumption DEF Calls
<1>3. Vol(fat[1], sec, {}, {}) /\ Agrees(fat[1], Cached, sec)
  BY <1>1, IdleIs
<1>4. DirIs(sec, p.dir, d) /\ d \in DirTops(sec)
  BY <1>1, <1>2, <1>3, ParentFound
<1> HIDE DEF d
<1>5. /\ Named(fat[1], sec, d, p.leaf) = {} => old = Nil
      /\ \A x \in Named(fat[1], sec, d, p.leaf) : Val(sec, x).clus = old
      /\ old \in Clusters \cup {Nil}
  BY <1>3, <1>4, LookupIs DEF Entries
<1>6. o.call = call /\ o.pc = pc /\ o.first = Nil /\ o.k = 0 /\ o.use = "file" /\ o.old = old /\ LeafOf(o.call) = p.leaf
      /\ o.call.do = "write" /\ o.call.v = v /\ pc \in {"find", "entry"}
  BY DEF CallOp, LeafOf
<1>7. ParentIs(sec, call, d)
  BY <1>4 DEF ParentIs
<1> HIDE DEF o, old
<1>8. Target(fat[1], sec, o, d) /\ AtUnlink(fat[1], sec, o, d) /\ AtMaking(fat[1], sec, o, d)
  BY <1>5, <1>6 DEF Target, AtUnlink, AtMaking
<1>9. AtFind(fat[1], sec, o, d)
  BY <1>2, <1>6 DEF AtFind, Asks, Writing
<1>10. AtPut(fat[1], sec, o, d)
  BY <1>2, <1>6 DEF AtPut, Ready
<1> HIDE DEF call, pc
<1>11. pc \in {"find", "entry", "unlink"}
  BY <1>6
<1> QED BY <1>1, <1>2, <1>4, <1>5, <1>7, <1>8, <1>9, <1>10, <1>11, BeginsWell DEF o

LEMMA BeginDelete == ASSUME FatInv, NEW p \in Paths, fat32_delete(p) PROVE FatInv'
<1> DEFINE d == Parent(Cached, p.dir)
           call == [do |-> "delete", path |-> p]
           old == Lookup(Cached, d, p.leaf).clus
           o == CallOp(call, "unlink", old)
<1>1. d # Absent /\ Begin(call, "unlink", old) /\ Idle /\ Lookup(Cached, d, p.leaf) # Absent
  BY DEF fat32_delete, Begin
<1>2. call \in Calls /\ p.dir \in Dirs \cup {Absent}
  BY FatAssumption DEF Calls
<1>3. Vol(fat[1], sec, {}, {}) /\ Agrees(fat[1], Cached, sec)
  BY <1>1, IdleIs
<1>4. DirIs(sec, p.dir, d) /\ d \in DirTops(sec)
  BY <1>1, <1>2, <1>3, ParentFound
<1> HIDE DEF d
<1>5. /\ Named(fat[1], sec, d, p.leaf) # {}
      /\ \A x \in Named(fat[1], sec, d, p.leaf) : Val(sec, x).clus = old
      /\ old \in Clusters \cup {Nil}
  BY <1>1, <1>3, <1>4, LookupIs DEF Entries
<1>6. o.call = call /\ o.pc = "unlink" /\ o.first = Nil /\ o.old = old /\ LeafOf(o.call) = p.leaf /\ o.call.do = "delete"
  BY DEF CallOp, LeafOf
<1>7. ParentIs(sec, call, d)
  BY <1>4 DEF ParentIs
<1> HIDE DEF o, old
<1>8. Target(fat[1], sec, o, d) /\ AtUnlink(fat[1], sec, o, d) /\ AtMaking(fat[1], sec, o, d)
      /\ AtFind(fat[1], sec, o, d) /\ AtPut(fat[1], sec, o, d)
  BY <1>5, <1>6 DEF Target, AtUnlink, AtMaking, AtFind, AtPut
<1> HIDE DEF call
<1>9. "unlink" \in {"find", "entry", "unlink"}
  OBVIOUS
<1> QED BY <1>1, <1>2, <1>4, <1>5, <1>7, <1>8, <1>9, BeginsWell DEF o

LEMMA BeginMkdir == ASSUME FatInv, NEW n \in Dirs, fat32_mkdir(n) PROVE FatInv'
<1> DEFINE call == [do |-> "mkdir", path |-> n]
           o == CallOp(call, "find", Nil)
<1>1. Begin(call, "find", Nil) /\ Idle /\ Lookup(Cached, Root, n) = Absent
  BY DEF fat32_mkdir, Begin
<1>2. call \in Calls
  BY DEF Calls
<1>3. Vol(fat[1], sec, {}, {}) /\ Agrees(fat[1], Cached, sec) /\ Root \in DirTops(sec)
  BY <1>1, IdleIs
<1>4. Named(fat[1], sec, Root, n) = {}
  BY <1>1, <1>3, LookupIs
<1>5. o.call = call /\ o.pc = "find" /\ o.first = Nil /\ o.old = Nil /\ LeafOf(o.call) = n /\ o.call.do = "mkdir" /\ o.use = "file"
  BY DEF CallOp, LeafOf
<1>6. ParentIs(sec, call, Root)
  BY DEF ParentIs
<1> HIDE DEF o
<1>7. Target(fat[1], sec, o, Root) /\ AtUnlink(fat[1], sec, o, Root) /\ AtMaking(fat[1], sec, o, Root)
      /\ AtFind(fat[1], sec, o, Root) /\ AtPut(fat[1], sec, o, Root)
  BY <1>4, <1>5 DEF Target, AtUnlink, AtMaking, AtFind, AtPut, Asks, MakingDir
<1> HIDE DEF call
<1>8. "find" \in {"find", "entry", "unlink"} /\ Nil \in Clusters \cup {Nil}
  OBVIOUS
<1> QED BY <1>1, <1>2, <1>3, <1>6, <1>7, <1>8, BeginsWell DEF o

LEMMA BeginRmdir == ASSUME FatInv, NEW n \in Dirs, fat32_rmdir(n) PROVE FatInv'
<1> DEFINE call == [do |-> "rmdir", path |-> n]
           old == Lookup(Cached, Root, n).clus
           o == CallOp(call, "unlink", old)
<1>1. Begin(call, "unlink", old) /\ Idle /\ Lookup(Cached, Root, n) # Absent /\ dir_is_empty(old)
  BY DEF fat32_rmdir, Begin
<1>2. call \in Calls
  BY DEF Calls
<1>3. Vol(fat[1], sec, {}, {}) /\ Agrees(fat[1], Cached, sec) /\ Root \in DirTops(sec)
  BY <1>1, IdleIs
<1>4. PICK x \in Named(fat[1], sec, Root, n) : Lookup(Cached, Root, n) = Val(sec, x) /\ x \in E(sec) /\ Named(fat[1], sec, Root, n) = {x}
  BY <1>1, <1>3, LookupIs
<1>5. Val(sec, x).clus = old /\ old \in DirTops(sec) /\ old \in Clusters
  BY <1>3, <1>4, DirNames DEF Named
<1>6. \A y \in E(sec) : y[1] \notin Owns(fat[1], old)
  BY <1>1, <1>3, <1>5, FoundIs DEF dir_is_empty
<1>7. o.call = call /\ o.pc = "unlink" /\ o.first = Nil /\ o.old = old /\ LeafOf(o.call) = n /\ o.call.do = "rmdir"
  BY DEF CallOp, LeafOf
<1>8. ParentIs(sec, call, Root)
  BY DEF ParentIs
<1> HIDE DEF o, old
<1>9. Target(fat[1], sec, o, Root) /\ AtUnlink(fat[1], sec, o, Root) /\ AtMaking(fat[1], sec, o, Root)
      /\ AtFind(fat[1], sec, o, Root) /\ AtPut(fat[1], sec, o, Root)
  BY <1>4, <1>5, <1>6, <1>7 DEF Target, AtUnlink, AtMaking, AtFind, AtPut
<1> HIDE DEF call
<1>10. "unlink" \in {"find", "entry", "unlink"} /\ old \in Clusters \cup {Nil}
  BY <1>5
<1> QED BY <1>1, <1>2, <1>3, <1>8, <1>9, <1>10, BeginsWell DEF o

-----------------------------------------------------------------------------
(***************************************************************************)
(* The place of the running call                                           *)
(***************************************************************************)
\* The parts of a step, put together.
LEMMA StepIs ==
    ASSUME FatInv, num_fats' = num_fats, fat' \in [1 .. num_fats -> Fats], sec' \in Medium,
           fatbuf' = NoCache \/ fatbuf' \in Fats,
           fsinfo' \in Nat, free_count' \in Nat, answer' \in {"none", "ok", "err"}, faults' \in Nat,
           op' \in Ops \cup {NoCall}, Vol(fat'[1], sec', Held(op'), Raw(op')),
           Cache(fat'[1], sec', Held(op'), fatbuf'),
           op' # NoCall => Fresh(fatbuf', op') /\ OpInv(fat'[1], sec', op')
    PROVE  FatInv'
<1>1. FatTypes'
  BY DEF FatInv, FatTypes
<1>2. VolInv'
  BY DEF VolInv
<1>3. CacheInv'
  BY DEF CacheInv
<1>4. CallInv'
  BY DEF CallInv, OpInv
<1> QED BY <1>1, <1>2, <1>3, <1>4 DEF FatInv

\* What the invariant says of a running call.
LEMMA RunIs ==
    ASSUME FatInv, op # NoCall
    PROVE  /\ op \in Ops /\ Vol(fat[1], sec, Held(op), Raw(op)) /\ Cache(fat[1], sec, Held(op), fatbuf)
           /\ Fresh(fatbuf, op) /\ OpInv(fat[1], sec, op) /\ FatTypes /\ fat[1] \in Fats /\ sec \in Medium
           /\ Held(op) \subseteq Clusters
           /\ \A h \in Live(sec) \cup Held(op) : /\ IsTop(Cached, h) /\ Chain(Cached, h) = Chain(fat[1], h)
                                                 /\ \A c \in Owns(fat[1], h) : Cached[c] = fat[1][c]
           /\ Agrees(fat[1], Cached, sec)
<1>1. FatTypes /\ Vol(fat[1], sec, Held(op), Raw(op)) /\ Cache(fat[1], sec, Held(op), fatbuf)
      /\ Fresh(fatbuf, op) /\ OpInv(fat[1], sec, op)
  BY DEF FatInv, VolInv, CacheInv, CallInv
<1>2. op \in Ops /\ fat[1] \in Fats /\ sec \in Medium
  BY <1>1 DEF FatTypes
<1>3. Held(op) \subseteq Clusters
  BY <1>1 DEF Vol, VolTypes
<1> QED BY <1>1, <1>2, <1>3, CachedIs

\* The fields of a call
LEMMA OpFields ==
    ASSUME NEW o \in Ops
    PROVE  /\ o # NoCall /\ o.call \in Calls /\ o.k \in Nat /\ o.freed \in Nat /\ o.copy \in 0 .. 2
           /\ o.first \in Clusters \cup {Nil} /\ o.prev \in Clusters \cup {Nil} /\ o.old \in Clusters \cup {Nil}
           /\ o.c \in Numbers /\ o.at \in Numbers /\ o.val \in Numbers /\ o.todo \in Numbers
           /\ o.after \in {"ok", "err", "undo"} /\ o.use \in {"file", "dir", "grow"}
           /\ o.then \in {"", "flush", "data", "zero", "free"} /\ o.applied \in BOOLEAN /\ o.io \in BOOLEAN
           /\ o.pc \in {"find", "set", "flush", "data", "dots", "entry", "zero", "unlink", "free", "ret"}
<1>1. o # NoCall
  BY FatAssumption
<1> QED BY <1>1 DEF Ops

LEMMA RetIs ==
    ASSUME NEW o \in Ops, NEW a \in {"ok", "err"}, a = "ok" => o.applied
    PROVE  /\ Ret(o, a) \in Ops /\ Held(Ret(o, a)) = {} /\ Raw(Ret(o, a)) = {}
           /\ \A f, S : OpInv(f, S, Ret(o, a))
           /\ \A b : Fresh(b, Ret(o, a))
<1> DEFINE q == Ret(o, a)
<1>1. q \in Ops /\ q.pc = "ret" /\ q.after = a /\ q.applied = o.applied
  <2>1. q = [o EXCEPT !.pc = "ret", !.after = a]
    BY DEF Ret
  <2>2. q.pc = "ret" /\ q.after = a /\ q.applied = o.applied
    BY <2>1 DEF Ops
  <2>3. "ret" \in {"find", "set", "flush", "data", "dots", "entry", "zero", "unlink", "free", "ret"}
    OBVIOUS
  <2>4. a \in {"ok", "err", "undo"}
    OBVIOUS
  <2>5. q \in Ops
    <3> DEFINE r == [o EXCEPT !.pc = "ret"]
    <3>1. r \in Ops
      BY <2>3 DEF Ops
    <3>2. q = [r EXCEPT !.after = a]
      BY <2>1 DEF Ops
    <3> HIDE DEF r, q
    <3> QED BY <2>4, <3>1, <3>2 DEF Ops
  <2> QED BY <2>2, <2>5
<1> HIDE DEF q
<1>2. Held(q) = {} /\ Raw(q) = {}
  BY <1>1 DEF Held, HeldFirst, HeldC, HeldTodo, Freeing, Linking, Raw
<1>3. Returns(q) /\ ~Working(q) /\ ~Freeing(q)
  BY <1>1 DEF Returns, Working, Freeing
<1>4. \A f, S : OpInv(f, S, q)
  BY <1>1, <1>3 DEF OpInv
<1>5. \A b : Fresh(b, q)
  BY <1>1 DEF Fresh, Linking
<1> QED BY <1>1, <1>2, <1>4, <1>5 DEF q

LEMMA FreeChainIs ==
    ASSUME NEW o \in Ops, NEW c \in Clusters, NEW a \in {"ok", "err", "undo"}, a = "ok" => o.applied,
           a = "undo" => ~o.applied /\ o.first # c
    PROVE  /\ FreeChain(o, c, a) \in Ops /\ Raw(FreeChain(o, c, a)) = {}
           /\ Held(FreeChain(o, c, a)) = {c} \cup (IF a = "undo" THEN {o.first} \cap Clusters ELSE {})
           /\ \A f, S : OpInv(f, S, FreeChain(o, c, a))
           /\ \A b : Fresh(b, FreeChain(o, c, a))
<1> DEFINE q == FreeChain(o, c, a)
<1>1. q \in Ops /\ q.pc = "free" /\ q.after = a /\ q.applied = o.applied /\ q.todo = c /\ q.first = o.first
  <2>1. c \in Numbers /\ 0 \in Nat
    BY DEF Numbers
  <2>2. q = [o EXCEPT !.pc = "free", !.todo = c, !.freed = 0, !.after = a]
    BY DEF FreeChain
  <2>3. q.pc = "free" /\ q.after = a /\ q.applied = o.applied /\ q.todo = c /\ q.first = o.first
    BY <2>2 DEF Ops
  <2>4. "free" \in {"find", "set", "flush", "data", "dots", "entry", "zero", "unlink", "free", "ret"}
    OBVIOUS
  <2>5. a \in {"ok", "err", "undo"}
    OBVIOUS
  <2>6. q \in Ops
    <3> DEFINE r == [o EXCEPT !.pc = "free", !.todo = c]
    <3>1. r \in Ops
      BY <2>1, <2>4 DEF Ops
    <3>2. q = [r EXCEPT !.freed = 0, !.after = a]
      BY <2>2 DEF Ops
    <3> HIDE DEF r, q
    <3> QED BY <2>1, <2>5, <3>1, <3>2 DEF Ops
  <2> QED BY <2>3, <2>6
<1> HIDE DEF q
<1>2. Freeing(q) /\ ~Working(q) /\ TodoOf(q) = c /\ q # NoCall /\ HeldC(q) = {} /\ HeldTodo(q) = {c}
  BY <1>1, OpFields DEF Freeing, Working, TodoOf, HeldC, HeldTodo, Linking
<1>3. HeldFirst(q) = IF a = "undo" THEN {o.first} \cap Clusters ELSE {}
  BY <1>1, <1>2 DEF HeldFirst
<1>4. Held(q) = {c} \cup (IF a = "undo" THEN {o.first} \cap Clusters ELSE {}) /\ Raw(q) = {}
  BY <1>1, <1>2, <1>3 DEF Held, Raw
<1>5. \A f : Frees(f, q)
  BY <1>1, <1>2 DEF Frees
<1>6. \A f, S : OpInv(f, S, q)
  BY <1>1, <1>2, <1>5 DEF OpInv
<1>7. \A b : Fresh(b, q)
  BY <1>1 DEF Fresh, Linking
<1> QED BY <1>1, <1>4, <1>6, <1>7 DEF q

\* The error paths hold no more than the call did.
LEMMA UndoIs ==
    ASSUME NEW o \in Ops, o.pc # "ret", ~o.applied, Freeing(o) => o.after = "undo"
    PROVE  /\ Undo(o) \in Ops /\ Held(Undo(o)) \subseteq Held(o) /\ Raw(Undo(o)) = {}
           /\ \A f, S : OpInv(f, S, Undo(o))
           /\ \A b : Fresh(b, Undo(o))
<1>1. CASE o.first \in Clusters
  <2>1. Undo(o) = FreeChain(o, o.first, "err")
    BY <1>1 DEF Undo, Valid
  <2>2. o.first \in Held(o)
    BY <1>1, OpFields DEF Held, HeldFirst
  <2> QED BY <1>1, <2>1, <2>2, FreeChainIs
<1>2. CASE o.first \notin Clusters
  BY <1>2, RetIs DEF Undo, Valid
<1> QED BY <1>1, <1>2

LEMMA FreedIs ==
    ASSUME NEW o \in Ops, NEW f, Freeing(o), Frees(f, o), NEW ok \in BOOLEAN
    PROVE  /\ Freed(o, ok) \in Ops /\ Held(Freed(o, ok)) \subseteq Held(o) /\ Raw(Freed(o, ok)) = {}
           /\ \A g, S : OpInv(g, S, Freed(o, ok))
           /\ \A b : Fresh(b, Freed(o, ok))
<1>0. o.pc # "ret"
  BY DEF Freeing
<1>1. CASE o.after = "undo"
  BY <1>0, <1>1, UndoIs DEF Freed, Frees
<1>2. CASE o.after # "undo"
  <2> DEFINE a == IF ok /\ ~o.io THEN o.after ELSE "err"
  <2>1. a \in {"ok", "err"} /\ (a = "ok" => o.applied)
    BY <1>2, OpFields DEF Frees
  <2>2. Freed(o, ok) = Ret(o, a)
    BY <1>2 DEF Freed
  <2> QED BY <2>1, <2>2, RetIs
<1> QED BY <1>1, <1>2

-----------------------------------------------------------------------------
\* What stays while a new chain is made.
Base(f, S, o, d) ==
    d \in DirTops(S) /\ ParentIs(S, o.call, d) /\ ~o.applied /\ Target(f, S, o, d) /\ AtMaking(f, S, o, d)

LEMMA BaseFrame ==
    ASSUME NEW f, NEW g, NEW S, NEW T, NEW o, NEW q, NEW d, Base(f, S, o, d), SameEntries(S, T),
           \A x \in E(S) : x[1] \in Owns(g, d) <=> x[1] \in Owns(f, d),
           q.call = o.call, q.old = o.old, q.applied = o.applied, o.pc # "unlink"
    PROVE  Base(g, T, q, d) /\ \A n : Named(g, T, d, n) = Named(f, S, d, n)
<1>1. E(T) = E(S) /\ (\A x \in E(S) : Val(T, x) = Val(S, x)) /\ DirTops(T) = DirTops(S)
  BY SameLive DEF SameEntries
<1>2. \A n : Named(g, T, d, n) = Named(f, S, d, n)
  BY <1>1 DEF Named
<1>3. ParentIs(T, q.call, d)
  BY <1>1 DEF Base, ParentIs, DirIs
<1>4. Target(g, T, q, d)
  <2>1. \A x \in Named(f, S, d, LeafOf(o.call)) : Val(T, x) = Val(S, x)
    BY <1>1 DEF Named
  <2> QED BY <1>2, <2>1 DEF Base, Target
<1>5. AtMaking(g, T, q, d)
  BY <1>2 DEF Base, AtMaking
<1> QED BY <1>1, <1>2, <1>3, <1>4, <1>5 DEF Base

LEMMA WorksBase ==
    ASSUME NEW f, NEW S, NEW o, NEW d, Works(f, S, o, d)
    PROVE  Base(f, S, o, d)
BY DEF Works, Base

\* The new chain and its sectors stay.
LEMMA ReadyFrame ==
    ASSUME NEW f, NEW g, NEW S, NEW T, NEW o, NEW q, q.call = o.call, q.first = o.first, q.k = o.k,
           o.first \in Clusters \cup {Nil}, o.k \in Nat, o.call \in Calls,
           o.first \in Clusters => /\ IsTop(f, o.first) /\ Chain(g, o.first) = Chain(f, o.first)
                                   /\ \A c \in Owns(f, o.first) : T[c] = S[c]
    PROVE  /\ Ready(f, S, o) => Ready(g, T, q)
           /\ Writing(f, S, o) /\ q.use = o.use /\ q.prev = o.prev => Writing(g, T, q)
           /\ Extended(f, S, o) /\ q.use = o.use /\ q.c = o.c => Extended(g, T, q)
<1> DEFINE ch == Chain(f, o.first)
<1>1. ASSUME o.first \in Clusters, NEW n \in Nat, n <= Len(ch), Built(f, S, o, n) PROVE Built(g, T, q, n)
  <2>1. \A i \in 1 .. n : ch[i] \in Owns(f, o.first)
    BY <1>1, TopFacts
  <2>2. \A i \in 1 .. n : T[ch[i]] = S[ch[i]]
    BY <1>1, <2>1
  <2>3. \A i \in 1 .. n : S[ch[i]] = Block(o.call.v, i)
    BY <1>1 DEF Built
  <2>4. Chain(g, q.first) = ch
    BY <1>1
  <2> HIDE DEF ch
  <2> QED BY <2>2, <2>3, <2>4 DEF Built
<1>2. o.first \in Clusters => Len(ch) \in Nat /\ o.first \in Owns(f, o.first) /\ Chain(g, q.first) = ch
  BY TopFacts
<1>3. Nil \notin Clusters
  BY FatAssumption
<1>4. o.call.do = "write" => Blocks[o.call.v] \in Nat
  BY FatAssumption DEF Calls
<1>5. ASSUME Ready(f, S, o) PROVE Ready(g, T, q)
  <2>1. CASE o.call.do = "write" /\ o.first = Nil
    BY <1>5, <2>1 DEF Ready
  <2>2. CASE o.call.do = "write" /\ o.first # Nil
    <3>1. o.first \in Clusters /\ Len(ch) = o.k /\ Built(f, S, o, o.k) /\ o.k = Blocks[o.call.v]
      BY <1>5, <2>2 DEF Ready
    <3>2. Built(g, T, q, o.k)
      BY <1>1, <3>1
    <3> QED BY <1>2, <2>2, <3>1, <3>2 DEF Ready
  <2>3. CASE o.call.do # "write"
    <3>1. o.call.do = "mkdir" /\ o.first \in Clusters /\ ch = <<o.first>> /\ S[o.first] = Dots
      BY <1>5, <2>3 DEF Ready
    <3> QED BY <1>2, <3>1 DEF Ready
  <2> QED BY <2>1, <2>2, <2>3
<1>6. ASSUME Writing(f, S, o), q.use = o.use, q.prev = o.prev PROVE Writing(g, T, q)
  <2>1. CASE o.k = 0
    BY <1>6, <2>1 DEF Writing
  <2>2. CASE o.k # 0
    <3>1. /\ o.use = "file" /\ o.call.do = "write" /\ o.k < Blocks[o.call.v]
          /\ o.first \in Clusters /\ Len(ch) = o.k /\ o.prev = Last(ch) /\ Built(f, S, o, o.k)
      BY <1>6, <2>2 DEF Writing
    <3>2. Built(g, T, q, o.k)
      BY <1>1, <3>1
    <3> HIDE DEF ch
    <3> QED BY <1>2, <1>6, <2>2, <3>1, <3>2 DEF Writing
  <2> QED BY <2>1, <2>2
<1>7. ASSUME Extended(f, S, o), q.use = o.use, q.c = o.c PROVE Extended(g, T, q)
  <2>1. /\ o.use = "file" /\ o.call.do = "write" /\ o.k < Blocks[o.call.v]
        /\ o.first \in Clusters /\ Len(ch) = o.k + 1 /\ o.c = Last(ch) /\ Built(f, S, o, o.k)
    BY <1>7 DEF Extended
  <2>2. Built(g, T, q, o.k)
    BY <1>1, <2>1
  <2> HIDE DEF ch
  <2> QED BY <1>2, <1>7, <2>1, <2>2 DEF Extended
<1> QED BY <1>5, <1>6, <1>7

-----------------------------------------------------------------------------
(***************************************************************************)
(* fat32_find_free_cluster and fat32_free_chain call fat_set_next          *)
(***************************************************************************)
\* fat_set_next has been called for the entry c, at its first copy.
IsSet(q, o, c, v, then) ==
    /\ q \in Ops /\ q.pc = "set" /\ q.at = c /\ q.val = v /\ q.copy = 1 /\ q.then = then
    /\ q.call = o.call /\ q.first = o.first /\ q.prev = o.prev /\ q.old = o.old /\ q.k = o.k /\ q.use = o.use
    /\ q.c = o.c /\ q.todo = o.todo /\ q.freed = o.freed /\ q.after = o.after /\ q.applied = o.applied

LEMMA SetNextIs ==
    ASSUME NEW o \in Ops, NEW c \in Numbers, NEW v \in Numbers, NEW then \in {"flush", "data", "zero", "free"}
    PROVE  IsSet(SetNext(o, c, v, then), o, c, v, then)
<1> DEFINE q == SetNext(o, c, v, then)
<1>1. q = [o EXCEPT !.pc = "set", !.at = c, !.val = v, !.copy = 1, !.then = then]
  BY DEF SetNext
<1>2. then \in {"", "flush", "data", "zero", "free"}
  OBVIOUS
<1>2a. "set" \in {"find", "set", "flush", "data", "dots", "entry", "zero", "unlink", "free", "ret"}
  OBVIOUS
<1>2b. 1 \in 0..2
  OBVIOUS
<1>3. q \in Ops
  <2> DEFINE r == [o EXCEPT !.pc = "set", !.at = c, !.val = v]
  <2>1. r \in Ops
    BY <1>2a DEF Ops
  <2>2. q = [r EXCEPT !.copy = 1, !.then = then]
    BY <1>1 DEF Ops
  <2> HIDE DEF r
  <2> DEFINE p == [r EXCEPT !.copy = 1]
  <2>3. p \in Ops
    BY <1>2b, <2>1 DEF Ops
  <2>4. q = [p EXCEPT !.then = then]
    BY <2>1, <2>2 DEF Ops
  <2> HIDE DEF p, q
  <2> QED BY <1>2, <2>3, <2>4 DEF Ops
<1>4. /\ q.pc = "set" /\ q.at = c /\ q.val = v /\ q.copy = 1 /\ q.then = then
      /\ q.call = o.call /\ q.first = o.first /\ q.prev = o.prev /\ q.old = o.old /\ q.k = o.k /\ q.use = o.use
      /\ q.c = o.c /\ q.todo = o.todo /\ q.freed = o.freed /\ q.after = o.after /\ q.applied = o.applied
  BY <1>1 DEF Ops
<1> QED BY <1>3, <1>4 DEF IsSet

\* A call at work: its directory, and what of Works a step to another place needs.
LEMMA AtWork ==
    ASSUME NEW f, NEW S, NEW o \in Ops, OpInv(f, S, o), o.pc \notin {"ret", "free"}, o.pc = "set" => o.then # "free"
    PROVE  \E d \in Clusters : Works(f, S, o, d) /\ Base(f, S, o, d)
<1>1. Working(o)
  BY DEF Working, Freeing
<1> QED BY <1>1, WorksBase DEF OpInv

\* What a call at one of its places has to show.
LEMMA AtPlace ==
    ASSUME NEW f, NEW S, NEW o \in Ops, NEW d \in Clusters, Base(f, S, o, d), o.pc \notin {"unlink", "ret", "free"},
           o.pc = "find" => Asks(f, S, o, d),
           o.pc = "set" => /\ o.copy \in 1 .. num_fats /\ o.then \in {"flush", "data", "zero"}
                           /\ AtTake(f, S, o, d) /\ AtLink(f, S, o, d) /\ AtGrow(f, S, o, d),
           o.pc = "flush" => AtFlush(f, S, o, d), o.pc = "data" => Extended(f, S, o),
           o.pc = "dots" => AtDots(f, S, o, d), o.pc = "entry" => Ready(f, S, o), o.pc = "zero" => AtZero(f, S, o, d)
    PROVE  OpInv(f, S, o) /\ Works(f, S, o, d)
<1>1. Works(f, S, o, d)
  <2>1. AtUnlink(f, S, o, d) /\ AtFind(f, S, o, d) /\ AtData(f, S, o, d) /\ AtPut(f, S, o, d)
    BY DEF AtUnlink, AtFind, AtData, AtPut
  <2>2. AtTake(f, S, o, d) /\ AtLink(f, S, o, d) /\ AtGrow(f, S, o, d)
    BY DEF AtTake, AtLink, AtGrow
  <2>3. AtFlush(f, S, o, d) /\ AtDots(f, S, o, d) /\ AtZero(f, S, o, d)
    BY DEF AtFlush, AtDots, AtZero
  <2> QED BY <2>1, <2>2, <2>3 DEF Works, Base
<1>2. ~Freeing(o) /\ Working(o)
  BY DEF Freeing, Working
<1> QED BY <1>1, <1>2 DEF OpInv

LEMMA SameIs == ASSUME NEW S PROVE SameEntries(S, S)
BY DEF SameEntries

\* fat_alloc_cluster finds a cluster that is in no chain.
LEMMA FindTakes ==
    ASSUME FatInv, FindCluster, NEW c \in Clusters, fat_next(c) = Free,
           op' = SetNext([op EXCEPT !.c = c, !.use = IF op.call.do = "mkdir" /\ op.first = Nil THEN "dir" ELSE @], c, Eoc, "flush")
    PROVE  FatInv'
<1> DEFINE u == IF op.call.do = "mkdir" /\ op.first = Nil THEN "dir" ELSE op.use
           p == [op EXCEPT !.c = c, !.use = u]
           q == SetNext(p, c, Eoc, "flush")
<1>1. op # NoCall /\ op.pc = "find" /\ fatbuf' = Cached /\ UNCHANGED <<num_fats, fat, sec, fsinfo, free_count, answer, faults>>
  BY DEF FindCluster, Is, Idle, disk
<1>2. /\ op \in Ops /\ Vol(fat[1], sec, Held(op), Raw(op)) /\ OpInv(fat[1], sec, op) /\ FatTypes
      /\ \A h \in Live(sec) \cup Held(op) : \A x \in Owns(fat[1], h) : Cached[x] = fat[1][x]
  BY <1>1, RunIs
<1>3. PICK d \in Clusters : Works(fat[1], sec, op, d) /\ Base(fat[1], sec, op, d)
  BY <1>1, <1>2, AtWork
<1>4. Asks(fat[1], sec, op, d)
  BY <1>1, <1>3 DEF Works, AtFind
<1>5. op' = q
  BY <1>2 DEF Ops
<1>6. c \in Numbers /\ Eoc \in Numbers
  BY DEF Numbers
<1>7. u \in {"file", "dir", "grow"}
  BY <1>2, OpFields
<1>7a. u = IF op.call.do = "mkdir" /\ op.first = Nil THEN "dir" ELSE op.use
  OBVIOUS
<1>8. /\ p \in Ops /\ p.c = c /\ p.use = u /\ p.pc = "find" /\ p.call = op.call /\ p.first = op.first /\ p.prev = op.prev
      /\ p.old = op.old /\ p.k = op.k /\ p.applied = op.applied /\ p.after = op.after /\ p.todo = op.todo
  <2>0. p = [op EXCEPT !.c = c, !.use = u]
    OBVIOUS
  <2> HIDE DEF u
  <2>1. p \in Ops
    BY <1>2, <1>6, <1>7, <2>0 DEF Ops
  <2>2. /\ p.c = c /\ p.use = u /\ p.pc = "find" /\ p.call = op.call /\ p.first = op.first /\ p.prev = op.prev
        /\ p.old = op.old /\ p.k = op.k /\ p.applied = op.applied /\ p.after = op.after /\ p.todo = op.todo
    BY <1>1, <1>2, <2>0 DEF Ops
  <2> QED BY <2>1, <2>2
<1> HIDE DEF p, u
<1>9. /\ q \in Ops /\ q.pc = "set" /\ q.at = c /\ q.val = Eoc /\ q.copy = 1 /\ q.then = "flush"
      /\ q.call = op.call /\ q.first = op.first /\ q.prev = op.prev /\ q.old = op.old /\ q.k = op.k /\ q.use = u
      /\ q.c = c /\ q.applied = op.applied
  <2>1. "flush" \in {"flush", "data", "zero", "free"}
    OBVIOUS
  <2>2. p \in Ops
    BY <1>8
  <2>3. IsSet(SetNext(p, c, Eoc, "flush"), p, c, Eoc, "flush")
    BY <1>6, <2>1, <2>2, SetNextIs
  <2>4. IsSet(q, p, c, Eoc, "flush")
    BY <2>3
  <2> HIDE DEF q
  <2>5. /\ q \in Ops /\ q.pc = "set" /\ q.at = c /\ q.val = Eoc /\ q.copy = 1 /\ q.then = "flush"
        /\ q.call = p.call /\ q.first = p.first /\ q.prev = p.prev /\ q.old = p.old /\ q.k = p.k /\ q.use = p.use
        /\ q.c = p.c /\ q.applied = p.applied
    BY <2>4 DEF IsSet
  <2> QED BY <1>8, <2>5
<1> HIDE DEF q
<1>10. Held(q) = Held(op) /\ Raw(q) = Raw(op) /\ q # NoCall
  <2>1. HeldFirst(q) = HeldFirst(op)
    BY <1>1, <1>9 DEF HeldFirst, Freeing
  <2>2. HeldC(q) = {} /\ HeldC(op) = {} /\ HeldTodo(q) = {} /\ HeldTodo(op) = {}
    BY <1>1, <1>9 DEF HeldC, HeldTodo, Freeing, Linking
  <2>3. q # NoCall /\ op # NoCall
    BY <1>2, <1>9, OpFields
  <2> QED BY <1>1, <1>9, <2>1, <2>2, <2>3 DEF Held, Raw
<1>11. Base(fat[1], sec, q, d)
  BY <1>1, <1>3, <1>9, SameIs, BaseFrame
<1>12. Asks(fat[1], sec, q, d)
  <2>1. CASE Writing(fat[1], sec, op)
    <3>1. q.use = op.use
      BY <2>1, <1>7a, <1>9 DEF Writing
    <3> QED BY <2>1, <3>1, <1>9 DEF Asks, Writing, Built
  <2>2. CASE Growing(fat[1], sec, op, d)
    <3>1. q.use = op.use
      BY <2>2, <1>7a, <1>9, FatAssumption DEF Growing, Ready
    <3> QED BY <2>2, <3>1, <1>9 DEF Asks, Growing, Ready, Built
  <2>3. CASE MakingDir(op)
    BY <2>3, <1>7a, <1>9 DEF Asks, MakingDir
  <2> QED BY <1>4, <2>1, <2>2, <2>3 DEF Asks
<1>13. \A h \in Live(sec) \cup Held(op) : c \notin Owns(fat[1], h)
  <2>1. \A h \in Live(sec) \cup Held(op) : \A x \in Owns(fat[1], h) : fat[1][x] # Free
    BY <1>2, LiveTops, TopFacts
  <2> QED BY <1>2, <2>1 DEF fat_next
<1>14. AtTake(fat[1], sec, q, d) /\ AtLink(fat[1], sec, q, d) /\ AtGrow(fat[1], sec, q, d)
  BY <1>9, <1>10, <1>12, <1>13 DEF AtTake, AtLink, AtGrow
<1>15. 1 \in 1 .. num_fats
  BY <1>2 DEF FatTypes
<1>16. OpInv(fat[1], sec, q)
  BY <1>9, <1>11, <1>14, <1>15, AtPlace
<1>17. Fresh(fatbuf', q)
  BY <1>9 DEF Fresh, Linking
<1> QED BY <1>1, <1>2, <1>5, <1>9, <1>10, <1>16, <1>17, CallMoves DEF FatTypes

LEMMA FindKeeps == ASSUME FatInv, FindCluster PROVE FatInv'
<1>1. CASE \E c \in Clusters :
              /\ fat_next(c) = Free
              /\ op' = SetNext([op EXCEPT !.c = c, !.use = IF op.call.do = "mkdir" /\ op.first = Nil THEN "dir" ELSE @], c, Eoc, "flush")
  BY <1>1, FindTakes
<1>2. CASE op' = Undo(op)
  <2>1. op # NoCall /\ op.pc = "find" /\ fatbuf' = Cached /\ UNCHANGED <<num_fats, fat, sec, fsinfo, free_count, answer, faults>>
    BY DEF FindCluster, Is, Idle, disk
  <2>2. op \in Ops /\ OpInv(fat[1], sec, op) /\ FatTypes
    BY <2>1, RunIs
  <2>3. ~op.applied /\ Raw(op) = {} /\ op.pc # "ret" /\ ~Freeing(op)
    BY <2>1, <2>2, AtWork DEF Base, Raw, Freeing
  <2>4. Undo(op) \in Ops /\ Held(Undo(op)) \subseteq Held(op) /\ Raw(Undo(op)) = {}
        /\ OpInv(fat[1], sec, Undo(op)) /\ Fresh(fatbuf', Undo(op))
    BY <2>2, <2>3, UndoIs
  <2> QED BY <1>2, <2>1, <2>2, <2>3, <2>4, CallMoves DEF FatTypes
<1> QED BY <1>1, <1>2 DEF FindCluster

LEMMA ReturnKeeps == ASSUME FatInv, Return PROVE FatInv'
<1>1. op # NoCall /\ op.pc = "ret" /\ op' = NoCall /\ answer' = op.after
      /\ UNCHANGED <<num_fats, fat, sec, fsinfo, fatbuf, free_count, faults>>
  BY DEF Return, Is, Idle, disk
<1>2. op \in Ops /\ OpInv(fat[1], sec, op) /\ FatTypes
  BY <1>1, RunIs
<1>3. op.after \in {"ok", "err"}
  BY <1>1, <1>2, OpFields DEF OpInv, Returns
<1>4. Held(op') = {} /\ Raw(op') = {} /\ Raw(op) = {}
  BY <1>1 DEF Held, Raw
<1> QED BY <1>1, <1>2, <1>3, <1>4, CallMoves DEF FatTypes

\* The step is no fault in the growth of a directory.
Spares == ~GrowthFaults \/ faults' = 0

\* No fault finds a directory half grown.
LEMMA FaultIs == ASSUME FatInv, Spares, Fault PROVE Raw(op) = {} /\ faults' \in Nat
<1>1. faults' = faults + 1 /\ faults \in Nat
  BY DEF Fault, FatInv, FatTypes
<1>2. ~HalfGrown
  <2>1. faults' # 0
    BY <1>1
  <2> QED BY <2>1 DEF Fault, Spares
<1>3. Raw(op) = {}
  BY <1>2 DEF HalfGrown, Raw, Idle, Is
<1> QED BY <1>1, <1>3

LEMMA PowerLossKeeps == ASSUME FatInv, Spares, PowerLoss PROVE FatInv'
<1>1. /\ Raw(op) = {} /\ faults' \in Nat /\ op' = NoCall /\ fatbuf' = NoCache /\ free_count' = MountedCount /\ answer' = "none"
      /\ UNCHANGED <<num_fats, fat, sec, fsinfo>> /\ FatTypes
  BY FaultIs DEF PowerLoss, disk, FatInv
<1>2. Held(op') = {} /\ Raw(op') = {}
  BY <1>1 DEF Held, Raw
<1>3. free_count' \in Nat
  <2>1. Cardinality(FreeClusters) \in Nat
    BY FatAssumption, FS_Subset, FS_CardinalityType DEF FreeClusters
  <2> QED BY <1>1, <2>1 DEF MountedCount, FatTypes
<1> QED BY <1>1, <1>2, <1>3, CallMoves DEF FatTypes

LEMMA WriteFailsKeeps == ASSUME FatInv, Spares, WriteFails PROVE FatInv'
<1>1. /\ Raw(op) = {} /\ faults' \in Nat /\ op # NoCall /\ op.pc \in {"set", "data", "dots", "entry", "zero", "unlink"}
      /\ UNCHANGED <<num_fats, fat, sec, fsinfo, fatbuf, free_count, answer>>
  BY FaultIs DEF WriteFails, disk, Idle
<1>2. op \in Ops /\ OpInv(fat[1], sec, op) /\ FatTypes /\ Held(op) \subseteq Clusters
  BY <1>1, RunIs
<1>3. SUFFICES op' \in Ops /\ Held(op') \subseteq Held(op) /\ Raw(op') = {} /\ OpInv(fat[1], sec, op') /\ Fresh(fatbuf, op')
  BY <1>1, <1>2, <1>3, CallMoves DEF FatTypes
<1>4. CASE op.pc = "set" /\ op.then = "free"
  <2>1. op' = Freed(op, FALSE)
    BY <1>4 DEF WriteFails
  <2>2. Freeing(op) /\ Frees(fat[1], op)
    BY <1>2, <1>4 DEF Freeing, OpInv
  <2> QED BY <1>2, <2>1, <2>2, FreedIs
<1>5. CASE ~(op.pc = "set" /\ op.then = "free")
  <2>1. PICK d \in Clusters : Works(fat[1], sec, op, d)
    BY <1>1, <1>2, <1>5, AtWork
  <2>2. ~op.applied /\ ~Freeing(op)
    BY <1>1, <1>5, <2>1 DEF Works, Freeing
  <2>3. CASE op.pc = "set" /\ op.then = "zero"
    <3>1. op' = FreeChain(op, op.c, "undo")
      BY <2>3 DEF WriteFails
    <3>2. op.copy = 1 /\ op.c # op.first
      <4>1. op.use = "grow" /\ (op.copy = 1 => op.c # op.first)
        BY <2>1, <2>3 DEF Works, AtGrow
      <4>2. ~(op.copy > 1)
        BY <1>1, <2>3, <4>1 DEF Raw
      <4>3. op.copy \in 1 .. num_fats /\ op.copy \in 0 .. 2
        BY <1>2, <2>3, OpFields DEF OpInv
      <4>4. op.copy = 1
        BY <4>2, <4>3
      <4> QED BY <4>1, <4>4
    <3>3. op.c \in Held(op) /\ op.c \in Clusters
      BY <1>1, <1>2, <2>3, <3>2 DEF Held, HeldC, Linking
    <3>4. {op.first} \cap Clusters \subseteq Held(op)
      BY <1>1, <2>2 DEF Held, HeldFirst
    <3> QED BY <1>2, <2>2, <3>1, <3>2, <3>3, <3>4, FreeChainIs
  <2>4. CASE op.pc = "unlink"
    <3>1. op' = Ret(op, "err")
      BY <2>4 DEF WriteFails
    <3> QED BY <1>2, <3>1, RetIs
  <2>5. CASE ~(op.pc = "set" /\ op.then = "zero") /\ op.pc # "unlink"
    <3>1. op' = Undo(op)
      BY <1>5, <2>5 DEF WriteFails
    <3> QED BY <1>1, <1>2, <2>2, <3>1, UndoIs
  <2> QED BY <2>3, <2>4, <2>5
<1> QED BY <1>4, <1>5

LEMMA ReadFailsKeeps == ASSUME FatInv, Spares, op # NoCall, ReadFails PROVE FatInv'
<1> DEFINE o == [op EXCEPT !.io = TRUE]
<1>1. /\ Raw(op) = {} /\ faults' \in Nat /\ op.pc \in {"find", "free", "entry"}
      /\ op' = IF op.pc = "free" THEN Freed(o, FALSE) ELSE Undo(o)
      /\ UNCHANGED <<num_fats, fat, sec, fsinfo, fatbuf, free_count, answer>>
  BY FaultIs DEF ReadFails, disk
<1>2. op \in Ops /\ OpInv(fat[1], sec, op) /\ FatTypes
  BY RunIs
<1>3. /\ o \in Ops /\ o.pc = op.pc /\ o.after = op.after /\ o.applied = op.applied /\ o.first = op.first /\ o.todo = op.todo
      /\ o.c = op.c /\ o.then = op.then /\ o.copy = op.copy /\ o.at = op.at /\ o.val = op.val
  BY <1>2 DEF Ops
<1> HIDE DEF o
<1>4. Held(o) = Held(op) /\ (Freeing(o) <=> Freeing(op)) /\ (Freeing(op) /\ Frees(fat[1], op) => Frees(fat[1], o))
  <2>1. TodoOf(o) = TodoOf(op) /\ (Freeing(o) <=> Freeing(op)) /\ (Linking(o) <=> Linking(op))
    BY <1>3 DEF TodoOf, Freeing, Linking
  <2>2. HeldFirst(o) = HeldFirst(op) /\ HeldC(o) = HeldC(op) /\ HeldTodo(o) = HeldTodo(op)
    BY <1>3, <2>1 DEF HeldFirst, HeldC, HeldTodo
  <2>3. Frees(fat[1], op) => Frees(fat[1], o)
    BY <1>3, <2>1 DEF Frees
  <2> QED BY <1>2, <1>3, <2>1, <2>2, <2>3, OpFields DEF Held
<1>5. SUFFICES op' \in Ops /\ Held(op') \subseteq Held(op) /\ Raw(op') = {} /\ OpInv(fat[1], sec, op') /\ Fresh(fatbuf, op')
  BY <1>1, <1>2, <1>5, CallMoves DEF FatTypes
<1>6. CASE op.pc = "free"
  <2>1. Freeing(op) /\ Frees(fat[1], op)
    BY <1>2, <1>6 DEF Freeing, OpInv
  <2> QED BY <1>1, <1>3, <1>4, <1>6, <2>1, FreedIs
<1>7. CASE op.pc # "free"
  <2>1. ~op.applied /\ ~Freeing(op)
    BY <1>1, <1>2, <1>7, AtWork DEF Base, Freeing
  <2> QED BY <1>1, <1>3, <1>4, <1>7, <2>1, UndoIs
<1> QED BY <1>6, <1>7

-----------------------------------------------------------------------------
(***************************************************************************)
(* A call asks for an entry of the FAT                                     *)
(***************************************************************************)
\* A call asks for the entry c to be set.
LEMMA SetNextMoves ==
    ASSUME NEW o \in Ops, NEW c \in Numbers, NEW v \in Numbers, NEW then \in {"flush", "data", "zero", "free"},
           NEW q, q = SetNext(o, c, v, then)
    PROVE  IsSet(q, o, c, v, then)
<1>1. IsSet(SetNext(o, c, v, then), o, c, v, then)
  BY SetNextIs
<1> QED BY <1>1

\* An entry of the chain being freed is read: it is set to free next.
LEMMA FreeKeeps == ASSUME FatInv, Spares, fat_free_chain PROVE FatInv'
<1>1. op # NoCall /\ op.pc = "free" /\ UNCHANGED <<num_fats, fat, sec, answer>>
  BY DEF fat_free_chain, Is, Idle
<1>2. /\ op \in Ops /\ Vol(fat[1], sec, Held(op), Raw(op)) /\ OpInv(fat[1], sec, op) /\ FatTypes
      /\ \A h \in Live(sec) \cup Held(op) : \A x \in Owns(fat[1], h) : Cached[x] = fat[1][x]
      /\ fat[1] \in Fats
  BY <1>1, RunIs
<1>3. Freeing(op) /\ Frees(fat[1], op) /\ Raw(op) = {} /\ TodoOf(op) = op.todo /\ ~Linking(op)
  BY <1>1, <1>2 DEF Freeing, OpInv, Raw, TodoOf, Linking
<1>4. ASSUME NEW ok \in BOOLEAN, op' = Freed(op, ok), fatbuf' = fatbuf, fsinfo' \in Nat, free_count' \in Nat, faults' \in Nat
      PROVE  FatInv'
  <2>1. op' \in Ops /\ Held(op') \subseteq Held(op) /\ Raw(op') = {} /\ OpInv(fat[1], sec, op') /\ Fresh(fatbuf', op')
    BY <1>2, <1>3, <1>4, FreedIs
  <2> QED BY <1>1, <1>2, <1>3, <1>4, <2>1, CallMoves DEF FatTypes
<1>5. CASE Valid(op.todo) /\ op.io /\ op' = Freed(op, FALSE) /\ UNCHANGED <<fsinfo, free_count, fatbuf, faults>>
  BY <1>2, <1>4, <1>5 DEF FatTypes
<1>6. CASE /\ Valid(op.todo) => ~op.io /\ fat_next(op.todo) = Free
           /\ op' = Freed(op, TRUE)
           /\ UNCHANGED fatbuf
           /\ free_count' = free_count + op.freed
           /\ IF op.freed > 0 THEN Flush(free_count') ELSE UNCHANGED <<fsinfo, faults>>
  <2>1. free_count' \in Nat
    <3>1. free_count \in Nat /\ op.freed \in Nat
      BY <1>2, OpFields DEF FatTypes
    <3> QED BY <1>6, <3>1
  <2>2. fsinfo' \in Nat /\ faults' \in Nat
    <3>1. fsinfo \in Nat /\ faults \in Nat
      BY <1>2 DEF FatTypes
    <3>2. UNCHANGED <<fsinfo, faults>> \/ (fsinfo' = free_count' /\ faults' = faults) \/ (Fault /\ fsinfo' = fsinfo)
      BY <1>6 DEF Flush
    <3> QED BY <2>1, <3>1, <3>2, FaultIs
  <2> QED BY <1>4, <1>6, <2>1, <2>2
<1>7. CASE /\ Valid(op.todo) /\ ~op.io /\ fat_next(op.todo) # Free
           /\ op' = SetNext([op EXCEPT !.c = fat_next(op.todo)], op.todo, Free, "free")
           /\ fatbuf' = Cached
           /\ UNCHANGED <<fsinfo, free_count, faults>>
  <2> DEFINE n == fat_next(op.todo)
             p == [op EXCEPT !.c = n]
  <2>1. op.todo \in Clusters /\ op.todo \in Held(op) /\ HeldTodo(op) = {op.todo}
    BY <1>1, <1>3, <1>7 DEF Valid, Held, HeldTodo
  <2>2. n = fat[1][op.todo]
    <3>1. op.todo \in Owns(fat[1], op.todo)
      BY <1>2, <2>1, LiveTops, TopFacts
    <3> QED BY <1>2, <2>1, <3>1 DEF fat_next
  <2>3. n \in Numbers /\ op.todo \in Numbers /\ Free \in Numbers
    BY <1>2, <2>1, <2>2 DEF Fats, Numbers
  <2> HIDE DEF n
  <2>4. /\ p \in Ops /\ p.c = n /\ p.first = op.first /\ p.applied = op.applied /\ p.todo = op.todo /\ p.after = op.after
    BY <1>2, <2>3 DEF Ops
  <2>5. op' = SetNext(p, op.todo, Free, "free")
    BY <1>7 DEF n
  <2> HIDE DEF p
  <2>6. IsSet(op', p, op.todo, Free, "free")
    <3>1. "free" \in {"flush", "data", "zero", "free"}
      OBVIOUS
    <3> QED BY <2>3, <2>4, <2>5, <3>1, SetNextMoves
  <2>7. /\ op' \in Ops /\ op'.pc = "set" /\ op'.at = op.todo /\ op'.val = Free /\ op'.copy = 1 /\ op'.then = "free"
        /\ op'.c = n /\ op'.first = op.first /\ op'.applied = op.applied /\ op'.todo = op.todo /\ op'.after = op.after
    BY <2>4, <2>6 DEF IsSet
  <2>8. Freeing(op') /\ ~Working(op') /\ TodoOf(op') = op.todo /\ ~Linking(op') /\ op' # NoCall
    <3>1. op' # NoCall
      BY <2>7, OpFields
    <3>2. Freeing(op')
      BY <2>7 DEF Freeing
    <3>3. TodoOf(op') = op.todo /\ ~Linking(op')
      BY <2>7 DEF TodoOf, Linking
    <3> QED BY <3>1, <3>2, <3>3 DEF Working
  <2>9. Held(op') = Held(op) /\ Raw(op') = {}
    <3>1. HeldFirst(op') = HeldFirst(op) /\ HeldC(op') = {} /\ HeldC(op) = {} /\ HeldTodo(op') = HeldTodo(op)
      BY <1>1, <1>3, <2>7, <2>8 DEF HeldFirst, HeldC, HeldTodo
    <3> QED BY <1>1, <2>7, <2>8, <3>1 DEF Held, Raw
  <2>10. Frees(fat[1], op')
    BY <1>3, <2>1, <2>2, <2>7, <2>8 DEF Frees
  <2>11. op'.copy \in 1 .. num_fats
    BY <1>2, <2>7 DEF FatTypes
  <2>12. OpInv(fat[1], sec, op')
    BY <2>7, <2>8, <2>10, <2>11 DEF OpInv
  <2>13. Fresh(fatbuf', op')
    BY <2>7, <2>8 DEF Fresh
  <2> QED BY <1>1, <1>2, <1>3, <1>7, <2>7, <2>9, <2>12, <2>13, CallMoves DEF FatTypes
<1> QED BY <1>5, <1>6, <1>7 DEF fat_free_chain

\* The cluster is taken: whoever asked for it goes on.
LEMMA TakenKeeps == ASSUME FatInv, Spares, Taken PROVE FatInv'
<1>1. /\ op # NoCall /\ op.pc = "flush" /\ UNCHANGED <<num_fats, fat, sec, fatbuf, answer>>
      /\ free_count' = IF free_count > 0 THEN free_count - 1 ELSE 0
      /\ Flush(free_count')
      /\ op' = IF op.use = "dir" THEN [op EXCEPT !.pc = "dots", !.first = op.c]
               ELSE IF op.use = "grow" THEN SetNext(op, op.prev, op.c, "zero")
               ELSE IF op.k = 0 THEN [op EXCEPT !.pc = "data", !.first = op.c]
               ELSE SetNext(op, op.prev, op.c, "data")
  BY DEF Taken, Is, Idle
<1>2. /\ op \in Ops /\ Vol(fat[1], sec, Held(op), Raw(op)) /\ OpInv(fat[1], sec, op) /\ FatTypes
      /\ Held(op) \subseteq Clusters /\ Fresh(fatbuf, op) /\ fat[1] \in Fats
  BY <1>1, RunIs
<1>3. PICK d \in Clusters : Works(fat[1], sec, op, d) /\ Base(fat[1], sec, op, d)
  BY <1>1, <1>2, AtWork
<1>4. Asks(fat[1], sec, op, d) /\ fat[1][op.c] = Eoc /\ op.c # op.first /\ ~op.applied
  BY <1>1, <1>3 DEF Works, AtFlush
<1>5. Held(op) = HeldFirst(op) \cup {op.c} /\ HeldFirst(op) = {op.first} \cap Clusters /\ Raw(op) = {} /\ ~Freeing(op) /\ op.c \in Clusters
  <2>1. HeldC(op) = {op.c} /\ HeldTodo(op) = {} /\ ~Freeing(op)
    BY <1>1 DEF HeldC, HeldTodo, Freeing
  <2>2. HeldFirst(op) = {op.first} \cap Clusters /\ Raw(op) = {}
    BY <1>1, <1>4, <2>1 DEF HeldFirst, Raw
  <2> QED BY <1>1, <1>2, <2>1, <2>2 DEF Held
<1>6. free_count' \in Nat /\ fsinfo' \in Nat /\ faults' \in Nat
  <2>1. free_count \in Nat /\ fsinfo \in Nat /\ faults \in Nat
    BY <1>2 DEF FatTypes
  <2>2. free_count' \in Nat
    BY <1>1, <2>1
  <2>3. (fsinfo' = free_count' /\ faults' = faults) \/ (Fault /\ fsinfo' = fsinfo)
    BY <1>1 DEF Flush
  <2> QED BY <2>1, <2>2, <2>3, FaultIs
<1>7. fatbuf = NoCache
  BY <1>1, <1>2 DEF Fresh
<1>8. ASSUME op' \in Ops, Held(op') = Held(op), Raw(op') = {}, OpInv(fat[1], sec, op') PROVE FatInv'
  <2>1. Fresh(fatbuf', op')
    BY <1>1, <1>7 DEF Fresh
  <2> QED BY <1>1, <1>2, <1>5, <1>6, <1>8, <2>1, CallMoves DEF FatTypes
<1>9. Chain(fat[1], op.c) = <<op.c>>
  BY <1>4, <1>5, ChainOne
<1>10. op.c \in Numbers /\ op.prev \in Numbers
  BY <1>2, OpFields DEF Numbers
<1>11. \A q \in Ops : q.call = op.call /\ q.old = op.old /\ q.applied = op.applied => Base(fat[1], sec, q, d)
  BY <1>1, <1>3, SameIs, BaseFrame
<1>12. 1 \in 1 .. num_fats
  BY <1>2 DEF FatTypes
<1>13. CASE op.use = "dir"
  <2>1. MakingDir(op) /\ op.call.do = "mkdir" /\ op.first = Nil
    BY <1>4, <1>13 DEF Asks, Writing, Growing, MakingDir
  <2>2. op' = [op EXCEPT !.pc = "dots", !.first = op.c]
    BY <1>1, <1>13
  <2>3. /\ op' \in Ops /\ op'.pc = "dots" /\ op'.first = op.c /\ op'.c = op.c /\ op'.call = op.call /\ op'.old = op.old
        /\ op'.applied = op.applied /\ op'.use = op.use
    BY <1>2, <1>5, <2>2 DEF Ops
  <2>4. Held(op') = Held(op) /\ Raw(op') = {}
    <3>1. HeldFirst(op') = {op.c} /\ HeldC(op') = {} /\ HeldTodo(op') = {} /\ Raw(op') = {}
      BY <1>4, <1>5, <2>3 DEF HeldFirst, HeldC, HeldTodo, Freeing, Linking, Raw
    <3>2. HeldFirst(op) = {}
      BY <1>5, <2>1, FatAssumption
    <3> QED BY <1>5, <2>3, <3>1, <3>2, OpFields DEF Held
  <2>5. AtDots(fat[1], sec, op', d)
    BY <1>5, <1>9, <1>13, <2>1, <2>3 DEF AtDots
  <2>6. OpInv(fat[1], sec, op')
    BY <1>11, <2>3, <2>5, AtPlace
  <2> QED BY <1>8, <2>3, <2>4, <2>6
<1>14. CASE op.use = "grow"
  <2>1. Growing(fat[1], sec, op, d)
    BY <1>1, <1>4, <1>14 DEF Asks, Writing, MakingDir
  <2>2. op' = SetNext(op, op.prev, op.c, "zero")
    BY <1>1, <1>14
  <2>3. IsSet(op', op, op.prev, op.c, "zero")
    <3>1. "zero" \in {"flush", "data", "zero", "free"}
      OBVIOUS
    <3> QED BY <1>2, <1>10, <2>2, <3>1, SetNextMoves
  <2>4. /\ op' \in Ops /\ op'.pc = "set" /\ op'.at = op.prev /\ op'.val = op.c /\ op'.copy = 1 /\ op'.then = "zero"
        /\ op'.call = op.call /\ op'.first = op.first /\ op'.prev = op.prev /\ op'.old = op.old /\ op'.k = op.k
        /\ op'.use = "grow" /\ op'.c = op.c /\ op'.applied = op.applied
    BY <1>14, <2>3 DEF IsSet
  <2>5. Held(op') = Held(op) /\ Raw(op') = {}
    <3>1. HeldFirst(op') = {op.first} \cap Clusters /\ HeldC(op') = {op.c} /\ HeldTodo(op') = {} /\ Raw(op') = {}
      BY <1>4, <2>4 DEF HeldFirst, HeldC, HeldTodo, Freeing, Linking, Raw
    <3> QED BY <1>5, <2>4, <3>1, OpFields DEF Held
  <2>6. Growing(fat[1], sec, op', d)
    <3>1. Ready(fat[1], sec, op')
      BY <2>1, <2>4 DEF Growing, Ready, Built
    <3> QED BY <2>1, <2>4, <3>1 DEF Growing
  <2>7. AtTake(fat[1], sec, op', d) /\ AtLink(fat[1], sec, op', d) /\ AtGrow(fat[1], sec, op', d)
    BY <1>4, <2>4, <2>6 DEF AtTake, AtLink, AtGrow
  <2>8. OpInv(fat[1], sec, op')
    BY <1>11, <1>12, <2>4, <2>7, AtPlace
  <2> QED BY <1>8, <2>4, <2>5, <2>8
<1>15. CASE op.use = "file" /\ op.k = 0
  <2>1. Writing(fat[1], sec, op) /\ op.first = Nil /\ op.call.do = "write" /\ op.k < Blocks[op.call.v]
    BY <1>1, <1>4, <1>15 DEF Asks, Writing, Growing, MakingDir
  <2>2. op' = [op EXCEPT !.pc = "data", !.first = op.c]
    BY <1>1, <1>15
  <2>3. /\ op' \in Ops /\ op'.pc = "data" /\ op'.first = op.c /\ op'.c = op.c /\ op'.call = op.call /\ op'.old = op.old
        /\ op'.applied = op.applied /\ op'.use = op.use /\ op'.k = op.k
    BY <1>2, <1>5, <2>2 DEF Ops
  <2>4. Held(op') = Held(op) /\ Raw(op') = {}
    <3>1. HeldFirst(op') = {op.c} /\ HeldC(op') = {} /\ HeldTodo(op') = {} /\ Raw(op') = {}
      BY <1>4, <1>5, <2>3 DEF HeldFirst, HeldC, HeldTodo, Freeing, Linking, Raw
    <3>2. HeldFirst(op) = {}
      BY <1>5, <2>1, FatAssumption
    <3> QED BY <1>5, <2>3, <3>1, <3>2, OpFields DEF Held
  <2>5. Extended(fat[1], sec, op')
    <3>1. Len(<<op.c>>) = 0 + 1 /\ Last(<<op.c>>) = op.c
      BY DEF Last
    <3>2. Built(fat[1], sec, op', 0)
      BY DEF Built
    <3> QED BY <1>5, <1>9, <1>15, <2>1, <2>3, <3>1, <3>2 DEF Extended
  <2>6. OpInv(fat[1], sec, op')
    BY <1>11, <2>3, <2>5, AtPlace
  <2> QED BY <1>8, <2>3, <2>4, <2>6
<1>16. CASE op.use = "file" /\ op.k # 0
  <2>1. Writing(fat[1], sec, op) /\ op.first \in Clusters
    BY <1>1, <1>4, <1>16 DEF Asks, Writing, Growing, MakingDir
  <2>2. op' = SetNext(op, op.prev, op.c, "data")
    BY <1>1, <1>16
  <2>3. IsSet(op', op, op.prev, op.c, "data")
    <3>1. "data" \in {"flush", "data", "zero", "free"}
      OBVIOUS
    <3> QED BY <1>2, <1>10, <2>2, <3>1, SetNextMoves
  <2>4. /\ op' \in Ops /\ op'.pc = "set" /\ op'.at = op.prev /\ op'.val = op.c /\ op'.copy = 1 /\ op'.then = "data"
        /\ op'.call = op.call /\ op'.first = op.first /\ op'.prev = op.prev /\ op'.old = op.old /\ op'.k = op.k
        /\ op'.use = "file" /\ op'.c = op.c /\ op'.applied = op.applied
    BY <1>16, <2>3 DEF IsSet
  <2>5. Held(op') = Held(op) /\ Raw(op') = {}
    <3>1. HeldFirst(op') = {op.first} \cap Clusters /\ HeldC(op') = {op.c} /\ HeldTodo(op') = {} /\ Raw(op') = {}
      BY <1>4, <2>4 DEF HeldFirst, HeldC, HeldTodo, Freeing, Linking, Raw
    <3> QED BY <1>5, <2>4, <3>1, OpFields DEF Held
  <2>6. Writing(fat[1], sec, op')
    BY <1>16, <2>1, <2>4 DEF Writing, Built
  <2>7. AtTake(fat[1], sec, op', d) /\ AtLink(fat[1], sec, op', d) /\ AtGrow(fat[1], sec, op', d)
    BY <1>4, <2>1, <2>4, <2>6 DEF AtTake, AtLink, AtGrow
  <2>8. OpInv(fat[1], sec, op')
    BY <1>11, <1>12, <2>4, <2>7, AtPlace
  <2> QED BY <1>8, <2>4, <2>5, <2>8
<1> QED BY <1>2, <1>13, <1>14, <1>15, <1>16, OpFields

-----------------------------------------------------------------------------
(***************************************************************************)
(* A directory grows                                                       *)
(***************************************************************************)
(* A directory without a free slot grows by a held cluster. *)
Grown(f, g, S, H, d, c) ==
    /\ Vol(g, S, H \ {c}, {c})
    /\ \A h \in (Live(S) \cup H) \ {d, c} : Chain(g, h) = Chain(f, h) /\ Owns(g, h) = Owns(f, h)
    /\ Chain(g, d) = Append(Chain(f, d), c) /\ Owns(g, d) = Owns(f, d) \cup {c}
    /\ \A x \in E(S) : x[1] # c
LEMMA VolGrow ==
    ASSUME NEW f, NEW S, NEW H, Vol(f, S, H, {}), NEW d \in DirTops(S), NEW c \in H, f[c] = Eoc,
           NEW g, Sets(f, g, Last(Chain(f, d)), c),
           \A x \in Owns(f, d), a \in 1 .. Slots : Val(S, <<x, a>>).kind # "0x00"
    PROVE  Grown(f, g, S, H, d, c)
<1> DEFINE s == Chain(f, d)
           n == Len(s)
           b == Last(s)
<1>1. f \in Fats /\ S \in Medium /\ H \subseteq Clusters /\ Tops(f, S, H) /\ NamesOk(f, S) /\ Lies(f, S, {}) /\ DirsOk(f, S, {})
  BY DEF Vol, VolTypes
<1>2. d \in Live(S) /\ IsTop(f, d) /\ c \notin Live(S) /\ c \in Clusters /\ c # d /\ IsTop(f, c) /\ Owns(f, c) = {c}
  BY <1>1, LiveTops, ChainOne DEF Tops
<1>3. b \in Owns(f, d) /\ n \in Nat /\ n >= 1 /\ s \in Seq(Clusters) /\ Owns(f, d) = {s[i] : i \in 1 .. n}
  BY <1>2, TopFacts
<1>4. \A h \in (Live(S) \cup H) \ {c} : c \notin Owns(f, h)
  BY <1>1, <1>2 DEF Tops
<1>5. ASSUME NEW h \in (Live(S) \cup H) \ {d, c} PROVE IsTop(g, h) /\ Chain(g, h) = Chain(f, h) /\ Owns(g, h) = Owns(f, h)
  <2>1. IsTop(f, h) /\ b \notin Owns(f, h) /\ Owns(f, h) \subseteq Clusters
    BY <1>1, <1>2, <1>3, TopFacts DEF Tops
  <2>2. \A x \in Owns(f, h) : g[x] = f[x]
    BY <2>1 DEF Sets
  <2> QED BY <2>1, <2>2, ChainFrame
<1>6. IsTop(g, d) /\ Chain(g, d) = Append(s, c) /\ Owns(g, d) = Owns(f, d) \cup {c}
  BY <1>1, <1>2, <1>4, ChainAppend
<1> HIDE DEF b, s, n
<1>7. g \in Fats
  BY DEF Sets
<1> DEFINE K == H \ {c}
<1>8. Live(S) \cup K = (Live(S) \cup H) \ {c} /\ Live(S) \cap K = {} /\ K \subseteq Clusters
  BY <1>1, <1>2 DEF Tops
<1>9. \A h \in Live(S) \cup K : IsTop(g, h) /\ Owns(f, h) \subseteq Owns(g, h) /\ Owns(g, h) \subseteq Owns(f, h) \cup (IF h = d THEN {c} ELSE {})
  BY <1>5, <1>6, <1>8
<1>10. \A h, k \in Live(S) \cup K : h # k => Owns(g, h) \cap Owns(g, k) = {}
  BY <1>1, <1>4, <1>8, <1>9 DEF Tops
<1>11. Tops(g, S, K)
  BY <1>8, <1>9, <1>10 DEF Tops
<1>12. \A x \in E(S) : x[1] # c
  BY <1>1, <1>4, LiveTops, <1>2 DEF Lies
<1>13. DirTops(S) \subseteq Live(S) /\ Root \in Live(S)
  BY <1>1, DirsLive
<1>14. NamesOk(g, S)
  <2>1. ASSUME NEW x \in E(S), LeafEntry(f, Val(S, x)) PROVE LeafEntry(g, Val(S, x))
    <3>1. CASE Val(S, x).clus = Nil
      BY <2>1, <3>1 DEF LeafEntry
    <3>2. CASE Val(S, x).clus # Nil
      <4>1. Val(S, x).clus \in Live(S) /\ Val(S, x).clus \in Clusters
        BY <3>2, LiveTops, <1>1, DirsLive
      <4>2. Val(S, x).clus # d
        <5>1. SUFFICES ASSUME Val(S, x).clus = d PROVE FALSE
          OBVIOUS
        <5>2. d # Root
          BY <1>1, <5>1 DEF NamesOk
        <5>3. PICK y \in E(S) : Val(S, y).dir /\ Val(S, y).clus = d
          BY <5>2 DEF DirTops
        <5>4. x = y
          BY <1>1, <4>1, <5>1, <5>3 DEF NamesOk
        <5> QED BY <2>1, <5>3, <5>4 DEF LeafEntry
      <4>3. Chain(g, Val(S, x).clus) = Chain(f, Val(S, x).clus)
        BY <1>2, <1>5, <4>1, <4>2
      <4> QED BY <2>1, <4>3 DEF LeafEntry
    <3> QED BY <3>1, <3>2
  <2>2. \A x \in E(S) : LeafEntry(g, Val(S, x)) \/ (DirEntry(Val(S, x)) /\ x[1] \in Owns(g, Root))
    BY <1>1, <1>8, <1>9, <1>13, <2>1 DEF NamesOk
  <2>3. \A e \in DirTops(S) : \A x \in E(S) : x[1] \in Owns(g, e) => x[1] \in Owns(f, e)
    BY <1>8, <1>9, <1>12, <1>13
  <2> QED BY <1>1, <2>2, <2>3 DEF NamesOk
<1>15. Lies(g, S, {c})
  BY <1>1, <1>8, <1>9, <1>12, <1>13 DEF Lies
<1>16. DirsOk(g, S, {c})
  <2>1. ASSUME NEW e \in DirTops(S), e # d
        PROVE  (\A x \in Owns(g, e) : x \notin {c} => S[x].kind = "dir") /\ TailFree(S, Chain(g, e), {c})
    <3>1. Chain(g, e) = Chain(f, e) /\ Owns(g, e) = Owns(f, e)
      BY <1>2, <1>5, <1>13, <2>1
    <3> QED BY <1>1, <3>1 DEF DirsOk, TailFree
  <2>2. \A x \in Owns(g, d) : x \notin {c} => S[x].kind = "dir"
    BY <1>1, <1>6 DEF DirsOk
  <2>3. TailFree(S, Append(s, c), {c})
    <3> DEFINE t == Append(s, c)
    <3>1. Len(t) = n + 1 /\ (\A i \in 1 .. n : t[i] = s[i]) /\ t[n + 1] = c
      BY <1>3 DEF n
    <3> HIDE DEF t
    <3>2. SUFFICES ASSUME NEW i \in 1 .. Len(t), NEW j \in 1 .. Len(t), NEW a \in 1 .. Slots, NEW z \in 1 .. Slots,
                          Before(i, a, j, z), Val(S, <<t[i], a>>).kind = "0x00", t[j] \notin {c}
                   PROVE  FALSE
      BY DEF TailFree, t
    <3>3. j \in 1 .. n /\ i \in 1 .. n
      BY <1>3, <3>1, <3>2 DEF Before
    <3>4. t[i] \in Owns(f, d)
      BY <1>3, <3>1, <3>3
    <3> QED BY <3>2, <3>4
  <2> QED BY <1>6, <2>1, <2>2, <2>3 DEF DirsOk
<1>17. VolTypes(g, S, K)
  BY <1>1, <1>7, <1>8 DEF VolTypes
<1> QED BY <1>5, <1>6, <1>11, <1>12, <1>14, <1>15, <1>16, <1>17 DEF Vol, s, Grown

-----------------------------------------------------------------------------
(***************************************************************************)
(* fat_set_next: the call while a copy is written                          *)
(***************************************************************************)
LEMMA SetsIs ==
    ASSUME NEW f \in Fats, NEW a \in Clusters, NEW v \in Clusters \cup {Free, Eoc}, NEW g, g = [f EXCEPT ![a] = v]
    PROVE  Sets(f, g, a, v) /\ g \in Fats
BY DEF Sets, Fats

\* The place of a call at fat_set_next: what it holds.
LEMMA SetHolds ==
    ASSUME NEW o \in Ops, o.pc = "set", ~Freeing(o), ~o.applied
    PROVE  /\ HeldFirst(o) = {o.first} \cap Clusters
           /\ Held(o) = ({o.first} \cap Clusters) \cup (IF Linking(o) /\ o.copy = 1 THEN {o.c} ELSE {})
           /\ o.then # "zero" \/ o.use # "grow" \/ ~(o.copy > 1) => Raw(o) = {}
           /\ o.then = "zero" /\ o.use = "grow" /\ o.copy > 1 => Raw(o) = {o.c}
<1>1. HeldFirst(o) = {o.first} \cap Clusters
  BY DEF HeldFirst
<1>2. HeldTodo(o) = {} /\ HeldC(o) = (IF Linking(o) /\ o.copy = 1 THEN {o.c} ELSE {})
  BY DEF HeldTodo, HeldC
<1> QED BY <1>1, <1>2, OpFields DEF Held, Raw

\* q is the same call at another place.
Same(o, q) ==
    /\ q \in Ops /\ q.call = o.call /\ q.first = o.first /\ q.prev = o.prev /\ q.old = o.old /\ q.k = o.k
    /\ q.use = o.use /\ q.c = o.c /\ q.after = o.after /\ q.applied = o.applied

\* What a call asks a cluster for stays while the chains do.
LEMMA AsksFrame ==
    ASSUME NEW f, NEW g, NEW S, NEW o \in Ops, NEW q, NEW d, Same(o, q), Asks(f, S, o, d), o.pc # "find", q.pc # "find",
           o.first \in Clusters => IsTop(f, o.first) /\ Chain(g, o.first) = Chain(f, o.first),
           Chain(g, d) = Chain(f, d)
    PROVE  Asks(g, S, q, d)
<1>1. o.first \in Clusters \cup {Nil} /\ o.k \in Nat /\ o.call \in Calls
  BY OpFields
<1>2. CASE Writing(f, S, o)
  <2>1. Writing(g, S, q)
    BY <1>1, <1>2, ReadyFrame DEF Same
  <2> QED BY <2>1 DEF Asks
<1>3. CASE Growing(f, S, o, d)
  <2>1. Ready(g, S, q)
    BY <1>1, <1>3, ReadyFrame DEF Same, Growing
  <2> QED BY <1>3, <2>1 DEF Asks, Same, Growing, Owns
<1>4. CASE MakingDir(o)
  BY <1>4 DEF Asks, MakingDir, Same
<1> QED BY <1>2, <1>3, <1>4 DEF Asks

-----------------------------------------------------------------------------
(* The first copy of the FAT is written: q is o with the next copy. *)
Writes1(f, S, o, q, g) ==
    /\ f \in Fats /\ S \in Medium /\ o \in Ops /\ Vol(f, S, Held(o), Raw(o)) /\ o.pc = "set" /\ o.copy = 1
    /\ g = [f EXCEPT ![o.at] = o.val] /\ Same(o, q) /\ q.pc = "set" /\ q.copy = 2 /\ q.then = o.then
    /\ q.at = o.at /\ q.val = o.val /\ q.todo = o.todo
\* The clusters of the chains that are live or held
Owned(f, S, o) == UNION {Owns(f, h) : h \in Live(S) \cup Held(o)}
\* The files stay, no cluster is lost but the one that is freed, and the value fits.
Turns(f, S, o, q, g) ==
    /\ Still(f, S, g, S)
    /\ \A x \in Owned(f, S, o) : x \in Owned(g, S, q) \/ (o.then = "free" /\ x = o.at)
    /\ o.then = "flush" => o.at = o.c /\ o.val = Eoc
    /\ o.then \in {"data", "zero"} => o.at \in Owned(f, S, o) /\ o.val \in Clusters
    /\ o.then = "free" => o.at \in Owned(f, S, o) /\ o.val = Free
Keeps1(f, S, o, q, g) ==
    /\ Turns(f, S, o, q, g)
    /\ o.at \in Clusters /\ o.val \in Clusters \cup {Free, Eoc} /\ g \in Fats
    /\ Vol(g, S, Held(q), Raw(q))
    /\ \A b : ~Linking(o) /\ Cache(f, S, Held(o), b) => Cache(g, S, Held(q), b)

LEMMA FirstTake ==
    ASSUME NEW f, NEW S, NEW o, NEW q, NEW g, Writes1(f, S, o, q, g), o.then = "flush", NEW d \in Clusters, Works(f, S, o, d)
    PROVE  Keeps1(f, S, o, q, g) /\ Works(g, S, q, d)
<1>1. /\ f \in Fats /\ o \in Ops /\ Vol(f, S, Held(o), Raw(o)) /\ o.pc = "set" /\ o.copy = 1 /\ q \in Ops /\ q.pc = "set"
      /\ q.copy = 2 /\ q.then = "flush" /\ q.at = o.at /\ q.val = o.val /\ q.c = o.c /\ Same(o, q) /\ q.applied = o.applied
      /\ q.first = o.first /\ q.use = o.use
  BY DEF Writes1, Same
<1>2. /\ o.at = o.c /\ o.val = Eoc /\ o.c \in Clusters /\ Asks(f, S, o, d) /\ ~o.applied
      /\ \A h \in Live(S) \cup Held(o) : o.c \notin Owns(f, h)
  BY <1>1 DEF Works, AtTake
<1>3. Sets(f, g, o.c, Eoc) /\ g \in Fats
  BY <1>1, <1>2, SetsIs DEF Writes1
<1>4. ~Freeing(o) /\ ~Freeing(q) /\ ~Linking(o) /\ ~Linking(q)
  BY <1>1 DEF Freeing, Linking
<1>5. Held(q) = Held(o) /\ Raw(q) = Raw(o) /\ Held(o) = {o.first} \cap Clusters
  BY <1>1, <1>2, <1>4, SetHolds
<1>6. /\ Vol(g, S, Held(o) \cup {o.c}, Raw(o)) /\ g[o.c] = Eoc
      /\ \A h \in Live(S) \cup Held(o) : Chain(g, h) = Chain(f, h) /\ Owns(g, h) = Owns(f, h)
  <2>1. Vol(f, S, Held(o), Raw(o)) /\ o.c \in Clusters /\ Sets(f, g, o.c, Eoc)
    BY <1>1, <1>2, <1>3
  <2>2. \A h \in Live(S) \cup Held(o) : o.c \notin Owns(f, h)
    BY <1>2
  <2> QED BY <2>1, <2>2, VolTake
<1>7. Vol(g, S, Held(q), Raw(q))
  BY <1>5, <1>6, VolShrink
<1>8. \A b : Cache(f, S, Held(o), b) => Cache(g, S, Held(q), b)
  <2>1. \A h \in Live(S) \cup Held(o) : \A x \in Owns(f, h) : x \in Clusters /\ g[x] = f[x]
    BY <1>1, <1>2, <1>3, LiveTops, TopFacts DEF Sets
  <2> QED BY <1>5, <1>6, <2>1 DEF Cache
<1>9. d \in DirTops(S) /\ d \in Live(S) /\ Base(f, S, o, d)
  BY <1>1, LiveTops, WorksBase DEF Works
<1>10. Base(g, S, q, d)
  BY <1>1, <1>6, <1>9, SameIs, BaseFrame DEF Same
<1>11. o.first \in Clusters => IsTop(f, o.first) /\ Chain(g, o.first) = Chain(f, o.first)
  BY <1>1, <1>5, <1>6, LiveTops
<1>12. Asks(g, S, q, d)
  BY <1>1, <1>2, <1>6, <1>9, <1>11, AsksFrame
<1>13. AtTake(g, S, q, d) /\ AtLink(g, S, q, d) /\ AtGrow(g, S, q, d)
  BY <1>1, <1>2, <1>5, <1>6, <1>12 DEF AtTake, AtLink, AtGrow
<1>14. Works(g, S, q, d)
  <2>1. AtUnlink(g, S, q, d) /\ AtFind(g, S, q, d) /\ AtData(g, S, q, d) /\ AtPut(g, S, q, d)
        /\ AtFlush(g, S, q, d) /\ AtDots(g, S, q, d) /\ AtZero(g, S, q, d)
    BY <1>1 DEF AtUnlink, AtFind, AtData, AtPut, AtFlush, AtDots, AtZero
  <2> QED BY <1>10, <1>13, <2>1 DEF Works, Base
<1>15. Still(f, S, g, S)
  <2>1. \A e \in DirTops(S) : e \in Live(S)
    BY <1>1, LiveTops
  <2>2. \A x \in E(S) : Val(S, x).clus \in Clusters => Val(S, x).clus \in Live(S)
    BY <1>1, LiveTops, FatAssumption
  <2> QED BY <1>1, <1>6, <2>1, <2>2, StillFat
<1>16. Turns(f, S, o, q, g)
  BY <1>1, <1>2, <1>5, <1>6, <1>15 DEF Turns, Owned
<1> QED BY <1>2, <1>3, <1>7, <1>8, <1>14, <1>16 DEF Keeps1

LEMMA FirstLink ==
    ASSUME NEW f, NEW S, NEW o, NEW q, NEW g, Writes1(f, S, o, q, g), o.then = "data", NEW d \in Clusters, Works(f, S, o, d)
    PROVE  Keeps1(f, S, o, q, g) /\ Works(g, S, q, d)
<1>1. /\ f \in Fats /\ o \in Ops /\ Vol(f, S, Held(o), Raw(o)) /\ o.pc = "set" /\ o.copy = 1 /\ q \in Ops /\ q.pc = "set"
      /\ q.copy = 2 /\ q.then = "data" /\ q.at = o.at /\ q.val = o.val /\ q.c = o.c /\ Same(o, q) /\ q.applied = o.applied
      /\ q.first = o.first /\ q.use = o.use /\ q.k = o.k /\ q.call = o.call
  BY DEF Writes1, Same
<1> DEFINE ch == Chain(f, o.first)
<1>2. /\ o.at = o.prev /\ o.val = o.c /\ o.first \in Clusters /\ Writing(f, S, o) /\ f[o.c] = Eoc /\ o.c # o.first /\ ~o.applied
  BY <1>1 DEF Works, AtLink
<1>3. ~Freeing(o) /\ ~Freeing(q) /\ Linking(o) /\ Linking(q)
  BY <1>1 DEF Freeing, Linking
<1>4. Held(o) = {o.first, o.c} /\ Held(q) = {o.first} /\ Raw(q) = {} /\ Raw(o) = {} /\ o.c \in Clusters /\ Held(q) = Held(o) \ {o.c}
  <2>1. Held(o) = {o.first, o.c} /\ Held(q) = {o.first} /\ Raw(q) = {} /\ Raw(o) = {}
    BY <1>1, <1>2, <1>3, SetHolds
  <2> QED BY <1>1, <1>2, <2>1 DEF Vol, VolTypes
<1>5. IsTop(f, o.first)
  BY <1>1, <1>4, LiveTops
<1>6. /\ o.k \in Nat /\ o.k # 0 /\ o.prev = Last(ch) /\ Len(ch) = o.k /\ Built(f, S, o, o.k) /\ o.k < Blocks[o.call.v]
      /\ o.use = "file" /\ o.call.do = "write"
  BY <1>1, <1>2, OpFields, FatAssumption DEF Writing
<1>7. o.at \in Clusters /\ Sets(f, g, o.at, o.c) /\ g \in Fats
  <2>1. o.at \in Clusters
    BY <1>2, <1>5, <1>6, TopFacts
  <2> QED BY <1>1, <1>2, <1>4, <2>1, SetsIs DEF Writes1
<1>8. /\ Vol(g, S, Held(o) \ {o.c}, Raw(o))
      /\ \A h \in (Live(S) \cup Held(o)) \ {o.first, o.c} : Chain(g, h) = Chain(f, h) /\ Owns(g, h) = Owns(f, h)
      /\ Chain(g, o.first) = Append(ch, o.c)
  <2>1. Sets(f, g, Last(ch), o.c) /\ o.first \in Held(o) /\ o.c \in Held(o)
    BY <1>2, <1>4, <1>6, <1>7
  <2>2. Vol(f, S, Held(o), Raw(o)) /\ o.first # o.c /\ f[o.c] = Eoc
    BY <1>1, <1>2
  <2>3. Linked(f, g, S, Held(o), Raw(o), o.first, o.c)
    BY <2>1, <2>2, VolLink
  <2> QED BY <2>3 DEF Linked
<1>9. d \in DirTops(S) /\ d \in Live(S) /\ Base(f, S, o, d) /\ d \notin Held(o)
  <2>1. d \in DirTops(S) /\ Base(f, S, o, d)
    BY WorksBase DEF Works
  <2>2. d \in Live(S)
    BY <1>1, <2>1, LiveTops
  <2> QED BY <1>1, <2>1, <2>2 DEF Vol, Tops
<1>10. Base(g, S, q, d)
  BY <1>1, <1>4, <1>8, <1>9, SameIs, BaseFrame DEF Same
<1>11. Extended(g, S, q)
  <2>1. Len(Append(ch, o.c)) = o.k + 1 /\ Last(Append(ch, o.c)) = o.c /\ \A i \in 1 .. o.k : Append(ch, o.c)[i] = ch[i]
    BY <1>4, <1>5, <1>6, TopFacts DEF Last
  <2>2. Built(g, S, q, o.k)
    BY <1>1, <1>6, <1>8, <2>1 DEF Built
  <2> QED BY <1>1, <1>2, <1>6, <1>8, <2>1, <2>2 DEF Extended
<1>12. AtTake(g, S, q, d) /\ AtLink(g, S, q, d) /\ AtGrow(g, S, q, d)
  BY <1>1, <1>2, <1>11 DEF AtTake, AtLink, AtGrow, Same
<1>13. Works(g, S, q, d)
  <2>1. AtUnlink(g, S, q, d) /\ AtFind(g, S, q, d) /\ AtData(g, S, q, d) /\ AtPut(g, S, q, d)
        /\ AtFlush(g, S, q, d) /\ AtDots(g, S, q, d) /\ AtZero(g, S, q, d)
    BY <1>1 DEF AtUnlink, AtFind, AtData, AtPut, AtFlush, AtDots, AtZero
  <2> QED BY <1>10, <1>12, <2>1 DEF Works, Base
<1>14. \A h \in Live(S) : h \notin {o.first, o.c}
  BY <1>1, <1>4 DEF Vol, Tops
<1>15. Still(f, S, g, S)
  <2>1. \A e \in DirTops(S) : e \in Live(S)
    BY <1>1, LiveTops
  <2>2. \A x \in E(S) : Val(S, x).clus \in Clusters => Val(S, x).clus \in Live(S)
    BY <1>1, LiveTops, FatAssumption
  <2> QED BY <1>1, <1>8, <1>14, <2>1, <2>2, StillFat
<1>16. Turns(f, S, o, q, g)
  <2>1. Owns(f, o.c) = {o.c} /\ o.at \in Owns(f, o.first)
    BY <1>2, <1>4, <1>5, <1>6, ChainOne, TopFacts
  <2>2. Owns(g, o.first) = Owns(f, o.first) \cup {o.c}
    BY <1>4, <1>5, <1>8, TopFacts, ToSetAppend DEF Owns
  <2>3. \A x \in Owned(f, S, o) : x \in Owned(g, S, q)
    BY <1>4, <1>8, <1>14, <2>1, <2>2 DEF Owned
  <2>4. o.at \in Owned(f, S, o)
    BY <1>4, <2>1 DEF Owned
  <2> QED BY <1>1, <1>2, <1>4, <1>15, <2>3, <2>4 DEF Turns
<1> QED BY <1>2, <1>3, <1>4, <1>7, <1>8, <1>13, <1>16 DEF Keeps1

LEMMA FirstGrow ==
    ASSUME NEW f, NEW S, NEW o, NEW q, NEW g, Writes1(f, S, o, q, g), o.then = "zero", NEW d \in Clusters, Works(f, S, o, d)
    PROVE  Keeps1(f, S, o, q, g) /\ Works(g, S, q, d)
<1>1. /\ f \in Fats /\ o \in Ops /\ Vol(f, S, Held(o), Raw(o)) /\ o.pc = "set" /\ o.copy = 1 /\ q \in Ops /\ q.pc = "set"
      /\ q.copy = 2 /\ q.then = "zero" /\ q.at = o.at /\ q.val = o.val /\ q.c = o.c /\ Same(o, q) /\ q.applied = o.applied
      /\ q.first = o.first /\ q.use = o.use /\ q.k = o.k /\ q.call = o.call /\ q.prev = o.prev
  BY DEF Writes1, Same
<1> DEFINE s == Chain(f, d)
<1>2. /\ o.at = o.prev /\ o.val = o.c /\ o.use = "grow" /\ Growing(f, S, o, d) /\ f[o.c] = Eoc /\ o.c # o.first /\ ~o.applied
  BY <1>1 DEF Works, AtGrow
<1>3. ~Freeing(o) /\ ~Freeing(q) /\ Linking(o) /\ Linking(q)
  BY <1>1 DEF Freeing, Linking
<1>4. /\ Held(o) = ({o.first} \cap Clusters) \cup {o.c} /\ Held(q) = {o.first} \cap Clusters /\ Raw(q) = {o.c} /\ Raw(o) = {}
      /\ o.c \in Clusters /\ Held(q) = Held(o) \ {o.c}
  <2>1. Held(o) = ({o.first} \cap Clusters) \cup {o.c} /\ Held(q) = {o.first} \cap Clusters /\ Raw(o) = {}
    BY <1>1, <1>2, <1>3, SetHolds
  <2>2. Raw(q) = {o.c}
    BY <1>1, <1>2, <1>3, SetHolds
  <2> QED BY <1>1, <1>2, <2>1, <2>2 DEF Vol, VolTypes
<1>5. d \in DirTops(S) /\ d \in Live(S) /\ Base(f, S, o, d) /\ d \notin Held(o) /\ IsTop(f, d)
  <2>1. d \in DirTops(S) /\ Base(f, S, o, d)
    BY WorksBase DEF Works
  <2>2. d \in Live(S) /\ IsTop(f, d)
    BY <1>1, <2>1, LiveTops
  <2> QED BY <1>1, <2>1, <2>2 DEF Vol, Tops
<1>6. o.prev = Last(s) /\ Ready(f, S, o) /\ \A x \in Owns(f, d), a \in 1 .. Slots : Val(S, <<x, a>>).kind # "0x00"
  BY <1>2 DEF Growing
<1>7. o.at \in Clusters /\ Sets(f, g, Last(s), o.c) /\ g \in Fats
  <2>1. o.at \in Clusters
    BY <1>2, <1>5, <1>6, TopFacts
  <2> QED BY <1>1, <1>2, <1>4, <1>6, <2>1, SetsIs DEF Writes1
<1>8. /\ Vol(g, S, Held(o) \ {o.c}, {o.c})
      /\ \A h \in (Live(S) \cup Held(o)) \ {d, o.c} : Chain(g, h) = Chain(f, h) /\ Owns(g, h) = Owns(f, h)
      /\ Chain(g, d) = Append(s, o.c) /\ Owns(g, d) = Owns(f, d) \cup {o.c}
      /\ \A x \in E(S) : x[1] # o.c
  <2>1. Vol(f, S, Held(o), {}) /\ o.c \in Held(o)
    BY <1>1, <1>4
  <2>2. d \in DirTops(S) /\ f[o.c] = Eoc /\ Sets(f, g, Last(Chain(f, d)), o.c)
    BY <1>2, <1>5, <1>7
  <2>3. \A x \in Owns(f, d), a \in 1 .. Slots : Val(S, <<x, a>>).kind # "0x00"
    BY <1>6
  <2>4. Grown(f, g, S, Held(o), d, o.c)
    BY <2>1, <2>2, <2>3, VolGrow
  <2> QED BY <2>4 DEF Grown
<1>9. Base(g, S, q, d)
  <2>1. \A x \in E(S) : x[1] \in Owns(g, d) <=> x[1] \in Owns(f, d)
    BY <1>8
  <2> QED BY <1>1, <1>5, <2>1, SameIs, BaseFrame DEF Same
<1>10. Ready(g, S, q)
  <2>1. o.first \in Clusters => IsTop(f, o.first) /\ Chain(g, o.first) = Chain(f, o.first)
    BY <1>1, <1>2, <1>4, <1>5, <1>8, LiveTops
  <2>2. o.first \in Clusters \cup {Nil} /\ o.k \in Nat /\ o.call \in Calls
    BY <1>1, OpFields
  <2> QED BY <1>1, <1>6, <2>1, <2>2, ReadyFrame
<1>11. o.c = Last(Append(s, o.c))
  BY <1>4, <1>5, TopFacts DEF Last
<1>12. AtTake(g, S, q, d) /\ AtLink(g, S, q, d) /\ AtGrow(g, S, q, d)
  BY <1>1, <1>2, <1>8, <1>10, <1>11 DEF AtTake, AtLink, AtGrow
<1>13. Works(g, S, q, d)
  <2>1. AtUnlink(g, S, q, d) /\ AtFind(g, S, q, d) /\ AtData(g, S, q, d) /\ AtPut(g, S, q, d)
        /\ AtFlush(g, S, q, d) /\ AtDots(g, S, q, d) /\ AtZero(g, S, q, d)
    BY <1>1 DEF AtUnlink, AtFind, AtData, AtPut, AtFlush, AtDots, AtZero
  <2> QED BY <1>9, <1>12, <2>1 DEF Works, Base
<1>14. \A h \in Live(S) : h # o.c
  BY <1>1, <1>4 DEF Vol, Tops
<1>15. Still(f, S, g, S)
  <2>1. \A e \in DirTops(S) : e \in Live(S)
    BY <1>1, LiveTops
  <2>2. ASSUME NEW x \in E(S), ~Val(S, x).dir, Val(S, x).clus \in Clusters
        PROVE  Val(S, x).clus \in Live(S) /\ Val(S, x).clus # d
    <3>1. Val(S, x).clus \in Live(S)
      BY <1>1, <2>2, LiveTops, FatAssumption
    <3>2. Val(S, x).clus # d
      BY <1>1, <1>5, <2>2, FileNoDir, FatAssumption
    <3> QED BY <3>1, <3>2
  <2>3. \A x \in E(S) : ~Val(S, x).dir /\ Val(S, x).clus \in Clusters => Chain(g, Val(S, x).clus) = Chain(f, Val(S, x).clus)
    BY <1>8, <1>14, <2>2
  <2>4. \A e \in DirTops(S) : \A x \in E(S) : x[1] \in Owns(g, e) <=> x[1] \in Owns(f, e)
    <3>1. SUFFICES ASSUME NEW e \in DirTops(S) PROVE \A x \in E(S) : x[1] \in Owns(g, e) <=> x[1] \in Owns(f, e)
      OBVIOUS
    <3>2. CASE e = d
      BY <1>8, <3>2
    <3>3. CASE e # d
      BY <1>8, <1>14, <2>1, <3>3
    <3> QED BY <3>2, <3>3
  <2> QED BY <1>1, <2>3, <2>4, StillFat
<1>16. Turns(f, S, o, q, g)
  <2>1. Owns(f, o.c) = {o.c} /\ o.at \in Owns(f, d)
    BY <1>2, <1>4, <1>5, <1>6, ChainOne, TopFacts
  <2>2. ASSUME NEW h \in Live(S) \cup Held(o), NEW x \in Owns(f, h) PROVE x \in Owned(g, S, q)
    <3>1. CASE h \in {d, o.c}
      BY <1>5, <1>8, <2>1, <2>2, <3>1 DEF Owned
    <3>2. CASE h \notin {d, o.c}
      BY <1>4, <1>8, <2>2, <3>2 DEF Owned
    <3> QED BY <3>1, <3>2
  <2>3. \A x \in Owned(f, S, o) : x \in Owned(g, S, q)
    BY <2>2 DEF Owned
  <2>4. o.at \in Owned(f, S, o)
    BY <1>5, <2>1 DEF Owned
  <2> QED BY <1>1, <1>2, <1>4, <1>15, <2>3, <2>4 DEF Turns
<1> QED BY <1>2, <1>3, <1>4, <1>7, <1>8, <1>13, <1>16 DEF Keeps1

LEMMA FirstFreed ==
    ASSUME NEW f, NEW S, NEW o, NEW q, NEW g, Writes1(f, S, o, q, g), o.then = "free", Frees(f, o)
    PROVE  Keeps1(f, S, o, q, g) /\ Frees(g, q)
<1>1. /\ f \in Fats /\ o \in Ops /\ Vol(f, S, Held(o), Raw(o)) /\ o.pc = "set" /\ o.copy = 1 /\ q \in Ops /\ q.pc = "set"
      /\ q.copy = 2 /\ q.then = "free" /\ q.at = o.at /\ q.val = o.val /\ q.c = o.c /\ Same(o, q) /\ q.applied = o.applied
      /\ q.first = o.first /\ q.after = o.after /\ q.todo = o.todo
  BY DEF Writes1, Same
<1> DEFINE t == o.todo
           F == IF o.after = "undo" THEN {o.first} \cap Clusters ELSE {}
<1>2. /\ Freeing(o) /\ Freeing(q) /\ ~Linking(o) /\ TodoOf(o) = t /\ TodoOf(q) = o.c /\ o # NoCall /\ q # NoCall
  <2>1. o # NoCall /\ q # NoCall
    BY <1>1, OpFields
  <2> QED BY <1>1, <2>1 DEF Freeing, Linking, TodoOf
<1>3. /\ o.at = t /\ t \in Clusters /\ o.val = Free /\ o.c = f[t]
      /\ o.after = "undo" => ~o.applied /\ (o.first \in Clusters => o.first # t)
  BY <1>1, <1>2 DEF Frees
<1>4. HeldFirst(o) = F /\ HeldFirst(q) = F
  <2>1. o.after = "ok" => o.applied
    BY DEF Frees
  <2>2. (\neg o.applied) \/ o.after # "undo"
    BY <1>3
  <2> QED BY <1>1, <1>2, <2>2 DEF HeldFirst
<1>5. Held(o) = F \cup {t} /\ Held(q) = F \cup ({o.c} \cap Clusters) /\ Raw(o) = {} /\ Raw(q) = {} /\ t \notin F
  <2>1. HeldC(o) = {} /\ HeldC(q) = {} /\ HeldTodo(o) = {t} /\ HeldTodo(q) = {o.c} \cap Clusters
    BY <1>1, <1>2, <1>3 DEF HeldC, HeldTodo, Linking
  <2>2. Raw(o) = {} /\ Raw(q) = {}
    BY <1>1 DEF Raw
  <2> QED BY <1>2, <1>3, <1>4, <2>1, <2>2 DEF Held
<1>6. Sets(f, g, t, Free) /\ g \in Fats
  BY <1>1, <1>3, SetsIs DEF Writes1
<1>7. /\ Vol(g, S, (Held(o) \ {t}) \cup ({f[t]} \cap Clusters), Raw(o))
      /\ \A h \in (Live(S) \cup Held(o)) \ {t} : Chain(g, h) = Chain(f, h) /\ Owns(g, h) = Owns(f, h)
      /\ f[t] \in Clusters => Owns(g, f[t]) = Owns(f, t) \ {t} /\ f[t] \notin Held(o)
  <2>1. t \in Held(o)
    BY <1>5
  <2>2. Vol(f, S, Held(o), Raw(o)) /\ Sets(f, g, t, Free)
    BY <1>1, <1>6
  <2> HIDE DEF t
  <2>3. Headless(f, g, S, Held(o), Raw(o), t)
    BY <2>1, <2>2, VolFree
  <2> QED BY <2>3 DEF Headless
<1>8. Held(q) = (Held(o) \ {t}) \cup ({f[t]} \cap Clusters)
  BY <1>3, <1>5
<1>9. Frees(g, q)
  <2>1. o.after = "undo" => (o.first \in Clusters => o.first # o.c)
    <3>1. SUFFICES ASSUME o.after = "undo", o.first \in Clusters, o.first = o.c PROVE FALSE
      OBVIOUS
    <3>2. o.first \in Held(o)
      BY <1>5, <3>1
    <3> QED BY <1>3, <1>7, <3>1, <3>2
  <2> QED BY <1>1, <1>2, <1>3, <2>1 DEF Frees
<1>10. \A b : Cache(f, S, Held(o), b) => Cache(g, S, Held(q), b)
  <2>1. \A h \in Live(S) \cup Held(o) : Owns(f, h) \subseteq Clusters /\ (h # t => t \notin Owns(f, h))
    <3>1. t \in Owns(f, t) /\ t \in Held(o)
      BY <1>1, <1>5, LiveTops, TopFacts
    <3> QED BY <1>1, <3>1, LiveTops, TopFacts DEF Vol, Tops
  <2>2. ASSUME NEW h \in Live(S) \cup Held(q), NEW x \in Owns(g, h)
        PROVE  x \in Clusters /\ g[x] = f[x] /\ \E k \in Live(S) \cup Held(o) : x \in Owns(f, k)
    <3>1. \E k \in Live(S) \cup Held(o) : x \in Owns(f, k) /\ x # t
      <4>1. CASE h = f[t] /\ f[t] \in Clusters
        BY <1>5, <1>7, <2>2, <4>1
      <4>2. CASE h # f[t] \/ f[t] \notin Clusters
        <5>1. h \in (Live(S) \cup Held(o)) \ {t}
          <6>1. t \notin Live(S)
            BY <1>1, <1>5 DEF Vol, Tops
          <6> QED BY <1>8, <2>2, <4>2, <6>1
        <5> QED BY <1>7, <2>1, <2>2, <5>1
      <4> QED BY <4>1, <4>2
    <3> QED BY <1>6, <2>1, <3>1 DEF Sets
  <2> QED BY <2>2 DEF Cache
<1>11. \A h \in Live(S) : h # t
  BY <1>1, <1>5 DEF Vol, Tops
<1>12. Still(f, S, g, S)
  <2>1. \A e \in DirTops(S) : e \in Live(S)
    BY <1>1, LiveTops
  <2>2. \A x \in E(S) : Val(S, x).clus \in Clusters => Val(S, x).clus \in Live(S)
    BY <1>1, LiveTops, FatAssumption
  <2> QED BY <1>1, <1>7, <1>11, <2>1, <2>2, StillFat
<1>13. Turns(f, S, o, q, g)
  <2>1. t \in Owns(f, t) /\ t \in Held(o) /\ IsTop(f, t)
    BY <1>1, <1>5, LiveTops, TopFacts
  <2>2. o.at \in Owned(f, S, o)
    BY <1>3, <2>1 DEF Owned
  <2>3. ASSUME NEW x \in Owns(f, t), x # t PROVE x \in Owned(g, S, q)
    <3>1. f[t] \in Clusters
      BY <1>1, <1>6, <2>1, <2>3, ChainTail DEF Writes1
    <3>2. x \in Owns(g, f[t]) /\ f[t] \in Held(q)
      BY <1>7, <1>8, <2>3, <3>1
    <3> QED BY <3>2 DEF Owned
  <2>4. ASSUME NEW h \in Live(S) \cup Held(o), h # t, NEW x \in Owns(f, h) PROVE x \in Owned(g, S, q)
    BY <1>7, <1>8, <2>4 DEF Owned
  <2>5. \A x \in Owned(f, S, o) : x \in Owned(g, S, q) \/ x = o.at
    BY <1>3, <2>3, <2>4 DEF Owned
  <2> QED BY <1>1, <1>3, <1>12, <2>2, <2>5 DEF Turns
<1> QED BY <1>3, <1>5, <1>6, <1>7, <1>8, <1>9, <1>10, <1>13 DEF Keeps1

-----------------------------------------------------------------------------
(***************************************************************************)
(* fat_set_next: the last copy                                             *)
(***************************************************************************)
(* The last copy is written: r is the call at its next place. *)
Done(q, r) ==
    /\ Same(q, r) /\ r.pc = (IF q.then = "free" THEN "free" ELSE q.then)
    /\ r.todo = (IF q.then = "free" THEN q.c ELSE q.todo)
Wrote(f, S, q, r) ==
    /\ f \in Fats /\ q \in Ops /\ Vol(f, S, Held(q), Raw(q)) /\ q.pc = "set" /\ q.copy = 2 /\ Done(q, r)

\* A cluster that ends a chain and waits for the second copy before it is held
Taking(o) == IF o # NoCall /\ o.pc = "set" /\ o.then = "flush" /\ o.copy = 2 THEN {o.c} ELSE {}
Carries(f, S, q, r) == Vol(f, S, Held(r), Raw(r)) /\ OpInv(f, S, r) /\ Held(q) \cup Taking(q) \subseteq Held(r)

LEMMA LastTake ==
    ASSUME NEW f, NEW S, NEW q, NEW r, Wrote(f, S, q, r), q.then = "flush", NEW d \in Clusters, Works(f, S, q, d)
    PROVE  Carries(f, S, q, r)
<1>1. /\ f \in Fats /\ q \in Ops /\ Vol(f, S, Held(q), Raw(q)) /\ q.pc = "set" /\ q.copy = 2 /\ Same(q, r) /\ r \in Ops
      /\ r.pc = "flush" /\ r.first = q.first /\ r.c = q.c /\ r.applied = q.applied
  BY DEF Wrote, Done, Same
<1>2. /\ q.c \in Clusters /\ Asks(f, S, q, d) /\ ~q.applied /\ f[q.c] = Eoc
      /\ \A h \in Live(S) \cup Held(q) : q.c \notin Owns(f, h)
  BY <1>1 DEF Works, AtTake
<1>3. ~Freeing(q) /\ ~Freeing(r) /\ ~Linking(q) /\ ~Linking(r)
  BY <1>1 DEF Freeing, Linking
<1>4. Held(q) = {q.first} \cap Clusters /\ Raw(q) = {}
  BY <1>1, <1>2, <1>3, SetHolds
<1>5. Held(r) = Held(q) \cup {q.c} /\ Raw(r) = {}
  <2>1. HeldFirst(r) = {q.first} \cap Clusters /\ HeldC(r) = {q.c} /\ HeldTodo(r) = {} /\ Raw(r) = {}
    BY <1>1, <1>2, <1>3 DEF HeldFirst, HeldC, HeldTodo, Raw
  <2> QED BY <1>1, <1>4, <2>1, OpFields DEF Held
<1>6. Vol(f, S, Held(r), Raw(r))
  <2>1. Sets(f, f, q.c, Eoc)
    BY <1>1, <1>2 DEF Sets
  <2>2. Vol(f, S, Held(q), Raw(q)) /\ q.c \in Clusters
    BY <1>1, <1>2
  <2>3. \A h \in Live(S) \cup Held(q) : q.c \notin Owns(f, h)
    BY <1>2
  <2>4. Vol(f, S, Held(q) \cup {q.c}, Raw(q))
    BY <2>1, <2>2, <2>3, VolTake
  <2> QED BY <1>4, <1>5, <2>4
<1>7. q.c # q.first
  <2>1. q.first \in Clusters => q.first \in Owns(f, q.first) /\ q.first \in Held(q)
    BY <1>1, <1>4, LiveTops, TopFacts
  <2> QED BY <1>2, <2>1
<1>8. Base(f, S, q, d) /\ d \in Live(S)
  BY <1>1, WorksBase, LiveTops DEF Works
<1>9. Base(f, S, r, d)
  BY <1>1, <1>8, SameIs, BaseFrame DEF Same
<1>10. Asks(f, S, r, d)
  <2>1. q.first \in Clusters => IsTop(f, q.first)
    BY <1>1, <1>4, LiveTops
  <2> QED BY <1>1, <1>2, <2>1, AsksFrame
<1>11. AtFlush(f, S, r, d)
  BY <1>1, <1>2, <1>7, <1>10 DEF AtFlush
<1>12. OpInv(f, S, r)
  BY <1>1, <1>9, <1>11, AtPlace
<1> QED BY <1>5, <1>6, <1>12 DEF Carries, Taking

LEMMA LastLink ==
    ASSUME NEW f, NEW S, NEW q, NEW r, Wrote(f, S, q, r), q.then \in {"data", "zero"}, NEW d \in Clusters, Works(f, S, q, d)
    PROVE  Carries(f, S, q, r)
<1>1. /\ f \in Fats /\ q \in Ops /\ Vol(f, S, Held(q), Raw(q)) /\ q.pc = "set" /\ q.copy = 2 /\ Same(q, r) /\ r \in Ops
      /\ r.pc = q.then /\ r.first = q.first /\ r.c = q.c /\ r.applied = q.applied /\ r.use = q.use /\ r.k = q.k /\ r.call = q.call
  BY DEF Wrote, Done, Same
<1>2. ~q.applied /\ Base(f, S, q, d)
  BY WorksBase DEF Works
<1>3. ~Freeing(q) /\ ~Freeing(r) /\ Linking(q) /\ ~Linking(r)
  BY <1>1 DEF Freeing, Linking
<1>4. Held(q) = {q.first} \cap Clusters /\ Held(r) = Held(q)
  <2>1. HeldFirst(r) = {q.first} \cap Clusters /\ HeldC(r) = {} /\ HeldTodo(r) = {}
    BY <1>1, <1>2, <1>3 DEF HeldFirst, HeldC, HeldTodo
  <2>2. Held(q) = ({q.first} \cap Clusters) \cup (IF Linking(q) /\ q.copy = 1 THEN {q.c} ELSE {})
    BY <1>1, <1>2, <1>3, SetHolds
  <2>3. Held(q) = {q.first} \cap Clusters
    BY <1>1, <2>2
  <2> QED BY <1>1, <2>1, <2>3, OpFields DEF Held
<1>5. Raw(r) = Raw(q)
  <2>1. q # NoCall /\ r # NoCall
    BY <1>1, OpFields
  <2> QED BY <1>1, <2>1 DEF Raw
<1>6. Base(f, S, r, d)
  BY <1>1, <1>2, SameIs, BaseFrame DEF Same
<1>7. q.first \in Clusters \cup {Nil} /\ q.k \in Nat /\ q.call \in Calls /\ (q.first \in Clusters => IsTop(f, q.first))
  BY <1>1, <1>4, OpFields, LiveTops
<1>8. CASE q.then = "data"
  <2>1. Extended(f, S, q)
    BY <1>1, <1>8 DEF Works, AtLink
  <2>2. Extended(f, S, r)
    BY <1>1, <1>7, <2>1, ReadyFrame
  <2>3. OpInv(f, S, r)
    BY <1>1, <1>6, <1>8, <2>2, AtPlace
  <2> QED BY <1>1, <1>4, <1>5, <1>8, <2>3 DEF Carries, Taking
<1>9. CASE q.then = "zero"
  <2>1. Ready(f, S, q) /\ q.use = "grow" /\ q.c = Last(Chain(f, d))
    BY <1>1, <1>9 DEF Works, AtGrow
  <2>2. Ready(f, S, r)
    BY <1>1, <1>7, <2>1, ReadyFrame
  <2>3. AtZero(f, S, r, d)
    BY <1>1, <2>1, <2>2 DEF AtZero
  <2>4. OpInv(f, S, r)
    BY <1>1, <1>6, <1>9, <2>3, AtPlace
  <2> QED BY <1>1, <1>4, <1>5, <1>9, <2>4 DEF Carries, Taking
<1> QED BY <1>8, <1>9

LEMMA LastFreed ==
    ASSUME NEW f, NEW S, NEW q, NEW r, Wrote(f, S, q, r), q.then = "free", Frees(f, q)
    PROVE  Carries(f, S, q, r)
<1>1. /\ f \in Fats /\ q \in Ops /\ Vol(f, S, Held(q), Raw(q)) /\ q.pc = "set" /\ q.copy = 2 /\ Same(q, r) /\ r \in Ops
      /\ r.pc = "free" /\ r.first = q.first /\ r.todo = q.c /\ r.applied = q.applied /\ r.after = q.after
  BY DEF Wrote, Done, Same
<1>2. Freeing(q) /\ Freeing(r) /\ ~Linking(q) /\ ~Linking(r) /\ TodoOf(q) = q.c /\ TodoOf(r) = q.c /\ ~Working(r)
  BY <1>1 DEF Freeing, Linking, TodoOf, Working
<1>3. HeldFirst(q) = HeldFirst(r)
  BY <1>1, <1>2 DEF HeldFirst
<1>4. HeldC(q) = {} /\ HeldC(r) = {} /\ HeldTodo(q) = HeldTodo(r) /\ Raw(q) = {} /\ Raw(r) = {}
  BY <1>1, <1>2 DEF HeldC, HeldTodo, Raw
<1>5. Held(q) = Held(r)
  BY <1>1, <1>3, <1>4, OpFields DEF Held
<1>6. Frees(f, r)
  BY <1>1, <1>2 DEF Frees
<1>7. OpInv(f, S, r)
  BY <1>1, <1>2, <1>6 DEF OpInv
<1> QED BY <1>1, <1>4, <1>5, <1>7 DEF Carries, Taking

LEMMA LastKeeps ==
    ASSUME NEW f, NEW S, NEW q, NEW r, Wrote(f, S, q, r), q.then # "",
           ~Freeing(q) => \E d \in Clusters : Works(f, S, q, d), Freeing(q) => Frees(f, q)
    PROVE  Carries(f, S, q, r) /\ r \in Ops
<1>1. q \in Ops /\ q.pc = "set" /\ r \in Ops
  BY DEF Wrote, Done, Same
<1>2. q.then \in {"flush", "data", "zero", "free"}
  BY <1>1, OpFields
<1>3. Freeing(q) <=> q.then = "free"
  BY <1>1 DEF Freeing
<1>4. CASE q.then = "flush"
  BY <1>1, <1>3, <1>4, LastTake
<1>5. CASE q.then \in {"data", "zero"}
  BY <1>1, <1>3, <1>5, LastLink
<1>6. CASE q.then = "free"
  BY <1>1, <1>3, <1>6, LastFreed
<1> QED BY <1>2, <1>4, <1>5, <1>6

LEMMA FirstKeeps ==
    ASSUME NEW f, NEW S, NEW o, NEW q, NEW g, Writes1(f, S, o, q, g), OpInv(f, S, o)
    PROVE  /\ Keeps1(f, S, o, q, g) /\ q.then # ""
           /\ ~Freeing(q) => \E d \in Clusters : Works(g, S, q, d)
           /\ Freeing(q) => Frees(g, q)
<1>1. o \in Ops /\ o.pc = "set" /\ q.pc = "set" /\ q.then = o.then
  BY DEF Writes1
<1>2. o.then \in {"flush", "data", "zero", "free"}
  BY <1>1, OpFields DEF OpInv
<1>3. (Freeing(q) <=> o.then = "free") /\ (Freeing(o) <=> o.then = "free")
  BY <1>1 DEF Freeing
<1>4. CASE o.then = "free"
  <2>1. Frees(f, o)
    BY <1>3, <1>4 DEF OpInv
  <2> QED BY <1>1, <1>2, <1>3, <1>4, <2>1, FirstFreed
<1>5. CASE o.then # "free"
  <2>1. PICK d \in Clusters : Works(f, S, o, d)
    BY <1>1, <1>5, AtWork
  <2>2. Keeps1(f, S, o, q, g) /\ Works(g, S, q, d)
    BY <1>2, <1>5, <2>1, FirstTake, FirstLink, FirstGrow
  <2> QED BY <1>1, <1>2, <1>3, <1>5, <2>2
<1> QED BY <1>4, <1>5

-----------------------------------------------------------------------------
(***************************************************************************)
(* fat_set_next: every copy                                                *)
(***************************************************************************)
LEMMA OneMore == \A n \in Nat : n + 1 \in Nat
OBVIOUS

\* What is written is an entry, whatever copy it goes to.
LEMMA SetVal ==
    ASSUME NEW f \in Fats, NEW S, NEW o \in Ops, Vol(f, S, Held(o), Raw(o)), OpInv(f, S, o), o.pc = "set", o.copy = 2
    PROVE  o.val \in Clusters \cup {Free, Eoc}
<1>1. o.then \in {"flush", "data", "zero", "free"}
  BY OpFields DEF OpInv
<1>2. CASE o.then = "free"
  BY <1>2 DEF OpInv, Freeing, Frees
<1>3. CASE o.then # "free"
  <2>1. PICK d \in Clusters : Works(f, S, o, d)
    BY <1>3, AtWork
  <2>2. CASE o.then = "flush"
    BY <2>1, <2>2 DEF Works, AtTake
  <2>3. CASE o.then = "data"
    <3>1. o.val = o.c /\ Extended(f, S, o) /\ o.first \in Clusters /\ ~o.applied
      BY <2>1, <2>3 DEF Works, AtLink
    <3>2. o.first \in Held(o)
      BY <2>3, <3>1, SetHolds DEF Freeing
    <3> QED BY <3>1, <3>2, LiveTops, TopFacts DEF Extended
  <2>4. CASE o.then = "zero"
    <3>1. o.val = o.c /\ o.c = Last(Chain(f, d)) /\ d \in DirTops(S)
      BY <2>1, <2>4 DEF Works, AtGrow
    <3> QED BY <3>1, LiveTops, TopFacts
  <2> QED BY <1>1, <1>3, <2>2, <2>3, <2>4
<1> QED BY <1>2, <1>3

LEMMA FatsKept ==
    ASSUME NEW n \in {1, 2}, NEW F \in [1 .. n -> Fats], NEW k \in 1 .. n, NEW a, NEW v \in Clusters \cup {Free, Eoc},
           NEW G, G = [F EXCEPT ![k][a] = v]
    PROVE  G \in [1 .. n -> Fats] /\ G[k] = [F[k] EXCEPT ![a] = v] /\ (k # 1 => G[1] = F[1])
<1>1. [F[k] EXCEPT ![a] = v] \in Fats
  BY DEF Fats
<1> QED BY <1>1

LEMMA SetDone ==
    ASSUME NEW o \in Ops, o.pc = "set", o.then # "", NEW r,
           r = IF o.then = "free" THEN [o EXCEPT !.pc = "free", !.todo = o.c, !.freed = @ + 1] ELSE [o EXCEPT !.pc = o.then]
    PROVE  Done(o, r)
<1>1. o.then \in {"flush", "data", "zero", "free"} /\ o.freed \in Nat /\ o.c \in Numbers
  BY OpFields
<1>2. CASE o.then = "free"
  <2>1. r = [o EXCEPT !.pc = "free", !.todo = o.c, !.freed = o.freed + 1]
    BY <1>2 DEF Ops
  <2>2. o.freed + 1 \in Nat
    <3> DEFINE n == o.freed
    <3>1. n \in Nat
      BY <1>1
    <3> HIDE DEF n
    <3>2. n + 1 \in Nat
      BY <3>1, OneMore
    <3> QED BY <3>2 DEF n
  <2>3. "free" \in {"find", "set", "flush", "data", "dots", "entry", "zero", "unlink", "free", "ret"}
    OBVIOUS
  <2>4. r \in Ops
    BY <1>1, <2>1, <2>2, <2>3 DEF Ops
  <2>5. /\ r.call = o.call /\ r.first = o.first /\ r.prev = o.prev /\ r.old = o.old /\ r.k = o.k
        /\ r.use = o.use /\ r.c = o.c /\ r.after = o.after /\ r.applied = o.applied /\ r.pc = "free" /\ r.todo = o.c
    BY <2>1 DEF Ops
  <2> QED BY <1>2, <2>4, <2>5 DEF Done, Same
<1>3. CASE o.then # "free"
  <2>1. r = [o EXCEPT !.pc = o.then]
    BY <1>3
  <2>2. o.then \in {"find", "set", "flush", "data", "dots", "entry", "zero", "unlink", "free", "ret"}
    BY <1>1
  <2>3. r \in Ops
    BY <2>1, <2>2 DEF Ops
  <2>4. /\ r.call = o.call /\ r.first = o.first /\ r.prev = o.prev /\ r.old = o.old /\ r.k = o.k
        /\ r.use = o.use /\ r.c = o.c /\ r.after = o.after /\ r.applied = o.applied /\ r.pc = o.then /\ r.todo = o.todo
    BY <2>1 DEF Ops
  <2> QED BY <1>3, <2>3, <2>4 DEF Done, Same
<1> QED BY <1>2, <1>3

\* The call after the first copy
Second(o) == [o EXCEPT !.copy = 2]
LEMMA SecondIs ==
    ASSUME NEW o \in Ops, o.pc = "set"
    PROVE  /\ Second(o) \in Ops /\ Same(o, Second(o)) /\ Second(o).pc = "set" /\ Second(o).copy = 2
           /\ Second(o).then = o.then /\ Second(o).at = o.at /\ Second(o).val = o.val /\ Second(o).todo = o.todo
           /\ \A r : Done(o, r) => Done(Second(o), r)
<1> DEFINE q == Second(o)
<1>1. 2 \in 0 .. 2
  OBVIOUS
<1>2. q \in Ops
  BY <1>1 DEF Second, Ops
<1>3. /\ q.call = o.call /\ q.first = o.first /\ q.prev = o.prev /\ q.old = o.old /\ q.k = o.k
      /\ q.use = o.use /\ q.c = o.c /\ q.after = o.after /\ q.applied = o.applied /\ q.pc = "set" /\ q.copy = 2
      /\ q.then = o.then /\ q.at = o.at /\ q.val = o.val /\ q.todo = o.todo
  BY DEF Second, Ops
<1> HIDE DEF q
<1>4. Same(o, q) /\ \A r : Done(o, r) => Done(q, r)
  BY <1>2, <1>3 DEF Done, Same
<1> QED BY <1>2, <1>3, <1>4 DEF q

\* The files stay; a cluster is lost from its chain only where it is freed.
Turned ==
    /\ Still(fat[1], sec, fat'[1], sec)
    /\ op.copy = 2 => /\ fat'[1] = fat[1]
                      /\ Owned(fat[1], sec, op) \cup Taking(op) \subseteq Owned(fat[1], sec, op')
    /\ op.copy = 1 =>
           /\ op.at \in Clusters /\ fat'[1] = [fat[1] EXCEPT ![op.at] = op.val]
           /\ \A x \in Owned(fat[1], sec, op) : x \in Owned(fat'[1], sec, op') \/ (op.then = "free" /\ x = op.at)
           /\ op.then = "flush" => op.at = op.c /\ op.val = Eoc /\ op.c \in Owned(fat'[1], sec, op') \cup Taking(op')
           /\ op.then \in {"data", "zero"} => op.at \in Owned(fat[1], sec, op) /\ op.val \in Clusters
           /\ op.then = "free" => op.at \in Owned(fat[1], sec, op) /\ op.val = Free

LEMMA CarriesOwned ==
    ASSUME NEW f, NEW S, NEW q, NEW r, Carries(f, S, q, r) PROVE Owned(f, S, q) \cup Taking(q) \subseteq Owned(f, S, r)
<1>1. Vol(f, S, Held(r), Raw(r)) /\ Held(q) \cup Taking(q) \subseteq Held(r)
  BY DEF Carries
<1>2. \A x \in Held(r) : x \in Owns(f, x)
  BY <1>1, LiveTops, TopFacts
<1> QED BY <1>1, <1>2 DEF Owned

LEMMA SetKeeps == ASSUME FatInv, fat_set_next PROVE FatInv' /\ Turned
<1> DEFINE r == IF op.then = "free" THEN [op EXCEPT !.pc = "free", !.todo = op.c, !.freed = @ + 1] ELSE [op EXCEPT !.pc = op.then]
           q == Second(op)
           f == fat[1]
<1>1. /\ op # NoCall /\ op.pc = "set" /\ fat' = [fat EXCEPT ![op.copy][op.at] = op.val]
      /\ UNCHANGED <<num_fats, sec, fsinfo, free_count, answer, faults>>
      /\ IF op.copy < num_fats THEN op' = [op EXCEPT !.copy = @ + 1] /\ fatbuf' = fatbuf ELSE op' = r /\ fatbuf' = NoCache
  BY DEF fat_set_next, Is, Idle
<1>2. /\ op \in Ops /\ Vol(f, sec, Held(op), Raw(op)) /\ OpInv(f, sec, op) /\ FatTypes /\ Fresh(fatbuf, op)
      /\ Cache(f, sec, Held(op), fatbuf) /\ f \in Fats /\ sec \in Medium
  BY <1>1, RunIs
<1>3. num_fats \in {1, 2} /\ fat \in [1 .. num_fats -> Fats] /\ op.copy \in 1 .. num_fats /\ op.then # ""
  BY <1>1, <1>2 DEF FatTypes, OpInv
<1>3a. /\ op.copy = 1 \/ (op.copy = 2 /\ num_fats = 2)
       /\ op.copy < num_fats <=> op.copy = 1 /\ num_fats = 2
  <2>1. \A n \in {1, 2} : \A k \in 1 .. n : (k = 1 \/ (k = 2 /\ n = 2)) /\ (k < n <=> k = 1 /\ n = 2)
    OBVIOUS
  <2> QED BY <1>3, <2>1
<1>3b. /\ op.copy < num_fats => op' = [op EXCEPT !.copy = @ + 1] /\ fatbuf' = fatbuf
       /\ ~(op.copy < num_fats) => op' = r /\ fatbuf' = NoCache
  BY <1>1
<1>4. Done(op, r)
  BY <1>1, <1>2, <1>3, SetDone
<1>5. /\ q \in Ops /\ Same(op, q) /\ q.pc = "set" /\ q.copy = 2
      /\ q.then = op.then /\ q.at = op.at /\ q.val = op.val /\ q.todo = op.todo /\ Done(q, r)
  BY <1>1, <1>2, <1>4, SecondIs
<1> HIDE DEF r, q
<1>6. fsinfo \in Nat /\ free_count \in Nat /\ answer \in {"none", "ok", "err"} /\ faults \in Nat /\ (fatbuf = NoCache \/ fatbuf \in Fats)
  BY <1>2 DEF FatTypes
<1>7. \A b : Cache(fat'[1], sec, Held(r), b) <=> b # NoCache => \A h \in Live(sec) \cup Held(r) : \A c \in Owns(fat'[1], h) : b[c] = fat'[1][c]
  BY DEF Cache
<1>8. Fresh(NoCache, r) /\ Cache(fat'[1], sec, Held(r), NoCache)
  BY DEF Fresh, Cache
<1>9. ASSUME op' = r, fatbuf' = NoCache, fat' \in [1 .. num_fats -> Fats],
             Vol(fat'[1], sec, Held(r), Raw(r)), OpInv(fat'[1], sec, r), r \in Ops
      PROVE  FatInv'
  BY <1>1, <1>2, <1>6, <1>8, <1>9, StepIs
<1>10. CASE op.copy = 2
  <2>1. op.val \in Clusters \cup {Free, Eoc}
    BY <1>1, <1>2, <1>10, SetVal
  <2>2. fat' \in [1 .. num_fats -> Fats] /\ fat'[1] = f
    <3> DEFINE h == [fat[2] EXCEPT ![op.at] = op.val]
    <3>1. fat' = [fat EXCEPT ![2] = h]
      BY <1>1, <1>3, <1>10
    <3>2. h \in Fats
      <4>1. fat[2] \in Fats
        BY <1>3, <1>3a, <1>10
      <4> QED BY <2>1, <4>1 DEF Fats
    <3> HIDE DEF h
    <3>3. fat \in [1 .. 2 -> Fats] /\ num_fats = 2
      BY <1>3, <1>3a, <1>10
    <3>4. fat' \in [1 .. 2 -> Fats] /\ fat'[1] = fat[1]
      BY <3>1, <3>2, <3>3
    <3> QED BY <3>3, <3>4
  <2>3. Wrote(f, sec, op, r)
    BY <1>1, <1>2, <1>4, <1>10 DEF Wrote
  <2>4. ~Freeing(op) => \E d \in Clusters : Works(f, sec, op, d)
    BY <1>1, <1>2 DEF OpInv, Working
  <2>5. Freeing(op) => Frees(f, op)
    BY <1>2 DEF OpInv
  <2>6. Carries(f, sec, op, r) /\ r \in Ops
    BY <1>3, <2>3, <2>4, <2>5, LastKeeps
  <2>7. op' = r /\ fatbuf' = NoCache
    BY <1>3a, <1>3b, <1>10
  <2>8. FatInv'
    BY <1>9, <2>2, <2>6, <2>7 DEF Carries
  <2>9. Turned
    BY <1>10, <2>2, <2>6, <2>7, CarriesOwned, StillSelf DEF Turned
  <2> QED BY <2>8, <2>9
<1>11. CASE op.copy = 1
  <2> DEFINE g == [f EXCEPT ![op.at] = op.val]
  <2>1. Writes1(f, sec, op, q, g)
    BY <1>1, <1>2, <1>5, <1>11 DEF Writes1
  <2>2. /\ Keeps1(f, sec, op, q, g) /\ q.then # ""
        /\ ~Freeing(q) => \E d \in Clusters : Works(g, sec, q, d)
        /\ Freeing(q) => Frees(g, q)
    BY <1>2, <2>1, FirstKeeps
  <2>3. /\ op.at \in Clusters /\ op.val \in Clusters \cup {Free, Eoc} /\ g \in Fats /\ Vol(g, sec, Held(q), Raw(q))
        /\ ~Linking(op) => Cache(g, sec, Held(q), fatbuf)
        /\ Turns(f, sec, op, q, g)
    BY <1>2, <2>2 DEF Keeps1
  <2>4. fat' \in [1 .. num_fats -> Fats] /\ fat'[1] = g
    BY <1>1, <1>3, <1>11, <2>3, FatsKept
  <2>4a. fat'[1] = [fat[1] EXCEPT ![op.at] = op.val]
    BY <2>4
  <2> HIDE DEF g
  <2>4b. Taking(q) = IF op.then = "flush" THEN {op.c} ELSE {}
    BY <1>5, OpFields DEF Taking, Same
  <2>5. CASE num_fats = 1
    <3>1. Wrote(g, sec, q, r)
      BY <1>5, <2>3 DEF Wrote
    <3>2. Carries(g, sec, q, r) /\ r \in Ops
      BY <2>2, <3>1, LastKeeps
    <3>3. op' = r /\ fatbuf' = NoCache
      BY <1>3a, <1>3b, <2>5
    <3>4. FatInv'
      BY <1>9, <2>4, <3>2, <3>3 DEF Carries
    <3>5. Owned(g, sec, q) \cup Taking(q) \subseteq Owned(g, sec, r)
      BY <3>2, CarriesOwned
    <3>6. Turned
      BY <1>11, <2>3, <2>4, <2>4a, <2>4b, <3>3, <3>5 DEF Turned, Turns
    <3> QED BY <3>4, <3>6
  <2>6. CASE num_fats = 2
    <3>1. op' = q /\ fatbuf' = fatbuf
      <4>1. op' = [op EXCEPT !.copy = op.copy + 1] /\ fatbuf' = fatbuf
        BY <1>2, <1>3a, <1>3b, <1>11, <2>6 DEF Ops
      <4>2. op.copy + 1 = 2
        BY <1>11
      <4> QED BY <4>1, <4>2 DEF q, Second
    <3>2. Working(q) => ~Freeing(q)
      BY DEF Working
    <3>3. OpInv(g, sec, q)
      <4>1. q.pc = "set" /\ q.copy \in 1 .. num_fats /\ q.then # "" /\ q.pc # "ret"
        <5>1. 2 \in 1 .. 2
          OBVIOUS
        <5> QED BY <1>5, <2>2, <2>6, <5>1
      <4> QED BY <2>2, <3>2, <4>1 DEF OpInv
    <3>4. Linking(q) <=> Linking(op)
      BY <1>1, <1>5 DEF Linking
    <3>5. Fresh(fatbuf, q) /\ Cache(g, sec, Held(q), fatbuf)
      <4>1. Linking(op) => fatbuf = NoCache
        BY <1>2 DEF Fresh
      <4> QED BY <1>5, <2>3, <3>4, <4>1 DEF Fresh, Cache
    <3>6. FatInv'
      BY <1>1, <1>2, <1>5, <1>6, <2>3, <2>4, <3>1, <3>3, <3>5, StepIs
    <3>7. Turned
      BY <1>11, <2>3, <2>4, <2>4a, <2>4b, <3>1 DEF Turned, Turns
    <3> QED BY <3>6, <3>7
  <2> QED BY <1>3, <2>5, <2>6
<1> QED BY <1>3a, <1>10, <1>11

-----------------------------------------------------------------------------
(***************************************************************************)
(* Blocks and sectors of a new chain are written                           *)
(***************************************************************************)
\* What is live or held stays so.
Kept == Live(sec) \cup Held(op) \subseteq Live(sec') \cup Held(op')
\* A step that shows no one anything
Calm == Still(fat[1], sec, fat[1], sec') /\ Kept

\* A sector is written, the FAT is not: what is held and live was so before.
LEMMA SecMoves ==
    ASSUME FatInv, op # NoCall, UNCHANGED <<num_fats, fat, fsinfo, fatbuf, free_count, answer, faults>>,
           op' \in Ops, sec' \in Medium, Live(sec') \cup Held(op') \subseteq Live(sec) \cup Held(op),
           Vol(fat[1], sec', Held(op'), Raw(op')), OpInv(fat[1], sec', op'), op'.pc # "flush", ~Linking(op')
    PROVE  FatInv'
<1>1. FatTypes /\ Cache(fat[1], sec, Held(op), fatbuf)
  BY RunIs
<1>2. Cache(fat[1], sec', Held(op'), fatbuf)
  BY <1>1 DEF Cache
<1>3. Fresh(fatbuf, op')
  BY DEF Fresh
<1> QED BY <1>1, <1>2, <1>3, StepIs DEF FatTypes

\* The new chain of a call that is not freeing
LEMMA HeldAt ==
    ASSUME NEW o \in Ops, o.pc \in {"data", "dots", "entry", "zero", "find", "unlink"}, ~o.applied
    PROVE  /\ Held(o) = {o.first} \cap Clusters /\ ~Freeing(o) /\ ~Linking(o)
           /\ (o.pc # "zero" => Raw(o) = {}) /\ (o.pc = "zero" /\ o.use = "grow" => Raw(o) = {o.c})
<1>1. ~Freeing(o) /\ ~Linking(o) /\ o # NoCall
  BY OpFields DEF Freeing, Linking
<1>2. HeldFirst(o) = {o.first} \cap Clusters
  BY <1>1 DEF HeldFirst
<1>3. HeldC(o) = {} /\ HeldTodo(o) = {}
  BY <1>1 DEF HeldC, HeldTodo
<1> QED BY <1>1, <1>2, <1>3 DEF Held, Raw

\* The block has been written: q is the call before the next.
BlockNext(o, c, q) ==
    /\ q \in Ops /\ q.k = o.k + 1 /\ q.prev = c /\ q.use = "file"
    /\ q.pc = IF o.k + 1 < Blocks[o.call.v] THEN "find" ELSE "entry"
    /\ q.call = o.call /\ q.first = o.first /\ q.old = o.old /\ q.applied = o.applied
Goes(p, w, q) ==
    /\ q \in Ops /\ q.pc = w /\ q.use = "file" /\ q.k = p.k /\ q.prev = p.prev
    /\ q.call = p.call /\ q.first = p.first /\ q.old = p.old /\ q.applied = p.applied
LEMMA GoesOn ==
    ASSUME NEW p \in Ops, NEW w \in {"find", "entry"}, NEW q, q = [p EXCEPT !.pc = w, !.use = "file"]
    PROVE  Goes(p, w, q)
<1>1. w \in {"find", "set", "flush", "data", "dots", "entry", "zero", "unlink", "free", "ret"} /\ "file" \in {"file", "dir", "grow"}
  OBVIOUS
<1>2. q \in Ops
  BY <1>1 DEF Ops
<1>3. /\ q.pc = w /\ q.use = "file" /\ q.k = p.k /\ q.prev = p.prev
      /\ q.call = p.call /\ q.first = p.first /\ q.old = p.old /\ q.applied = p.applied
  BY DEF Ops
<1> QED BY <1>2, <1>3 DEF Goes

LEMMA NextBlockIs ==
    ASSUME NEW o \in Ops, o.call.do = "write", NEW c \in Clusters
    PROVE  BlockNext(o, c, NextBlock([o EXCEPT !.k = @ + 1, !.prev = c]))
<1> DEFINE n == o.k
           m == n + 1
<1>1. n \in Nat
  BY OpFields
<1> HIDE DEF n
<1>2. m \in Nat
  BY <1>1
<1> HIDE DEF m
<1> DEFINE p == [o EXCEPT !.k = m, !.prev = c]
           w == IF m < Blocks[o.call.v] THEN "find" ELSE "entry"
           q == NextBlock([o EXCEPT !.k = @ + 1, !.prev = c])
<1>3. c \in Clusters \cup {Nil}
  OBVIOUS
<1>4. p \in Ops
  BY <1>2, <1>3 DEF Ops
<1>5. p.k = m /\ p.prev = c /\ p.call = o.call /\ p.first = o.first /\ p.old = o.old /\ p.applied = o.applied
  BY DEF Ops
<1>6. q = NextBlock(p)
  BY DEF m, n
<1> HIDE DEF p, q
<1>7. q = [p EXCEPT !.pc = w, !.use = "file"]
  BY <1>5, <1>6 DEF NextBlock, Blocked
<1>8. w \in {"find", "entry"}
  OBVIOUS
<1> HIDE DEF w
<1>9. /\ q \in Ops /\ q.pc = w /\ q.use = "file" /\ q.k = p.k /\ q.prev = p.prev
      /\ q.call = p.call /\ q.first = p.first /\ q.old = p.old /\ q.applied = p.applied
  <2>1. Goes(p, w, q)
    BY <1>4, <1>7, <1>8, GoesOn
  <2> QED BY <2>1 DEF Goes
<1>10. BlockNext(o, c, q)
  BY <1>5, <1>9 DEF BlockNext, m, n, w
<1> QED BY <1>10 DEF q

\* fat32_write_file: a block of the new chain
LEMMA BlockKeeps == ASSUME FatInv, WriteBlock PROVE FatInv' /\ Calm
<1> DEFINE f == fat[1]
           h == op.first
           s == Chain(f, h)
           k == op.k
           v == op.call.v
<1>1. /\ op # NoCall /\ op.pc = "data" /\ sec' = [sec EXCEPT ![op.c] = Block(v, k + 1)]
      /\ op' = NextBlock([op EXCEPT !.k = @ + 1, !.prev = op.c])
      /\ UNCHANGED <<num_fats, fat, fsinfo, fatbuf, free_count, answer, faults>>
  BY DEF WriteBlock, Is, Idle, memory
<1>2. op \in Ops /\ Vol(f, sec, Held(op), Raw(op)) /\ OpInv(f, sec, op) /\ sec \in Medium
  BY <1>1, RunIs
<1>3. PICK d \in Clusters : Works(f, sec, op, d) /\ Base(f, sec, op, d)
  BY <1>1, <1>2, AtWork
<1>4. /\ op.use = "file" /\ op.call.do = "write" /\ k < Blocks[v] /\ h \in Clusters
      /\ Len(s) = k + 1 /\ op.c = Last(s) /\ Built(f, sec, op, k) /\ ~op.applied
  BY <1>1, <1>3 DEF Works, AtData, Extended
<1>5. k \in Nat /\ v \in Data /\ Blocks[v] \in Nat /\ op.call \in Calls
  <2>1. op.call \in Calls /\ k \in Nat
    BY <1>2, OpFields
  <2>2. v \in Data
    BY <1>4, <2>1 DEF Calls
  <2> QED BY <2>1, <2>2, FatAssumption
<1>6. Held(op) = {h} /\ Raw(op) = {}
  BY <1>1, <1>2, <1>4, HeldAt
<1>7. IsTop(f, h) /\ op.c \in Owns(f, h) /\ op.c \in Clusters /\ op.c = s[k + 1]
      /\ (\A i \in 1 .. k + 1 : s[i] \in Clusters) /\ (\A i, j \in 1 .. k + 1 : s[i] = s[j] => i = j)
  <2>1. IsTop(f, h)
    BY <1>2, <1>6, LiveTops
  <2>2. /\ s \in Seq(Clusters) /\ Last(s) = s[Len(s)] /\ Last(s) \in Owns(f, h) /\ Owns(f, h) \subseteq Clusters
    BY <2>1, TopFacts
  <2>3. \A i, j \in 1 .. Len(s) : s[i] = s[j] => i = j
    BY <2>1 DEF IsTop, Path
  <2> QED BY <1>4, <2>1, <2>2, <2>3
<1>8. /\ op' \in Ops /\ op'.k = k + 1 /\ op'.prev = op.c /\ op'.use = "file"
      /\ op'.pc = IF k + 1 < Blocks[v] THEN "find" ELSE "entry"
      /\ op'.call = op.call /\ op'.first = h /\ op'.old = op.old /\ op'.applied = op.applied
  <2>1. BlockNext(op, op.c, op')
    <3>1. BlockNext(op, op.c, NextBlock([op EXCEPT !.k = @ + 1, !.prev = op.c]))
      BY <1>2, <1>4, <1>7, NextBlockIs
    <3> QED BY <1>1, <3>1
  <2> QED BY <2>1 DEF BlockNext
<1>9. Held(op') = {h} /\ Raw(op') = {} /\ ~Linking(op') /\ op'.pc \in {"find", "entry"}
  <2>1. op'.pc \in {"find", "entry"}
    BY <1>8
  <2> QED BY <1>4, <1>8, <2>1, HeldAt
<1>10. sec' \in Medium /\ Rewrites(sec, sec', op.c) /\ sec'[op.c] = Block(v, k + 1)
  <2>1. Block(v, k + 1) \in Sectors
    BY <1>5 DEF Block, Sectors
  <2> QED BY <1>1, <1>2, <1>7, <2>1 DEF Medium, Rewrites
<1>11. Vol(f, sec', {h}, {}) /\ SameEntries(sec, sec')
  <2>1. \A a \in 1 .. Slots : Val(sec', <<op.c, a>>).kind # "entry"
    BY <1>10 DEF Val, Block, Slot
  <2> QED BY <1>2, <1>6, <1>7, <1>10, <2>1, VolHeld
<1>12. Base(f, sec', op', d)
  BY <1>1, <1>3, <1>8, <1>11, BaseFrame
<1>13. Built(f, sec', op', k + 1)
  <2> SUFFICES ASSUME NEW i \in 1 .. k + 1 PROVE sec'[s[i]] = Block(v, i)
    BY <1>8 DEF Built
  <2>1. CASE i = k + 1
    BY <2>1, <1>7, <1>10
  <2>2. CASE i # k + 1
    <3>1. i \in 1 .. k /\ k + 1 \in 1 .. k + 1
      BY <1>5, <2>2
    <3>2. s[i] # op.c /\ s[i] \in Clusters
      BY <1>7, <2>2, <3>1
    <3>3. sec[s[i]] = Block(v, i)
      BY <1>4, <3>1 DEF Built
    <3> QED BY <1>10, <3>2, <3>3 DEF Rewrites
  <2> QED BY <2>1, <2>2
<1>14. OpInv(f, sec', op')
  <2>1. op'.pc = "find" => Asks(f, sec', op', d)
    <3>1. SUFFICES ASSUME k + 1 < Blocks[v] PROVE Writing(f, sec', op')
      BY <1>8 DEF Asks
    <3>2. k + 1 # 0
      BY <1>5
    <3> QED BY <1>4, <1>8, <1>13, <3>1, <3>2 DEF Writing
  <2>2. op'.pc = "entry" => Ready(f, sec', op')
    <3>1. SUFFICES ASSUME ~(k + 1 < Blocks[v]) PROVE Ready(f, sec', op')
      BY <1>8
    <3>2. k + 1 = Blocks[v]
      BY <1>4, <1>5, <3>1
    <3>3. h # Nil
      BY <1>4, FatAssumption
    <3> QED BY <1>4, <1>8, <1>13, <3>2, <3>3 DEF Ready
  <2> QED BY <1>8, <1>9, <1>12, <2>1, <2>2, AtPlace
<1>15. Live(sec') \cup Held(op') \subseteq Live(sec) \cup Held(op)
  BY <1>6, <1>9, <1>11, SameLive
<1>16. Calm
  <2>1. Kept
    BY <1>6, <1>9, <1>11, SameLive DEF Kept
  <2>2. Still(f, sec, f, sec')
    BY <1>2, <1>6, <1>7, <1>10, <1>11, StillSec
  <2> QED BY <1>1, <2>1, <2>2 DEF Calm
<1> QED BY <1>1, <1>8, <1>9, <1>10, <1>11, <1>14, <1>15, <1>16, SecMoves

\* fat32_mkdir: "." and ".." in the new directory
LEMMA DotsKeep == ASSUME FatInv, WriteDots PROVE FatInv' /\ Calm
<1> DEFINE f == fat[1]
<1>1. /\ op # NoCall /\ op.pc = "dots" /\ sec' = [sec EXCEPT ![op.c] = Dots] /\ op' = [op EXCEPT !.pc = "entry"]
      /\ UNCHANGED <<num_fats, fat, fsinfo, fatbuf, free_count, answer, faults>>
  BY DEF WriteDots, Is, Idle, memory, Dots
<1>2. op \in Ops /\ Vol(f, sec, Held(op), Raw(op)) /\ OpInv(f, sec, op) /\ sec \in Medium
  BY <1>1, RunIs
<1>3. PICK d \in Clusters : Works(f, sec, op, d) /\ Base(f, sec, op, d)
  BY <1>1, <1>2, AtWork
<1>4. op.call.do = "mkdir" /\ op.use = "dir" /\ op.first = op.c /\ op.c \in Clusters /\ Chain(f, op.c) = <<op.c>> /\ ~op.applied
  BY <1>1, <1>3 DEF Works, AtDots
<1>5. Held(op) = {op.c} /\ Raw(op) = {}
  BY <1>1, <1>2, <1>4, HeldAt
<1>6. op.c \in Owns(f, op.c)
  BY <1>2, <1>5, LiveTops, TopFacts
<1>7. /\ op' \in Ops /\ op'.pc = "entry" /\ op'.call = op.call /\ op'.first = op.c /\ op'.old = op.old /\ op'.applied = op.applied
  BY <1>1, <1>2, <1>4 DEF Ops
<1>8. Held(op') = {op.c} /\ Raw(op') = {} /\ ~Linking(op')
  <2>1. op'.pc \in {"data", "dots", "entry", "zero", "find", "unlink"} /\ op'.pc # "zero" /\ ~op'.applied
    BY <1>4, <1>7
  <2> QED BY <1>4, <1>7, <2>1, HeldAt
<1>9. sec' \in Medium /\ Rewrites(sec, sec', op.c) /\ sec'[op.c] = Dots
  <2>1. Dots \in Sectors
    BY DEF Dots, Dir, Slot, Sectors, SlotVals
  <2> QED BY <1>1, <1>2, <1>4, <2>1 DEF Medium, Rewrites
<1>10. Vol(f, sec', {op.c}, {}) /\ SameEntries(sec, sec')
  <2>1. ASSUME NEW a \in 1 .. Slots PROVE Val(sec', <<op.c, a>>).kind # "entry"
    <3>1. Dots.kind = "dir" /\ Dots.slots[a] = IF a <= 2 THEN Slot(".") ELSE Slot("0x00")
      BY DEF Dots, Dir
    <3>2. Val(sec', <<op.c, a>>) = Dots.slots[a]
      BY <1>4, <1>9, <3>1, SlotType
    <3> QED BY <3>1, <3>2 DEF Slot
  <2> QED BY <1>2, <1>5, <1>6, <1>9, <2>1, VolHeld
<1>11. Base(f, sec', op', d)
  BY <1>1, <1>3, <1>7, <1>10, BaseFrame
<1>12. Ready(f, sec', op')
  BY <1>4, <1>7, <1>9 DEF Ready
<1>13. OpInv(f, sec', op')
  BY <1>7, <1>11, <1>12, AtPlace
<1>14. Live(sec') \cup Held(op') \subseteq Live(sec) \cup Held(op)
  BY <1>5, <1>8, <1>10, SameLive
<1>15. Calm
  <2>1. Kept
    BY <1>5, <1>8, <1>10, SameLive DEF Kept
  <2>2. Still(f, sec, f, sec')
    BY <1>2, <1>5, <1>6, <1>9, <1>10, StillSec
  <2> QED BY <1>1, <2>1, <2>2 DEF Calm
<1> QED BY <1>1, <1>7, <1>8, <1>9, <1>10, <1>13, <1>14, <1>15, SecMoves

\* The directory's new cluster is zeroed.
LEMMA ZeroKeeps == ASSUME FatInv, ZeroCluster PROVE FatInv' /\ Calm
<1> DEFINE f == fat[1]
<1>1. /\ op # NoCall /\ op.pc = "zero" /\ sec' = [sec EXCEPT ![op.c] = Blank] /\ op' = [op EXCEPT !.pc = "entry"]
      /\ UNCHANGED <<num_fats, fat, fsinfo, fatbuf, free_count, answer, faults>>
  BY DEF ZeroCluster, Is, Idle, memory
<1>2. op \in Ops /\ Vol(f, sec, Held(op), Raw(op)) /\ OpInv(f, sec, op) /\ sec \in Medium
  BY <1>1, RunIs
<1>3. PICK d \in Clusters : Works(f, sec, op, d) /\ Base(f, sec, op, d)
  BY <1>1, <1>2, AtWork
<1>4. Ready(f, sec, op) /\ op.use = "grow" /\ op.c = Last(Chain(f, d)) /\ ~op.applied /\ d \in DirTops(sec)
  BY <1>1, <1>3 DEF Works, AtZero
<1>5. Held(op) = {op.first} \cap Clusters /\ Raw(op) = {op.c}
  BY <1>1, <1>2, <1>4, HeldAt
<1>6. d \in Live(sec) /\ IsTop(f, d) /\ op.c \in Owns(f, d) /\ op.c \in Clusters
  BY <1>2, <1>4, LiveTops, TopFacts
<1>7. /\ op' \in Ops /\ op'.pc = "entry" /\ op'.call = op.call /\ op'.first = op.first /\ op'.old = op.old
      /\ op'.applied = op.applied /\ op'.k = op.k
  BY <1>1, <1>2 DEF Ops
<1>8. Held(op') = {op.first} \cap Clusters /\ Raw(op') = {} /\ ~Linking(op')
  <2>1. op'.pc \in {"data", "dots", "entry", "zero", "find", "unlink"} /\ op'.pc # "zero" /\ ~op'.applied
    BY <1>4, <1>7
  <2> QED BY <1>7, <2>1, HeldAt
<1>9. sec' \in Medium /\ Rewrites(sec, sec', op.c) /\ sec'[op.c] = Blank
  <2>1. Blank \in Sectors
    BY DEF Blank, Dir, Slot, Sectors, SlotVals
  <2> QED BY <1>1, <1>2, <1>6, <2>1 DEF Medium, Rewrites
<1>10. Vol(f, sec', Held(op'), {}) /\ SameEntries(sec, sec')
  BY <1>2, <1>4, <1>5, <1>8, <1>9, VolZero
<1>11. Base(f, sec', op', d)
  BY <1>1, <1>3, <1>7, <1>10, BaseFrame
<1>12. Ready(f, sec', op')
  <2>1. op.first \in Clusters \cup {Nil} /\ op.k \in Nat /\ op.call \in Calls
    BY <1>2, OpFields
  <2>2. ASSUME op.first \in Clusters
        PROVE IsTop(f, op.first) /\ Chain(f, op.first) = Chain(f, op.first) /\ \A c \in Owns(f, op.first) : sec'[c] = sec[c]
    <3>1. op.first \in Held(op) /\ Tops(f, sec, Held(op)) /\ IsTop(f, op.first)
      BY <1>2, <1>5, <2>2, LiveTops DEF Vol
    <3>2. Owns(f, op.first) \cap Owns(f, d) = {} /\ Owns(f, op.first) \subseteq Clusters
      BY <1>6, <3>1, TopFacts DEF Tops
    <3> QED BY <1>6, <1>9, <3>1, <3>2 DEF Rewrites
  <2> QED BY <1>4, <1>7, <2>1, <2>2, ReadyFrame
<1>13. OpInv(f, sec', op')
  BY <1>7, <1>11, <1>12, AtPlace
<1>14. Live(sec') \cup Held(op') \subseteq Live(sec) \cup Held(op)
  BY <1>5, <1>8, <1>10, SameLive
<1>15. Calm
  <2>1. Kept
    BY <1>5, <1>8, <1>10, SameLive DEF Kept
  <2>2. Still(f, sec, f, sec')
    BY <1>2, <1>4, <1>6, <1>9, <1>10, StillSec
  <2> QED BY <1>1, <2>1, <2>2 DEF Calm
<1> QED BY <1>1, <1>7, <1>8, <1>9, <1>10, <1>13, <1>14, <1>15, SecMoves

-----------------------------------------------------------------------------
(***************************************************************************)
(* The directory the running call works on                                 *)
(***************************************************************************)
\* Where the running call works on its directory: d, read through the cache.
AtDir(d) ==
    /\ Works(fat[1], sec, op, d) /\ Base(fat[1], sec, op, d)
    /\ d \in DirTops(sec) /\ IsTop(fat[1], d) /\ d \in Live(sec)
    /\ ParentOf(op.call) = d /\ Chain(Cached, d) = Chain(fat[1], d) /\ SlotsOf(Cached, d) = SlotsIn(Chain(fat[1], d))
    /\ \A n : Found(Cached, d, n) = Named(fat[1], sec, d, n)
    /\ \A x : At(x) = Val(sec, x)
    /\ Held(op) = {op.first} \cap Clusters /\ Raw(op) = {}
    /\ Vol(fat[1], sec, Held(op), {})

LEMMA AtDirIs == ASSUME FatInv, op # NoCall, op.pc \in {"entry", "unlink"} PROVE \E d \in Clusters : AtDir(d)
<1> DEFINE f == fat[1]
<1>1. op \in Ops /\ Vol(f, sec, Held(op), Raw(op)) /\ OpInv(f, sec, op) /\ Agrees(f, Cached, sec)
      /\ \A h \in Live(sec) : Chain(Cached, h) = Chain(f, h)
  BY RunIs
<1>2. PICK d \in Clusters : Works(f, sec, op, d) /\ Base(f, sec, op, d)
  BY <1>1, AtWork
<1>3. d \in DirTops(sec) /\ ParentIs(sec, op.call, d) /\ ~op.applied
  BY <1>2 DEF Works
<1>4. d \in Live(sec) /\ IsTop(f, d)
  BY <1>1, <1>3, LiveTops
<1>5. ParentOf(op.call) = d
  <2>1. CASE op.call.do \in {"write", "delete"}
    <3>1. op.call.path.dir \in Dirs \cup {Absent}
      <4>1. op.call \in Calls
        BY <1>1, OpFields
      <4>2. op.call.path \in Paths
        BY <2>1, <4>1 DEF Calls
      <4> QED BY <4>2, FatAssumption
    <3>2. DirIs(sec, op.call.path.dir, d)
      BY <1>3, <2>1 DEF ParentIs
    <3> QED BY <1>1, <2>1, <3>1, <3>2, ParentFound DEF ParentOf
  <2>2. CASE op.call.do \notin {"write", "delete"}
    BY <1>3, <2>2 DEF ParentIs, ParentOf
  <2> QED BY <2>1, <2>2
<1>6. Chain(Cached, d) = Chain(f, d) /\ SlotsOf(Cached, d) = SlotsIn(Chain(f, d))
  <2>1. Chain(Cached, d) = Chain(f, d)
    BY <1>1, <1>4
  <2> QED BY <2>1, SlotsOfIs
<1>7. (\A n : Found(Cached, d, n) = Named(f, sec, d, n)) /\ \A x : At(x) = Val(sec, x)
  BY <1>1, <1>3, FoundIs
<1>8. Held(op) = {op.first} \cap Clusters /\ Raw(op) = {}
  BY <1>1, <1>3, HeldAt
<1>9. Vol(f, sec, Held(op), {})
  BY <1>1, <1>8
<1>10. AtDir(d)
  BY <1>2, <1>3, <1>4, <1>5, <1>6, <1>7, <1>8, <1>9 DEF AtDir
<1> QED BY <1>10

LEMMA SlotsHeld ==
    ASSUME NEW S \in Medium, NEW c \in Clusters, S[c].kind = "dir"
    PROVE  S[c].slots \in [1 .. Slots -> SlotVals] /\ \A a \in 1 .. Slots : Val(S, <<c, a>>) = S[c].slots[a]
<1>1. S[c] \in [kind : {"dir"}, slots : [1 .. Slots -> SlotVals]]
  BY DEF Medium, Sectors
<1> QED BY <1>1, SlotType

\* What lies elsewhere stays.
LEMMA OtherEntries ==
    ASSUME NEW S, NEW T, NEW c, Rewrites(S, T, c), NEW Q \in SUBSET (1 .. Slots),
           \A a \in (1 .. Slots) \ Q : Val(T, <<c, a>>) = Val(S, <<c, a>>),
           NEW y \in AllSlots, ~(y[1] = c /\ y[2] \in Q)
    PROVE  Val(T, y) = Val(S, y) /\ (y \in E(T) <=> y \in E(S))
<1>1. y = <<y[1], y[2]>> /\ y[2] \in 1 .. Slots
  BY DEF AllSlots
<1>2. CASE y[1] # c
  BY <1>2, OtherSlots
<1>3. CASE y[1] = c
  <2>1. Val(T, y) = Val(S, y)
    BY <1>1, <1>3
  <2> QED BY <2>1 DEF E
<1> QED BY <1>2, <1>3

\* The first place that fits, or none
PlaceAt(s, all) ==
    \/ Place = 0 /\ \A i \in 1 .. Len(s), a \in 1 .. Slots : ~Fits(<<s[i], a>>)
    \/ \E g \in 1 .. Len(s), b \in 1 .. Slots :
           /\ Place = Index(g, b) /\ Place # 0 /\ all[Place] = <<s[g], b>> /\ Fits(<<s[g], b>>)
           /\ \A i \in 1 .. Len(s), a \in 1 .. Slots : Before(i, a, g, b) => ~Fits(<<s[i], a>>)
LEMMA PlaceIs ==
    ASSUME NEW s \in Seq(Clusters), NEW all, all = SlotsIn(s), all = SlotsOf(Cached, ParentOf(op.call))
    PROVE  PlaceAt(s, all)
<1> DEFINE X == {k \in 1 .. Len(all) : Fits(all[k])}
<1>1. Place = IF X # {} THEN Min(X) ELSE 0
  BY DEF Place, SelectInSeq
<1>1a. PICK n : ListOf(s, all, n)
  BY SlotsListed
<1>2. /\ Len(all) = n /\ n \in Nat
      /\ \A k \in 1 .. n : \E i \in 1 .. Len(s), a \in 1 .. Slots : all[k] = <<s[i], a>> /\ k = Index(i, a)
      /\ \A i \in 1 .. Len(s), a \in 1 .. Slots : Index(i, a) \in 1 .. n /\ all[Index(i, a)] = <<s[i], a>>
  BY <1>1a DEF ListOf
<1>3. X = {k \in 1 .. n : Fits(all[k])} /\ X \subseteq Nat
  BY <1>2
<1> HIDE DEF X
<1>4. CASE X = {}
  <2>1. Place = 0
    BY <1>1, <1>4
  <2>2. ASSUME NEW i \in 1 .. Len(s), NEW a \in 1 .. Slots PROVE ~Fits(<<s[i], a>>)
    <3>1. Index(i, a) \in 1 .. n /\ all[Index(i, a)] = <<s[i], a>>
      BY <1>2
    <3> QED BY <1>3, <1>4, <3>1
  <2> QED BY <2>1, <2>2 DEF PlaceAt
<1>5. CASE X # {}
  <2>1. Place \in X /\ \A k \in X : Place <= k
    BY <1>1, <1>3, <1>5, MinIs
  <2>2. Place \in 1 .. n /\ Fits(all[Place])
    BY <1>3, <2>1
  <2>3. PICK g \in 1 .. Len(s), b \in 1 .. Slots : all[Place] = <<s[g], b>> /\ Place = Index(g, b)
    BY <1>2, <2>2
  <2>4. ASSUME NEW i \in 1 .. Len(s), NEW a \in 1 .. Slots, Before(i, a, g, b) PROVE ~Fits(<<s[i], a>>)
    <3>1. Index(i, a) \in 1 .. n /\ all[Index(i, a)] = <<s[i], a>>
      BY <1>2
    <3>2. Index(i, a) < Index(g, b)
      <4>1. i \in Nat \ {0} /\ g \in Nat \ {0}
        OBVIOUS
      <4> QED BY <2>4, <4>1, IndexOrder
    <3>3. Index(i, a) \notin X
      <4>1. Index(i, a) \in Int /\ Index(g, b) \in Int
        BY <2>2, <2>3, <3>1
      <4>2. ~(Index(g, b) <= Index(i, a))
        BY <3>2, <4>1
      <4> QED BY <2>1, <2>3, <4>2
    <3> QED BY <1>3, <3>1, <3>3
  <2>5. Place # 0
    BY <2>2
  <2> QED BY <2>2, <2>3, <2>4, <2>5 DEF PlaceAt
<1> QED BY <1>4, <1>5

HasZero(c) == \E j \in 1 .. Slots : Val(sec, <<c, j>>).kind = "0x00"
Passed(all, c) == Place = 0 \/ c \in {all[i][1] : i \in 1 .. Place} \ {all[Place][1]}

LEMMA GapDef ==
    ASSUME NEW s \in Seq(Clusters), s = Chain(Cached, ParentOf(op.call)), NEW all, all = SlotsOf(Cached, ParentOf(op.call)),
           \A x : At(x) = Val(sec, x)
    PROVE  IF LeafOf(op.call) \notin Long THEN Gap = 0
           ELSE \/ Gap = 0 /\ \A i \in 1 .. Len(s) : ~(HasZero(s[i]) /\ Passed(all, s[i]))
                \/ /\ Gap \in 1 .. Len(s) /\ HasZero(s[Gap]) /\ Passed(all, s[Gap])
                   /\ \A i \in 1 .. Gap - 1 : ~(HasZero(s[i]) /\ Passed(all, s[i]))
<1>1. LeafOf(op.call) \notin Long => Gap = 0
  BY DEF Gap
<1> DEFINE X == {i \in 1 .. Len(s) : HasZero(s[i]) /\ Passed(all, s[i])}
<1>2. LeafOf(op.call) \in Long => Gap = IF X # {} THEN Min(X) ELSE 0
  <2> DEFINE Y == {i \in 1 .. Len(Chain(Cached, ParentOf(op.call))) :
                      /\ \E j \in 1 .. Slots : At(<<Chain(Cached, ParentOf(op.call))[i], j>>).kind = "0x00"
                      /\ \/ Place = 0
                         \/ Chain(Cached, ParentOf(op.call))[i]
                               \in {SlotsOf(Cached, ParentOf(op.call))[k][1] : k \in 1 .. Place}
                                     \ {SlotsOf(Cached, ParentOf(op.call))[Place][1]}}
  <2>1. LeafOf(op.call) \in Long => Gap = IF Y # {} THEN Min(Y) ELSE 0
    BY DEF Gap, SelectInSeq
  <2>2. Y = X
    <3>1. \A c, j : At(<<c, j>>) = Val(sec, <<c, j>>)
      OBVIOUS
    <3> QED BY <3>1 DEF HasZero, Passed
  <2> HIDE DEF X, Y
  <2> QED BY <2>1, <2>2
<1>3. X \subseteq Nat
  OBVIOUS
<1>4. X # {} => Min(X) \in X /\ \A k \in X : Min(X) <= k
  <2> HIDE DEF X
  <2> QED BY <1>3, MinIs
<1>5. ASSUME LeafOf(op.call) \in Long, X = {}
      PROVE  Gap = 0 /\ \A i \in 1 .. Len(s) : ~(HasZero(s[i]) /\ Passed(all, s[i]))
  BY <1>2, <1>5
<1>6. ASSUME LeafOf(op.call) \in Long, X # {}
      PROVE  /\ Gap \in 1 .. Len(s) /\ HasZero(s[Gap]) /\ Passed(all, s[Gap])
             /\ \A i \in 1 .. Gap - 1 : ~(HasZero(s[i]) /\ Passed(all, s[i]))
  <2>1. Gap = Min(X)
    BY <1>2, <1>6
  <2> DEFINE m == Min(X)
  <2>2. m \in X /\ \A k \in X : m <= k
    BY <1>4, <1>6
  <2> HIDE DEF m
  <2>3. m \in 1 .. Len(s) /\ HasZero(s[m]) /\ Passed(all, s[m])
    BY <2>2
  <2>4. ASSUME NEW i \in 1 .. m - 1 PROVE ~(HasZero(s[i]) /\ Passed(all, s[i]))
    <3>1. i \in 1 .. Len(s) /\ ~(m <= i)
      BY <2>3
    <3> QED BY <2>2, <3>1
  <2> QED BY <2>1, <2>3, <2>4 DEF m
<1> QED BY <1>1, <1>5, <1>6

-----------------------------------------------------------------------------
(***************************************************************************)
(* The place in the directory and the sector to mark                       *)
(***************************************************************************)
\* What the directory of the running call is.
LEMMA DirChain ==
    ASSUME NEW d, AtDir(d), NEW s, s = Chain(fat[1], d)
    PROVE  /\ s \in Seq(Clusters) /\ Len(s) \in Nat /\ (\A i, j \in 1 .. Len(s) : s[i] = s[j] => i = j)
           /\ Owns(fat[1], d) = {s[i] : i \in 1 .. Len(s)} /\ TailFree(sec, s, {})
           /\ (\A i \in 1 .. Len(s) : s[i] \in Clusters /\ sec[s[i]].kind = "dir" /\ s[i] \in Owns(fat[1], d))
           /\ sec \in Medium /\ s = Chain(Cached, ParentOf(op.call)) /\ SlotsIn(s) = SlotsOf(Cached, ParentOf(op.call))
<1>1. IsTop(fat[1], d) /\ d \in DirTops(sec) /\ DirsOk(fat[1], sec, {}) /\ sec \in Medium
  BY DEF AtDir, Vol, VolTypes
<1>2. /\ s \in Seq(Clusters) /\ Len(s) \in Nat /\ Owns(fat[1], d) = {s[i] : i \in 1 .. Len(s)}
      /\ \A i, j \in 1 .. Len(s) : s[i] = s[j] => i = j
  <2>1. \A i, j \in 1 .. Len(s) : s[i] = s[j] => i = j
    BY <1>1 DEF IsTop, Path
  <2> QED BY <1>1, <2>1, TopFacts
<1>3. \A i \in 1 .. Len(s) : s[i] \in Clusters /\ sec[s[i]].kind = "dir" /\ s[i] \in Owns(fat[1], d)
  BY <1>1, <1>2 DEF DirsOk
<1>4. TailFree(sec, s, {})
  BY <1>1 DEF DirsOk
<1> QED BY <1>1, <1>2, <1>3, <1>4 DEF AtDir

\* The sectors passed lie before that of the place.
LEMMA PassedIs ==
    ASSUME NEW s \in Seq(Clusters), NEW all, NEW n, ListOf(s, all, n), \A i, j \in 1 .. Len(s) : s[i] = s[j] => i = j,
           NEW g \in 1 .. Len(s), NEW b \in 1 .. Slots, Place = Index(g, b), Place # 0, all[Place] = <<s[g], b>>,
           NEW i \in 1 .. Len(s)
    PROVE  Passed(all, s[i]) <=> i < g
<1>1. /\ \A k \in 1 .. n : \E j \in 1 .. Len(s), a \in 1 .. Slots : all[k] = <<s[j], a>> /\ k = Index(j, a)
      /\ \A j \in 1 .. Len(s), a \in 1 .. Slots : Index(j, a) \in 1 .. n /\ all[Index(j, a)] = <<s[j], a>>
      /\ n \in Nat
  BY DEF ListOf
<1>2. Place \in 1 .. n /\ all[Place][1] = s[g]
  BY <1>1
<1>3. Passed(all, s[i]) <=> s[i] \in {all[k][1] : k \in 1 .. Place} /\ s[i] # s[g]
  BY <1>2 DEF Passed
<1>4. ASSUME i < g PROVE s[i] \in {all[k][1] : k \in 1 .. Place} /\ s[i] # s[g]
  <2>1. 1 \in 1 .. Slots
    BY FatAssumption
  <2>2. Index(i, 1) \in 1 .. n /\ all[Index(i, 1)] = <<s[i], 1>>
    BY <1>1, <2>1
  <2>3. Index(i, 1) < Index(g, b)
    <3>1. Before(i, 1, g, b) /\ i \in Nat \ {0} /\ g \in Nat \ {0}
      BY <1>4 DEF Before
    <3> QED BY <2>1, <3>1, IndexOrder
  <2>4. Index(i, 1) \in 1 .. Place
    <3>1. Place \in Nat /\ Index(i, 1) < Place
      BY <1>1, <1>2, <2>3
    <3>2. \A k \in 1 .. n : k < Place => k \in 1 .. Place
      BY <3>1
    <3> QED BY <2>2, <3>1, <3>2
  <2>5. all[Index(i, 1)][1] = s[i]
    BY <2>2
  <2> QED BY <1>4, <2>4, <2>5
<1>5. ASSUME s[i] \in {all[k][1] : k \in 1 .. Place}, s[i] # s[g] PROVE i < g
  <2>1. PICK k \in 1 .. Place : all[k][1] = s[i]
    BY <1>5
  <2>2. k \in 1 .. n /\ k <= Place
    BY <1>1, <1>2
  <2>3. PICK j \in 1 .. Len(s), a \in 1 .. Slots : all[k] = <<s[j], a>> /\ k = Index(j, a)
    BY <1>1, <2>2
  <2>4. j = i
    BY <2>1, <2>3
  <2>5. i # g
    BY <1>5
  <2>6. ~(g < i)
    <3>1. SUFFICES ASSUME g < i PROVE FALSE
      OBVIOUS
    <3>2. Before(g, b, i, a) /\ i \in Nat \ {0} /\ g \in Nat \ {0}
      BY <3>1 DEF Before
    <3>3. Index(g, b) < Index(i, a)
      BY <3>2, IndexOrder
    <3>4. Place < k /\ Place \in Nat /\ k \in Nat
      BY <1>1, <1>2, <2>2, <2>3, <2>4, <3>3
    <3> QED BY <2>2, <3>4
  <2> QED BY <2>5, <2>6
<1> QED BY <1>3, <1>4, <1>5

FreeKinds == {"0x00", "0xE5"}
RoomAt(s, g, b) ==
    /\ g \in 1 .. Len(s) /\ b \in 1 .. Slots /\ SlotsOf(Cached, ParentOf(op.call))[Place] = <<s[g], b>>
    /\ Val(sec, <<s[g], b>>).kind \in FreeKinds
    /\ LeafOf(op.call) \in Long => b + 1 \in 1 .. Slots /\ Val(sec, <<s[g], b + 1>>).kind \in FreeKinds
    /\ \A i \in 1 .. Len(s), a \in 1 .. Slots : Before(i, a, g, b) => Val(sec, <<s[i], a>>).kind # "0x00"

LEMMA FitsIs ==
    ASSUME \A x : At(x) = Val(sec, x), NEW c, NEW b \in 1 .. Slots
    PROVE  /\ Fits(<<c, b>>) => Val(sec, <<c, b>>).kind \in FreeKinds
           /\ Fits(<<c, b>>) /\ LeafOf(op.call) \in Long => b + 1 \in 1 .. Slots /\ Val(sec, <<c, b + 1>>).kind \in FreeKinds
           /\ LeafOf(op.call) \notin Long /\ Val(sec, <<c, b>>).kind = "0x00" => Fits(<<c, b>>)
           /\ LeafOf(op.call) \in Long /\ b < Slots /\ Val(sec, <<c, b>>).kind = "0x00" /\ Val(sec, <<c, b + 1>>).kind = "0x00"
                => Fits(<<c, b>>)
<1>1. <<c, b>>[1] = c /\ <<c, b>>[2] = b
  OBVIOUS
<1>2. \A y : IsFree(y) <=> Val(sec, y).kind \in FreeKinds
  BY DEF IsFree, FreeKinds
<1>3. Fits(<<c, b>>) <=> IF LeafOf(op.call) \in Long THEN b < Slots /\ IsFree(<<c, b>>) /\ IsFree(<<c, b + 1>>) ELSE IsFree(<<c, b>>)
  BY <1>1 DEF Fits
<1>4. b < Slots => b + 1 \in 1 .. Slots
  BY FatAssumption
<1> QED BY <1>2, <1>3, <1>4 DEF FreeKinds

LEMMA PutIs ==
    ASSUME NEW d, AtDir(d), Gap = 0, Place # 0
    PROVE  \E g, b : RoomAt(Chain(fat[1], d), g, b)
<1> DEFINE s == Chain(fat[1], d)
           all == SlotsIn(s)
<1>1. /\ s \in Seq(Clusters) /\ Len(s) \in Nat /\ (\A i, j \in 1 .. Len(s) : s[i] = s[j] => i = j) /\ TailFree(sec, s, {})
      /\ s = Chain(Cached, ParentOf(op.call)) /\ all = SlotsOf(Cached, ParentOf(op.call))
  BY DirChain
<1>2. \A x : At(x) = Val(sec, x)
  BY DEF AtDir
<1>3. PICK n : ListOf(s, all, n)
  BY <1>1, SlotsListed
<1> HIDE DEF all, s
<1>3a. all = SlotsIn(s)
  BY DEF all
<1>4. PICK g \in 1 .. Len(s), b \in 1 .. Slots :
          /\ Place = Index(g, b) /\ all[Place] = <<s[g], b>> /\ Fits(<<s[g], b>>)
          /\ \A i \in 1 .. Len(s), a \in 1 .. Slots : Before(i, a, g, b) => ~Fits(<<s[i], a>>)
  <2>1. PlaceAt(s, all)
    BY <1>1, <1>3a, PlaceIs
  <2> QED BY <2>1 DEF PlaceAt
<1>5. /\ Val(sec, <<s[g], b>>).kind \in FreeKinds
      /\ LeafOf(op.call) \in Long => b + 1 \in 1 .. Slots /\ Val(sec, <<s[g], b + 1>>).kind \in FreeKinds
  BY <1>2, <1>4, FitsIs
<1>6. ASSUME NEW i \in 1 .. Len(s), NEW a \in 1 .. Slots, Before(i, a, g, b) PROVE Val(sec, <<s[i], a>>).kind # "0x00"
  <2>1. ~Fits(<<s[i], a>>)
    BY <1>4, <1>6
  <2>2. CASE LeafOf(op.call) \notin Long
    BY <1>2, <2>1, <2>2, FitsIs
  <2>3. CASE LeafOf(op.call) \in Long /\ i < g
    <3>1. Passed(all, s[i])
      BY <1>1, <1>3, <1>4, <2>3, PassedIs
    <3>2. \A j \in 1 .. Len(s) : ~(HasZero(s[j]) /\ Passed(all, s[j]))
      <4>1. Gap \notin 1 .. Len(s)
        OBVIOUS
      <4> QED BY <1>1, <1>2, <2>3, <4>1, GapDef
    <3> QED BY <3>1, <3>2 DEF HasZero
  <2>4. CASE LeafOf(op.call) \in Long /\ ~(i < g)
    <3>1. i = g /\ a < b
      BY <1>6, <2>4 DEF Before
    <3>2. a + 1 \in 1 .. Slots /\ a < Slots /\ Before(i, a, i, a + 1)
      BY <3>1, FatAssumption DEF Before
    <3>3. SUFFICES ASSUME Val(sec, <<s[i], a>>).kind = "0x00" PROVE Fits(<<s[i], a>>)
      BY <2>1
    <3>4. Val(sec, <<s[i], a + 1>>).kind = "0x00"
      BY <1>1, <3>2, <3>3 DEF TailFree
    <3> QED BY <1>2, <2>4, <3>2, <3>3, <3>4, FitsIs
  <2> QED BY <2>2, <2>3, <2>4
<1>7. RoomAt(s, g, b)
  BY <1>1, <1>4, <1>5, <1>6 DEF RoomAt
<1> QED BY <1>7 DEF s

\* Without a place and without a sector to mark the directory has no free slot left that ends it.
LEMMA FullIs ==
    ASSUME NEW d, AtDir(d), Gap = 0, Place = 0, NEW c \in Owns(fat[1], d), NEW a \in 1 .. Slots
    PROVE  Val(sec, <<c, a>>).kind # "0x00"
<1> DEFINE s == Chain(fat[1], d)
           all == SlotsIn(s)
<1>1. /\ s \in Seq(Clusters) /\ Len(s) \in Nat /\ Owns(fat[1], d) = {s[i] : i \in 1 .. Len(s)}
      /\ s = Chain(Cached, ParentOf(op.call)) /\ all = SlotsOf(Cached, ParentOf(op.call))
  BY DirChain
<1>2. \A x : At(x) = Val(sec, x)
  BY DEF AtDir
<1> HIDE DEF all, s
<1>3. PICK i \in 1 .. Len(s) : c = s[i]
  BY <1>1
<1>4. CASE LeafOf(op.call) \notin Long
  <2>1. all = SlotsIn(s) /\ ~(Place # 0)
    BY DEF all
  <2>2. \A j \in 1 .. Len(s), b \in 1 .. Slots : ~Fits(<<s[j], b>>)
    <3>1. PlaceAt(s, all)
      BY <1>1, <2>1, PlaceIs
    <3> QED BY <2>1, <3>1 DEF PlaceAt
  <2> QED BY <1>2, <1>3, <1>4, <2>2, FitsIs
<1>5. CASE LeafOf(op.call) \in Long
  <2>1. Gap \notin 1 .. Len(s) /\ Passed(all, s[i])
    BY DEF Passed
  <2>2. ~HasZero(s[i])
    BY <1>1, <1>2, <1>5, <2>1, GapDef
  <2> QED BY <1>3, <2>2 DEF HasZero
<1> QED BY <1>4, <1>5

\* The sectors before the one to mark have no such slot.
LEMMA GapIs ==
    ASSUME NEW d, AtDir(d), Gap # 0, NEW s, s = Chain(fat[1], d)
    PROVE  Gap \in 1 .. Len(s) /\ \A i \in 1 .. Gap - 1, a \in 1 .. Slots : Val(sec, <<s[i], a>>).kind # "0x00"
<1> DEFINE all == SlotsIn(s)
<1>1. /\ s \in Seq(Clusters) /\ Len(s) \in Nat /\ (\A i, j \in 1 .. Len(s) : s[i] = s[j] => i = j)
      /\ s = Chain(Cached, ParentOf(op.call)) /\ all = SlotsOf(Cached, ParentOf(op.call))
  BY DirChain
<1>2. \A x : At(x) = Val(sec, x)
  BY DEF AtDir
<1>3. PICK n : ListOf(s, all, n)
  BY <1>1, SlotsListed
<1> HIDE DEF all
<1>4. /\ Gap \in 1 .. Len(s) /\ Passed(all, s[Gap])
      /\ \A i \in 1 .. Gap - 1 : ~(HasZero(s[i]) /\ Passed(all, s[i]))
  BY <1>1, <1>2, GapDef
<1>5. ASSUME NEW i \in 1 .. Gap - 1 PROVE i \in 1 .. Len(s) /\ Passed(all, s[i])
  <2>1. i \in 1 .. Len(s) /\ i < Gap
    BY <1>1, <1>4
  <2>2. CASE Place = 0
    BY <2>1, <2>2 DEF Passed
  <2>3. CASE Place # 0
    <3>1. all = SlotsIn(s)
      BY DEF all
    <3>2. PICK g \in 1 .. Len(s), b \in 1 .. Slots : Place = Index(g, b) /\ all[Place] = <<s[g], b>>
      <4>1. PlaceAt(s, all)
        BY <1>1, <3>1, PlaceIs
      <4> QED BY <2>3, <4>1 DEF PlaceAt
    <3>3. Gap < g
      BY <1>1, <1>3, <1>4, <2>3, <3>2, PassedIs
    <3>4. i < g
      BY <1>4, <2>1, <3>3
    <3> QED BY <1>1, <1>3, <2>1, <2>3, <3>2, <3>4, PassedIs
  <2> QED BY <2>1, <2>2, <2>3
<1>6. ASSUME NEW i \in 1 .. Gap - 1, NEW a \in 1 .. Slots PROVE Val(sec, <<s[i], a>>).kind # "0x00"
  BY <1>4, <1>5 DEF HasZero
<1> QED BY <1>4, <1>6

-----------------------------------------------------------------------------
(***************************************************************************)
(* dir_alloc_run marks a sector, a directory gets its cluster              *)
(***************************************************************************)
\* The call goes on at "entry" after a write into the directory.
LEMMA StaysReady ==
    ASSUME NEW d, AtDir(d), op \in Ops, op.pc = "entry", NEW T, NEW c \in Owns(fat[1], d), Rewrites(sec, T, c)
    PROVE  Ready(fat[1], T, op)
<1> DEFINE f == fat[1]
<1>1. Ready(f, sec, op) /\ Held(op) = {op.first} \cap Clusters /\ Vol(f, sec, Held(op), {}) /\ d \in Live(sec)
  BY DEF AtDir, Works, AtPut
<1>2. op.first \in Clusters \cup {Nil} /\ op.k \in Nat /\ op.call \in Calls
  BY OpFields
<1>3. ASSUME op.first \in Clusters
      PROVE  IsTop(f, op.first) /\ \A x \in Owns(f, op.first) : T[x] = sec[x]
  <2>1. op.first \in Held(op) /\ Tops(f, sec, Held(op)) /\ IsTop(f, op.first)
    BY <1>1, <1>3, LiveTops DEF Vol
  <2>2. Owns(f, op.first) \cap Owns(f, d) = {} /\ Owns(f, op.first) \subseteq Clusters
    BY <1>1, <2>1, TopFacts DEF Tops
  <2> QED BY <2>1, <2>2 DEF Rewrites
<1> QED BY <1>1, <1>2, <1>3, ReadyFrame

LEMMA MarkKeeps == ASSUME FatInv, MarkGap PROVE FatInv' /\ Calm
<1> DEFINE f == fat[1]
<1>1. /\ op # NoCall /\ op.pc = "entry" /\ Gap # 0 /\ UNCHANGED <<num_fats, fat, fsinfo, fatbuf, free_count, op, answer, faults>>
  BY DEF MarkGap, AtEntry, Is, Idle
<1>2. op \in Ops /\ sec \in Medium
  BY <1>1, RunIs
<1>3. PICK d \in Clusters : AtDir(d)
  BY <1>1, AtDirIs
<1> DEFINE s == Chain(f, d)
           c == s[Gap]
           sl == [i \in 1 .. Slots |-> Marked(sec[c].slots[i])]
<1>4. /\ Gap \in 1 .. Len(s) /\ \A i \in 1 .. Gap - 1, a \in 1 .. Slots : Val(sec, <<s[i], a>>).kind # "0x00"
  BY <1>1, <1>3, GapIs
<1>5. c \in Clusters /\ sec[c].kind = "dir" /\ c \in Owns(f, d) /\ s = Chain(Cached, ParentOf(op.call))
  BY <1>3, <1>4, DirChain
<1>6. sec[c].slots \in [1 .. Slots -> SlotVals] /\ \A a \in 1 .. Slots : Val(sec, <<c, a>>) = sec[c].slots[a]
  BY <1>2, <1>5, SlotsHeld
<1>7. sec' = [sec EXCEPT ![c] = Dir(sl)]
  BY <1>5 DEF MarkGap, Marked
<1>8. Dir(sl) \in Sectors
  <2>1. \A v \in SlotVals : Marked(v) \in SlotVals
    BY DEF Marked, Slot, SlotVals
  <2>2. sl \in [1 .. Slots -> SlotVals]
    BY <1>6, <2>1
  <2> QED BY <2>2 DEF Dir, Sectors
<1>9. sec' \in Medium /\ Rewrites(sec, sec', c) /\ sec'[c] = Dir(sl)
  BY <1>2, <1>5, <1>7, <1>8 DEF Medium, Rewrites
<1>10. sec'[c].kind = "dir" /\ \A a \in 1 .. Slots : Val(sec', <<c, a>>) = Marked(Val(sec, <<c, a>>))
  <2>1. sec'[c].kind = "dir" /\ sec'[c].slots = sl
    BY <1>9 DEF Dir
  <2> SUFFICES ASSUME NEW a \in 1 .. Slots PROVE Val(sec', <<c, a>>) = Marked(Val(sec, <<c, a>>))
    BY <2>1
  <2>2. Val(sec', <<c, a>>) = sl[a]
    BY <1>5, <1>9, <2>1, SlotType
  <2> QED BY <1>6, <2>2
<1> HIDE DEF sl
<1>11. Vol(f, sec', Held(op), {}) /\ SameEntries(sec, sec')
  <2>1. Vol(f, sec, Held(op), {}) /\ d \in DirTops(sec)
    BY <1>3 DEF AtDir
  <2> QED BY <1>4, <1>9, <1>10, <2>1, VolMark
<1>12. Base(f, sec', op, d) /\ Held(op') = Held(op) /\ Raw(op') = {} /\ ~Linking(op)
  <2>1. Base(f, sec, op, d) /\ Raw(op) = {}
    BY <1>3 DEF AtDir
  <2>2. Base(f, sec', op, d)
    BY <1>1, <1>11, <2>1, BaseFrame
  <2> QED BY <1>1, <2>1, <2>2 DEF Linking
<1>13. OpInv(f, sec', op)
  BY <1>1, <1>2, <1>3, <1>5, <1>9, <1>12, StaysReady, AtPlace
<1>14. Live(sec') = Live(sec)
  BY <1>11, SameLive
<1>15. Calm
  <2>1. Kept
    BY <1>1, <1>14 DEF Kept
  <2>2. Vol(f, sec, Held(op), {}) /\ d \in DirTops(sec)
    BY <1>3 DEF AtDir
  <2> HIDE DEF c
  <2>3. Still(f, sec, f, sec')
    BY <1>5, <1>9, <1>11, <2>2, StillSec
  <2> QED BY <1>1, <2>1, <2>3 DEF Calm
<1> QED BY <1>1, <1>2, <1>9, <1>11, <1>12, <1>13, <1>14, <1>15, SecMoves

LEMMA GrowKeeps == ASSUME FatInv, Grow PROVE FatInv' /\ Calm
<1> DEFINE f == fat[1]
<1>1. /\ op # NoCall /\ op.pc = "entry" /\ Gap = 0 /\ Place = 0
      /\ op' = [op EXCEPT !.pc = "find", !.use = "grow", !.prev = Last(Chain(Cached, ParentOf(op.call)))]
      /\ UNCHANGED <<num_fats, fat, sec, fsinfo, fatbuf, free_count, answer, faults>>
  BY DEF Grow, AtEntry, Is, Idle, disk
<1>2. op \in Ops /\ FatTypes
  BY <1>1, RunIs
<1>3. PICK d \in Clusters : AtDir(d)
  BY <1>1, AtDirIs
<1> DEFINE b == Last(Chain(f, d))
<1>4. /\ Chain(Cached, ParentOf(op.call)) = Chain(f, d) /\ Base(f, sec, op, d) /\ Ready(f, sec, op)
      /\ Held(op) = {op.first} \cap Clusters /\ Raw(op) = {} /\ IsTop(f, d) /\ ~op.applied
  BY <1>1, <1>3 DEF AtDir, Works, AtPut
<1>5. b \in Clusters \cup {Nil} /\ op' = [op EXCEPT !.pc = "find", !.use = "grow", !.prev = b]
  <2>1. b \in Clusters
    BY <1>4, TopFacts
  <2> QED BY <1>1, <1>4, <2>1
<1> HIDE DEF b
<1>6. op' \in Ops
  <2>1. "find" \in {"find", "set", "flush", "data", "dots", "entry", "zero", "unlink", "free", "ret"} /\ "grow" \in {"file", "dir", "grow"}
    OBVIOUS
  <2> QED BY <1>2, <1>5, <2>1 DEF Ops
<1>7. /\ op'.pc = "find" /\ op'.use = "grow" /\ op'.prev = b /\ op'.call = op.call /\ op'.first = op.first /\ op'.old = op.old
      /\ op'.k = op.k /\ op'.applied = op.applied
  BY <1>2, <1>5 DEF Ops
<1>8. Held(op') = Held(op) /\ Raw(op') = {} /\ ~Linking(op')
  <2>1. op'.pc \in {"data", "dots", "entry", "zero", "find", "unlink"} /\ op'.pc # "zero" /\ ~op'.applied
    BY <1>4, <1>7
  <2> QED BY <1>4, <1>6, <1>7, <2>1, HeldAt
<1>9. Base(f, sec, op', d)
  BY <1>1, <1>4, <1>7, SameIs, BaseFrame
<1>10. Growing(f, sec, op', d)
  <2>1. Ready(f, sec, op')
    BY <1>4, <1>7 DEF Ready, Built
  <2>2. \A c \in Owns(f, d), a \in 1 .. Slots : Val(sec, <<c, a>>).kind # "0x00"
    BY <1>1, <1>3, FullIs
  <2> QED BY <1>7, <2>1, <2>2 DEF Growing, b
<1>11. OpInv(f, sec, op')
  BY <1>6, <1>7, <1>9, <1>10, AtPlace DEF Asks
<1>12. Fresh(fatbuf', op')
  BY <1>7, <1>8 DEF Fresh
<1>13. Calm
  BY <1>1, <1>8, StillSelf DEF Calm, Kept
<1> QED BY <1>1, <1>2, <1>4, <1>6, <1>8, <1>11, <1>12, <1>13, CallMoves DEF FatTypes

\* What a call writes for its new chain
LEMMA NewEntryIs ==
    ASSUME NEW d, AtDir(d), op \in Ops, op.pc = "entry"
    PROVE  /\ NewEntry \in SlotVals /\ NewEntry.kind = "entry" /\ NewEntry.clus = op.first /\ NewEntry.name = LeafOf(op.call)
           /\ op.call.do = "write" => ~NewEntry.dir /\ LeafEntry(fat[1], NewEntry) /\ LeafOf(op.call) \in Leaves
           /\ op.call.do = "mkdir" => /\ NewEntry.dir /\ DirEntry(NewEntry) /\ d = Root
                                      /\ op.first \in Clusters /\ Chain(fat[1], op.first) = <<op.first>> /\ sec[op.first] = Dots
           /\ op.call.do \in {"write", "mkdir"}
<1>1. Ready(fat[1], sec, op) /\ op.call.do \in {"write", "mkdir"} /\ ParentOf(op.call) = d
  BY DEF AtDir, Works, AtPut, AtMaking
<1>2. op.call \in Calls /\ op.first \in Clusters \cup {Nil} /\ Nil \notin Clusters
  BY OpFields, FatAssumption
<1>3. CASE op.call.do = "write"
  <2>1. op.call.path \in Paths /\ op.call.v \in Data
    BY <1>2, <1>3 DEF Calls
  <2>2. op.call.path.leaf \in Leaves /\ Blocks[op.call.v] \in Nat /\ LeafOf(op.call) = op.call.path.leaf
    BY <1>3, <2>1, FatAssumption DEF LeafOf
  <2>3. NewEntry = Entry(op.call.path.leaf, op.first, Blocks[op.call.v], FALSE)
    BY <1>3 DEF NewEntry
  <2>4. NewEntry \in SlotVals
    BY <1>2, <2>2, <2>3 DEF Entry, SlotVals
  <2>5. IF op.first = Nil THEN Blocks[op.call.v] = 0 ELSE Len(Chain(fat[1], op.first)) = Blocks[op.call.v]
    BY <1>1, <1>2, <1>3 DEF Ready
  <2> QED BY <1>3, <2>2, <2>3, <2>4, <2>5 DEF Entry, LeafEntry
<1>4. CASE op.call.do = "mkdir"
  <2>1. op.call.path \in Dirs /\ LeafOf(op.call) = op.call.path /\ d = Root
    BY <1>1, <1>2, <1>4 DEF Calls, LeafOf, ParentOf
  <2>2. NewEntry = Entry(op.call.path, op.first, 0, TRUE)
    BY <1>4 DEF NewEntry
  <2>3. op.first \in Clusters /\ Chain(fat[1], op.first) = <<op.first>> /\ sec[op.first] = Dots
    BY <1>1, <1>4 DEF Ready
  <2>4. NewEntry \in SlotVals
    BY <2>1, <2>2, <2>3 DEF Entry, SlotVals
  <2> QED BY <1>4, <2>1, <2>2, <2>3, <2>4 DEF Entry, DirEntry
<1> QED BY <1>1, <1>3, <1>4

-----------------------------------------------------------------------------
(***************************************************************************)
(* Slots are filled, entries end                                           *)
(***************************************************************************)
\* The slots Q of the sector c are filled, the others stay.
Fills(S, T, c, Q) ==
    /\ Rewrites(S, T, c) /\ T[c].kind = "dir" /\ Q \in SUBSET (1 .. Slots)
    /\ \A a \in Q : Val(T, <<c, a>>).kind # "0x00"
    /\ \A a \in (1 .. Slots) \ Q : Val(T, <<c, a>>) = Val(S, <<c, a>>)
\* No slot that ends the directory lies before them.
Spot(S, s, g, Q) ==
    \A i \in 1 .. Len(s), a \in 1 .. Slots, q \in Q :
        Before(i, a, g, q) /\ (i # g \/ a \notin Q) => Val(S, <<s[i], a>>).kind # "0x00"
DirsFine(f, S, T) == \A d \in DirTops(S) : (\A c \in Owns(f, d) : T[c].kind = "dir") /\ TailFree(T, Chain(f, d), {})

LEMMA DirsFilled ==
    ASSUME NEW f, NEW S, NEW H, Vol(f, S, H, {}), NEW d0 \in DirTops(S), NEW g \in 1 .. Len(Chain(f, d0)),
           NEW T, NEW Q, Fills(S, T, Chain(f, d0)[g], Q), Spot(S, Chain(f, d0), g, Q)
    PROVE  DirsFine(f, S, T)
<1> DEFINE s == Chain(f, d0)
<1>1. /\ Rewrites(S, T, s[g]) /\ T[s[g]].kind = "dir" /\ Q \in SUBSET (1 .. Slots)
      /\ \A a \in Q : Val(T, <<s[g], a>>).kind # "0x00"
      /\ \A a \in (1 .. Slots) \ Q : Val(T, <<s[g], a>>) = Val(S, <<s[g], a>>)
  BY DEF Fills
<1>2. \A i \in 1 .. Len(s), a \in 1 .. Slots, q \in Q :
          Before(i, a, g, q) /\ (i # g \/ a \notin Q) => Val(S, <<s[i], a>>).kind # "0x00"
  BY DEF Spot
<1> SUFFICES ASSUME NEW d \in DirTops(S) PROVE (\A c \in Owns(f, d) : T[c].kind = "dir") /\ TailFree(T, Chain(f, d), {})
  BY DEF DirsFine
<1> QED BY <1>1, <1>2, DirsPut

\* An entry comes, an entry goes.
Puts(S, T, x0) == x0 \in AllSlots /\ x0 \notin E(S) /\ E(T) = E(S) \cup {x0} /\ \A x \in E(S) : Val(T, x) = Val(S, x)
LEMMA EntryPut ==
    ASSUME NEW S, NEW T, NEW c, NEW Q, Fills(S, T, c, Q), NEW a0 \in Q, Val(T, <<c, a0>>).kind = "entry",
           \A a \in Q : a # a0 => Val(T, <<c, a>>).kind # "entry",
           \A a \in Q : Val(S, <<c, a>>).kind # "entry"
    PROVE  Puts(S, T, <<c, a0>>)
<1> DEFINE x0 == <<c, a0>>
<1>1. Rewrites(S, T, c) /\ c \in Clusters /\ Q \in SUBSET (1 .. Slots)
      /\ \A a \in (1 .. Slots) \ Q : Val(T, <<c, a>>) = Val(S, <<c, a>>)
  BY DEF Fills, Rewrites
<1>2. x0 \in AllSlots /\ x0 \in E(T) /\ x0 \notin E(S)
  BY <1>1 DEF AllSlots, E
<1>3. ASSUME NEW y \in AllSlots, y # x0 PROVE (y \in E(T) <=> y \in E(S)) /\ (y \in E(S) => Val(T, y) = Val(S, y))
  <2>1. y = <<y[1], y[2]>>
    BY DEF AllSlots
  <2>2. CASE y[1] = c /\ y[2] \in Q
    <3>1. y[2] # a0
      BY <1>3, <2>1, <2>2
    <3>2. Val(T, y).kind # "entry" /\ Val(S, y).kind # "entry"
      BY <2>1, <2>2, <3>1
    <3> QED BY <3>2 DEF E
  <2>3. CASE ~(y[1] = c /\ y[2] \in Q)
    BY <1>1, <2>3, OtherEntries
  <2> QED BY <2>2, <2>3
<1>4. E(S) \subseteq AllSlots /\ E(T) \subseteq AllSlots
  BY DEF E
<1> QED BY <1>2, <1>3, <1>4 DEF Puts

Drops(S, T, x0) == x0 \in E(S) /\ E(T) = E(S) \ {x0} /\ \A x \in E(T) : Val(T, x) = Val(S, x)
LEMMA EntryGone ==
    ASSUME NEW S, NEW T, NEW c, NEW Q, Fills(S, T, c, Q), NEW a0 \in Q, Val(S, <<c, a0>>).kind = "entry",
           \A a \in Q : a # a0 => Val(S, <<c, a>>).kind # "entry",
           \A a \in Q : Val(T, <<c, a>>).kind # "entry"
    PROVE  Drops(S, T, <<c, a0>>)
<1> DEFINE x0 == <<c, a0>>
<1>1. Rewrites(S, T, c) /\ c \in Clusters /\ Q \in SUBSET (1 .. Slots)
      /\ \A a \in (1 .. Slots) \ Q : Val(T, <<c, a>>) = Val(S, <<c, a>>)
  BY DEF Fills, Rewrites
<1>2. x0 \in AllSlots /\ x0 \in E(S) /\ x0 \notin E(T)
  BY <1>1 DEF AllSlots, E
<1>3. ASSUME NEW y \in AllSlots, y # x0 PROVE (y \in E(T) <=> y \in E(S)) /\ (y \in E(T) => Val(T, y) = Val(S, y))
  <2>1. y = <<y[1], y[2]>>
    BY DEF AllSlots
  <2>2. CASE y[1] = c /\ y[2] \in Q
    <3>1. y[2] # a0
      BY <1>3, <2>1, <2>2
    <3>2. Val(T, y).kind # "entry" /\ Val(S, y).kind # "entry"
      BY <2>1, <2>2, <3>1
    <3> QED BY <3>2 DEF E
  <2>3. CASE ~(y[1] = c /\ y[2] \in Q)
    BY <1>1, <2>3, OtherEntries
  <2> QED BY <2>2, <2>3
<1>4. E(S) \subseteq AllSlots /\ E(T) \subseteq AllSlots
  BY DEF E
<1> QED BY <1>2, <1>3, <1>4 DEF Drops

\* The call has taken effect: what it held before is given back, then it ends.
Ended(q, X) ==
    /\ q \in Ops /\ Held(q) = X /\ Raw(q) = {} /\ q.pc # "flush" /\ ~Linking(q)
    /\ \A f, S : OpInv(f, S, q)
AppliedIs(o, q) == q \in Ops /\ q.applied /\ q.old = o.old
LEMMA DoneIs == ASSUME NEW o \in Ops, NEW q, q = [o EXCEPT !.applied = TRUE] PROVE AppliedIs(o, q)
<1>1. q \in Ops
  BY DEF Ops
<1>2. q.applied /\ q.old = o.old
  BY DEF Ops
<1> QED BY <1>1, <1>2 DEF AppliedIs

LEMMA RetEnds == ASSUME NEW o \in Ops, o.applied PROVE Ended(Ret(o, "ok"), {})
<1> DEFINE q == Ret(o, "ok")
<1>1. q \in Ops /\ Held(q) = {} /\ Raw(q) = {} /\ \A f, S : OpInv(f, S, q)
  BY RetIs
<1>2. q.pc = "ret"
  BY DEF Ret, Ops
<1> HIDE DEF q
<1>3. Ended(q, {})
  BY <1>1, <1>2 DEF Ended, Linking
<1> QED BY <1>3 DEF q

LEMMA FreeEnds == ASSUME NEW o \in Ops, o.applied, NEW c \in Clusters PROVE Ended(FreeChain(o, c, "ok"), {c})
<1> DEFINE q == FreeChain(o, c, "ok")
<1>1. q \in Ops /\ Held(q) = {c} /\ Raw(q) = {} /\ \A f, S : OpInv(f, S, q)
  BY FreeChainIs
<1>2. q.pc = "free"
  BY DEF FreeChain, Ops
<1> HIDE DEF q
<1>3. Ended(q, {c})
  BY <1>1, <1>2 DEF Ended, Linking
<1> QED BY <1>3 DEF q

LEMMA EndsIs ==
    ASSUME NEW o \in Ops,
           NEW q, q = LET p == [o EXCEPT !.applied = TRUE] IN
                      IF Valid(o.old) THEN FreeChain(p, o.old, "ok") ELSE Ret(p, "ok")
    PROVE  Ended(q, {o.old} \cap Clusters)
<1> DEFINE p == [o EXCEPT !.applied = TRUE]
<1>1. p \in Ops /\ p.applied
  BY DoneIs DEF AppliedIs
<1>2. q = IF o.old \in Clusters THEN FreeChain(p, o.old, "ok") ELSE Ret(p, "ok")
  BY DEF Valid
<1> HIDE DEF p
<1>3. CASE o.old \in Clusters
  <2>1. {o.old} \cap Clusters = {o.old}
    BY <1>3
  <2> QED BY <1>1, <1>2, <1>3, <2>1, FreeEnds
<1>4. CASE o.old \notin Clusters
  <2>1. {o.old} \cap Clusters = {}
    BY <1>4
  <2> QED BY <1>1, <1>2, <1>4, <2>1, RetEnds
<1> QED BY <1>3, <1>4

LEMMA EndKeeps ==
    ASSUME FatInv, op # NoCall, UNCHANGED <<num_fats, fat, fsinfo, fatbuf, free_count, answer, faults>>,
           NEW X, Ended(op', X), sec' \in Medium, Vol(fat[1], sec', X, {}),
           Live(sec') \cup X \subseteq Live(sec) \cup Held(op)
    PROVE  FatInv'
BY SecMoves DEF Ended

-----------------------------------------------------------------------------
(***************************************************************************)
(* dir_put_entry                                                           *)
(***************************************************************************)
\* The slots as dir_put_entry writes them: sl for s.
PutSlots(old, sl, Q, a0, e) ==
    /\ sl \in [1 .. Slots -> SlotVals] /\ Q \in SUBSET (1 .. Slots) /\ a0 \in Q /\ sl[a0] = e
    /\ \A a \in Q : a # a0 => sl[a] = Slot("lfn")
    /\ \A a \in (1 .. Slots) \ Q : sl[a] = old[a]
LEMMA PutShort ==
    ASSUME NEW old \in [1 .. Slots -> SlotVals], NEW b \in 1 .. Slots, NEW e \in SlotVals
    PROVE  PutSlots(old, [old EXCEPT ![b] = e], {b}, b, e)
  BY DEF PutSlots
LEMMA PutLong ==
    ASSUME NEW old \in [1 .. Slots -> SlotVals], NEW b \in 1 .. Slots, b + 1 \in 1 .. Slots, NEW e \in SlotVals
    PROVE  PutSlots(old, [old EXCEPT ![b] = Slot("lfn"), ![b + 1] = e], {b, b + 1}, b + 1, e)
<1>1. Slot("lfn") \in SlotVals /\ b # b + 1
  BY DEF Slot, SlotVals
<1> DEFINE r == [old EXCEPT ![b] = Slot("lfn")]
<1>2. r \in [1 .. Slots -> SlotVals] /\ r[b] = Slot("lfn") /\ \A a \in 1 .. Slots : a # b => r[a] = old[a]
  BY <1>1
<1>3. [old EXCEPT ![b] = Slot("lfn"), ![b + 1] = e] = [r EXCEPT ![b + 1] = e]
  OBVIOUS
<1> HIDE DEF r
<1>4. PutSlots(old, [r EXCEPT ![b + 1] = e], {b, b + 1}, b + 1, e)
  BY <1>1, <1>2 DEF PutSlots
<1> QED BY <1>3, <1>4

\* The slots are written to the sector.
Written(S, T, c, sl) == T = [S EXCEPT ![c] = [S[c] EXCEPT !.slots = sl]]
Rewritten(S, T, c, sl) == T \in Medium /\ Rewrites(S, T, c) /\ T[c].kind = "dir" /\ \A a \in 1 .. Slots : Val(T, <<c, a>>) = sl[a]
LEMMA WrittenIs ==
    ASSUME NEW S \in Medium, NEW c \in Clusters, S[c].kind = "dir", NEW sl \in [1 .. Slots -> SlotVals],
           NEW T, Written(S, T, c, sl)
    PROVE  Rewritten(S, T, c, sl)
<1> DEFINE r == [S[c] EXCEPT !.slots = sl]
<1>1. S[c] \in [kind : {"dir"}, slots : [1 .. Slots -> SlotVals]]
  BY DEF Medium, Sectors
<1>2. r \in Sectors /\ r.kind = "dir" /\ r.slots = sl
  BY <1>1 DEF Sectors
<1>3. T = [S EXCEPT ![c] = r]
  BY DEF Written
<1> HIDE DEF r
<1>4. T \in Medium /\ Rewrites(S, T, c) /\ T[c] = r
  BY <1>2, <1>3 DEF Medium, Rewrites
<1>5. ASSUME NEW a \in 1 .. Slots PROVE Val(T, <<c, a>>) = sl[a]
  <2>1. T[c].kind = "dir" /\ T[c].slots = sl
    BY <1>2, <1>4
  <2>2. <<c, a>>[1] = c /\ <<c, a>>[2] = a
    OBVIOUS
  <2> QED BY <2>1, <2>2 DEF Val
<1> QED BY <1>2, <1>4, <1>5 DEF Rewritten

Filled(S, T, c, Q, a0, e) ==
    /\ T \in Medium /\ Fills(S, T, c, Q) /\ a0 \in Q /\ Val(T, <<c, a0>>) = e
    /\ \A a \in Q : a # a0 => Val(T, <<c, a>>).kind = "lfn"
LEMMA PutFills ==
    ASSUME NEW S \in Medium, NEW c \in Clusters, S[c].kind = "dir", NEW sl, NEW Q, NEW a0, NEW e,
           PutSlots(S[c].slots, sl, Q, a0, e), e.kind # "0x00", NEW T, Written(S, T, c, sl)
    PROVE  Filled(S, T, c, Q, a0, e)
<1>1. /\ sl \in [1 .. Slots -> SlotVals] /\ Q \in SUBSET (1 .. Slots) /\ a0 \in Q /\ sl[a0] = e
      /\ \A a \in Q : a # a0 => sl[a] = Slot("lfn")
      /\ \A a \in (1 .. Slots) \ Q : sl[a] = S[c].slots[a]
  BY DEF PutSlots
<1>2. T \in Medium /\ Rewrites(S, T, c) /\ T[c].kind = "dir" /\ \A a \in 1 .. Slots : Val(T, <<c, a>>) = sl[a]
  <2>1. Rewritten(S, T, c, sl)
    BY <1>1, WrittenIs
  <2> QED BY <2>1 DEF Rewritten
<1>3. \A a \in 1 .. Slots : Val(S, <<c, a>>) = S[c].slots[a]
  BY SlotsHeld
<1>4. Val(T, <<c, a0>>) = e
  BY <1>1, <1>2
<1>5. \A a \in Q : Val(T, <<c, a>>).kind # "0x00" /\ (a # a0 => Val(T, <<c, a>>).kind = "lfn")
  <2> SUFFICES ASSUME NEW a \in Q PROVE Val(T, <<c, a>>).kind # "0x00" /\ (a # a0 => Val(T, <<c, a>>).kind = "lfn")
    OBVIOUS
  <2>1. CASE a = a0
    BY <1>4, <2>1
  <2>2. CASE a # a0
    <3>1. Val(T, <<c, a>>) = Slot("lfn")
      BY <1>1, <1>2, <2>2
    <3> QED BY <2>2, <3>1 DEF Slot
  <2> QED BY <2>1, <2>2
<1>6. \A a \in (1 .. Slots) \ Q : Val(T, <<c, a>>) = Val(S, <<c, a>>)
  BY <1>1, <1>2, <1>3
<1> QED BY <1>1, <1>2, <1>4, <1>5, <1>6 DEF Fills, Filled

\* dir_put_entry: the sector with the new entry, and where the entry is.
PutAt(T, d, g, Q, a0) ==
    /\ g \in 1 .. Len(Chain(fat[1], d)) /\ T \in Medium /\ Fills(sec, T, Chain(fat[1], d)[g], Q) /\ a0 \in Q
    /\ Spot(sec, Chain(fat[1], d), g, Q)
    /\ Val(T, <<Chain(fat[1], d)[g], a0>>) = NewEntry
    /\ \A a \in Q : a # a0 => Val(T, <<Chain(fat[1], d)[g], a>>).kind = "lfn"
    /\ \A a \in Q : Val(sec, <<Chain(fat[1], d)[g], a>>).kind \in FreeKinds
LEMMA PutPlace ==
    ASSUME NEW d, AtDir(d), op \in Ops, op.pc = "entry", PutEntry
    PROVE  \E g, Q, a0 : PutAt(sec', d, g, Q, a0)
<1> DEFINE f == fat[1]
           s == Chain(f, d)
           e == NewEntry
           long == LeafOf(op.call) \in Long
<1>1. PICK g, b : RoomAt(s, g, b)
  BY PutIs DEF PutEntry
<1>2. /\ s \in Seq(Clusters) /\ Len(s) \in Nat
      /\ \A i \in 1 .. Len(s) : s[i] \in Clusters /\ sec[s[i]].kind = "dir" /\ s[i] \in Owns(f, d)
      /\ sec \in Medium
  BY DirChain
<1>3. e \in SlotVals /\ e.kind = "entry"
  BY NewEntryIs
<1> HIDE DEF s, e
<1>4. /\ g \in 1 .. Len(s) /\ b \in 1 .. Slots /\ SlotsOf(Cached, ParentOf(op.call))[Place] = <<s[g], b>>
      /\ Val(sec, <<s[g], b>>).kind \in FreeKinds
      /\ long => b + 1 \in 1 .. Slots /\ Val(sec, <<s[g], b + 1>>).kind \in FreeKinds
      /\ \A i \in 1 .. Len(s), a \in 1 .. Slots : Before(i, a, g, b) => Val(sec, <<s[i], a>>).kind # "0x00"
  BY <1>1 DEF RoomAt
<1> DEFINE c == s[g]
           old == sec[c].slots
           sl == IF long THEN [old EXCEPT ![b] = Slot("lfn"), ![b + 1] = e] ELSE [old EXCEPT ![b] = e]
           Q == IF long THEN {b, b + 1} ELSE {b}
           a0 == IF long THEN b + 1 ELSE b
<1>5. c \in Clusters /\ sec[c].kind = "dir" /\ old \in [1 .. Slots -> SlotVals]
  BY <1>2, <1>4, SlotsHeld
<1>6. sec' = [sec EXCEPT ![c] = [sec[c] EXCEPT !.slots = sl]]
  <2>1. SlotsOf(Cached, ParentOf(op.call))[Place] = <<c, b>>
    BY <1>4
  <2>2. <<c, b>>[1] = c /\ <<c, b>>[2] = b
    OBVIOUS
  <2>3. sec' = [sec EXCEPT ![SlotsOf(Cached, ParentOf(op.call))[Place][1]].slots =
                  IF LeafOf(op.call) \in Long
                  THEN [@ EXCEPT ![SlotsOf(Cached, ParentOf(op.call))[Place][2]] = Slot("lfn"),
                                 ![SlotsOf(Cached, ParentOf(op.call))[Place][2] + 1] = NewEntry]
                  ELSE [@ EXCEPT ![SlotsOf(Cached, ParentOf(op.call))[Place][2]] = NewEntry]]
    BY DEF PutEntry
  <2> QED BY <2>1, <2>2, <2>3 DEF e
<1>7. PutSlots(old, sl, Q, a0, e)
  <2> HIDE DEF c, old
  <2>1. CASE long
    BY <1>3, <1>4, <1>5, <2>1, PutLong
  <2>2. CASE ~long
    BY <1>3, <1>4, <1>5, <2>2, PutShort
  <2> QED BY <2>1, <2>2
<1>8. \A a \in Q : Val(sec, <<c, a>>).kind \in FreeKinds
  BY <1>4
<1>9. Spot(sec, s, g, Q)
  <2> SUFFICES ASSUME NEW i \in 1 .. Len(s), NEW a \in 1 .. Slots, NEW q \in Q, Before(i, a, g, q), i # g \/ a \notin Q
               PROVE  Val(sec, <<s[i], a>>).kind # "0x00"
    BY DEF Spot
  <2>1. Before(i, a, g, b)
    <3>1. CASE q = b
      BY <3>1
    <3>2. CASE q # b
      <4>1. long /\ q = b + 1
        BY <3>2
      <4>2. i < g \/ (i = g /\ a < b + 1 /\ a # b)
        BY <4>1 DEF Before
      <4> HIDE DEF Q
      <4> QED BY <1>4, <4>2 DEF Before
    <3> QED BY <3>1, <3>2
  <2> QED BY <1>4, <2>1
<1> HIDE DEF Q, a0, sl, old, long
<1>10. /\ sec' \in Medium /\ Fills(sec, sec', c, Q) /\ a0 \in Q /\ Val(sec', <<c, a0>>) = e
       /\ \A a \in Q : a # a0 => Val(sec', <<c, a>>).kind = "lfn"
  <2>1. e.kind # "0x00" /\ PutSlots(sec[c].slots, sl, Q, a0, e)
    BY <1>3, <1>7 DEF old
  <2>2. Written(sec, sec', c, sl)
    BY <1>6 DEF Written
  <2> HIDE DEF c
  <2>3. Filled(sec, sec', c, Q, a0, e)
    BY <1>2, <1>5, <2>1, <2>2, PutFills
  <2> QED BY <2>3 DEF Filled
<1>11. PutAt(sec', d, g, Q, a0)
  BY <1>4, <1>8, <1>9, <1>10 DEF PutAt, s, e
<1> QED BY <1>11

\* A new directory's first sector holds "." and "..", then nothing.
LEMMA DotsFine ==
    ASSUME NEW f, NEW T, NEW h \in Clusters, Chain(f, h) = <<h>>, T[h] = Dots
    PROVE  (\A c \in Owns(f, h) : T[c].kind = "dir") /\ TailFree(T, Chain(f, h), {})
<1>1. Owns(f, h) = {h} /\ Len(<<h>>) = 1 /\ <<h>>[1] = h
  BY DEF Owns, ToSet
<1>2. T[h].kind = "dir" /\ \A a \in 1 .. Slots : T[h].slots[a] = IF a <= 2 THEN Slot(".") ELSE Slot("0x00")
  BY DEF Dots, Dir
<1>3. \A a \in 1 .. Slots : Val(T, <<h, a>>).kind = IF a <= 2 THEN "." ELSE "0x00"
  <2> SUFFICES ASSUME NEW a \in 1 .. Slots PROVE Val(T, <<h, a>>).kind = IF a <= 2 THEN "." ELSE "0x00"
    OBVIOUS
  <2>1. <<h, a>>[1] = h /\ <<h, a>>[2] = a
    OBVIOUS
  <2>2. Val(T, <<h, a>>) = T[h].slots[a]
    BY <1>2, <2>1 DEF Val
  <2> QED BY <1>2, <2>2 DEF Slot
<1>4. TailFree(T, <<h>>, {})
  <2> SUFFICES ASSUME NEW i \in 1 .. Len(<<h>>), NEW j \in 1 .. Len(<<h>>), NEW a \in 1 .. Slots, NEW b \in 1 .. Slots,
                      Before(i, a, j, b), Val(T, <<(<<h>>)[i], a>>).kind = "0x00"
               PROVE  Val(T, <<(<<h>>)[j], b>>).kind = "0x00"
    BY DEF TailFree
  <2>1. i = 1 /\ j = 1 /\ a < b
    BY <1>1 DEF Before
  <2>2. ~(a <= 2) /\ ~(b <= 2)
    <3>1. Val(T, <<h, a>>).kind = "0x00"
      BY <1>1, <2>1
    <3>2. ~(a <= 2)
      BY <1>3, <3>1
    <3> QED BY <2>1, <3>2
  <2> QED BY <1>1, <1>3, <2>1, <2>2
<1> QED BY <1>1, <1>2, <1>4

\* The new entry x is in the directory d of the running call.
PutAs(d, x) ==
    /\ AtDir(d) /\ Puts(sec, sec', x) /\ Val(sec', x) = NewEntry /\ x[1] \in Owns(fat[1], d)
    /\ Rewrites(sec, sec', x[1])
LEMMA PutKeeps == ASSUME FatInv, PutEntry PROVE FatInv' /\ Kept /\ \E d, x : PutAs(d, x)
<1> DEFINE f == fat[1]
           h == op.first
<1>1. /\ op # NoCall /\ op.pc = "entry" /\ NewName /\ op' = Ret([op EXCEPT !.applied = TRUE], "ok")
      /\ UNCHANGED <<num_fats, fat, fsinfo, fatbuf, free_count, answer, faults>>
  BY DEF PutEntry, AtEntry, Is, Idle
<1>2. op \in Ops /\ sec \in Medium
  BY <1>1, RunIs
<1>3. PICK d \in Clusters : AtDir(d)
  BY <1>1, AtDirIs
<1>4. PICK g, Q, a0 : PutAt(sec', d, g, Q, a0)
  BY <1>1, <1>2, <1>3, PutPlace
<1> DEFINE s == Chain(f, d)
           c == s[g]
           T == sec'
           x0 == <<c, a0>>
<1>5. /\ g \in 1 .. Len(s) /\ T \in Medium /\ Fills(sec, T, c, Q) /\ a0 \in Q /\ Spot(sec, s, g, Q)
      /\ Val(T, x0) = NewEntry
      /\ \A a \in Q : a # a0 => Val(T, <<c, a>>).kind = "lfn"
      /\ \A a \in Q : Val(sec, <<c, a>>).kind \in FreeKinds
  BY <1>4 DEF PutAt
<1>6. /\ d \in DirTops(sec) /\ Vol(f, sec, Held(op), {}) /\ Held(op) = {h} \cap Clusters /\ d \in Live(sec)
      /\ Named(f, sec, d, LeafOf(op.call)) = {}
  BY <1>1, <1>3 DEF AtDir, NewName
<1>7. /\ NewEntry.kind = "entry" /\ NewEntry.clus = h /\ NewEntry.name = LeafOf(op.call)
      /\ op.call.do = "write" => ~NewEntry.dir /\ LeafEntry(f, NewEntry)
      /\ op.call.do = "mkdir" => /\ NewEntry.dir /\ DirEntry(NewEntry) /\ d = Root
                                 /\ h \in Clusters /\ Chain(f, h) = <<h>> /\ sec[h] = Dots
      /\ op.call.do \in {"write", "mkdir"}
  BY <1>1, <1>2, <1>3, NewEntryIs
<1>8. s[g] \in Clusters /\ s[g] \in Owns(f, d)
  BY <1>3, <1>5, DirChain
<1> HIDE DEF s, T
<1>9. Puts(sec, T, x0)
  <2>1. \A a \in Q : Val(sec, <<c, a>>).kind # "entry"
    BY <1>5 DEF FreeKinds
  <2>2. \A a \in Q : a # a0 => Val(T, <<c, a>>).kind # "entry"
    BY <1>5
  <2>3. Val(T, <<c, a0>>).kind = "entry"
    BY <1>5, <1>7
  <2> HIDE DEF c
  <2> QED BY <1>5, <2>1, <2>2, <2>3, EntryPut
<1>10. /\ x0 \in AllSlots /\ x0 \notin E(sec) /\ E(T) = E(sec) \cup {x0} /\ \A x \in E(sec) : Val(T, x) = Val(sec, x)
  BY <1>9 DEF Puts
<1>11. x0[1] = c /\ c \in Owns(f, d)
  BY <1>8
<1>11a. PutAs(d, x0)
  BY <1>3, <1>5, <1>9, <1>11 DEF PutAs, Fills, T
<1> HIDE DEF x0, c
<1>12. /\ Live(T) = Live(sec) \cup ({h} \cap Clusters)
       /\ DirTops(T) = DirTops(sec) \cup (IF NewEntry.dir THEN {h} ELSE {})
  BY <1>2, <1>5, <1>7, <1>10, PutLive
<1>13. DirsFine(f, sec, T)
  <2>1. Fills(sec, T, Chain(f, d)[g], Q) /\ Spot(sec, Chain(f, d), g, Q) /\ g \in 1 .. Len(Chain(f, d))
    BY <1>5 DEF s, c
  <2> QED BY <1>6, <2>1, DirsFilled
<1>14. DirsOk(f, T, {})
  <2> SUFFICES ASSUME NEW e \in DirTops(T)
               PROVE  (\A y \in Owns(f, e) : T[y].kind = "dir") /\ TailFree(T, Chain(f, e), {})
    BY DEF DirsOk
  <2>1. CASE e \in DirTops(sec)
    BY <1>13, <2>1 DEF DirsFine
  <2>2. CASE e \notin DirTops(sec)
    <3>1. NewEntry.dir /\ e = h /\ op.call.do = "mkdir"
      BY <1>7, <1>12, <2>2
    <3>2. h \in Clusters /\ Chain(f, h) = <<h>> /\ sec[h] = Dots /\ h \in Held(op)
      BY <1>6, <1>7, <3>1
    <3>3. h # c
      <4>1. Owns(f, h) \cap Owns(f, d) = {} /\ h \in Owns(f, h)
        <5>1. Tops(f, sec, Held(op)) /\ IsTop(f, h)
          BY <1>6, <3>2, LiveTops DEF Vol
        <5> QED BY <1>6, <3>2, <5>1, TopFacts DEF Tops
      <4> QED BY <4>1, <1>11
    <3>4. T[h] = Dots
      BY <1>5, <3>2, <3>3 DEF Fills, Rewrites
    <3> QED BY <3>1, <3>2, <3>4, DotsFine
  <2> QED BY <2>1, <2>2
<1>15. Vol(f, T, Held(op) \ {h}, {})
  <2>1. LeafEntry(f, Val(T, x0)) \/ (DirEntry(Val(T, x0)) /\ d = Root)
    BY <1>5, <1>7
  <2>2. \A x \in E(sec) : x[1] \in Owns(f, d) => Val(sec, x).name # Val(T, x0).name
    BY <1>5, <1>6, <1>7 DEF Named
  <2>3. Val(T, x0).clus = h
    BY <1>5, <1>7
  <2>4. Val(T, x0).clus = Nil \/ Val(T, x0).clus \in Held(op)
    <3>1. h \in Clusters \cup {Nil}
      BY <1>2, OpFields
    <3> QED BY <1>6, <2>3, <3>1
  <2>5. x0[1] \in Owns(f, d)
    BY <1>11
  <2>6. Vol(f, T, Held(op) \ {Val(T, x0).clus}, {})
    BY <1>5, <1>6, <1>10, <1>14, <2>1, <2>2, <2>4, <2>5, VolPut
  <2> QED BY <2>3, <2>6
<1>16. Held(op) \ {h} = {}
  BY <1>6
<1>17. Ended(op', {})
  <2>1. [op EXCEPT !.applied = TRUE] \in Ops /\ [op EXCEPT !.applied = TRUE].applied
    BY <1>2, DoneIs DEF AppliedIs
  <2> QED BY <1>1, <2>1, RetEnds
<1>18. Live(T) \cup {} \subseteq Live(sec) \cup Held(op)
  BY <1>6, <1>12
<1>19. Vol(f, T, {}, {})
  BY <1>15, <1>16
<1>20. Kept
  BY <1>6, <1>12 DEF Kept, T
<1> QED BY <1>1, <1>5, <1>11a, <1>17, <1>18, <1>19, <1>20, EndKeeps DEF T

-----------------------------------------------------------------------------
(***************************************************************************)
(* dir_update_entry and dir_unlink                                         *)
(***************************************************************************)
\* Where the entry of the running call's name lies: slot b of the sector g of d.
EntryAt(d, g, b) ==
    /\ g \in 1 .. Len(Chain(fat[1], d)) /\ b \in 1 .. Slots
    /\ Where(op.call) = <<Chain(fat[1], d)[g], b>>
    /\ Where(op.call) \in E(sec) /\ Named(fat[1], sec, d, LeafOf(op.call)) = {Where(op.call)}
    /\ Val(sec, Where(op.call)).clus = op.old /\ Val(sec, Where(op.call)).name = LeafOf(op.call)
    /\ \A i \in 1 .. Len(Chain(fat[1], d)), a \in 1 .. Slots :
           Before(i, a, g, b) => Val(sec, <<Chain(fat[1], d)[i], a>>).kind # "0x00"
LEMMA EntryIs ==
    ASSUME NEW d, AtDir(d), Named(fat[1], sec, d, LeafOf(op.call)) # {}
    PROVE  \E g, b : EntryAt(d, g, b)
<1> DEFINE f == fat[1]
           s == Chain(f, d)
           X == Named(f, sec, d, LeafOf(op.call))
           x == Where(op.call)
<1>1. /\ Found(Cached, ParentOf(op.call), LeafOf(op.call)) = X /\ Target(f, sec, op, d) /\ Vol(f, sec, Held(op), {})
      /\ d \in DirTops(sec)
  BY DEF AtDir, Works
<1>2. x = CHOOSE y \in X : TRUE
  BY <1>1 DEF Where
<1>3. x \in X
  <2> HIDE DEF X, x
  <2>1. X # {}
    BY DEF X
  <2> QED BY <1>2, <2>1
<1>4. x \in E(sec) /\ x[1] \in Owns(f, d) /\ Val(sec, x).name = LeafOf(op.call) /\ Val(sec, x).clus = op.old
  BY <1>1, <1>3 DEF Named, Target
<1>5. X = {x}
  <2>1. ASSUME NEW y \in X PROVE y = x
    BY <1>1, <1>3 DEF Named, Vol, NamesOk
  <2> HIDE DEF X, x
  <2> QED BY <1>3, <2>1
<1>6. /\ sec \in Medium /\ Len(s) \in Nat /\ Owns(f, d) = {s[i] : i \in 1 .. Len(s)} /\ TailFree(sec, s, {})
  BY DirChain
<1>7. x[2] \in 1 .. Slots /\ x = <<x[1], x[2]>> /\ Val(sec, x).kind = "entry"
  BY <1>4, <1>6, EntryType
<1>8. PICK g \in 1 .. Len(s) : x[1] = s[g]
  BY <1>4, <1>6
<1> HIDE DEF s, x, X
<1>9. x = <<s[g], x[2]>>
  BY <1>7, <1>8
<1>10. ASSUME NEW i \in 1 .. Len(s), NEW a \in 1 .. Slots, Before(i, a, g, x[2]) PROVE Val(sec, <<s[i], a>>).kind # "0x00"
  <2>1. Val(sec, <<s[g], x[2]>>).kind # "0x00"
    BY <1>7, <1>9
  <2> QED BY <1>6, <1>7, <1>10, <2>1 DEF TailFree
<1>11. EntryAt(d, g, x[2])
  BY <1>4, <1>5, <1>7, <1>9, <1>10 DEF EntryAt, s, x, X
<1> QED BY <1>11

\* The slot of an entry gets another value.
LEMMA OneFills ==
    ASSUME NEW S \in Medium, NEW c \in Clusters, S[c].kind = "dir", NEW b \in 1 .. Slots, NEW e \in SlotVals, e.kind # "0x00",
           NEW T, Written(S, T, c, [S[c].slots EXCEPT ![b] = e])
    PROVE  Filled(S, T, c, {b}, b, e)
<1>1. S[c].slots \in [1 .. Slots -> SlotVals]
  BY SlotsHeld
<1> DEFINE sl == [S[c].slots EXCEPT ![b] = e]
<1>2. PutSlots(S[c].slots, sl, {b}, b, e)
  BY <1>1, PutShort
<1>3. Written(S, T, c, sl)
  OBVIOUS
<1> HIDE DEF sl
<1> QED BY <1>2, <1>3, PutFills

SlotSame(S, T, y) == Val(T, y) = Val(S, y) /\ (y \in E(T) <=> y \in E(S))
LEMMA FillsElse ==
    ASSUME NEW S, NEW T, NEW c, NEW b, Fills(S, T, c, {b}), NEW y \in AllSlots, y # <<c, b>>
    PROVE  SlotSame(S, T, y)
<1> DEFINE Q == {b}
<1>1. Rewrites(S, T, c) /\ Q \in SUBSET (1 .. Slots) /\ \A a \in (1 .. Slots) \ Q : Val(T, <<c, a>>) = Val(S, <<c, a>>)
  BY DEF Fills
<1>2. ~(y[1] = c /\ y[2] \in Q)
  BY DEF AllSlots
<1> HIDE DEF Q
<1>3. Val(T, y) = Val(S, y) /\ (y \in E(T) <=> y \in E(S))
  BY <1>1, <1>2, OtherEntries
<1> QED BY <1>3 DEF SlotSame

Unlinked(f, S, H, T, x0) ==
    /\ Vol(f, T, H \cup ({Val(S, x0).clus} \cap Clusters), {})
    /\ Live(T) = Live(S) \ {Val(S, x0).clus}
    /\ DirTops(T) = DirTops(S) \ (IF Val(S, x0).dir THEN {Val(S, x0).clus} ELSE {})
LEMMA UnlinkIs ==
    ASSUME NEW f, NEW S, NEW H, Vol(f, S, H, {}), NEW T \in Medium, NEW x0, Drops(S, T, x0), DirsFine(f, S, T),
           Val(S, x0).dir => \A x \in E(S) : x[1] \notin Owns(f, Val(S, x0).clus)
    PROVE  Unlinked(f, S, H, T, x0)
<1>1. x0 \in E(S) /\ E(T) = E(S) \ {x0} /\ \A x \in E(T) : Val(T, x) = Val(S, x)
  BY DEF Drops
<1>2. \A d \in DirTops(S) : (\A c \in Owns(f, d) : T[c].kind = "dir") /\ TailFree(T, Chain(f, d), {})
  BY DEF DirsFine
<1>3. /\ Vol(f, T, H \cup ({Val(S, x0).clus} \cap Clusters), {})
      /\ Live(T) = Live(S) \ {Val(S, x0).clus}
      /\ DirTops(T) = DirTops(S) \ (IF Val(S, x0).dir THEN {Val(S, x0).clus} ELSE {})
  BY <1>1, <1>2, VolUnlink
<1> QED BY <1>3 DEF Unlinked

\* The entry x of the name in the directory d of the running call gets the new chain.
Updates(d, x) ==
    /\ AtDir(d) /\ x \in E(sec) /\ E(sec') = E(sec) /\ Val(sec', x) = NewEntry
    /\ Named(fat[1], sec, d, LeafOf(op.call)) = {x}
    /\ \A y \in E(sec) : y # x => Val(sec', y) = Val(sec, y)
    /\ Rewrites(sec, sec', x[1])
LEMMA UpdateKeeps == ASSUME FatInv, UpdateEntry PROVE FatInv' /\ Kept /\ \E d, x : Updates(d, x)
<1> DEFINE f == fat[1]
           h == op.first
           x == Where(op.call)
<1>1. /\ op # NoCall /\ op.pc = "entry" /\ ~NewName
      /\ sec' = [sec EXCEPT ![x[1]].slots[x[2]] = NewEntry]
      /\ op' = LET p == [op EXCEPT !.applied = TRUE] IN
               IF Valid(op.old) THEN FreeChain(p, op.old, "ok") ELSE Ret(p, "ok")
      /\ UNCHANGED <<num_fats, fat, fsinfo, fatbuf, free_count, answer, faults>>
  BY DEF UpdateEntry, AtEntry, Is, Idle
<1>2. op \in Ops /\ sec \in Medium
  BY <1>1, RunIs
<1>3. PICK d \in Clusters : AtDir(d)
  BY <1>1, AtDirIs
<1>4. /\ d \in DirTops(sec) /\ Vol(f, sec, Held(op), {}) /\ Held(op) = {h} \cap Clusters
      /\ Named(f, sec, d, LeafOf(op.call)) # {}
  BY <1>1, <1>3 DEF AtDir, NewName
<1>5. op.call.do = "write"
  <2>1. op.call.do \in {"write", "mkdir"} /\ (op.call.do = "mkdir" => Named(f, sec, d, LeafOf(op.call)) = {})
    BY <1>1, <1>3 DEF AtDir, Works, AtMaking
  <2> QED BY <1>4, <2>1
<1>6. /\ NewEntry \in SlotVals /\ NewEntry.kind = "entry" /\ NewEntry.clus = h /\ NewEntry.name = LeafOf(op.call)
      /\ ~NewEntry.dir /\ LeafEntry(f, NewEntry) /\ LeafOf(op.call) \in Leaves
  BY <1>1, <1>2, <1>3, <1>5, NewEntryIs
<1>7. PICK g, b : EntryAt(d, g, b)
  BY <1>3, <1>4, EntryIs
<1> DEFINE s == Chain(f, d)
           c == s[g]
<1>8. /\ g \in 1 .. Len(s) /\ b \in 1 .. Slots /\ x = <<c, b>> /\ x \in E(sec) /\ Named(f, sec, d, LeafOf(op.call)) = {x}
      /\ Val(sec, x).clus = op.old /\ Val(sec, x).name = LeafOf(op.call)
      /\ \A i \in 1 .. Len(s), a \in 1 .. Slots : Before(i, a, g, b) => Val(sec, <<s[i], a>>).kind # "0x00"
  BY <1>7 DEF EntryAt
<1>9. c \in Clusters /\ c \in Owns(f, d) /\ sec[c].kind = "dir" /\ sec[c].slots \in [1 .. Slots -> SlotVals]
  <2>1. c \in Clusters /\ c \in Owns(f, d) /\ sec[c].kind = "dir"
    BY <1>3, <1>8, DirChain
  <2> QED BY <1>2, <2>1, SlotsHeld
<1> DEFINE T == sec'
           W == [sec EXCEPT ![c] = [sec[c] EXCEPT !.slots = [sec[c].slots EXCEPT ![b] = Slot("0xE5")]]]
<1>10. Filled(sec, T, c, {b}, b, NewEntry)
  <2>1. x[1] = c /\ x[2] = b
    BY <1>8
  <2>2. Written(sec, T, c, [sec[c].slots EXCEPT ![b] = NewEntry])
    BY <1>1, <2>1 DEF Written
  <2>3. NewEntry.kind # "0x00" /\ b \in 1 .. Slots
    BY <1>6, <1>8
  <2> HIDE DEF T, c
  <2> QED BY <1>2, <1>6, <1>9, <2>2, <2>3, OneFills
<1>11. Filled(sec, W, c, {b}, b, Slot("0xE5"))
  <2>1. Written(sec, W, c, [sec[c].slots EXCEPT ![b] = Slot("0xE5")])
    BY DEF Written
  <2>2. Slot("0xE5").kind # "0x00" /\ Slot("0xE5") \in SlotVals /\ b \in 1 .. Slots
    BY <1>8 DEF Slot, SlotVals
  <2> HIDE DEF W, c
  <2> QED BY <1>2, <1>9, <2>1, <2>2, OneFills
<1> HIDE DEF T, W, s, c, x
<1>12. T \in Medium /\ Fills(sec, T, c, {b}) /\ Val(T, x) = NewEntry
  BY <1>8, <1>10 DEF Filled
<1>13. W \in Medium /\ Fills(sec, W, c, {b}) /\ Val(W, x) = Slot("0xE5")
  BY <1>8, <1>11 DEF Filled
<1>14. Spot(sec, s, g, {b})
  BY <1>8 DEF Spot
<1>15. DirsFine(f, sec, T) /\ DirsFine(f, sec, W)
  <2>1. Fills(sec, T, Chain(f, d)[g], {b}) /\ Fills(sec, W, Chain(f, d)[g], {b}) /\ Spot(sec, Chain(f, d), g, {b})
        /\ g \in 1 .. Len(Chain(f, d))
    BY <1>8, <1>12, <1>13, <1>14 DEF s, c
  <2> QED BY <1>4, <2>1, DirsFilled
<1>16. Drops(sec, W, x)
  <2>1. Val(sec, <<c, b>>).kind = "entry" /\ Val(W, <<c, b>>).kind # "entry"
    BY <1>8, <1>13 DEF E, Slot
  <2> QED BY <1>8, <1>13, <2>1, EntryGone
<1>17. x \in E(sec) /\ E(W) = E(sec) \ {x} /\ \A y \in E(W) : Val(W, y) = Val(sec, y)
  BY <1>16 DEF Drops
<1>18. Vol(f, sec, Held(op), {}) /\ ~Val(sec, x).dir
  BY <1>4, <1>6, <1>8, DirNames
<1>19. /\ Vol(f, W, Held(op) \cup ({op.old} \cap Clusters), {})
       /\ Live(W) = Live(sec) \ {op.old} /\ DirTops(W) = DirTops(sec)
  <2>1. W \in Medium /\ Drops(sec, W, x) /\ DirsFine(f, sec, W) /\ ~Val(sec, x).dir
    BY <1>13, <1>15, <1>16, <1>18
  <2>2. Unlinked(f, sec, Held(op), W, x)
    BY <1>4, <2>1, UnlinkIs
  <2> QED BY <1>8, <2>1, <2>2 DEF Unlinked
<1>20. Puts(W, T, x)
  <2>1. x \in AllSlots /\ x \in E(T) /\ x \notin E(W)
    BY <1>6, <1>8, <1>12, <1>17 DEF E
  <2>2. ASSUME NEW y \in AllSlots, y # x PROVE (y \in E(T) <=> y \in E(W)) /\ (y \in E(W) => Val(T, y) = Val(W, y))
    <3>1. y # <<c, b>>
      BY <2>2, <1>8
    <3>2. SlotSame(sec, T, y) /\ SlotSame(sec, W, y)
      BY <1>12, <1>13, <3>1, FillsElse
    <3> QED BY <3>2 DEF SlotSame
  <2>3. E(T) \subseteq AllSlots /\ E(W) \subseteq AllSlots
    BY DEF E
  <2> QED BY <2>1, <2>2, <2>3 DEF Puts
<1>21. x \in AllSlots /\ x \notin E(W) /\ E(T) = E(W) \cup {x} /\ \A y \in E(W) : Val(T, y) = Val(W, y)
  BY <1>20 DEF Puts
<1> DEFINE K == Held(op) \cup ({op.old} \cap Clusters)
<1>22. Live(T) = Live(W) \cup ({h} \cap Clusters) /\ DirTops(T) = DirTops(W)
  <2>1. /\ Live(T) = Live(W) \cup ({Val(T, x).clus} \cap Clusters)
        /\ DirTops(T) = DirTops(W) \cup (IF Val(T, x).dir THEN {Val(T, x).clus} ELSE {})
    <3>1. W \in Medium /\ T \in Medium
      BY <1>12, <1>13
    <3> QED BY <1>21, <3>1, PutLive
  <2> QED BY <1>6, <1>12, <2>1
<1>23. DirsOk(f, T, {})
  BY <1>15, <1>19, <1>22 DEF DirsOk, DirsFine
<1>24. Vol(f, T, K \ {h}, {})
  <2>1. Val(T, x).clus = h /\ (h = Nil \/ h \in K)
    <3>1. h \in Clusters \cup {Nil}
      BY <1>2, OpFields
    <3> QED BY <1>4, <1>6, <1>12, <3>1
  <2>2. x[1] \in Owns(f, d) /\ d \in DirTops(W)
    BY <1>4, <1>8, <1>9, <1>19
  <2>3. \A y \in E(W) : y[1] \in Owns(f, d) => Val(W, y).name # Val(T, x).name
    BY <1>6, <1>8, <1>12, <1>17 DEF Named
  <2>4. LeafEntry(f, Val(T, x))
    BY <1>6, <1>12
  <2>5. Vol(f, W, K, {})
    BY <1>19
  <2> HIDE DEF K
  <2>6. Vol(f, T, K \ {Val(T, x).clus}, {})
    BY <1>12, <1>21, <1>23, <2>1, <2>2, <2>3, <2>4, <2>5, VolPut
  <2> QED BY <2>1, <2>6
<1>25. K \ {h} = {op.old} \cap Clusters
  <2>1. ASSUME op.old \in Clusters PROVE op.old # h
    <3>1. op.old \in Live(sec) /\ Live(sec) \cap Held(op) = {}
      BY <1>4, <1>8, <2>1 DEF Live, Vol, Tops
    <3> QED BY <1>4, <2>1, <3>1
  <2> QED BY <1>4, <2>1
<1> DEFINE X == {op.old} \cap Clusters
<1>26. Ended(op', X)
  BY <1>1, <1>2, EndsIs
<1>27. Live(T) \cup X \subseteq Live(sec) \cup Held(op)
  <2>1. X \subseteq Live(sec)
    BY <1>8 DEF Live
  <2> QED BY <1>4, <1>19, <1>22, <2>1
<1>28. Vol(f, T, X, {})
  BY <1>24, <1>25
<1>29. Kept
  <2>1. Held(op') = X
    BY <1>26 DEF Ended
  <2>2. Live(sec) \subseteq Clusters
    BY <1>2, <1>4, DirsLive DEF Vol
  <2> QED BY <1>4, <1>19, <1>22, <2>1, <2>2 DEF Kept, T
<1>30. Updates(d, x)
  <2>1. \A y \in E(sec) : y # x => Val(T, y) = Val(sec, y)
    BY <1>17, <1>21
  <2>2. E(T) = E(sec)
    BY <1>8, <1>17, <1>21
  <2>3. Rewrites(sec, T, x[1])
    BY <1>8, <1>12 DEF Fills
  <2> QED BY <1>3, <1>8, <1>12, <2>1, <2>2, <2>3 DEF Updates, T
<1> HIDE DEF X
<1> QED BY <1>1, <1>12, <1>26, <1>27, <1>28, <1>29, <1>30, EndKeeps DEF T

\* The entry x of the name in the directory d of the running call is gone.
Removes(d, x) ==
    /\ AtDir(d) /\ Drops(sec, sec', x) /\ Named(fat[1], sec, d, LeafOf(op.call)) = {x} /\ Val(sec, x).clus = op.old
    /\ Rewrites(sec, sec', x[1])
LEMMA UnlinkKeeps == ASSUME FatInv, Unlink PROVE FatInv' /\ Kept /\ \E d, x : Removes(d, x)
<1> DEFINE f == fat[1]
           x == Where(op.call)
           Q == {x[2]} \cup {j \in 1..Slots : j = x[2] - 1 /\ At(<<x[1], j>>).kind = "lfn"}
<1>1. /\ op # NoCall /\ op.pc = "unlink"
      /\ sec' = [sec EXCEPT ![x[1]].slots = [i \in 1..Slots |-> IF i \in Q THEN Slot("0xE5") ELSE @[i]]]
      /\ op' = LET p == [op EXCEPT !.applied = TRUE] IN
               IF Valid(op.old) THEN FreeChain(p, op.old, "ok") ELSE Ret(p, "ok")
      /\ UNCHANGED <<num_fats, fat, fsinfo, fatbuf, free_count, answer, faults>>
  BY DEF Unlink, Is, Idle, memory
<1>2. op \in Ops /\ sec \in Medium
  BY <1>1, RunIs
<1>3. PICK d \in Clusters : AtDir(d)
  BY <1>1, AtDirIs
<1>4. /\ d \in DirTops(sec) /\ Vol(f, sec, Held(op), {}) /\ Held(op) = {op.first} \cap Clusters
      /\ Named(f, sec, d, LeafOf(op.call)) # {} /\ op.first = Nil /\ op.call.do \in {"delete", "rmdir"}
      /\ op.call.do = "rmdir" => \A y \in E(sec) : y[1] \notin Owns(f, op.old)
  BY <1>1, <1>3 DEF AtDir, Works, AtUnlink
<1>5. Held(op) = {}
  BY <1>4, FatAssumption
<1>6. PICK g, b : EntryAt(d, g, b)
  BY <1>3, <1>4, EntryIs
<1> DEFINE s == Chain(f, d)
           c == s[g]
<1>7. /\ g \in 1 .. Len(s) /\ b \in 1 .. Slots /\ x = <<c, b>> /\ x \in E(sec)
      /\ Named(f, sec, d, LeafOf(op.call)) = {x} /\ Val(sec, x).clus = op.old /\ Val(sec, x).name = LeafOf(op.call)
      /\ \A i \in 1 .. Len(s), a \in 1 .. Slots : Before(i, a, g, b) => Val(sec, <<s[i], a>>).kind # "0x00"
  BY <1>6 DEF EntryAt
<1>8. c \in Clusters /\ c \in Owns(f, d) /\ sec[c].kind = "dir" /\ sec[c].slots \in [1 .. Slots -> SlotVals]
  <2>1. c \in Clusters /\ c \in Owns(f, d) /\ sec[c].kind = "dir"
    BY <1>3, <1>7, DirChain
  <2> QED BY <1>2, <2>1, SlotsHeld
<1>9. x[1] = c /\ x[2] = b
  BY <1>7
<1>10. /\ b \in Q /\ Q \in SUBSET (1 .. Slots)
       /\ \A a \in Q : a = b \/ (a = b - 1 /\ Val(sec, <<c, a>>).kind = "lfn")
  <2>1. \A y : At(y) = Val(sec, y)
    BY <1>3 DEF AtDir
  <2> QED BY <1>7, <1>9, <2>1
<1> DEFINE T == sec'
           sl == [i \in 1 .. Slots |-> IF i \in Q THEN Slot("0xE5") ELSE sec[c].slots[i]]
<1>11. Rewritten(sec, T, c, sl)
  <2>1. sl \in [1 .. Slots -> SlotVals]
    BY <1>8 DEF Slot, SlotVals
  <2>2. Written(sec, T, c, sl)
    BY <1>1, <1>9 DEF Written
  <2> HIDE DEF sl, T, c
  <2> QED BY <1>2, <1>8, <2>1, <2>2, WrittenIs
<1>12. T \in Medium /\ Rewrites(sec, T, c) /\ T[c].kind = "dir" /\ \A a \in 1 .. Slots : Val(T, <<c, a>>) = sl[a]
  BY <1>11 DEF Rewritten
<1>13. \A a \in 1 .. Slots : Val(sec, <<c, a>>) = sec[c].slots[a]
  BY <1>2, <1>8, SlotsHeld
<1>14. /\ \A a \in Q : Val(T, <<c, a>>) = Slot("0xE5")
       /\ \A a \in (1 .. Slots) \ Q : Val(T, <<c, a>>) = Val(sec, <<c, a>>)
  BY <1>10, <1>12, <1>13
<1> HIDE DEF T, s, c, x, Q, sl
<1>15. Fills(sec, T, c, Q)
  BY <1>10, <1>12, <1>14 DEF Fills, Slot
<1>16. Spot(sec, s, g, Q)
  <2> SUFFICES ASSUME NEW i \in 1 .. Len(s), NEW a \in 1 .. Slots, NEW q \in Q, Before(i, a, g, q)
               PROVE  Val(sec, <<s[i], a>>).kind # "0x00"
    BY DEF Spot
  <2>1. Before(i, a, g, b)
    <3>1. q = b \/ q = b - 1
      BY <1>10
    <3> QED BY <1>7, <3>1 DEF Before
  <2> QED BY <1>7, <2>1
<1>17. DirsFine(f, sec, T)
  <2>1. Fills(sec, T, Chain(f, d)[g], Q) /\ Spot(sec, Chain(f, d), g, Q) /\ g \in 1 .. Len(Chain(f, d))
    BY <1>7, <1>15, <1>16 DEF s, c
  <2> QED BY <1>4, <2>1, DirsFilled
<1>18. Drops(sec, T, x)
  <2>1. Val(sec, <<c, b>>).kind = "entry"
    BY <1>7 DEF E
  <2>2. \A a \in Q : Val(T, <<c, a>>).kind # "entry" /\ (a # b => Val(sec, <<c, a>>).kind # "entry")
    BY <1>10, <1>14 DEF Slot
  <2>3. Drops(sec, T, <<c, b>>)
    BY <1>10, <1>15, <2>1, <2>2, EntryGone
  <2> QED BY <1>7, <2>3
<1>19. x \in E(sec) /\ E(T) = E(sec) \ {x} /\ \A y \in E(T) : Val(T, y) = Val(sec, y)
  BY <1>18 DEF Drops
<1>20. Val(sec, x).dir => \A y \in E(sec) : y[1] \notin Owns(f, Val(sec, x).clus)
  <2>1. SUFFICES ASSUME op.call.do = "delete" PROVE ~Val(sec, x).dir
    BY <1>4, <1>7, <2>1
  <2>2. LeafOf(op.call) \in Leaves
    <3>1. op.call \in Calls
      BY <1>2, OpFields
    <3>2. op.call.path \in Paths
      BY <2>1, <3>1 DEF Calls
    <3> QED BY <2>1, <3>2, FatAssumption DEF LeafOf
  <2> QED BY <1>4, <1>7, <2>2, DirNames
<1> DEFINE X == {op.old} \cap Clusters
<1>21. /\ Vol(f, T, Held(op) \cup ({op.old} \cap Clusters), {}) /\ Live(T) = Live(sec) \ {op.old}
  <2>1. T \in Medium
    BY <1>12
  <2>2. Unlinked(f, sec, Held(op), T, x)
    BY <1>4, <1>17, <1>18, <1>20, <2>1, UnlinkIs
  <2> QED BY <1>7, <2>2 DEF Unlinked
<1>22. Vol(f, T, X, {})
  BY <1>5, <1>21
<1>23. Ended(op', X)
  BY <1>1, <1>2, EndsIs
<1>24. Live(T) \cup X \subseteq Live(sec) \cup Held(op)
  <2>1. X \subseteq Live(sec)
    BY <1>7 DEF Live
  <2> QED BY <1>21, <2>1
<1>25. Kept
  <2>1. Held(op') = X
    BY <1>23 DEF Ended
  <2>2. Live(sec) \subseteq Clusters
    BY <1>2, <1>4, DirsLive DEF Vol
  <2> QED BY <1>5, <1>21, <2>1, <2>2 DEF Kept, T
<1>26. Removes(d, x)
  BY <1>3, <1>7, <1>9, <1>12, <1>18 DEF Removes, T
<1> HIDE DEF X
<1> QED BY <1>1, <1>12, <1>22, <1>23, <1>24, <1>25, <1>26, EndKeeps DEF T

-----------------------------------------------------------------------------
(***************************************************************************)
(* Every step keeps the volume                                             *)
(***************************************************************************)
\* The formatted volume: the root directory, empty.
LEMMA FatBegins == ASSUME Init PROVE FatInv
<1> DEFINE f == fat[1]
<1>1. /\ num_fats \in {1, 2} /\ op = NoCall /\ fatbuf = NoCache /\ answer = "none" /\ faults = 0
      /\ fat = [k \in 1 .. num_fats |-> [c \in Clusters |-> IF c = Root THEN Eoc ELSE Free]]
      /\ sec = [c \in Clusters |-> Blank]
      /\ fsinfo = Cardinality(Clusters) - 1 /\ free_count = Cardinality(Clusters) - 1
  BY DEF Init
<1>2. Root \in Clusters /\ Cardinality(Clusters) - 1 \in Nat
  <2>1. Cardinality(Clusters) \in Nat /\ Cardinality(Clusters) # 0
    BY FatAssumption, FS_CardinalityType, FS_EmptySet
  <2> QED BY <2>1, FatAssumption
<1>3. fat \in [1 .. num_fats -> Fats] /\ f \in Fats /\ f[Root] = Eoc
  <2>1. [c \in Clusters |-> IF c = Root THEN Eoc ELSE Free] \in Fats
    BY DEF Fats
  <2>2. 1 \in 1 .. num_fats
    BY <1>1
  <2>3. f = [c \in Clusters |-> IF c = Root THEN Eoc ELSE Free]
    BY <1>1, <2>2
  <2> QED BY <1>1, <1>2, <2>1, <2>3
<1>4. Blank \in Sectors /\ Blank.kind = "dir" /\ \A a \in 1 .. Slots : Blank.slots[a] = Slot("0x00")
  BY DEF Blank, Dir, Slot, Sectors, SlotVals
<1>5. sec \in Medium /\ \A c \in Clusters, a \in 1 .. Slots : Val(sec, <<c, a>>).kind = "0x00"
  <2>1. sec \in Medium
    BY <1>1, <1>4 DEF Medium
  <2>2. ASSUME NEW c \in Clusters, NEW a \in 1 .. Slots PROVE Val(sec, <<c, a>>).kind = "0x00"
    <3>1. sec[c] = Blank
      BY <1>1
    <3>2. Val(sec, <<c, a>>) = Slot("0x00")
      BY <1>4, <2>1, <3>1, SlotType
    <3> QED BY <3>2 DEF Slot
  <2> QED BY <2>1, <2>2
<1>6. E(sec) = {}
  <2>1. ASSUME NEW x \in AllSlots PROVE Val(sec, x).kind = "0x00"
    <3>1. x = <<x[1], x[2]>> /\ x[1] \in Clusters /\ x[2] \in 1 .. Slots
      BY DEF AllSlots
    <3> QED BY <1>5, <3>1
  <2> QED BY <2>1 DEF E
<1>7. Live(sec) = {Root} /\ DirTops(sec) = {Root}
  BY <1>6 DEF Live, DirTops
<1> HIDE DEF f
<1>8. IsTop(f, Root) /\ Chain(f, Root) = <<Root>> /\ Owns(f, Root) = {Root}
  BY <1>2, <1>3, ChainOne
<1>9. Tops(f, sec, {}) /\ NamesOk(f, sec) /\ Lies(f, sec, {})
  BY <1>6, <1>7, <1>8 DEF Tops, NamesOk, Lies
<1>10. DirsOk(f, sec, {})
  <2>1. \A c \in Owns(f, Root) : sec[c].kind = "dir"
    BY <1>1, <1>2, <1>4, <1>8
  <2>2. TailFree(sec, Chain(f, Root), {})
    <3>1. \A j \in 1 .. Len(<<Root>>) : (<<Root>>)[j] \in Clusters
      BY <1>2
    <3> QED BY <1>5, <1>8, <3>1 DEF TailFree
  <2> QED BY <1>7, <2>1, <2>2 DEF DirsOk
<1>11. Held(op) = {} /\ Raw(op) = {}
  BY <1>1 DEF Held, Raw
<1>12. VolInv
  <2>1. VolTypes(f, sec, {})
    BY <1>3, <1>5 DEF VolTypes
  <2> QED BY <1>9, <1>10, <1>11, <2>1 DEF VolInv, Vol, f
<1>13. FatTypes
  BY <1>1, <1>2, <1>3, <1>5 DEF FatTypes
<1>14. CacheInv /\ CallInv
  BY <1>1 DEF CacheInv, Cache, CallInv
<1> QED BY <1>12, <1>13, <1>14 DEF FatInv

LEMMA FatStays == ASSUME FatInv, UNCHANGED vars PROVE FatInv'
<1>1. UNCHANGED <<num_fats, fat, sec, fsinfo, fatbuf, free_count, answer, op, faults>>
  BY DEF vars, disk, memory
<1>2. CASE op = NoCall
  BY <1>1, <1>2 DEF FatInv, FatTypes, VolInv, CacheInv, CallInv
<1>3. CASE op # NoCall
  <2>1. CallInv'
    BY <1>1 DEF FatInv, CallInv, OpInv
  <2> QED BY <1>1, <2>1 DEF FatInv, FatTypes, VolInv, CacheInv
<1> QED BY <1>2, <1>3

LEMMA FatStep == ASSUME FatInv, Spares, [Next]_vars PROVE FatInv'
<1>1. CASE \E p \in Paths : fat32_delete(p) \/ \E v \in Data : fat32_write_file(p, v)
  BY <1>1, BeginDelete, BeginWrite
<1>2. CASE \E n \in Dirs : fat32_mkdir(n) \/ fat32_rmdir(n)
  BY <1>2, BeginMkdir, BeginRmdir
<1>3. CASE Step
  <2>1. CASE FindCluster \/ fat_set_next \/ Taken \/ fat_free_chain
    BY <2>1, FindKeeps, SetKeeps, TakenKeeps, FreeKeeps
  <2>2. CASE WriteBlock \/ WriteDots \/ ZeroCluster
    BY <2>2, BlockKeeps, DotsKeep, ZeroKeeps
  <2>3. CASE MarkGap \/ PutEntry \/ Grow
    BY <2>3, MarkKeeps, PutKeeps, GrowKeeps
  <2>4. CASE UpdateEntry \/ Unlink \/ Return
    BY <2>4, UpdateKeeps, UnlinkKeeps, ReturnKeeps
  <2> QED BY <1>3, <2>1, <2>2, <2>3, <2>4 DEF Step
<1>4. CASE ~Idle /\ (WriteFails \/ ReadFails \/ PowerLoss)
  BY <1>4, WriteFailsKeeps, ReadFailsKeeps, PowerLossKeeps DEF Idle
<1>5. CASE UNCHANGED vars
  BY <1>5, FatStays
<1> QED BY <1>1, <1>2, <1>3, <1>4, <1>5 DEF Next

\* The volume on its own: a run that does not fail while a directory grows.
LEMMA FatInductive == ASSUME ~GrowthFaults PROVE StorageSpec => []FatInv
<1>1. StorageInit => FatInv
  BY FatBegins DEF StorageInit
<1>2. FatInv /\ [StorageNext]_storage_vars => FatInv'
  <2> SUFFICES ASSUME FatInv, [StorageNext]_storage_vars PROVE FatInv'
    OBVIOUS
  <2>1. [Next]_vars
    BY DEF StorageNext, InFat32, InUsers, InUsb, storage_vars
  <2> QED BY <2>1, FatStep DEF Spares
<1> QED BY <1>1, <1>2, PTL DEF StorageSpec

\* What a fault leaves behind is at most clusters no file has: whatever access fails
\* and wherever the power is lost, no chain is shared, cut short or crossed, and
\* the files have the clusters their sizes say.
THEOREM OnlyOrphans == ASSUME ~GrowthFaults PROVE StorageSpec => []VolumeSound
<1>1. FatInv => VolumeSound
  BY SoundIs DEF VolumeSound, OnVolume
<1> QED BY <1>1, FatInductive, PTL

\* The one cached FAT sector never shows a call another chain than the medium has.
THEOREM CacheShowsTheMedium == ASSUME ~GrowthFaults PROVE StorageSpec => []CacheSafe
<1>1. FatInv => CacheSafe
  BY CacheHarmlessIs DEF CacheSafe, OnVolume
<1> QED BY <1>1, FatInductive, PTL
=============================================================================
