-------------------------------- MODULE Users --------------------------------
(***************************************************************************)
(* kernel/user.c: the accounts in memory, their two files USERS.DB and     *)
(* USERS.BAK, and the callers that log in, add, delete and change          *)
(* passwords. PBKDF2 runs without s_userlock, so a call has a locked first *)
(* part, an open middle, and a locked end that looks again and saves.      *)
(*                                                                         *)
(* A file write is what FileStore promises: ok with the new contents, an   *)
(* error with the old or the new ones. Where Tears holds, power lost in a  *)
(* write may also leave a file that the header or a line gives away.       *)
(***************************************************************************)
EXTENDS Integers, FiniteSets

CONSTANTS
    Names,      \* names of accounts that user_add takes
    Callers,    \* consoles and processes that call
    Passwords,  \* that weak_password lets pass
    Default,    \* the password "admin", which it refuses
    MAX_USERS,
    MaxUid,     \* bound on s_next_uid
    MaxFaults,  \* bound on failing accesses and power losses
    Tears,      \* may a write cut short leave a corrupt file?
    HealFails,  \* may the write that heals USERS.DB fail?
    Absent, Corrupt,  \* a file that is not there, or cannot be read as a database
    NoSave      \* nobody saves

RootAdmin == "admin"
Init_ == "user_init"
Idle == [pc |-> "idle"]

VARIABLES
    s_users,    \* the accounts in memory
    s_next_uid,
    db, bak,    \* contents of USERS.DB and USERS.BAK
    phase,      \* "boot", "heal", "up" or "halt" (the gate of kmain)
    save,       \* the save that holds s_userlock
    caller,     \* what each caller is in
    may,        \* history: what the files may hold since the last save that answered ok
    faults

files == <<db, bak>>
memory == <<s_users, s_next_uid, save>>
vars == <<memory, files, phase, caller, may, faults>>

Account(n, u, p, m) == [name |-> n, uid |-> u, pw |-> p, must |-> m]
find_user(n) == {a \in s_users : a.name = n}
ByUid(u) == {a \in s_users : a.uid = u}
Usable(f) == f \notin {Absent, Corrupt}
\* parse_line keeps s_next_uid above every uid it has read.
NextUid(accounts) == 1 + CHOOSE u \in {a.uid : a \in accounts} : \A a \in accounts : a.uid <= u

Fault(n) == faults + n <= MaxFaults /\ faults' = faults + n
Unlocked == phase = "up" /\ save = NoSave

Init ==
    /\ s_users = {} /\ s_next_uid = 0 /\ save = NoSave
    /\ db = Absent /\ bak = Absent
    /\ phase = "boot"
    /\ caller = [c \in Callers |-> Idle]
    /\ may = {}
    /\ faults = 0

-----------------------------------------------------------------------------
\* Neither file is there: a first boot. Anything else that cannot be read is not.
FirstBoot_Unreadable(d, b) == ~Usable(d) /\ ~Usable(b)
FirstBoot(d, b) == d = Absent /\ b = Absent

(***************************************************************************)
(* Boot: db_load_recover and user_init. A read may fail (badDb, badBak),   *)
(* that of a directory too: then a missing file counts as a corrupt one.   *)
(***************************************************************************)
user_init(badDb, badBak) ==
    /\ phase = "boot" /\ save = NoSave
    /\ Fault(badDb + badBak)
    /\ UNCHANGED <<files, caller>>
    /\ LET d == IF badDb = 1 THEN Corrupt ELSE db
           b == IF badBak = 1 THEN Corrupt ELSE bak
           load(f) == s_users' = f /\ s_next_uid' = NextUid(f) /\ UNCHANGED <<save, may>>
       IN  \/ Usable(d) /\ load(d) /\ phase' = "up"
           \/ ~Usable(d) /\ Usable(b) /\ load(b) /\ phase' = "heal"
           \/ /\ FirstBoot(d, b)
              /\ s_users' = {Account(RootAdmin, 0, Default, TRUE)}
              /\ s_next_uid' = 1
              /\ save' = [stage |-> "bak", back |-> {}, by |-> Init_]
              /\ may' = IF may = {} THEN {s_users'} ELSE may
              /\ UNCHANGED phase
           \/ /\ ~Usable(d) /\ ~Usable(b) /\ ~FirstBoot(d, b)
              /\ phase' = "halt"
              /\ UNCHANGED <<memory, may>>

\* The primary is rewritten from the backup; the result is not looked at.
Heal ==
    /\ phase = "heal"
    /\ \/ db' = s_users /\ UNCHANGED faults
       \/ HealFails /\ Fault(1) /\ UNCHANGED db
    /\ phase' = "up"
    /\ UNCHANGED <<memory, bak, caller, may>>

-----------------------------------------------------------------------------
(***************************************************************************)
(* save_db: the backup, then the primary, with s_userlock held             *)
(***************************************************************************)
File == IF save.stage = "bak" THEN bak ELSE db
Put_Both(contents) == db' = contents /\ bak' = contents
Put(contents) ==
    IF save.stage = "bak" THEN bak' = contents /\ UNCHANGED db
    ELSE db' = contents /\ UNCHANGED bak

\* What a call does with the outcome of its save: it rolls back on an error.
Saved(ok) ==
    /\ save' = NoSave
    /\ s_users' = IF ok THEN s_users ELSE save.back
    /\ may' = IF ok THEN {s_users} ELSE may
    /\ IF save.by = Init_ THEN phase' = (IF ok THEN "up" ELSE "halt") /\ UNCHANGED caller
       ELSE /\ caller' = [caller EXCEPT ![save.by] = IF ok \/ @.op # "login" THEN @.next ELSE Idle]
            /\ UNCHANGED phase

WriteOk ==
    /\ save # NoSave
    /\ Put(s_users)
    /\ IF save.stage = "bak"
       THEN save' = [save EXCEPT !.stage = "db"] /\ UNCHANGED <<s_users, may, phase, caller>>
       ELSE Saved(TRUE)
    /\ UNCHANGED <<s_next_uid, faults>>

WriteError ==
    /\ save # NoSave
    /\ Fault(1)
    /\ \E contents \in {File, s_users} : Put(contents)
    /\ Saved(FALSE)
    /\ UNCHANGED s_next_uid

\* A call in its locked end: accounts is what it makes of s_users.
Commit(c, accounts) ==
    /\ s_users' = accounts
    /\ save' = [stage |-> "bak", back |-> s_users, by |-> c]
    /\ may' = may \cup {accounts}
    /\ UNCHANGED <<caller, files, phase, faults>>

-----------------------------------------------------------------------------
(***************************************************************************)
(* The calls                                                               *)
(***************************************************************************)
To(c, s) == caller' = [caller EXCEPT ![c] = s] /\ UNCHANGED <<memory, files, phase, may, faults>>
Session(u) == [pc |-> "session", uid |-> u]
InSession(c) == Unlocked /\ caller[c].pc = "session"
\* USER_CAP_ADMIN: only the account of the first boot gets it here.
IsAdmin(c) == caller[c].uid = 0

\* auth_check: the record is copied under the lock, compared after PBKDF2.
Login(c, n, p) ==
    /\ Unlocked /\ caller[c] = Idle
    /\ \E a \in find_user(n) : a.pw = p /\ To(c, [pc |-> "auth", uid |-> a.uid])

\* login_console: no shell before an initial password is changed.
MustChange(u) == \E a \in ByUid(u) : a.must
LoginShell(c) ==
    /\ Unlocked /\ caller[c].pc = "auth" /\ ~MustChange(caller[c].uid)
    /\ To(c, Session(caller[c].uid))

\* user_change_password, from SYS_PASSWD or forced by the login
ChangeFind(c, p) ==
    /\ Unlocked
    /\ caller[c].pc = "session" \/ (caller[c].pc = "auth" /\ MustChange(caller[c].uid))
    /\ \E a \in ByUid(caller[c].uid) :
          To(c, [pc |-> "hash", op |-> IF caller[c].pc = "auth" THEN "login" ELSE "passwd",
                 uid |-> a.uid, name |-> a.name, pw |-> p, next |-> Session(a.uid)])
ChangeCommit(c) ==
    /\ Unlocked /\ caller[c].pc = "hash" /\ caller[c].op # "add"
    /\ \/ \E a \in ByUid(caller[c].uid) :
             Commit(c, (s_users \ {a}) \cup {[a EXCEPT !.pw = caller[c].pw, !.must = FALSE]})
       \/ ByUid(caller[c].uid) = {} /\ To(c, IF caller[c].op = "login" THEN Idle ELSE caller[c].next)
    /\ UNCHANGED s_next_uid

\* user_add, for an administrator
CanAdd(n) == Cardinality(s_users) < MAX_USERS /\ find_user(n) = {}
AddCheck(c, n, p) ==
    /\ InSession(c) /\ IsAdmin(c) /\ CanAdd(n)
    /\ To(c, [pc |-> "hash", op |-> "add", name |-> n, pw |-> p, next |-> caller[c]])
FreshUid_Count == Cardinality(s_users)
FreshUid == s_next_uid
AddCommit(c) ==
    /\ Unlocked /\ caller[c].pc = "hash" /\ caller[c].op = "add"
    /\ \/ /\ CanAdd(caller[c].name) /\ FreshUid < MaxUid
          /\ Commit(c, s_users \cup {Account(caller[c].name, FreshUid, caller[c].pw, TRUE)})
          /\ s_next_uid' = s_next_uid + 1
       \/ /\ ~CanAdd(caller[c].name)
          /\ To(c, caller[c].next)

\* user_delete: everybody but uid 0
Delete(c, n) ==
    /\ InSession(c) /\ IsAdmin(c)
    /\ \E a \in find_user(n) :
          /\ a.uid # 0
          /\ s_users' = s_users \ {a}
          /\ save' = [stage |-> "bak", back |-> s_users, by |-> c]
          /\ may' = may \cup {s_users'}
          /\ caller' = [caller EXCEPT ![c] = [pc |-> "delete", op |-> "delete", next |-> @]]
    /\ UNCHANGED <<s_next_uid, files, phase, faults>>

Logout(c) == Unlocked /\ caller[c].pc \in {"auth", "session"} /\ To(c, Idle)

-----------------------------------------------------------------------------
\* Power loss and reboot; a file being written keeps the old contents or has the new.
PowerLoss ==
    /\ phase \in {"up", "heal", "boot"} /\ (save # NoSave \/ phase # "boot")
    /\ Fault(1)
    /\ IF save # NoSave
       THEN \E contents \in {File, s_users} \cup (IF Tears THEN {Corrupt} ELSE {}) : Put(contents)
       ELSE IF phase = "heal"
       THEN db' \in {db, s_users} \cup (IF Tears THEN {Corrupt} ELSE {}) /\ UNCHANGED bak
       ELSE UNCHANGED files
    /\ phase' = "boot"
    /\ s_users' = {} /\ s_next_uid' = 0 /\ save' = NoSave
    /\ caller' = [c \in Callers |-> Idle]
    /\ UNCHANGED may

Next ==
    \/ \E r, s \in {0, 1} : user_init(r, s)
    \/ Heal \/ WriteOk \/ WriteError \/ PowerLoss
    \/ \E c \in Callers :
          \/ \E n \in Names \cup {RootAdmin}, p \in Passwords \cup {Default} : Login(c, n, p) \/ AddCheck(c, n, p)
          \/ \E p \in Passwords : ChangeFind(c, p)
          \/ LoginShell(c) \/ ChangeCommit(c) \/ AddCommit(c)
          \/ \E n \in Names : Delete(c, n)
          \/ Logout(c)

Spec == Init /\ [][Next]_vars

-----------------------------------------------------------------------------
(***************************************************************************)
(* Properties                                                              *)
(***************************************************************************)
TypeOK ==
    /\ \A a \in s_users : a.uid \in 0 .. MaxUid /\ a.pw \in Passwords \cup {Default}
    /\ \A a, b \in s_users : a # b => a.name # b.name /\ a.uid # b.uid
    /\ Cardinality(s_users) <= MAX_USERS
    /\ phase \in {"boot", "heal", "up", "halt"}
    /\ faults \in 0 .. MaxFaults

\* What was answered ok stays: memory, and whatever a file can be read as at the
\* next boot, is the state of the last save that answered ok or one that was being
\* saved since, never an older one and never a new default account.
Durable ==
    /\ \A f \in {db, bak} : Usable(f) => f \in may
    /\ phase \in {"up", "heal"} => s_users \in may

\* Once both files have been written there is always one to boot from, so the gate
\* of kmain never locks everybody out (user.c:230 "mindestens eine ist stets eine
\* konsistente DB").
AlwaysAGoodCopy == db # Absent => Usable(db) \/ Usable(bak)

\* A password change that was checked against one account is never given to another:
\* a uid found in the first part means the same name in the last.
UidStable ==
    \A c \in Callers :
        caller[c].pc = "hash" /\ caller[c].op # "add" =>
            \A a \in ByUid(caller[c].uid) : a.name = caller[c].name
==============================================================================
