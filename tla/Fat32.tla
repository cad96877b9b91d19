-------------------------------- MODULE Fat32 --------------------------------
(***************************************************************************)
(* fs/fat32.c under the one lock of fs/vfs.c: write, delete, mkdir and     *)
(* rmdir as the sequences of sector writes they are. A write may fail, a   *)
(* read of the FAT may fail, and the power may go between any two writes;  *)
(* mounting starts again from what the sectors hold.                       *)
(*                                                                         *)
(* A cluster is one sector, and all FAT entries lie in one sector. A       *)
(* directory cluster holds Slots entries; a long name takes two of them.   *)
(* op is the running call and where it stands; op.pc names the next write: *)
(*   find    fat_alloc_cluster searches (reads only)                       *)
(*   set     fat_set_next writes the next FAT copy, then goes on at then   *)
(*   flush   fat_alloc_cluster's counters and FSInfo                       *)
(*   data    a file's block       dots   a new directory's first sector    *)
(*   entry   the directory entry  zero   the directory's new cluster       *)
(*   unlink  the entry is marked  free   fat_free_chain, at cluster todo   *)
(***************************************************************************)
EXTENDS Naturals, Sequences, FiniteSets, SequencesExt

CONSTANTS
    Clusters,   \* the data clusters
    Free, Eoc,  \* FAT entries: a free cluster, the end of a chain
    Nil,        \* no cluster (0 or an invalid number)
    Root,       \* the root directory's first cluster
    Slots,      \* directory entries in a sector
    Dirs,       \* names of directories (in the root)
    Leaves,     \* names of files
    Paths,      \* files: [dir |-> a directory, or Absent for the root, leaf |-> a name]
    Long,       \* names that need an LFN entry
    Data,       \* contents of files
    Blocks,     \* clusters each of them fills
    Absent,
    NoCall,
    GrowthFaults, \* may a fault hit the growth of a directory half way?
    MaxFaults   \* bound on failing accesses and power losses

NoCache == <<>>

InDir == [p \in Paths |-> p.dir]

\* The entries of directories, the calls, and a call with its place in it
Entries == [kind : {"entry"}, name : Dirs \cup Leaves, clus : Clusters \cup {Nil}, size : Nat, dir : BOOLEAN]
Calls ==
    [do : {"write"}, path : Paths, v : Data] \cup [do : {"delete"}, path : Paths]
        \cup [do : {"mkdir", "rmdir"}, path : Dirs]
Numbers == Clusters \cup {Free, Eoc, Nil}
Ops ==
    [call : Calls, pc : {"find", "set", "flush", "data", "dots", "entry", "zero", "unlink", "free", "ret"},
     first : Clusters \cup {Nil}, prev : Clusters \cup {Nil}, old : Clusters \cup {Nil}, k : Nat,
     use : {"file", "dir", "grow"}, c : Numbers, at : Numbers, val : Numbers, copy : 0..2,
     then : {"", "flush", "data", "zero", "free"}, todo : Numbers, freed : Nat, after : {"ok", "err", "undo"},
     io : BOOLEAN, applied : BOOLEAN]

ASSUME FatAssumption ==
    /\ IsFiniteSet(Clusters) /\ Root \in Clusters /\ {Free, Eoc, Nil} \cap Clusters = {}
    /\ Free # Eoc
    /\ Absent \notin Entries \cup Clusters \cup Data \cup {"corrupt"} /\ NoCall \notin Ops \cup Calls
    /\ \A v, w \in Data : Blocks[v] = 0 /\ Blocks[w] = 0 => v = w   \* the empty file is one content
    /\ Slots \in Nat \ {0, 1, 2}
    /\ Paths \subseteq [dir : Dirs \cup {Absent}, leaf : Leaves] /\ Absent \notin Dirs
    /\ Long \subseteq Dirs \cup Leaves /\ Dirs \cap Leaves = {}
    /\ Blocks \in [Data -> Nat]
    /\ GrowthFaults \in BOOLEAN /\ MaxFaults \in Nat

VARIABLES
    num_fats,   \* copies of the FAT, from the BPB
    fat,        \* the copies on the medium
    sec,        \* the sectors of the clusters
    fsinfo,     \* the free count in the FSInfo sector
    fatbuf,     \* cached FAT sector, or NoCache
    free_count, \* of fat_fs_t
    op,         \* the running call
    answer,     \* what the last call returned
    faults      \* failed accesses and power losses so far

disk == <<num_fats, fat, sec, fsinfo>>
memory == <<fatbuf, free_count, answer>>
vars == <<disk, memory, op, faults>>

-----------------------------------------------------------------------------
(***************************************************************************)
(* The volume: chains, directories, files                                  *)
(***************************************************************************)
Valid(c) == c \in Clusters

\* LET x == v IN Body(x), with v evaluated once also where TLC primes it.
Let(v, Body(_)) == CHOOSE r \in {Body(x) : x \in {v}} : TRUE

\* A FAT sector is read from the first copy, unless it is cached. (The walk along a
\* directory loads the sector too; what is read stays the same, so that is left out.)
Cached == IF fatbuf = NoCache THEN fat[1] ELSE fatbuf
fat_next(c) == Cached[c]

\* A slot is free (0x00 or 0xE5), a part of a long name, "." or "..", or an entry.
Slot(kind) == [kind |-> kind]
Entry(n, c, size, isdir) == [kind |-> "entry", name |-> n, clus |-> c, size |-> size, dir |-> isdir]
Dir(slots) == [kind |-> "dir", slots |-> slots]
Block(v, k) == [kind |-> "data", v |-> v, k |-> k]
Blank == Dir([i \in 1..Slots |-> Slot("0x00")])

\* The clusters of the chain that starts at c in the FAT f; it ends with the
\* first invalid entry, and a cycle is cut where it closes.
Chain(f, c) ==
    LET step[s \in Seq(Clusters)] ==
            LET n == f[s[Len(s)]] IN
            IF Valid(n) /\ \A i \in DOMAIN s : s[i] # n THEN step[Append(s, n)] ELSE s
    IN  IF Valid(c) THEN step[<<c>>] ELSE <<>>

\* A directory's slots in the order they are scanned, as <<cluster, index>>.
SlotsOf(f, d) ==
    Let(Chain(f, d), LAMBDA ch :
        [i \in 1..(Len(ch) * Slots) |-> <<ch[((i - 1) \div Slots) + 1], ((i - 1) % Slots) + 1>>])
IsDir(c) == sec[c].kind = "dir"
At(x) == IF IsDir(x[1]) THEN sec[x[1]].slots[x[2]] ELSE Slot("0xE5")

\* dir_iterate stops at the first 0x00: what comes after it is not seen.
Seen(f, d) ==
    Let(SlotsOf(f, d), LAMBDA all :
        Let(SelectInSeq(all, LAMBDA x : At(x).kind = "0x00"), LAMBDA end :
            Range(IF end = 0 THEN all ELSE SubSeq(all, 1, end - 1))))

\* dir_lookup: the slot of name n in the directory that starts at cluster d
Found(f, d, n) == {x \in Seen(f, d) : At(x).kind = "entry" /\ At(x).name = n}
Lookup(f, d, n) ==
    Let(Found(f, d, n), LAMBDA xs : IF xs = {} THEN Absent ELSE At(CHOOSE x \in xs : TRUE))

\* walk_to_parent: the first cluster of the directory a path lies in, or Absent
Parent(f, dir) ==
    IF dir = Absent THEN Root
    ELSE Let(Lookup(f, Root, dir), LAMBDA e : IF e = Absent THEN Absent ELSE e.clus)

\* fat32_read_file: the blocks the entry's size asks for, along the chain.
Contents(f, e) ==
    Let(Chain(f, e.clus), LAMBDA ch :
        LET Holds(v) == e.size = Blocks[v] /\ \A i \in 1..e.size : sec[ch[i]] = Block(v, i)
        IN  IF Len(ch) >= e.size /\ \E v \in Data : Holds(v) THEN CHOOSE v \in Data : Holds(v)
            ELSE "corrupt")
ReadFile(f, p) ==
    Let(Parent(f, p.dir), LAMBDA d :
        IF d = Absent THEN Absent
        ELSE Let(Lookup(f, d, p.leaf), LAMBDA e : IF e = Absent THEN Absent ELSE Contents(f, e)))

\* The first clusters of the directories that can be reached.
DirStarts(f) ==
    {Root} \cup {Lookup(f, Root, n).clus : n \in {m \in Dirs : Lookup(f, Root, m) # Absent}}

-----------------------------------------------------------------------------
Init ==
    /\ num_fats \in {1, 2}
    /\ fat = [k \in 1..num_fats |-> [c \in Clusters |-> IF c = Root THEN Eoc ELSE Free]]
    /\ sec = [c \in Clusters |-> Blank]
    /\ fsinfo = Cardinality(Clusters) - 1
    /\ fatbuf = NoCache
    /\ free_count = Cardinality(Clusters) - 1
    /\ op = NoCall
    /\ answer = "none"
    /\ faults = 0

-----------------------------------------------------------------------------
(***************************************************************************)
(* Where a call goes next                                                  *)
(***************************************************************************)
Idle == op = NoCall
Is(pc) == ~Idle /\ op.pc = pc

SetNext(o, c, val, then) ==
    [o EXCEPT !.pc = "set", !.at = c, !.val = val, !.copy = 1, !.then = then]
FreeChain(o, c, after) == [o EXCEPT !.pc = "free", !.todo = c, !.freed = 0, !.after = after]
Ret(o, a) == [o EXCEPT !.pc = "ret", !.after = a]

Undo_Old(o) == IF Valid(o.old) THEN FreeChain(o, o.old, "err") ELSE Ret(o, "err")
\* The error paths of fat32_write_file and fat32_mkdir give the new chain back.
Undo(o) == IF Valid(o.first) THEN FreeChain(o, o.first, "err") ELSE Ret(o, "err")
\* After fat_free_chain, ok or not.
Freed(o, ok) ==
    IF o.after = "undo" THEN Undo(o) ELSE Ret(o, IF ok /\ ~o.io THEN o.after ELSE "err")

Blocked(o) == IF o.call.do = "write" THEN Blocks[o.call.v] ELSE 0
NextBlock(o) == [o EXCEPT !.pc = IF o.k < Blocked(o) THEN "find" ELSE "entry", !.use = "file"]

-----------------------------------------------------------------------------
\* Linked into its directory, not yet zeroed.
HalfGrown == ~Idle /\ op.use = "grow" /\ (Is("zero") \/ (Is("set") /\ op.then = "zero" /\ op.copy > 1))

Fault ==
    /\ faults < MaxFaults /\ faults' = faults + 1
    /\ HalfGrown => GrowthFaults

-----------------------------------------------------------------------------
(***************************************************************************)
(* A call begins: path and name are looked up (reads only). Calls that are *)
(* refused here return -1 and change nothing.                              *)
(***************************************************************************)
Begin(call, pc, old) ==
    /\ Idle
    /\ op' = [call |-> call, pc |-> pc, first |-> Nil, prev |-> Nil, k |-> 0, use |-> "file",
              c |-> Nil, at |-> Nil, val |-> Nil, copy |-> 0, then |-> "", todo |-> Nil, freed |-> 0,
              after |-> "ok", io |-> FALSE, applied |-> FALSE, old |-> old]
    /\ answer' = "none"
    /\ UNCHANGED <<disk, fatbuf, free_count, faults>>

fat32_write_file(p, v) ==
    LET d == Parent(Cached, p.dir) IN
    /\ d # Absent
    /\ Begin([do |-> "write", path |-> p, v |-> v], IF Blocks[v] > 0 THEN "find" ELSE "entry",
             IF Lookup(Cached, d, p.leaf) = Absent THEN Nil ELSE Lookup(Cached, d, p.leaf).clus)

fat32_delete(p) ==
    LET d == Parent(Cached, p.dir) IN
    /\ d # Absent
    /\ Lookup(Cached, d, p.leaf) # Absent
    /\ Begin([do |-> "delete", path |-> p], "unlink", Lookup(Cached, d, p.leaf).clus)

fat32_mkdir(n) ==
    /\ Lookup(Cached, Root, n) = Absent
    /\ Begin([do |-> "mkdir", path |-> n], "find", Nil)

dir_is_empty_Never(d) == TRUE
dir_is_empty(d) == \A x \in Seen(Cached, d) : At(x).kind # "entry"
fat32_rmdir(n) ==
    /\ Lookup(Cached, Root, n) # Absent
    /\ dir_is_empty(Lookup(Cached, Root, n).clus)
    /\ Begin([do |-> "rmdir", path |-> n], "unlink", Lookup(Cached, Root, n).clus)

-----------------------------------------------------------------------------
(***************************************************************************)
(* fat_alloc_cluster, fat_set_next, fat_free_chain                         *)
(***************************************************************************)
\* The search starts at the hint next_free: any free cluster.
FindCluster ==
    /\ Is("find")
    /\ fatbuf' = Cached
    /\ \/ \E c \in Clusters :
              /\ fat_next(c) = Free
              /\ op' = SetNext([op EXCEPT !.c = c, !.use = IF op.call.do = "mkdir" /\ op.first = Nil
                                                           THEN "dir" ELSE @], c, Eoc, "flush")
       \/ /\ \A c \in Clusters : fat_next(c) # Free
          /\ op' = Undo(op)
    /\ UNCHANGED <<disk, free_count, answer, faults>>

fat_set_next_KeepsCache ==
    /\ Is("set")
    /\ fat' = [fat EXCEPT ![op.copy][op.at] = op.val]
    /\ IF op.copy < num_fats
       THEN /\ op' = [op EXCEPT !.copy = @ + 1]
            /\ UNCHANGED fatbuf
       ELSE /\ op' = IF op.then = "free"
                     THEN [op EXCEPT !.pc = "free", !.todo = op.c, !.freed = @ + 1]
                     ELSE [op EXCEPT !.pc = op.then]
            /\ UNCHANGED fatbuf
    /\ UNCHANGED <<num_fats, sec, fsinfo, free_count, answer, faults>>

\* One copy of the FAT; after the last one the cached sector is dropped.
fat_set_next ==
    /\ Is("set")
    /\ fat' = [fat EXCEPT ![op.copy][op.at] = op.val]
    /\ IF op.copy < num_fats
       THEN /\ op' = [op EXCEPT !.copy = @ + 1]
            /\ UNCHANGED fatbuf
       ELSE /\ op' = IF op.then = "free"
                     THEN [op EXCEPT !.pc = "free", !.todo = op.c, !.freed = @ + 1]
                     ELSE [op EXCEPT !.pc = op.then]
            /\ fatbuf' = NoCache
    /\ UNCHANGED <<num_fats, sec, fsinfo, free_count, answer, faults>>

\* fsinfo_flush: a hint, its errors are ignored.
Flush(n) == \/ fsinfo' = n /\ UNCHANGED faults
            \/ Fault /\ UNCHANGED fsinfo

\* The cluster is taken: the counters, then whoever asked for it goes on.
Taken ==
    /\ Is("flush")
    /\ free_count' = IF free_count > 0 THEN free_count - 1 ELSE 0
    /\ Flush(free_count')
    /\ op' = IF op.use = "dir" THEN [op EXCEPT !.pc = "dots", !.first = op.c]
             ELSE IF op.use = "grow" THEN SetNext(op, op.prev, op.c, "zero")
             ELSE IF op.k = 0 THEN [op EXCEPT !.pc = "data", !.first = op.c]
             ELSE SetNext(op, op.prev, op.c, "data")
    /\ UNCHANGED <<num_fats, fat, sec, fatbuf, answer>>

fat_free_chain ==
    /\ Is("free")
    /\ \/ /\ Valid(op.todo) /\ op.io                     \* fat_next left io_err set
          /\ op' = Freed(op, FALSE)
          /\ UNCHANGED <<fsinfo, free_count, fatbuf, faults>>
       \/ /\ Valid(op.todo) /\ ~op.io /\ fat_next(op.todo) # Free
          /\ op' = SetNext([op EXCEPT !.c = fat_next(op.todo)], op.todo, Free, "free")
          /\ fatbuf' = Cached
          /\ UNCHANGED <<fsinfo, free_count, faults>>
       \/ /\ Valid(op.todo) => ~op.io /\ fat_next(op.todo) = Free
          /\ op' = Freed(op, TRUE)
          /\ UNCHANGED fatbuf
          /\ free_count' = free_count + op.freed
          /\ IF op.freed > 0 THEN Flush(free_count') ELSE UNCHANGED <<fsinfo, faults>>
    /\ UNCHANGED <<num_fats, fat, sec, answer>>

-----------------------------------------------------------------------------
(***************************************************************************)
(* The sectors a call writes                                               *)
(***************************************************************************)
\* fat32_write_file: a block of the new chain
WriteBlock ==
    /\ Is("data")
    /\ sec' = [sec EXCEPT ![op.c] = Block(op.call.v, op.k + 1)]
    /\ op' = NextBlock([op EXCEPT !.k = @ + 1, !.prev = op.c])
    /\ UNCHANGED <<num_fats, fat, fsinfo, memory, faults>>

\* fat32_mkdir: "." and "..", before anything points here
WriteDots ==
    /\ Is("dots")
    /\ sec' = [sec EXCEPT ![op.c] =
                  Dir([i \in 1..Slots |-> IF i <= 2 THEN Slot(".") ELSE Slot("0x00")])]
    /\ op' = [op EXCEPT !.pc = "entry"]
    /\ UNCHANGED <<num_fats, fat, fsinfo, memory, faults>>

\* The directory and the name the running call is about
ParentOf(call) == IF call.do \in {"write", "delete"} THEN Parent(Cached, call.path.dir) ELSE Root
LeafOf(call) == IF call.do \in {"write", "delete"} THEN call.path.leaf ELSE call.path
Where(call) == CHOOSE x \in Found(Cached, ParentOf(call), LeafOf(call)) : TRUE

NewEntry ==
    IF op.call.do = "mkdir" THEN Entry(op.call.path, op.first, 0, TRUE)
    ELSE Entry(op.call.path.leaf, op.first, Blocks[op.call.v], FALSE)

\* What dir_find_or_alloc (8.3) and dir_alloc_run (two slots in one sector) take
IsFree(x) == At(x).kind \in {"0x00", "0xE5"}
Fits(x) ==
    IF LeafOf(op.call) \in Long
    THEN x[2] < Slots /\ IsFree(x) /\ IsFree(<<x[1], x[2] + 1>>)
    ELSE IsFree(x)
Place == SelectInSeq(SlotsOf(Cached, ParentOf(op.call)), Fits)
\* dir_alloc_run marks every 0x00 of the sectors it has passed as 0xE5: the first of
\* them that has one, or 0.
Gap ==
    LET ch == Chain(Cached, ParentOf(op.call))
        all == SlotsOf(Cached, ParentOf(op.call))
    IN  IF LeafOf(op.call) \notin Long THEN 0
        ELSE SelectInSeq(ch, LAMBDA c :
                 /\ \E j \in 1..Slots : At(<<c, j>>).kind = "0x00"
                 /\ Place = 0 \/ c \in {all[i][1] : i \in 1..Place} \ {all[Place][1]})

NewName == Found(Cached, ParentOf(op.call), LeafOf(op.call)) = {}
AtEntry(new) ==
    /\ Is("entry")
    /\ new <=> NewName
    /\ UNCHANGED fatbuf

MarkGap ==
    /\ AtEntry(TRUE) /\ Gap # 0
    /\ sec' = [sec EXCEPT ![Chain(Cached, ParentOf(op.call))[Gap]] =
                  Dir([i \in 1..Slots |-> IF @.slots[i].kind = "0x00" THEN Slot("0xE5") ELSE @.slots[i]])]
    /\ UNCHANGED <<num_fats, fat, fsinfo, free_count, op, answer, faults>>

\* dir_put_entry with room for the name
PutEntry ==
    /\ AtEntry(TRUE) /\ Gap = 0 /\ Place # 0
    /\ LET x == SlotsOf(Cached, ParentOf(op.call))[Place] IN
       sec' = [sec EXCEPT ![x[1]].slots =
                  IF LeafOf(op.call) \in Long
                  THEN [@ EXCEPT ![x[2]] = Slot("lfn"), ![x[2] + 1] = NewEntry]
                  ELSE [@ EXCEPT ![x[2]] = NewEntry]]
    /\ op' = Ret([op EXCEPT !.applied = TRUE], "ok")
    /\ UNCHANGED <<num_fats, fat, fsinfo, free_count, answer, faults>>

\* ... and without: the directory grows by a cluster.
Grow ==
    /\ AtEntry(TRUE) /\ Gap = 0 /\ Place = 0
    /\ op' = [op EXCEPT !.pc = "find", !.use = "grow",
                        !.prev = Last(Chain(Cached, ParentOf(op.call)))]
    /\ UNCHANGED <<disk, free_count, answer, faults>>

ZeroCluster ==
    /\ Is("zero")
    /\ sec' = [sec EXCEPT ![op.c] = Blank]
    /\ op' = [op EXCEPT !.pc = "entry"]
    /\ UNCHANGED <<num_fats, fat, fsinfo, memory, faults>>

UpdateEntry_KeepsChain ==
    /\ AtEntry(FALSE)
    /\ LET x == Where(op.call) IN sec' = [sec EXCEPT ![x[1]].slots[x[2]] = NewEntry]
    /\ op' = Ret([op EXCEPT !.applied = TRUE], "ok")
    /\ UNCHANGED <<num_fats, fat, fsinfo, free_count, answer, faults>>

\* fat32_write_file over an existing entry: its chain and size, then the old
\* chain is given back.
UpdateEntry ==
    /\ AtEntry(FALSE)
    /\ LET x == Where(op.call) IN sec' = [sec EXCEPT ![x[1]].slots[x[2]] = NewEntry]
    /\ op' = LET o == [op EXCEPT !.applied = TRUE] IN
             IF Valid(op.old) THEN FreeChain(o, op.old, "ok") ELSE Ret(o, "ok")
    /\ UNCHANGED <<num_fats, fat, fsinfo, free_count, answer, faults>>

\* mark_deleted_with_lfn, for fat32_delete and fat32_rmdir
Unlink ==
    /\ Is("unlink")
    /\ LET x == Where(op.call)
           gone == {x[2]} \cup {j \in 1..Slots : j = x[2] - 1 /\ At(<<x[1], j>>).kind = "lfn"}
       IN  sec' = [sec EXCEPT ![x[1]].slots = [i \in 1..Slots |-> IF i \in gone THEN Slot("0xE5") ELSE @[i]]]
    /\ op' = LET o == [op EXCEPT !.applied = TRUE] IN
             IF Valid(op.old) THEN FreeChain(o, op.old, "ok") ELSE Ret(o, "ok")
    /\ UNCHANGED <<num_fats, fat, fsinfo, memory, faults>>

Return ==
    /\ Is("ret")
    /\ op' = NoCall
    /\ answer' = op.after
    /\ UNCHANGED <<disk, fatbuf, free_count, faults>>

-----------------------------------------------------------------------------
(***************************************************************************)
(* Faults. A failing access is taken to have changed nothing. A stick can  *)
(* write the sector and fail afterwards (usbmsc.c:96, no CSW): then what   *)
(* fat32.c:1196 gives back is named by the entry on the medium.            *)
(***************************************************************************)
\* dir_put_entry returns -1 from within: its callers give the new chain back.
WriteFails ==
    /\ Fault
    /\ ~Idle /\ op.pc \in {"set", "data", "dots", "entry", "zero", "unlink"}
    /\ op.pc = "entry" => ~NewName \/ Gap # 0 \/ Place # 0
    /\ op' = IF op.pc = "set" /\ op.then = "free" THEN Freed(op, FALSE)
             ELSE IF op.pc = "set" /\ op.then = "zero" THEN FreeChain(op, op.c, "undo")
             ELSE IF op.pc = "unlink" THEN Ret(op, "err")
             ELSE Undo(op)
    /\ UNCHANGED <<disk, fatbuf, free_count, answer>>

\* fat_next cannot read the FAT: it sets io_err, which stays set for the call.
ReadFails ==
    /\ Fault
    /\ fatbuf = NoCache
    /\ op.pc \in {"find", "free", "entry"}
    /\ op.pc = "entry" => NewName /\ Place \notin 1..Slots
    /\ LET o == [op EXCEPT !.io = TRUE] IN
       op' = IF op.pc = "free" THEN Freed(o, FALSE) ELSE Undo(o)
    /\ UNCHANGED <<disk, fatbuf, free_count, answer>>

\* fat32_mount counts in the FAT only where FSInfo has no plausible number.
FreeClusters == {c \in Clusters : fat[1][c] = Free}
MountedCount == IF fsinfo <= Cardinality(Clusters) THEN fsinfo ELSE Cardinality(FreeClusters)

\* The power goes; fat32_mount starts from the medium.
PowerLoss ==
    /\ Fault
    /\ ~Idle
    /\ op' = NoCall
    /\ fatbuf' = NoCache
    /\ free_count' = MountedCount
    /\ answer' = "none"
    /\ UNCHANGED disk

-----------------------------------------------------------------------------
Step ==
    \/ FindCluster \/ fat_set_next \/ Taken \/ fat_free_chain
    \/ WriteBlock \/ WriteDots \/ MarkGap \/ PutEntry \/ Grow \/ ZeroCluster
    \/ UpdateEntry \/ Unlink \/ Return

Next ==
    \/ \E p \in Paths : fat32_delete(p) \/ \E v \in Data : fat32_write_file(p, v)
    \/ \E n \in Dirs : fat32_mkdir(n) \/ fat32_rmdir(n)
    \/ Step
    \/ ~Idle /\ (WriteFails \/ ReadFails \/ PowerLoss)

Spec == Init /\ [][Next]_vars

-----------------------------------------------------------------------------
(***************************************************************************)
(* Properties                                                              *)
(***************************************************************************)
\* The chains of everything that can be reached, by their first cluster
Starts == DirStarts(fat[1])
FileEntries ==
    {x \in UNION {Seen(fat[1], d) : d \in Starts} : At(x).kind = "entry" /\ ~At(x).dir}
Reach(c) == ToSet(Chain(fat[1], c))
Reachable == UNION ({Reach(d) : d \in Starts} \cup {Reach(At(x).clus) : x \in FileEntries})

TypeOK ==
    /\ num_fats \in {1, 2}
    /\ fat \in [1..num_fats -> [Clusters -> Clusters \cup {Free, Eoc}]]
    /\ fatbuf = NoCache \/ fatbuf \in [Clusters -> Clusters \cup {Free, Eoc}]
    /\ free_count \in 0..(2 * Cardinality(Clusters))
    /\ fsinfo \in 0..(2 * Cardinality(Clusters))
    /\ answer \in {"none", "ok", "err"}
    /\ faults \in 0..MaxFaults

\* Nothing that can be reached hangs in a free cluster, in a cluster of another
\* kind, or in one that belongs to something else as well.
Sound ==
    LET dirs == Starts
        files == FileEntries
        own == [c \in dirs \cup {At(x).clus : x \in files} |-> Reach(c)]
        Of(x) == own[At(x).clus]
    IN  /\ \A d \in dirs : \A c \in own[d] : fat[1][c] # Free /\ IsDir(c)
        /\ \A x \in files : Cardinality(Of(x)) = At(x).size /\ \A c \in Of(x) : fat[1][c] # Free
        /\ \A d, e \in dirs : d # e => own[d] \cap own[e] = {}
        /\ \A x, y \in files : x # y => Of(x) \cap Of(y) = {}
        /\ \A d \in dirs, x \in files : own[d] \cap Of(x) = {}

\* Whatever fails and wherever the power goes, fat32.c leaves orphans at most:
\* what can be reached is sound after every single sector write, except while a
\* directory has been given a cluster that is not zeroed yet.
AtMostOrphans == ~HalfGrown => Sound

\* The same of the volume between two calls, the growth of a directory included
\* (fat32.c:1317 "hoechstens ein verwaister Cluster").
OrphansOnly == Idle => Sound

\* The FAT sector a failed write leaves in the cache is out of date, but no file
\* is ever read wrongly through it (fat32.c:757 is not reached on an error).
CacheHarmless ==
    ~Is("set") /\ Cached # fat[1] => \A p \in Paths : ReadFile(Cached, p) = ReadFile(fat[1], p)

\* Without faults nothing leaks: between two calls the used clusters are those that
\* can be reached, the copies of the FAT agree, and the maintained count is exact.
NothingLost ==
    faults = 0 /\ Idle =>
        /\ {c \in Clusters : fat[1][c] # Free} = Reachable
        /\ \A k \in 1..num_fats : fat[k] = fat[1]
        /\ free_count = Cardinality({c \in Clusters : fat[1][c] = Free})

\* The sector writes implement the store the callers rely on: a call changes its
\* own path only, from the old contents to the new at one point, and an ok answer
\* comes after that point. A directory is removed only when it is empty.
Store == INSTANCE FileStore WITH
    files <- [p \in Paths |-> ReadFile(fat[1], p)],
    dirs <- {n \in Dirs : Lookup(fat[1], Root, n) # Absent},
    call <- IF Idle THEN NoCall ELSE op.call,
    applied <- ~Idle /\ op.applied
ImplementsStore == Store!Spec
==============================================================================
