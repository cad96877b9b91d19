---------------------------- MODULE VolumeProofs ----------------------------
(***************************************************************************)
(* What the invariant of StorageProofs gives the callers of the FAT32      *)
(* driver, for every number of clusters, slots, names, contents and        *)
(* faults.                                                                 *)
(*                                                                         *)
(* The volume is exact. While no access fails, the clusters in use are     *)
(* those the root, the entries and the running call have, every copy of    *)
(* the FAT says the same, and free_count differs from the number of free   *)
(* clusters by what the running call has taken or given back and not       *)
(* counted yet.                                                            *)
(*                                                                         *)
(* The volume is a store. Files and directories are read from the FAT and  *)
(* the sectors by following chains; a step shows FileStore a begin, the    *)
(* one point where the call takes effect, a return, or nothing.            *)
(*                                                                         *)
(* Last, the stick below the volume: a sector call that returns 0 has      *)
(* moved its data, if at most one answer is late or an error.              *)
(***************************************************************************)
EXTENDS StorageProofs, SequenceTheorems

-----------------------------------------------------------------------------
(***************************************************************************)
(* Without faults the volume is exact: the counts                          *)
(***************************************************************************)
\* The first copy of the FAT is written, the second is not.
Between(o) == o # NoCall /\ o.pc = "set" /\ o.copy = 2
\* What the running call has taken or given back and has not counted yet
Uncounted(o) == IF o # NoCall /\ (o.pc = "flush" \/ (Between(o) /\ o.then = "flush")) THEN 1 ELSE 0
GivenBack(o) == IF o # NoCall /\ Freeing(o) THEN (IF Between(o) THEN o.freed + 1 ELSE o.freed) ELSE 0
FreeIn(f) == {c \in Clusters : f[c] = Free}

\* Without faults: every used cluster is in a chain, the copies agree, the count is
\* exact, the cached sector is the one on the medium.
AllOwned == \A c \in Clusters : fat[1][c] # Free => c \in Owned(fat[1], sec, op) \cup Taking(op)
CopiesSame == \A k \in 1 .. num_fats : \A c \in Clusters : fat[k][c] = fat[1][c] \/ (Between(op) /\ c = op.at)
CountsExact == free_count + GivenBack(op) = Cardinality(FreeIn(fat[1])) + Uncounted(op)
CacheSame == fatbuf = NoCache \/ fatbuf = fat[1] \/ Between(op)
CallSound(f, o) ==
    o # NoCall =>
        /\ ~o.io
        /\ o.pc = "set" /\ o.copy = 2 => f[o.at] = o.val
        /\ o.pc = "set" /\ o.then = "flush" /\ o.copy = 1 => f[o.at] = Free
Exact == AllOwned /\ CopiesSame /\ CountsExact /\ CacheSame /\ CallSound(fat[1], op)

LEMMA FreeInIs == ASSUME NEW f PROVE IsFiniteSet(FreeIn(f)) /\ Cardinality(FreeIn(f)) \in Nat
<1>1. IsFiniteSet(FreeIn(f))
  BY FatAssumption, FS_Subset DEF FreeIn
<1> QED BY <1>1, FS_CardinalityType

SetIn(f, a, v) == [f EXCEPT ![a] = v]

LEMMA FreeCounts ==
    ASSUME NEW f \in Fats, NEW a \in Clusters, NEW v \in Clusters \cup {Free, Eoc}
    PROVE  /\ f[a] = Free /\ v # Free => Cardinality(FreeIn(SetIn(f, a, v))) = Cardinality(FreeIn(f)) - 1
           /\ f[a] # Free /\ v # Free => Cardinality(FreeIn(SetIn(f, a, v))) = Cardinality(FreeIn(f))
           /\ f[a] # Free /\ v = Free => Cardinality(FreeIn(SetIn(f, a, v))) = Cardinality(FreeIn(f)) + 1
<1> DEFINE g == SetIn(f, a, v)
<1>1. g[a] = v /\ \A c \in Clusters : c # a => g[c] = f[c]
  BY DEF Fats, SetIn
<1> HIDE DEF g
<1>2. IsFiniteSet(FreeIn(f))
  BY FreeInIs
<1>3. CASE f[a] = Free /\ v # Free
  <2>1. FreeIn(g) = FreeIn(f) \ {a} /\ a \in FreeIn(f)
    BY <1>1, <1>3 DEF FreeIn
  <2> QED BY <1>2, <1>3, <2>1, FS_RemoveElement DEF g
<1>4. CASE f[a] # Free /\ v # Free
  <2>1. FreeIn(g) = FreeIn(f)
    BY <1>1, <1>4 DEF FreeIn
  <2> QED BY <1>4, <2>1 DEF g
<1>5. CASE f[a] # Free /\ v = Free
  <2>1. FreeIn(g) = FreeIn(f) \cup {a} /\ a \notin FreeIn(f)
    BY <1>1, <1>5 DEF FreeIn
  <2> QED BY <1>2, <1>5, <2>1, FS_AddElement DEF g
<1> QED BY <1>3, <1>4, <1>5 DEF g

\* A step that leaves the FAT alone
LEMMA StaysExact ==
    ASSUME Exact, UNCHANGED <<num_fats, fat>>, ~Between(op), ~Between(op'), fatbuf' \in {NoCache, fatbuf, Cached}, Kept,
           CallSound(fat[1], op'), free_count' + GivenBack(op') = Cardinality(FreeIn(fat[1])) + Uncounted(op')
    PROVE  Exact'
<1>1. Taking(op) = {}
  BY DEF Taking, Between
<1>2. AllOwned'
  <2>1. \A c \in Clusters : fat[1][c] # Free => c \in Owned(fat[1], sec', op')
    BY <1>1 DEF Exact, AllOwned, Kept, Owned
  <2> QED BY <2>1 DEF AllOwned
<1>3. CopiesSame'
  BY DEF Exact, CopiesSame
<1>4. CacheSame'
  BY DEF Exact, CacheSame, Cached
<1>5. CountsExact'
  BY DEF CountsExact
<1>6. CallSound(fat[1], op)'
  BY DEF CallSound
<1> QED BY <1>2, <1>3, <1>4, <1>5, <1>6 DEF Exact

\* What a call at fat_set_next has not counted yet, and after its next copy
LEMMA SetTallies ==
    ASSUME NEW o \in Ops, o.pc = "set", o.then # "", o.copy \in {1, 2}
    PROVE  /\ GivenBack(o) = (IF o.then = "free" THEN (IF o.copy = 2 THEN o.freed + 1 ELSE o.freed) ELSE 0)
           /\ Uncounted(o) = (IF o.then = "flush" /\ o.copy = 2 THEN 1 ELSE 0)
           /\ Between(o) <=> o.copy = 2
<1>1. o # NoCall
  BY OpFields
<1> QED BY <1>1 DEF GivenBack, Uncounted, Between, Freeing

WentOn(o, r) ==
    /\ r # NoCall /\ r.io = o.io /\ r.pc = o.then /\ ~Between(r)
    /\ GivenBack(r) = (IF o.then = "free" THEN o.freed + 1 ELSE 0)
    /\ Uncounted(r) = (IF o.then = "flush" THEN 1 ELSE 0)
LEMMA WentOnIs ==
    ASSUME NEW o \in Ops, o.pc = "set", o.then # "", NEW r,
           r = IF o.then = "free" THEN [o EXCEPT !.pc = "free", !.todo = o.c, !.freed = @ + 1] ELSE [o EXCEPT !.pc = o.then]
    PROVE  WentOn(o, r)
<1>1. Done(o, r)
  BY SetDone
<1>2. r \in Ops /\ r.pc = o.then
  BY <1>1 DEF Done, Same
<1>3. r # NoCall /\ o.then \in {"flush", "data", "zero", "free"}
  BY <1>2, OpFields
<1>4. r.io = o.io /\ (o.then = "free" => r.freed = o.freed + 1)
  BY DEF Ops
<1>5. ~Between(r) /\ (Freeing(r) <=> o.then = "free")
  BY <1>2, <1>3 DEF Between, Freeing
<1> HIDE DEF WentOn
<1>6. /\ GivenBack(r) = (IF o.then = "free" THEN o.freed + 1 ELSE 0)
      /\ Uncounted(r) = (IF o.then = "flush" THEN 1 ELSE 0)
  BY <1>2, <1>3, <1>4, <1>5 DEF GivenBack, Uncounted
<1> QED BY <1>2, <1>3, <1>4, <1>5, <1>6 DEF WentOn

LEMMA SecondKeeps ==
    ASSUME NEW o \in Ops, o.pc = "set", o.then # ""
    PROVE  /\ Second(o).io = o.io /\ Second(o) # NoCall /\ Between(Second(o))
           /\ Second(o).pc = "set" /\ Second(o).copy = 2 /\ Second(o).at = o.at /\ Second(o).val = o.val
           /\ GivenBack(Second(o)) = (IF o.then = "free" THEN o.freed + 1 ELSE 0)
           /\ Uncounted(Second(o)) = (IF o.then = "flush" THEN 1 ELSE 0)
<1> DEFINE q == Second(o)
<1>1. q \in Ops /\ q.pc = "set" /\ q.copy = 2 /\ q.then = o.then /\ q.at = o.at /\ q.val = o.val
  BY SecondIs
<1>2. q.io = o.io /\ q.freed = o.freed
  BY DEF Second, Ops
<1> HIDE DEF q
<1>3. q # NoCall
  BY <1>1, OpFields
<1>4. q.io = o.io /\ q # NoCall /\ Between(q) /\ GivenBack(q) = (IF o.then = "free" THEN o.freed + 1 ELSE 0)
      /\ Uncounted(q) = (IF o.then = "flush" THEN 1 ELSE 0)
  BY <1>1, <1>2, <1>3, SetTallies DEF Between
<1> QED BY <1>1, <1>4 DEF q

\* A step that writes the first copy
LEMMA FirstExact ==
    ASSUME FatInv, Exact, op # NoCall, op.pc = "set", op.copy = 1, Turned, free_count' = free_count,
           GivenBack(op') = (IF op.then = "free" THEN op.freed + 1 ELSE 0), Uncounted(op') = (IF op.then = "flush" THEN 1 ELSE 0),
           sec' = sec
    PROVE  AllOwned' /\ CountsExact' /\ op.at \in Clusters /\ fat'[1][op.at] = op.val
           /\ \A c \in Clusters : c # op.at => fat'[1][c] = fat[1][c]
<1> DEFINE f == fat[1]
           g == fat'[1]
           a == op.at
<1>1. /\ op \in Ops /\ OpInv(f, sec, op) /\ f \in Fats /\ Vol(f, sec, Held(op), Raw(op)) /\ free_count \in Nat
  BY RunIs DEF FatTypes
<1>2. op.then \in {"flush", "data", "zero", "free"} /\ op.freed \in Nat
  BY <1>1, OpFields DEF OpInv
<1>3. /\ a \in Clusters /\ g = [f EXCEPT ![a] = op.val]
      /\ \A x \in Owned(f, sec, op) : x \in Owned(g, sec, op') \/ (op.then = "free" /\ x = a)
      /\ op.then = "flush" => a = op.c /\ op.val = Eoc /\ op.c \in Owned(g, sec, op') \cup Taking(op')
      /\ op.then \in {"data", "zero"} => a \in Owned(f, sec, op) /\ op.val \in Clusters
      /\ op.then = "free" => a \in Owned(f, sec, op) /\ op.val = Free
  BY DEF Turned
<1>4. g[a] = op.val /\ \A c \in Clusters : c # a => g[c] = f[c]
  BY <1>1, <1>3 DEF Fats
<1>5. Taking(op) = {}
  BY DEF Taking
<1>6. AllOwned /\ CountsExact /\ CallSound(f, op)
  BY DEF Exact
<1>7. \A x \in Owned(f, sec, op) : f[x] # Free
  BY <1>1, LiveTops, TopFacts DEF Owned
<1> HIDE DEF f, g
<1>8. \A c \in Clusters : g[c] # Free => c \in Owned(g, sec, op') \cup Taking(op')
  <2> SUFFICES ASSUME NEW c \in Clusters, g[c] # Free PROVE c \in Owned(g, sec, op') \cup Taking(op')
    OBVIOUS
  <2>1. CASE c = a
    BY <1>2, <1>3, <1>4, <2>1
  <2>2. CASE c # a
    <3>1. c \in Owned(f, sec, op)
      BY <1>4, <1>5, <1>6, <2>2 DEF AllOwned, f
    <3> QED BY <1>3, <2>2, <3>1
  <2> QED BY <2>1, <2>2
<1>9. AllOwned'
  BY <1>8 DEF AllOwned, g
<1>10. free_count + (IF op.then = "free" THEN op.freed + 1 ELSE 0) = Cardinality(FreeIn(g)) + (IF op.then = "flush" THEN 1 ELSE 0)
  <2>1. free_count + (IF op.then = "free" THEN op.freed ELSE 0) = Cardinality(FreeIn(f))
    <3>0. op.copy \in {1, 2} /\ op.then # ""
      BY <1>2
    <3>1. GivenBack(op) = (IF op.then = "free" THEN op.freed ELSE 0) /\ Uncounted(op) = 0
      <4>1. /\ GivenBack(op) = (IF op.then = "free" THEN (IF op.copy = 2 THEN op.freed + 1 ELSE op.freed) ELSE 0)
            /\ Uncounted(op) = (IF op.then = "flush" /\ op.copy = 2 THEN 1 ELSE 0)
        BY <1>1, <3>0, SetTallies
      <4>2. op.copy # 2
        OBVIOUS
      <4> QED BY <4>1, <4>2
    <3>2. Cardinality(FreeIn(f)) \in Nat
      BY FreeInIs
    <3> QED BY <1>6, <3>1, <3>2 DEF CountsExact, f
  <2>a. f \in Fats /\ a \in Clusters /\ g = SetIn(f, a, op.val)
    BY <1>1, <1>3 DEF SetIn
  <2>2. Cardinality(FreeIn(f)) \in Nat /\ Cardinality(FreeIn(g)) \in Nat
    BY FreeInIs
  <2>3. CASE op.then = "flush"
    <3>1. f[a] = Free
      BY <1>3, <1>6, <2>3 DEF CallSound
    <3>2. op.val = Eoc /\ Eoc # Free
      BY <1>3, <2>3, FatAssumption
    <3>3. op.val \in Clusters \cup {Free, Eoc}
      BY <3>2
    <3>4. Cardinality(FreeIn(g)) = Cardinality(FreeIn(f)) - 1
      BY <2>a, <3>1, <3>2, <3>3, FreeCounts
    <3> QED BY <2>1, <2>2, <2>3, <3>4
  <2>4. CASE op.then \in {"data", "zero"}
    <3>1. f[a] # Free /\ op.val \in Clusters /\ op.val # Free
      BY <1>3, <1>7, <2>4, FatAssumption
    <3>2. op.val \in Clusters \cup {Free, Eoc}
      BY <3>1
    <3>3. Cardinality(FreeIn(g)) = Cardinality(FreeIn(f))
      BY <2>a, <3>1, <3>2, FreeCounts
    <3>4. op.then # "free" /\ op.then # "flush"
      BY <2>4
    <3> QED BY <2>1, <2>2, <3>3, <3>4
  <2>5. CASE op.then = "free"
    <3>1. f[a] # Free /\ op.val = Free
      BY <1>3, <1>7, <2>5
    <3>2. op.val \in Clusters \cup {Free, Eoc}
      BY <3>1
    <3>3. Cardinality(FreeIn(g)) = Cardinality(FreeIn(f)) + 1
      BY <2>a, <3>1, <3>2, FreeCounts
    <3> QED BY <1>1, <1>2, <2>1, <2>2, <2>5, <3>3
  <2> QED BY <1>2, <2>3, <2>4, <2>5
<1>11. CountsExact'
  BY <1>10 DEF CountsExact, g
<1> QED BY <1>3, <1>4, <1>9, <1>11 DEF f, g

LEMMA SetExact == ASSUME FatInv, FatInv', Exact, fat_set_next, Turned PROVE Exact'
<1> DEFINE f == fat[1]
           r == IF op.then = "free" THEN [op EXCEPT !.pc = "free", !.todo = op.c, !.freed = @ + 1] ELSE [op EXCEPT !.pc = op.then]
<1>1. /\ op # NoCall /\ op.pc = "set" /\ fat' = [fat EXCEPT ![op.copy][op.at] = op.val]
      /\ UNCHANGED <<num_fats, sec, free_count>>
      /\ IF op.copy < num_fats THEN op' = [op EXCEPT !.copy = @ + 1] /\ fatbuf' = fatbuf ELSE op' = r /\ fatbuf' = NoCache
  BY DEF fat_set_next, Is, Idle
<1>2. op \in Ops /\ OpInv(f, sec, op) /\ FatTypes /\ f \in Fats
  BY <1>1, RunIs
<1>3. /\ num_fats \in {1, 2} /\ fat \in [1 .. num_fats -> Fats] /\ op.copy \in 1 .. num_fats /\ op.then # ""
  BY <1>1, <1>2 DEF FatTypes, OpInv
<1>3a. /\ op.copy = 1 \/ (op.copy = 2 /\ num_fats = 2)
       /\ op.copy < num_fats <=> op.copy = 1 /\ num_fats = 2
  <2>1. \A n \in {1, 2} : \A k \in 1 .. n : (k = 1 \/ (k = 2 /\ n = 2)) /\ (k < n <=> k = 1 /\ n = 2)
    OBVIOUS
  <2> QED BY <1>3, <2>1
<1>4. WentOn(op, r)
  BY <1>1, <1>2, <1>3, WentOnIs
<1>5. /\ op.copy < num_fats => op' = [op EXCEPT !.copy = @ + 1] /\ fatbuf' = fatbuf
      /\ ~(op.copy < num_fats) => op' = r /\ fatbuf' = NoCache
  BY <1>1
<1> HIDE DEF r
<1>6. ~op.io /\ AllOwned /\ CopiesSame /\ CountsExact /\ CacheSame /\ CallSound(f, op)
  BY <1>1 DEF Exact, CallSound
<1>7. op.then \in {"flush", "data", "zero", "free"}
  BY <1>2, <1>3, OpFields
<1>8. CASE op.copy = 2
  <2>1. num_fats = 2 /\ op' = r /\ fatbuf' = NoCache
    BY <1>3a, <1>5, <1>8
  <2>2. /\ fat'[1] = fat[1] /\ Owned(fat[1], sec, op) \cup Taking(op) \subseteq Owned(fat[1], sec, op')
    BY <1>8 DEF Turned
  <2>3. AllOwned'
    <3>1. \A c \in Clusters : fat[1][c] # Free => c \in Owned(fat[1], sec, op')
      BY <1>6, <2>2 DEF AllOwned
    <3> QED BY <1>1, <2>2, <3>1 DEF AllOwned
  <2>4. CopiesSame'
    <3>1. f[op.at] = op.val
      BY <1>1, <1>6, <1>8 DEF CallSound
    <3>2. fat[2] \in Fats
      <4>1. fat \in [1 .. 2 -> Fats] /\ num_fats = 2
        BY <1>3, <2>1
      <4>2. 2 \in 1 .. 2
        OBVIOUS
      <4> QED BY <4>1, <4>2
    <3>3. \A c \in Clusters : fat'[2][c] = IF c = op.at THEN op.val ELSE fat[2][c]
      BY <1>1, <1>3, <1>8, <2>1, <3>2 DEF Fats
    <3>4. \A c \in Clusters : c # op.at => fat[2][c] = fat[1][c]
      BY <1>6, <2>1 DEF CopiesSame
    <3>5. \A c \in Clusters : fat'[2][c] = fat'[1][c]
      BY <2>2, <3>1, <3>3, <3>4
    <3>6. \A k \in 1 .. num_fats' : k = 1 \/ k = 2
      BY <1>1, <2>1
    <3> QED BY <3>5, <3>6 DEF CopiesSame
  <2>5. CountsExact'
    <3>1. GivenBack(op') = GivenBack(op) /\ Uncounted(op') = Uncounted(op)
      BY <1>1, <1>2, <1>3, <1>4, <1>8, <2>1, SetTallies DEF WentOn
    <3> QED BY <1>1, <1>6, <2>2, <3>1 DEF CountsExact
  <2>6. CacheSame'
    BY <2>1 DEF CacheSame
  <2>7. CallSound(fat[1], op)'
    BY <1>4, <1>6, <1>7, <2>1 DEF CallSound, WentOn
  <2> QED BY <2>3, <2>4, <2>5, <2>6, <2>7 DEF Exact
<1>9. CASE op.copy = 1 /\ num_fats = 1
  <2>1. op' = r /\ fatbuf' = NoCache
    BY <1>3a, <1>5, <1>9
  <2>2. AllOwned' /\ CountsExact'
    BY <1>1, <1>4, <1>9, <2>1, FirstExact DEF WentOn
  <2>3. CopiesSame'
    <3>1. \A k \in 1 .. num_fats' : k = 1
      BY <1>1, <1>9
    <3> QED BY <3>1 DEF CopiesSame
  <2>4. CacheSame'
    BY <2>1 DEF CacheSame
  <2>5. CallSound(fat[1], op)'
    BY <1>4, <1>6, <1>7, <2>1 DEF CallSound, WentOn
  <2> QED BY <2>2, <2>3, <2>4, <2>5 DEF Exact
<1>10. CASE op.copy = 1 /\ num_fats = 2
  <2>1. op' = Second(op) /\ fatbuf' = fatbuf
    <3>1. op' = [op EXCEPT !.copy = op.copy + 1] /\ fatbuf' = fatbuf
      BY <1>2, <1>3a, <1>5, <1>10 DEF Ops
    <3>2. op.copy + 1 = 2
      BY <1>10
    <3> QED BY <3>1, <3>2 DEF Second
  <2>2. /\ op'.io = op.io /\ op' # NoCall /\ Between(op') /\ op'.pc = "set" /\ op'.copy = 2 /\ op'.at = op.at /\ op'.val = op.val
        /\ GivenBack(op') = (IF op.then = "free" THEN op.freed + 1 ELSE 0)
        /\ Uncounted(op') = (IF op.then = "flush" THEN 1 ELSE 0)
    BY <1>1, <1>2, <1>3, <2>1, SecondKeeps
  <2>3. /\ AllOwned' /\ CountsExact' /\ op.at \in Clusters /\ fat'[1][op.at] = op.val
        /\ \A c \in Clusters : c # op.at => fat'[1][c] = fat[1][c]
    BY <1>1, <1>10, <2>2, FirstExact
  <2>4. CopiesSame'
    <3>1. fat'[2] = fat[2]
      <4>1. fat \in [1 .. 2 -> Fats] /\ num_fats = 2
        BY <1>3, <1>10
      <4>2. fat' = [fat EXCEPT ![1] = [fat[1] EXCEPT ![op.at] = op.val]]
        BY <1>1, <1>10
      <4>3. 2 \in 1 .. 2
        OBVIOUS
      <4> QED BY <4>1, <4>2, <4>3
    <3>2. ~Between(op)
      BY <1>10 DEF Between
    <3>3. \A c \in Clusters : fat[2][c] = fat[1][c]
      BY <1>6, <1>10, <3>2 DEF CopiesSame
    <3>4. \A c \in Clusters : fat'[2][c] = fat'[1][c] \/ c = op.at
      BY <2>3, <3>1, <3>3
    <3>5. \A k \in 1 .. num_fats' : k = 1 \/ k = 2
      BY <1>1, <1>10
    <3> QED BY <2>2, <3>4, <3>5 DEF CopiesSame
  <2>5. CacheSame'
    BY <2>2 DEF CacheSame
  <2>6. CallSound(fat[1], op)'
    BY <1>6, <2>2, <2>3 DEF CallSound
  <2> QED BY <2>3, <2>4, <2>5, <2>6 DEF Exact
<1> QED BY <1>3, <1>3a, <1>8, <1>9, <1>10

-----------------------------------------------------------------------------
(***************************************************************************)
(* Calls begin and return on an exact volume                               *)
(***************************************************************************)
\* A call with nothing taken or given back that is not counted, or none.
Quiet(o) == ~Between(o) /\ GivenBack(o) = 0 /\ Uncounted(o) = 0 /\ \A f : CallSound(f, o)

LEMMA QuietAt ==
    ASSUME NEW o, o = NoCall \/ (~o.io /\ (o.pc \in {"find", "data", "dots", "entry", "zero", "unlink", "ret"} \/ (o.pc = "free" /\ o.freed = 0)))
    PROVE  Quiet(o)
<1>1. CASE o = NoCall
  BY <1>1 DEF Quiet, Between, GivenBack, Uncounted, CallSound
<1>2. CASE o # NoCall
  BY <1>2 DEF Quiet, Between, GivenBack, Uncounted, CallSound, Freeing
<1> QED BY <1>1, <1>2

LEMMA RetQuiet == ASSUME NEW o \in Ops, ~o.io, NEW a PROVE Quiet(Ret(o, a))
<1> DEFINE q == Ret(o, a)
<1>1. ~q.io /\ q.pc = "ret"
  BY DEF Ret, Ops
<1> HIDE DEF q
<1>2. Quiet(q)
  BY <1>1, QuietAt
<1> QED BY <1>2 DEF q

LEMMA FreeQuiet == ASSUME NEW o \in Ops, ~o.io, NEW c, NEW a PROVE Quiet(FreeChain(o, c, a))
<1> DEFINE q == FreeChain(o, c, a)
<1>1. ~q.io /\ q.pc = "free" /\ q.freed = 0
  BY DEF FreeChain, Ops
<1> HIDE DEF q
<1>2. Quiet(q)
  BY <1>1, QuietAt
<1> QED BY <1>2 DEF q

LEMMA UndoQuiet == ASSUME NEW o \in Ops, ~o.io PROVE Quiet(Undo(o))
<1>1. CASE o.first \in Clusters
  BY <1>1, FreeQuiet DEF Undo, Valid
<1>2. CASE o.first \notin Clusters
  BY <1>2, RetQuiet DEF Undo, Valid
<1> QED BY <1>1, <1>2

LEMMA FreedQuiet == ASSUME NEW o \in Ops, ~o.io, NEW ok PROVE Quiet(Freed(o, ok))
<1>1. CASE o.after = "undo"
  BY <1>1, UndoQuiet DEF Freed
<1>2. CASE o.after # "undo"
  BY <1>2, RetQuiet DEF Freed
<1> QED BY <1>1, <1>2

LEMMA EndsQuiet ==
    ASSUME NEW o \in Ops, ~o.io,
           NEW q, q = LET p == [o EXCEPT !.applied = TRUE] IN
                      IF Valid(o.old) THEN FreeChain(p, o.old, "ok") ELSE Ret(p, "ok")
    PROVE  Quiet(q)
<1> DEFINE p == [o EXCEPT !.applied = TRUE]
<1>1. p \in Ops /\ ~p.io
  <2>1. ~p.io
    BY DEF Ops
  <2> QED BY <2>1, DoneIs DEF AppliedIs
<1>2. q = IF o.old \in Clusters THEN FreeChain(p, o.old, "ok") ELSE Ret(p, "ok")
  BY DEF Valid
<1> HIDE DEF p
<1> QED BY <1>1, <1>2, FreeQuiet, RetQuiet

LEMMA QuietExact ==
    ASSUME Exact, UNCHANGED <<num_fats, fat, free_count>>, Quiet(op), Quiet(op'), fatbuf' \in {NoCache, fatbuf, Cached}, Kept
    PROVE  Exact'
<1>1. ~Between(op) /\ ~Between(op') /\ CallSound(fat[1], op')
  BY DEF Quiet
<1>2. free_count + 0 = Cardinality(FreeIn(fat[1])) + 0
  BY DEF Exact, CountsExact, Quiet
<1>3. free_count' + GivenBack(op') = Cardinality(FreeIn(fat[1])) + Uncounted(op')
  BY <1>2 DEF Quiet
<1> QED BY <1>1, <1>3, StaysExact

\* A running call of an exact volume
LEMMA NoIo == ASSUME FatInv, Exact, op # NoCall PROVE op \in Ops /\ ~op.io
BY RunIs DEF Exact, CallSound

LEMMA BeginExact == ASSUME FatInv, Exact, NEW call, NEW pc \in {"find", "entry", "unlink"}, NEW old, Begin(call, pc, old) PROVE Exact'
<1>1. op = NoCall /\ op' = CallOp(call, pc, old) /\ UNCHANGED <<num_fats, fat, sec, fatbuf, free_count>>
  BY DEF Begin, CallOp, Idle, disk
<1>2. ~op'.io /\ op'.pc = pc
  BY <1>1 DEF CallOp
<1>3. Quiet(op) /\ Quiet(op')
  BY <1>1, <1>2, QuietAt
<1>4. Kept
  BY <1>1 DEF Kept, Held
<1> QED BY <1>1, <1>3, <1>4, QuietExact

LEMMA BeginsExact ==
    ASSUME FatInv, Exact, \/ \E p \in Paths : fat32_delete(p) \/ \E v \in Data : fat32_write_file(p, v)
                          \/ \E n \in Dirs : fat32_mkdir(n) \/ fat32_rmdir(n)
    PROVE  Exact'
<1>1. ASSUME NEW p \in Paths, fat32_delete(p) PROVE Exact'
  <2>1. PICK call, old : Begin(call, "unlink", old)
    BY <1>1 DEF fat32_delete
  <2> QED BY <2>1, BeginExact
<1>2. ASSUME NEW p \in Paths, NEW v \in Data, fat32_write_file(p, v) PROVE Exact'
  <2> DEFINE pc == IF Blocks[v] > 0 THEN "find" ELSE "entry"
  <2>1. PICK call, old : Begin(call, pc, old)
    BY <1>2 DEF fat32_write_file
  <2>2. pc \in {"find", "entry", "unlink"}
    OBVIOUS
  <2> HIDE DEF pc
  <2> QED BY <2>1, <2>2, BeginExact
<1>3. ASSUME NEW n \in Dirs, fat32_mkdir(n) PROVE Exact'
  <2>1. PICK call, old : Begin(call, "find", old)
    BY <1>3 DEF fat32_mkdir
  <2> QED BY <2>1, BeginExact
<1>4. ASSUME NEW n \in Dirs, fat32_rmdir(n) PROVE Exact'
  <2>1. PICK call, old : Begin(call, "unlink", old)
    BY <1>4 DEF fat32_rmdir
  <2> QED BY <2>1, BeginExact
<1> QED BY <1>1, <1>2, <1>3, <1>4

LEMMA ReturnExact == ASSUME FatInv, Exact, Return PROVE Exact'
<1>1. op # NoCall /\ op.pc = "ret" /\ op' = NoCall /\ UNCHANGED <<num_fats, fat, sec, fatbuf, free_count>>
  BY DEF Return, Is, Idle, disk
<1>2. Quiet(op) /\ Quiet(op')
  BY <1>1, NoIo, QuietAt
<1>3. Held(op) = {}
  BY <1>1 DEF Held, HeldFirst, HeldC, HeldTodo, Freeing, Linking
<1>4. Kept
  BY <1>1, <1>3 DEF Kept
<1> QED BY <1>1, <1>2, <1>4, QuietExact

\* The sectors a call writes
LEMMA WritesExact ==
    ASSUME FatInv, Exact, WriteBlock \/ WriteDots \/ ZeroCluster \/ MarkGap \/ Grow PROVE Exact'
<1>0. op # NoCall
  BY DEF WriteBlock, WriteDots, ZeroCluster, MarkGap, Grow, AtEntry, Is, Idle
<1>1. op \in Ops /\ ~op.io
  BY <1>0, NoIo
<1>2. Kept
  BY BlockKeeps, DotsKeep, ZeroKeeps, MarkKeeps, GrowKeeps DEF Calm
<1>3. UNCHANGED <<num_fats, fat, fatbuf, free_count>>
  BY DEF WriteBlock, WriteDots, ZeroCluster, MarkGap, Grow, AtEntry, disk, memory
<1>4. op.pc \in {"data", "dots", "zero", "entry"}
  BY DEF WriteBlock, WriteDots, ZeroCluster, MarkGap, Grow, AtEntry, Is
<1>5. Quiet(op)
  BY <1>1, <1>4, QuietAt
<1>6. Quiet(op')
  <2>1. CASE WriteBlock
    <3> DEFINE p == [op EXCEPT !.k = @ + 1, !.prev = op.c]
    <3>1. p.io = op.io
      BY <1>1 DEF Ops
    <3>2. op' = NextBlock(p)
      BY <2>1 DEF WriteBlock
    <3>3. op' = [p EXCEPT !.pc = IF p.k < Blocked(p) THEN "find" ELSE "entry", !.use = "file"] /\ p = [op EXCEPT !.k = op.k + 1, !.prev = op.c]
      BY <3>2 DEF NextBlock
    <3>4. op'.io = p.io /\ op'.pc \in {"find", "entry"}
      BY <1>1, <3>3 DEF Ops
    <3> QED BY <1>1, <3>1, <3>4, QuietAt
  <2>2. CASE WriteDots \/ ZeroCluster
    <3>1. op' = [op EXCEPT !.pc = "entry"]
      BY <2>2 DEF WriteDots, ZeroCluster
    <3>2. op'.io = op.io /\ op'.pc = "entry"
      BY <1>1, <3>1 DEF Ops
    <3> QED BY <1>1, <3>2, QuietAt
  <2>3. CASE MarkGap
    BY <1>5, <2>3 DEF MarkGap
  <2>4. CASE Grow
    <3>1. op' = [op EXCEPT !.pc = "find", !.use = "grow", !.prev = Last(Chain(Cached, ParentOf(op.call)))]
      BY <2>4 DEF Grow
    <3>2. op'.io = op.io /\ op'.pc = "find"
      BY <1>1, <3>1 DEF Ops
    <3> QED BY <1>1, <3>2, QuietAt
  <2> QED BY <2>1, <2>2, <2>3, <2>4
<1> QED BY <1>2, <1>3, <1>5, <1>6, QuietExact

LEMMA EntriesExact ==
    ASSUME FatInv, Exact, PutEntry \/ UpdateEntry \/ Unlink PROVE Exact'
<1>0. op # NoCall
  BY DEF PutEntry, UpdateEntry, Unlink, AtEntry, Is, Idle
<1>1. op \in Ops /\ ~op.io
  BY <1>0, NoIo
<1>2. Kept
  BY PutKeeps, UpdateKeeps, UnlinkKeeps
<1>3. UNCHANGED <<num_fats, fat, fatbuf, free_count>>
  BY DEF PutEntry, UpdateEntry, Unlink, AtEntry, memory
<1>4. op.pc \in {"entry", "unlink"}
  BY DEF PutEntry, UpdateEntry, Unlink, AtEntry, Is
<1>5. Quiet(op)
  BY <1>1, <1>4, QuietAt
<1>6. Quiet(op')
  <2>1. CASE PutEntry
    <3> DEFINE p == [op EXCEPT !.applied = TRUE]
    <3>1. p \in Ops /\ ~p.io
      <4>1. ~p.io
        BY <1>1 DEF Ops
      <4> QED BY <1>1, <4>1, DoneIs DEF AppliedIs
    <3>2. op' = Ret(p, "ok")
      BY <2>1 DEF PutEntry
    <3> HIDE DEF p
    <3> QED BY <3>1, <3>2, RetQuiet
  <2>2. CASE UpdateEntry
    BY <1>1, <2>2, EndsQuiet DEF UpdateEntry
  <2>3. CASE Unlink
    BY <1>1, <2>3, EndsQuiet DEF Unlink
  <2> QED BY <2>1, <2>2, <2>3
<1> QED BY <1>2, <1>3, <1>5, <1>6, QuietExact

-----------------------------------------------------------------------------
(***************************************************************************)
(* fat_set_next, the search and the frees on an exact volume               *)
(***************************************************************************)
LEMMA SetNextIo ==
    ASSUME NEW o \in Ops, NEW c \in Numbers, NEW v \in Numbers, NEW then \in {"flush", "data", "zero", "free"},
           NEW q, q = SetNext(o, c, v, then), ~o.io
    PROVE  IsSet(q, o, c, v, then) /\ ~q.io /\ ~Between(q)
<1>1. IsSet(q, o, c, v, then)
  BY SetNextMoves
<1>2. q.io = o.io
  BY DEF SetNext, Ops
<1> HIDE DEF IsSet
<1>3. q.copy = 1
  BY <1>1 DEF IsSet
<1> QED BY <1>1, <1>2, <1>3 DEF Between

LEMMA CacheIs == ASSUME Exact, ~Between(op) PROVE Cached = fat[1]
BY DEF Exact, CacheSame, Cached

\* Before a write the call holds its new chain.
LEMMA HeldFind == ASSUME FatInv, op # NoCall, op.pc = "find" PROVE Held(op) = {op.first} \cap Clusters /\ ~op.applied /\ ~Freeing(op)
<1>1. op \in Ops /\ OpInv(fat[1], sec, op)
  BY RunIs
<1>2. ~op.applied
  BY <1>1, AtWork DEF Base
<1>3. ~Freeing(op) /\ ~Linking(op)
  BY DEF Freeing, Linking
<1>4. HeldFirst(op) = {op.first} \cap Clusters /\ HeldC(op) = {} /\ HeldTodo(op) = {}
  BY <1>2, <1>3 DEF HeldFirst, HeldC, HeldTodo
<1> QED BY <1>2, <1>3, <1>4 DEF Held

LEMMA UndoHolds == ASSUME NEW o \in Ops, ~o.applied PROVE {o.first} \cap Clusters \subseteq Held(Undo(o))
<1>1. CASE o.first \in Clusters
  <2>1. Undo(o) = FreeChain(o, o.first, "err")
    BY <1>1 DEF Undo, Valid
  <2> QED BY <1>1, <2>1, FreeChainIs
<1> QED BY <1>1

LEMMA FindExact == ASSUME FatInv, Exact, FindCluster PROVE Exact'
<1>1. op # NoCall /\ op.pc = "find" /\ fatbuf' = Cached /\ UNCHANGED <<num_fats, fat, sec, free_count>>
  BY DEF FindCluster, Is, Idle, disk
<1>2. op \in Ops /\ ~op.io /\ Quiet(op) /\ ~Between(op)
  BY <1>1, NoIo, QuietAt DEF Quiet
<1>3. Held(op) = {op.first} \cap Clusters /\ ~op.applied
  BY <1>1, HeldFind
<1>4. CASE op' = Undo(op)
  <2>1. Quiet(op') /\ Kept
    BY <1>1, <1>2, <1>3, <1>4, UndoQuiet, UndoHolds DEF Kept
  <2> QED BY <1>1, <1>2, <2>1, QuietExact
<1>5. ASSUME NEW c \in Clusters, fat_next(c) = Free,
             op' = SetNext([op EXCEPT !.c = c, !.use = IF op.call.do = "mkdir" /\ op.first = Nil THEN "dir" ELSE @], c, Eoc, "flush")
      PROVE  Exact'
  <2> DEFINE u == IF op.call.do = "mkdir" /\ op.first = Nil THEN "dir" ELSE op.use
             p == [op EXCEPT !.c = c, !.use = u]
  <2>1. op' = SetNext(p, c, Eoc, "flush")
    BY <1>2, <1>5 DEF Ops
  <2>2. p \in Ops /\ ~p.io /\ p.applied = op.applied /\ p.first = op.first
    <3>1. u \in {"file", "dir", "grow"} /\ c \in Numbers
      BY <1>2, OpFields DEF Numbers
    <3> HIDE DEF u
    <3> QED BY <1>2, <3>1 DEF Ops
  <2> HIDE DEF p
  <2>3. IsSet(op', p, c, Eoc, "flush") /\ ~op'.io /\ ~Between(op')
    <3>1. c \in Numbers /\ Eoc \in Numbers /\ "flush" \in {"flush", "data", "zero", "free"}
      BY DEF Numbers
    <3> QED BY <2>1, <2>2, <3>1, SetNextIo
  <2>4. /\ op' \in Ops /\ op'.pc = "set" /\ op'.at = c /\ op'.val = Eoc /\ op'.copy = 1 /\ op'.then = "flush"
        /\ op'.first = op.first /\ op'.applied = op.applied
    BY <2>2, <2>3 DEF IsSet
  <2>5. Kept
    <3>1. ~Freeing(op') /\ ~op'.applied
      BY <1>3, <2>4 DEF Freeing
    <3>2. HeldFirst(op') = {op'.first} \cap Clusters
      BY <2>4, <3>1, SetHolds
    <3>3. HeldFirst(op') \subseteq Held(op')
      BY <2>4, OpFields DEF Held
    <3> QED BY <1>1, <1>3, <2>4, <3>2, <3>3 DEF Kept
  <2>6. fat[1][c] = Free
    BY <1>2, <1>5, CacheIs DEF fat_next
  <2>7. CallSound(fat[1], op')
    BY <2>3, <2>4, <2>6 DEF CallSound
  <2>8. free_count' + GivenBack(op') = Cardinality(FreeIn(fat[1])) + Uncounted(op')
    <3>1. op'.copy \in {1, 2} /\ op'.then # "" /\ op'.then # "free" /\ op'.copy # 2
      BY <2>4
    <3>2. GivenBack(op') = 0 /\ Uncounted(op') = 0
      BY <2>4, <3>1, SetTallies
    <3>3. free_count + 0 = Cardinality(FreeIn(fat[1])) + 0
      BY <1>2 DEF Exact, CountsExact, Quiet
    <3> QED BY <1>1, <3>2, <3>3
  <2> QED BY <1>1, <1>2, <2>3, <2>5, <2>7, <2>8, StaysExact
<1> QED BY <1>4, <1>5 DEF FindCluster

LEMMA FreeExact == ASSUME FatInv, Exact, fat_free_chain PROVE Exact'
<1>1. op # NoCall /\ op.pc = "free" /\ UNCHANGED <<num_fats, fat, sec, answer>>
  BY DEF fat_free_chain, Is, Idle
<1>2. op \in Ops /\ ~op.io /\ OpInv(fat[1], sec, op) /\ Vol(fat[1], sec, Held(op), Raw(op)) /\ FatTypes /\ fat[1] \in Fats
  BY <1>1, NoIo, RunIs
<1>3. Freeing(op) /\ Frees(fat[1], op) /\ TodoOf(op) = op.todo /\ ~Linking(op) /\ ~Between(op)
  BY <1>1, <1>2 DEF Freeing, OpInv, TodoOf, Linking, Between
<1>4. Cached = fat[1]
  BY <1>3, CacheIs
<1>5. HeldTodo(op) = {op.todo} \cap Clusters /\ HeldC(op) = {} /\ Held(op) = HeldFirst(op) \cup HeldTodo(op)
  BY <1>1, <1>3 DEF HeldTodo, HeldC, Held
<1>6. op.todo \in Clusters => fat_next(op.todo) # Free
  <2>1. op.todo \in Clusters => op.todo \in Held(op) /\ op.todo \in Owns(fat[1], op.todo)
    BY <1>2, <1>5, LiveTops, TopFacts
  <2> QED BY <1>2, <1>4, <2>1, LiveTops, TopFacts DEF fat_next
<1>7. GivenBack(op) = op.freed /\ Uncounted(op) = 0 /\ op.freed \in Nat /\ free_count \in Nat
  BY <1>1, <1>2, <1>3, OpFields DEF GivenBack, Uncounted, FatTypes
<1>8. free_count + op.freed = Cardinality(FreeIn(fat[1]))
  <2>1. Cardinality(FreeIn(fat[1])) \in Nat
    BY FreeInIs
  <2> QED BY <1>7, <2>1 DEF Exact, CountsExact
<1>9. CASE op.todo \in Clusters
  <2> DEFINE n == fat_next(op.todo)
             p == [op EXCEPT !.c = n]
  <2>1. /\ op' = SetNext(p, op.todo, Free, "free") /\ fatbuf' = Cached /\ free_count' = free_count
    BY <1>2, <1>6, <1>9 DEF fat_free_chain, Valid
  <2>2. n \in Numbers /\ op.todo \in Numbers /\ Free \in Numbers
    BY <1>2, <1>4, <1>9 DEF fat_next, Fats, Numbers
  <2> HIDE DEF n
  <2>3. p \in Ops /\ ~p.io /\ p.first = op.first /\ p.applied = op.applied /\ p.after = op.after /\ p.freed = op.freed /\ p.todo = op.todo
    BY <1>2, <2>2 DEF Ops
  <2> HIDE DEF p
  <2>4. IsSet(op', p, op.todo, Free, "free") /\ ~op'.io /\ ~Between(op')
    <3>1. "free" \in {"flush", "data", "zero", "free"}
      OBVIOUS
    <3> QED BY <2>1, <2>2, <2>3, <3>1, SetNextIo
  <2>5. /\ op' \in Ops /\ op'.pc = "set" /\ op'.copy = 1 /\ op'.then = "free" /\ op'.todo = op.todo
        /\ op'.first = op.first /\ op'.applied = op.applied /\ op'.after = op.after /\ op'.freed = op.freed
    BY <2>3, <2>4 DEF IsSet
  <2>6. Kept
    <3>1. Freeing(op') /\ TodoOf(op') = op.todo /\ op' # NoCall
      <4>1. op' # NoCall
        BY <2>5, OpFields
      <4>2. Freeing(op') /\ TodoOf(op') = op'.todo
        BY <2>5 DEF Freeing, TodoOf
      <4> QED BY <2>5, <4>1, <4>2
    <3>2. HeldFirst(op') = HeldFirst(op) /\ HeldTodo(op') = HeldTodo(op)
      BY <1>1, <1>3, <1>5, <2>5, <3>1 DEF HeldFirst, HeldTodo
    <3> QED BY <1>1, <1>5, <3>1, <3>2 DEF Kept, Held
  <2>7. CallSound(fat[1], op')
    BY <2>4, <2>5 DEF CallSound
  <2>8. free_count' + GivenBack(op') = Cardinality(FreeIn(fat[1])) + Uncounted(op')
    <3>1. op'.copy \in {1, 2} /\ op'.then # "" /\ op'.then # "flush" /\ op'.copy # 2
      BY <2>5
    <3>2. GivenBack(op') = op.freed /\ Uncounted(op') = 0
      BY <2>5, <3>1, SetTallies
    <3>3. Cardinality(FreeIn(fat[1])) \in Nat
      BY FreeInIs
    <3> QED BY <1>7, <1>8, <2>1, <3>2, <3>3
  <2> QED BY <1>1, <1>3, <2>1, <2>4, <2>6, <2>7, <2>8, StaysExact
<1>10. CASE op.todo \notin Clusters
  <2>1. op' = Freed(op, TRUE) /\ fatbuf' = fatbuf /\ free_count' = free_count + op.freed
    BY <1>10 DEF fat_free_chain, Valid
  <2>2. Quiet(op')
    BY <1>2, <2>1, FreedQuiet
  <2>3. Kept
    <3>1. Held(op) = HeldFirst(op)
      BY <1>5, <1>10
    <3>2. CASE op.after = "undo"
      <4>1. op' = Undo(op) /\ ~op.applied
        BY <1>3, <2>1, <3>2 DEF Freed, Frees
      <4>2. HeldFirst(op) \subseteq {op.first} \cap Clusters
        BY DEF HeldFirst
      <4> QED BY <1>1, <1>2, <3>1, <4>1, <4>2, UndoHolds DEF Kept
    <3>3. CASE op.after # "undo"
      <4>1. HeldFirst(op) = {}
        BY <1>3, <3>3 DEF HeldFirst
      <4> QED BY <1>1, <3>1, <4>1 DEF Kept
    <3> QED BY <3>2, <3>3
  <2>4. free_count' + GivenBack(op') = Cardinality(FreeIn(fat[1])) + Uncounted(op')
    <3>1. Cardinality(FreeIn(fat[1])) \in Nat
      BY FreeInIs
    <3> QED BY <1>8, <2>1, <2>2, <3>1 DEF Quiet
  <2>5. ~Between(op') /\ CallSound(fat[1], op')
    BY <2>2 DEF Quiet
  <2> QED BY <1>1, <1>3, <2>1, <2>3, <2>4, <2>5, StaysExact
<1> QED BY <1>9, <1>10

LEMMA TakenExact == ASSUME FatInv, Exact, Taken PROVE Exact'
<1>1. /\ op # NoCall /\ op.pc = "flush" /\ UNCHANGED <<num_fats, fat, sec, fatbuf, answer>>
      /\ free_count' = IF free_count > 0 THEN free_count - 1 ELSE 0
      /\ op' = IF op.use = "dir" THEN [op EXCEPT !.pc = "dots", !.first = op.c]
               ELSE IF op.use = "grow" THEN SetNext(op, op.prev, op.c, "zero")
               ELSE IF op.k = 0 THEN [op EXCEPT !.pc = "data", !.first = op.c]
               ELSE SetNext(op, op.prev, op.c, "data")
  BY DEF Taken, Is, Idle
<1>2. /\ op \in Ops /\ ~op.io /\ Vol(fat[1], sec, Held(op), Raw(op)) /\ OpInv(fat[1], sec, op) /\ FatTypes /\ Held(op) \subseteq Clusters
  BY <1>1, NoIo, RunIs
<1>3. PICK d \in Clusters : Works(fat[1], sec, op, d)
  BY <1>1, <1>2, AtWork
<1>4. Asks(fat[1], sec, op, d) /\ ~op.applied
  BY <1>1, <1>3 DEF Works, AtFlush
<1>5. Held(op) = ({op.first} \cap Clusters) \cup {op.c} /\ op.c \in Clusters /\ ~Between(op)
  <2>1. HeldC(op) = {op.c} /\ HeldTodo(op) = {} /\ ~Freeing(op) /\ ~Between(op)
    BY <1>1 DEF HeldC, HeldTodo, Freeing, Between
  <2>2. HeldFirst(op) = {op.first} \cap Clusters
    BY <1>1, <1>4, <2>1 DEF HeldFirst
  <2> QED BY <1>1, <1>2, <2>1, <2>2 DEF Held
<1>6. free_count' = Cardinality(FreeIn(fat[1])) /\ free_count' \in Nat
  <2>1. GivenBack(op) = 0 /\ Uncounted(op) = 1
    BY <1>1 DEF GivenBack, Uncounted, Freeing
  <2>2. free_count \in Nat /\ Cardinality(FreeIn(fat[1])) \in Nat
    BY <1>2, FreeInIs DEF FatTypes
  <2>3. free_count + 0 = Cardinality(FreeIn(fat[1])) + 1
    BY <2>1 DEF Exact, CountsExact
  <2> QED BY <1>1, <2>2, <2>3
<1>7. ASSUME ~Between(op'), Kept, CallSound(fat[1], op'), GivenBack(op') = 0, Uncounted(op') = 0 PROVE Exact'
  <2>1. free_count' + GivenBack(op') = Cardinality(FreeIn(fat[1])) + Uncounted(op')
    BY <1>6, <1>7
  <2> QED BY <1>1, <1>5, <1>7, <2>1, StaysExact
<1>8. ASSUME NEW then \in {"data", "zero"}, op' = SetNext(op, op.prev, op.c, then) PROVE Exact'
  <2>1. IsSet(op', op, op.prev, op.c, then) /\ ~op'.io /\ ~Between(op')
    <3>1. op.prev \in Numbers /\ op.c \in Numbers /\ then \in {"flush", "data", "zero", "free"}
      BY <1>2, <1>8, OpFields DEF Numbers
    <3> QED BY <1>2, <1>8, <3>1, SetNextIo
  <2>2. op' \in Ops /\ op'.pc = "set" /\ op'.copy = 1 /\ op'.then = then /\ op'.first = op.first /\ op'.c = op.c /\ op'.applied = op.applied
    BY <2>1 DEF IsSet
  <2>3. Kept
    <3>1. ~Freeing(op') /\ Linking(op') /\ ~op'.applied
      BY <1>4, <2>2 DEF Freeing, Linking
    <3>2. Held(op') = ({op.first} \cap Clusters) \cup {op.c}
      BY <2>2, <3>1, SetHolds
    <3> QED BY <1>1, <1>5, <3>2 DEF Kept
  <2>4. GivenBack(op') = 0 /\ Uncounted(op') = 0
    <3>1. op'.copy \in {1, 2} /\ op'.then # "" /\ op'.then # "flush" /\ op'.then # "free"
      BY <2>2
    <3> QED BY <2>2, <3>1, SetTallies
  <2>5. CallSound(fat[1], op')
    BY <2>1, <2>2 DEF CallSound
  <2> QED BY <1>7, <2>1, <2>3, <2>4, <2>5
<1>9. ASSUME NEW pc \in {"dots", "data"}, op' = [op EXCEPT !.pc = pc, !.first = op.c], op.first = Nil PROVE Exact'
  <2>1. op' \in Ops
    <3>1. pc \in {"find", "set", "flush", "data", "dots", "entry", "zero", "unlink", "free", "ret"}
      OBVIOUS
    <3> QED BY <1>2, <1>5, <1>9, <3>1 DEF Ops
  <2>2. op'.pc = pc /\ op'.first = op.c /\ op'.applied = op.applied /\ op'.io = op.io
    BY <1>2, <1>9 DEF Ops
  <2>3. Quiet(op')
    BY <1>2, <2>2, QuietAt
  <2>4. Kept
    <3>1. HeldFirst(op') = {op.c}
      BY <1>4, <1>5, <2>2 DEF HeldFirst, Freeing
    <3>2. {op.first} \cap Clusters = {}
      BY <1>9, FatAssumption
    <3> QED BY <1>1, <1>5, <2>1, <3>1, <3>2, OpFields DEF Kept, Held
  <2> QED BY <1>7, <2>3, <2>4 DEF Quiet
<1>10. CASE op.use = "dir"
  <2>1. op.first = Nil
    BY <1>4, <1>10 DEF Asks, Writing, Growing, MakingDir
  <2>2. op' = [op EXCEPT !.pc = "dots", !.first = op.c]
    BY <1>1, <1>10
  <2> QED BY <1>9, <2>1, <2>2
<1>11. CASE op.use = "grow"
  BY <1>1, <1>8, <1>11
<1>12. CASE op.use = "file" /\ op.k = 0
  <2>1. op.first = Nil
    BY <1>1, <1>4, <1>12 DEF Asks, Writing, Growing, MakingDir
  <2>2. op' = [op EXCEPT !.pc = "data", !.first = op.c]
    BY <1>1, <1>12
  <2> QED BY <1>9, <2>1, <2>2
<1>13. CASE op.use = "file" /\ op.k # 0
  BY <1>1, <1>8, <1>13
<1> QED BY <1>2, <1>10, <1>11, <1>12, <1>13, OpFields

-----------------------------------------------------------------------------
(***************************************************************************)
(* Every step keeps an exact volume exact                                  *)
(***************************************************************************)
\* As long as nothing has failed, the invariants hold, and the volume is exact.
NoFaultsExact == faults \in Nat /\ (faults = 0 => FatInv /\ Exact)

LEMMA BeginsAsExact == ASSUME Init PROVE Exact
<1> DEFINE f == fat[1]
<1>1. /\ num_fats \in {1, 2} /\ op = NoCall /\ fatbuf = NoCache
      /\ fat = [k \in 1 .. num_fats |-> [c \in Clusters |-> IF c = Root THEN Eoc ELSE Free]]
      /\ free_count = Cardinality(Clusters) - 1
  BY DEF Init
<1>2. FatInv
  BY FatBegins
<1>3. Root \in Clusters /\ Eoc # Free /\ IsFiniteSet(Clusters)
  BY FatAssumption
<1>4. \A k \in 1 .. num_fats : fat[k] = [c \in Clusters |-> IF c = Root THEN Eoc ELSE Free]
  BY <1>1
<1>5. 1 \in 1 .. num_fats
  BY <1>1
<1>6. \A c \in Clusters : f[c] = IF c = Root THEN Eoc ELSE Free
  BY <1>4, <1>5
<1>7. Vol(f, sec, Held(op), Raw(op))
  BY <1>2 DEF FatInv, VolInv
<1>8. Root \in Live(sec)
  BY DEF Live
<1>9. AllOwned
  <2>1. IsTop(f, Root)
    BY <1>7, <1>8, LiveTops
  <2> HIDE DEF f
  <2>2. Root \in Owns(f, Root)
    BY <2>1, TopFacts
  <2>3. Root \in Owned(f, sec, op)
    BY <1>8, <2>2 DEF Owned
  <2>4. \A c \in Clusters : f[c] # Free => c = Root
    BY <1>6
  <2> QED BY <2>3, <2>4 DEF AllOwned, f
<1>10. CopiesSame
  BY <1>4, <1>5 DEF CopiesSame
<1>11. CountsExact
  <2>1. GivenBack(op) = 0 /\ Uncounted(op) = 0
    BY <1>1 DEF GivenBack, Uncounted
  <2>2. FreeIn(f) = Clusters \ {Root}
    BY <1>3, <1>6 DEF FreeIn
  <2>3. Cardinality(FreeIn(f)) = Cardinality(Clusters) - 1
    BY <1>3, <2>2, FS_RemoveElement
  <2> QED BY <1>1, <2>1, <2>3 DEF CountsExact
<1>12. CacheSame /\ CallSound(f, op)
  BY <1>1 DEF CacheSame, CallSound
<1> QED BY <1>9, <1>10, <1>11, <1>12 DEF Exact

LEMMA ExactStep == ASSUME FatInv, Exact, [Next]_vars, faults' = 0, faults = 0 PROVE FatInv' /\ Exact'
<1>0. FatInv'
  BY FatStep DEF Spares
<1>1. ASSUME Step PROVE Exact'
  <2>1. CASE fat_set_next
    BY <1>0, <2>1, SetKeeps, SetExact
  <2>2. CASE FindCluster \/ Taken \/ fat_free_chain
    BY <2>2, FindExact, TakenExact, FreeExact
  <2>3. CASE WriteBlock \/ WriteDots \/ ZeroCluster \/ MarkGap \/ Grow
    BY <2>3, WritesExact
  <2>4. CASE PutEntry \/ UpdateEntry \/ Unlink \/ Return
    BY <2>4, EntriesExact, ReturnExact
  <2> QED BY <1>1, <2>1, <2>2, <2>3, <2>4 DEF Step
<1>2. ASSUME \/ \E p \in Paths : fat32_delete(p) \/ \E v \in Data : fat32_write_file(p, v)
             \/ \E n \in Dirs : fat32_mkdir(n) \/ fat32_rmdir(n)
      PROVE  Exact'
  BY <1>2, BeginsExact
<1>3. ASSUME WriteFails \/ ReadFails \/ PowerLoss PROVE FALSE
  <2>1. faults' = faults + 1
    BY <1>3 DEF WriteFails, ReadFails, PowerLoss, Fault
  <2> QED BY <2>1
<1>4. ASSUME UNCHANGED vars PROVE Exact'
  <2>1. UNCHANGED <<num_fats, fat, sec, fsinfo, fatbuf, free_count, answer, op, faults>>
    BY <1>4 DEF vars, disk, memory
  <2> QED BY <2>1 DEF Exact, AllOwned, CopiesSame, CountsExact, CacheSame, Between, Cached
<1>5. Exact'
  BY <1>1, <1>2, <1>3, <1>4 DEF Next
<1> QED BY <1>0, <1>5

LEMMA NoFaultsStep == ASSUME NoFaultsExact, [Next]_vars PROVE NoFaultsExact'
<1>1. faults \in Nat
  BY DEF NoFaultsExact
<1>2. faults' \in Nat /\ (faults' = 0 => faults = 0)
  <2>1. ASSUME Step PROVE faults' = faults \/ faults' = faults + 1
    <3>1. CASE fat_set_next \/ FindCluster
      BY <3>1 DEF fat_set_next, FindCluster
    <3>2. CASE Taken \/ fat_free_chain
      BY <3>2 DEF Taken, fat_free_chain, Flush, Fault
    <3>3. CASE WriteBlock \/ WriteDots \/ ZeroCluster \/ Unlink \/ Return
      BY <3>3 DEF WriteBlock, WriteDots, ZeroCluster, Unlink, Return
    <3>4. CASE MarkGap \/ PutEntry \/ Grow \/ UpdateEntry
      BY <3>4 DEF MarkGap, PutEntry, Grow, UpdateEntry
    <3> QED BY <2>1, <3>1, <3>2, <3>3, <3>4 DEF Step
  <2>2. ASSUME \/ \E p \in Paths : fat32_delete(p) \/ \E v \in Data : fat32_write_file(p, v)
               \/ \E n \in Dirs : fat32_mkdir(n) \/ fat32_rmdir(n)
        PROVE  faults' = faults
    BY <2>2 DEF fat32_delete, fat32_write_file, fat32_mkdir, fat32_rmdir, Begin
  <2>3. ASSUME WriteFails \/ ReadFails \/ PowerLoss PROVE faults' = faults + 1
    BY <2>3 DEF WriteFails, ReadFails, PowerLoss, Fault
  <2>4. faults' = faults \/ faults' = faults + 1
    BY <2>1, <2>2, <2>3 DEF Next, vars
  <2> QED BY <1>1, <2>4
<1>3. faults' = 0 => FatInv' /\ Exact'
  BY <1>2, ExactStep DEF NoFaultsExact
<1> QED BY <1>2, <1>3 DEF NoFaultsExact

\* Between two calls an exact volume has lost nothing.
LEMMA NothingLostIs == ASSUME NoFaultsExact PROVE NothingLost
<1> SUFFICES ASSUME faults = 0, op = NoCall
             PROVE  /\ {c \in Clusters : fat[1][c] # Free} = Reachable
                    /\ \A k \in 1 .. num_fats : fat[k] = fat[1]
                    /\ free_count = Cardinality({c \in Clusters : fat[1][c] = Free})
  BY DEF NothingLost, Idle
<1> DEFINE f == fat[1]
<1>1. Exact /\ FatInv
  BY DEF NoFaultsExact
<1>2. FatTypes /\ Held(op) = {} /\ Raw(op) = {} /\ Taking(op) = {} /\ Vol(f, sec, {}, {}) /\ ~Between(op)
  <2>1. Held(op) = {} /\ Raw(op) = {} /\ Taking(op) = {} /\ ~Between(op)
    BY DEF Held, Raw, Taking, Between
  <2> QED BY <1>1, <2>1 DEF FatInv, VolInv
<1>3. \A k \in 1 .. num_fats : fat[k] = f
  <2> SUFFICES ASSUME NEW k \in 1 .. num_fats PROVE fat[k] = f
    OBVIOUS
  <2>1. \A c \in Clusters : fat[k][c] = f[c]
    BY <1>1, <1>2 DEF Exact, CopiesSame
  <2>2. fat[k] \in Fats /\ f \in Fats
    <3>1. 1 \in 1 .. num_fats
      BY <1>2 DEF FatTypes
    <3> QED BY <1>2, <3>1 DEF FatTypes
  <2> HIDE DEF f
  <2> QED BY <2>1, <2>2 DEF Fats
<1>4. free_count = Cardinality(FreeIn(f))
  <2>1. GivenBack(op) = 0 /\ Uncounted(op) = 0
    BY DEF GivenBack, Uncounted
  <2>2. free_count \in Nat /\ Cardinality(FreeIn(f)) \in Nat
    BY <1>2, FreeInIs DEF FatTypes
  <2> QED BY <1>1, <2>1, <2>2 DEF Exact, CountsExact
<1>5. Starts = DirTops(sec) /\ FileEntries = {x \in E(sec) : ~Val(sec, x).dir} /\ \A x : At(x) = Val(sec, x)
  BY <1>2, StartsAre
<1>6. \A c \in Clusters : f[c] # Free => \E h \in Live(sec) : c \in Owns(f, h)
  BY <1>1, <1>2 DEF Exact, AllOwned, Owned
<1> HIDE DEF f
<1>7. \A h \in Live(sec) : \A c \in Owns(f, h) : c \in Clusters /\ f[c] # Free
  BY <1>2, LiveTops, TopFacts
<1>8. \A h : Reach(h) = Owns(f, h)
  BY DEF Reach, Owns, f
<1>9. \A h \in Live(sec) : h \in Starts \/ \E x \in FileEntries : h = At(x).clus
  BY <1>5 DEF Live, DirTops
<1>10. \A h \in Starts \cup {At(x).clus : x \in FileEntries} : h \in Live(sec) \/ Owns(f, h) = {}
  <2>1. \A h \in Starts : h \in Live(sec)
    BY <1>2, <1>5, LiveTops
  <2>2. \A x \in E(sec) : Val(sec, x).clus \in Live(sec) \/ Val(sec, x).clus = Nil
    BY <1>2, LiveTops
  <2> QED BY <1>5, <2>1, <2>2, NilHas
<1>11. \A c : c \in Reachable <=> (\E d \in Starts : c \in Owns(f, d)) \/ (\E x \in FileEntries : c \in Owns(f, At(x).clus))
  BY <1>8 DEF Reachable
<1>12. {c \in Clusters : f[c] # Free} = Reachable
  <2>1. ASSUME NEW c \in Clusters, f[c] # Free PROVE c \in Reachable
    <3>1. PICK h \in Live(sec) : c \in Owns(f, h)
      BY <1>6, <2>1
    <3> QED BY <1>9, <1>11, <3>1
  <2>2. ASSUME NEW c \in Reachable PROVE c \in Clusters /\ f[c] # Free
    <3>1. PICK h \in Live(sec) : c \in Owns(f, h)
      BY <1>10, <1>11, <2>2
    <3> QED BY <1>7, <3>1
  <2> QED BY <2>1, <2>2
<1> QED BY <1>3, <1>4, <1>12 DEF FreeIn, f

-----------------------------------------------------------------------------
(***************************************************************************)
(* What the files and the directories are                                  *)
(***************************************************************************)
\* The file of a path: its entry, in the directory of its path, and what that holds.
FileAt(f, S, p) == {x \in E(S) : \E d : DirIs(S, p.dir, d) /\ x \in Named(f, S, d, p.leaf)}
Tells(f, S, e, v) == e.size = Blocks[v] /\ \A i \in 1 .. e.size : S[Chain(f, e.clus)[i]] = Block(v, i)
ContentsIn(f, S, e) ==
    IF Len(Chain(f, e.clus)) >= e.size /\ \E v \in Data : Tells(f, S, e, v) THEN CHOOSE v \in Data : Tells(f, S, e, v)
    ELSE "corrupt"
FileIs(f, S, p) == IF FileAt(f, S, p) = {} THEN Absent ELSE ContentsIn(f, S, Val(S, CHOOSE x \in FileAt(f, S, p) : TRUE))
FilesIn(f, S) == [p \in Paths |-> FileIs(f, S, p)]
DirsIn(f, S) == {n \in Dirs : Named(f, S, Root, n) # {}}

LEMMA ContentsAre == ASSUME NEW f, NEW e PROVE Contents(f, e) = ContentsIn(f, sec, e)
BY DEF Contents, Let, ContentsIn, Tells

\* There is no entry but the one.
LEMMA FileAtIs ==
    ASSUME NEW f, NEW S, NEW H, NEW R, Vol(f, S, H, R), NEW p \in Paths, NEW d, DirIs(S, p.dir, d)
    PROVE  d \in DirTops(S) /\ d \in Clusters /\ IsTop(f, d) /\ FileAt(f, S, p) = Named(f, S, d, p.leaf)
<1>1. p.dir \in Dirs \cup {Absent} /\ p.leaf \in Leaves /\ Absent \notin Dirs
  BY FatAssumption
<1>2. Root \in DirTops(S) /\ Root \in Clusters /\ (\A e \in DirTops(S) : IsTop(f, e) /\ e \in Live(S)) /\ Live(S) \subseteq Clusters
  BY DirsLive, LiveTops DEF Vol, VolTypes
<1>3. CASE p.dir = Absent
  BY <1>2, <1>3 DEF DirIs, FileAt, Named
<1>4. CASE p.dir # Absent
  <2>1. PICK x \in E(S) : Val(S, x).name = p.dir /\ d = Val(S, x).clus
    BY <1>4 DEF DirIs
  <2>2. \A y \in E(S) : Val(S, y).name = p.dir => y = x
    <3> SUFFICES ASSUME NEW y \in E(S), Val(S, y).name = p.dir PROVE y = x
      OBVIOUS
    <3>1. Val(S, x).dir /\ Val(S, y).dir
      BY <1>1, <1>4, <2>1, DirNames
    <3>2. x[1] \in Owns(f, Root) /\ y[1] \in Owns(f, Root)
      BY <3>1, DirNames
    <3> QED BY <1>2, <2>1, <3>2 DEF Vol, NamesOk
  <2>3. d \in DirTops(S)
    BY <1>1, <1>4, <2>1, DirNames
  <2>4. \A e : DirIs(S, p.dir, e) => e = d
    BY <1>4, <2>1, <2>2 DEF DirIs
  <2>5. FileAt(f, S, p) = Named(f, S, d, p.leaf)
    BY <2>4 DEF FileAt, Named
  <2> QED BY <1>2, <2>3, <2>5
<1> QED BY <1>3, <1>4

\* What can be read is what the entries say.
ViewIs ==
    /\ [p \in Paths |-> ReadFile(fat[1], p)] = FilesIn(fat[1], sec)
    /\ {n \in Dirs : Lookup(fat[1], Root, n) # Absent} = DirsIn(fat[1], sec)
LEMMA Views == FatInv => ViewIs
<1> SUFFICES ASSUME FatInv PROVE ViewIs
  OBVIOUS
<1> DEFINE f == fat[1]
<1>1. Vol(f, sec, Held(op), Raw(op))
  BY DEF FatInv, VolInv
<1> HIDE DEF f
<1>2. Agrees(f, f, sec) /\ Root \in DirTops(sec)
  BY <1>1, AgreesSelf, DirsLive DEF Vol, VolTypes
<1>3. ASSUME NEW p \in Paths PROVE ReadFile(f, p) = FileIs(f, sec, p)
  <2>1. p.dir \in Dirs \cup {Absent}
    BY FatAssumption
  <2>2. CASE Parent(f, p.dir) = Absent
    <3>1. \A d : ~DirIs(sec, p.dir, d)
      BY <1>1, <1>2, <2>1, <2>2, ParentFound
    <3>2. FileAt(f, sec, p) = {}
      BY <3>1 DEF FileAt
    <3> QED BY <2>2, <3>2 DEF ReadFile, Let, FileIs
  <2>3. CASE Parent(f, p.dir) # Absent
    <3> DEFINE d == Parent(f, p.dir)
    <3>1. DirIs(sec, p.dir, d)
      BY <1>1, <1>2, <2>1, <2>3, ParentFound
    <3>2. ReadFile(f, p) = IF Lookup(f, d, p.leaf) = Absent THEN Absent ELSE Contents(f, Lookup(f, d, p.leaf))
      BY <2>3 DEF ReadFile, Let
    <3> HIDE DEF d
    <3>3. d \in DirTops(sec) /\ FileAt(f, sec, p) = Named(f, sec, d, p.leaf)
      BY <1>1, <3>1, FileAtIs
    <3>4. CASE Named(f, sec, d, p.leaf) = {}
      BY <1>1, <1>2, <3>2, <3>3, <3>4, LookupIs DEF FileIs
    <3>5. CASE Named(f, sec, d, p.leaf) # {}
      <4>1. PICK x : x \in Named(f, sec, d, p.leaf)
        BY <3>5
      <4>2. Named(f, sec, d, p.leaf) = {x} /\ Lookup(f, d, p.leaf) = Val(sec, x) /\ Lookup(f, d, p.leaf) # Absent
        BY <1>1, <1>2, <3>3, <3>5, <4>1, LookupIs
      <4>3. (CHOOSE y \in FileAt(f, sec, p) : TRUE) = x
        BY <3>3, <4>2
      <4> QED BY <3>2, <3>3, <3>5, <4>2, <4>3, ContentsAre DEF FileIs
    <3> QED BY <3>4, <3>5
  <2> QED BY <2>2, <2>3
<1>4. \A n : Lookup(f, Root, n) = Absent <=> Named(f, sec, Root, n) = {}
  BY <1>1, <1>2, LookupIs
<1> QED BY <1>3, <1>4 DEF ViewIs, FilesIn, DirsIn, f

LEMMA ViewsNext == FatInv' => ViewIs'
BY Views, PTL

-----------------------------------------------------------------------------
(***************************************************************************)
(* Steps the files do not see                                              *)
(***************************************************************************)
\* A file stays as it is when its entry does, and its clusters.
LEMMA ContentsStay ==
    ASSUME NEW f, NEW g, NEW S, NEW T, NEW e, Chain(g, e.clus) = Chain(f, e.clus), Chain(f, e.clus) \in Seq(Clusters),
           e.size \in Nat, \A c \in Owns(f, e.clus) : T[c] = S[c]
    PROVE  ContentsIn(g, T, e) = ContentsIn(f, S, e)
<1> DEFINE ch == Chain(f, e.clus)
<1>1. CASE Len(ch) >= e.size
  <2>1. \A i \in 1 .. e.size : ch[i] \in Owns(f, e.clus)
    <3> SUFFICES ASSUME NEW i \in 1 .. e.size PROVE ch[i] \in Owns(f, e.clus)
      OBVIOUS
    <3>1. i \in 1 .. Len(ch)
      BY <1>1
    <3> QED BY <3>1 DEF Owns, ToSet
  <2>2. \A v : Tells(g, T, e, v) <=> Tells(f, S, e, v)
    BY <2>1 DEF Tells
  <2> HIDE DEF ch
  <2> QED BY <2>2 DEF ContentsIn, ch
<1>2. CASE ~(Len(ch) >= e.size)
  BY <1>2 DEF ContentsIn
<1> QED BY <1>1, <1>2

\* The entry of a file, and its chain
LEMMA FileEntryIs ==
    ASSUME NEW f, NEW S, NEW H, NEW R, Vol(f, S, H, R), NEW x \in E(S), Val(S, x).name \in Leaves
    PROVE  /\ ~Val(S, x).dir /\ Val(S, x).size \in Nat /\ Chain(f, Val(S, x).clus) \in Seq(Clusters)
           /\ Owns(f, Val(S, x).clus) \subseteq Clusters
<1>1. ~Val(S, x).dir
  BY DirNames
<1>2. Val(S, x).size \in Nat /\ Val(S, x).clus \in Clusters \cup {Nil}
  BY EntryType DEF Vol, VolTypes
<1>3. Chain(f, Val(S, x).clus) \in Seq(Clusters)
  <2>1. CASE Val(S, x).clus = Nil
    <3>1. Chain(f, Nil) = <<>> /\ <<>> \in Seq(Clusters)
      BY NilHas
    <3> QED BY <2>1, <3>1
  <2>2. CASE Val(S, x).clus # Nil
    BY <2>2, LiveTops DEF IsTop, Path
  <2> QED BY <2>1, <2>2
<1>4. Owns(f, Val(S, x).clus) \subseteq Clusters
  BY <1>3 DEF Owns, ToSet
<1> QED BY <1>1, <1>2, <1>3, <1>4

LEMMA FileSame ==
    ASSUME NEW f, NEW g, NEW S, NEW T, NEW p,
           \A d : DirIs(T, p.dir, d) <=> DirIs(S, p.dir, d),
           \A d : DirIs(S, p.dir, d) => Named(g, T, d, p.leaf) = Named(f, S, d, p.leaf),
           \A x \in FileAt(f, S, p) : Val(T, x) = Val(S, x) /\ ContentsIn(g, T, Val(S, x)) = ContentsIn(f, S, Val(S, x))
    PROVE  FileIs(g, T, p) = FileIs(f, S, p)
<1>1. FileAt(g, T, p) = FileAt(f, S, p)
  BY DEF FileAt, Named
<1>2. CASE FileAt(f, S, p) = {}
  BY <1>1, <1>2 DEF FileIs
<1>3. CASE FileAt(f, S, p) # {}
  <2> DEFINE x == CHOOSE x \in FileAt(f, S, p) : TRUE
  <2>1. x \in FileAt(f, S, p)
    BY <1>3
  <2>2. FileIs(g, T, p) = ContentsIn(g, T, Val(T, x)) /\ FileIs(f, S, p) = ContentsIn(f, S, Val(S, x))
    BY <1>1, <1>3 DEF FileIs
  <2> HIDE DEF x
  <2> QED BY <2>1, <2>2
<1> QED BY <1>2, <1>3

\* Where nothing of the files moves, they are the same.
LEMMA StillViews ==
    ASSUME NEW f, NEW S, NEW H, NEW R, Vol(f, S, H, R), NEW g, NEW T, Still(f, S, g, T)
    PROVE  FilesIn(g, T) = FilesIn(f, S) /\ DirsIn(g, T) = DirsIn(f, S)
<1>1. SameEntries(S, T) /\ (\A d \in DirTops(S) : \A x \in E(S) : x[1] \in Owns(g, d) <=> x[1] \in Owns(f, d))
  BY DEF Still
<1>2. \A d \in DirTops(S) : \A n : Named(g, T, d, n) = Named(f, S, d, n)
  BY <1>1 DEF Named, SameEntries
<1>3. Root \in DirTops(S)
  BY DirsLive DEF Vol, VolTypes
<1>4. ASSUME NEW p \in Paths PROVE FileIs(g, T, p) = FileIs(f, S, p)
  <2>1. p.dir \in Dirs \cup {Absent} /\ p.leaf \in Leaves
    BY FatAssumption
  <2>2. \A d : DirIs(T, p.dir, d) <=> DirIs(S, p.dir, d)
    BY <1>1 DEF DirIs, SameEntries
  <2>3. \A d : DirIs(S, p.dir, d) => Named(g, T, d, p.leaf) = Named(f, S, d, p.leaf)
    BY <1>2, FileAtIs
  <2>4. ASSUME NEW x \in FileAt(f, S, p)
        PROVE  Val(T, x) = Val(S, x) /\ ContentsIn(g, T, Val(S, x)) = ContentsIn(f, S, Val(S, x))
    <3>1. x \in E(S) /\ Val(S, x).name \in Leaves
      BY <2>1 DEF FileAt, Named
    <3>2. ~Val(S, x).dir /\ Val(S, x).size \in Nat /\ Chain(f, Val(S, x).clus) \in Seq(Clusters)
      BY <3>1, FileEntryIs
    <3>3. Chain(g, Val(S, x).clus) = Chain(f, Val(S, x).clus) /\ \A c \in Owns(f, Val(S, x).clus) : T[c] = S[c]
      BY <3>1, <3>2 DEF Still
    <3>4. Val(T, x) = Val(S, x)
      BY <1>1, <3>1 DEF SameEntries
    <3> QED BY <3>2, <3>3, <3>4, ContentsStay
  <2> QED BY <2>2, <2>3, <2>4, FileSame
<1> QED BY <1>2, <1>3, <1>4 DEF FilesIn, DirsIn

\* Two paths in different directories share no sector of them.
LEMMA DirsApart ==
    ASSUME NEW f, NEW S, NEW H, NEW R, Vol(f, S, H, R), NEW a \in Dirs \cup {Absent}, NEW b \in Dirs \cup {Absent}, a # b,
           NEW d, NEW e, DirIs(S, a, d), DirIs(S, b, e)
    PROVE  Owns(f, d) \cap Owns(f, e) = {}
<1>1. /\ \A x, y \in E(S) : Val(S, x).clus = Val(S, y).clus /\ Val(S, x).clus \in Clusters => x = y
      /\ \A x \in E(S) : Val(S, x).clus # Root
      /\ \A h, k \in Live(S) \cup H : h # k => Owns(f, h) \cap Owns(f, k) = {}
      /\ DirTops(S) \subseteq Live(S) /\ Root \in Live(S)
  BY DirsLive DEF Vol, VolTypes, NamesOk, Tops
<1>2. \A n \in Dirs : \A c : DirIs(S, n, c) => \E x \in E(S) : Val(S, x).name = n /\ c = Val(S, x).clus /\ c \in DirTops(S) /\ c \in Clusters
  <2> SUFFICES ASSUME NEW n \in Dirs, NEW c, DirIs(S, n, c)
               PROVE  \E x \in E(S) : Val(S, x).name = n /\ c = Val(S, x).clus /\ c \in DirTops(S) /\ c \in Clusters
    OBVIOUS
  <2>1. n # Absent
    BY FatAssumption
  <2>2. PICK x \in E(S) : Val(S, x).name = n /\ c = Val(S, x).clus
    BY <2>1 DEF DirIs
  <2>3. Val(S, x).dir
    BY <2>2, DirNames
  <2> QED BY <2>2, <2>3, DirNames
<1>3. \A c : DirIs(S, Absent, c) => c = Root
  BY DEF DirIs
<1>4. d # e /\ d \in Live(S) /\ e \in Live(S)
  <2>1. CASE a = Absent
    BY <1>1, <1>2, <1>3, <2>1
  <2>2. CASE b = Absent
    BY <1>1, <1>2, <1>3, <2>2
  <2>3. CASE a \in Dirs /\ b \in Dirs
    BY <1>1, <1>2, <2>3
  <2> QED BY <2>1, <2>2, <2>3
<1> QED BY <1>1, <1>4

-----------------------------------------------------------------------------
(***************************************************************************)
(* One entry comes, goes or changes                                        *)
(***************************************************************************)
\* At most the entry x of the sector x[1] in the directory d is another.
Touched(f, S, T, d, x) ==
    /\ d \in DirTops(S) /\ x[1] \in Owns(f, d) /\ x \in AllSlots /\ Rewrites(S, T, x[1])
    /\ \A y : y # x => (y \in E(T) <=> y \in E(S))
    /\ \A y \in E(S) : y # x => Val(T, y) = Val(S, y)
\* Before and after it is the one of the name n in d, if there is one.
Only(f, S, T, d, x, n) ==
    /\ Touched(f, S, T, d, x)
    /\ x \in E(S) => Val(S, x).name = n
    /\ x \in E(T) => Val(T, x).name = n
    /\ Named(f, S, d, n) \subseteq {x}

\* The file of another entry is the same.
LEMMA OthersStay ==
    ASSUME NEW f, NEW S, NEW H, NEW R, Vol(f, S, H, R), NEW T, NEW d, NEW x, Touched(f, S, T, d, x),
           NEW y \in E(S), y # x, Val(S, y).name \in Leaves
    PROVE  Val(T, y) = Val(S, y) /\ ContentsIn(f, T, Val(S, y)) = ContentsIn(f, S, Val(S, y))
<1> DEFINE e == Val(S, y)
<1>1. Val(T, y) = e
  BY DEF Touched
<1>2. ~e.dir /\ e.size \in Nat /\ Chain(f, e.clus) \in Seq(Clusters) /\ Owns(f, e.clus) \subseteq Clusters
  BY FileEntryIs
<1>3. Owns(f, e.clus) \cap Owns(f, d) = {}
  BY <1>2, FilesApart DEF Touched
<1>4. \A c \in Owns(f, e.clus) : T[c] = S[c]
  BY <1>2, <1>3 DEF Touched, Rewrites
<1> HIDE DEF e
<1>5. ContentsIn(f, T, e) = ContentsIn(f, S, e)
  BY <1>2, <1>4, ContentsStay
<1> QED BY <1>1, <1>5 DEF e

\* The directories are the same, where the entry has another name.
LEMMA DirsStay ==
    ASSUME NEW f, NEW S, NEW T, NEW d, NEW x, NEW n, Only(f, S, T, d, x, n), NEW a, a # n
    PROVE  /\ \A c : DirIs(T, a, c) <=> DirIs(S, a, c)
           /\ \A c : Named(f, T, c, a) = Named(f, S, c, a)
<1>1. \A y : (y \in E(T) /\ Val(T, y).name = a) <=> (y \in E(S) /\ Val(S, y).name = a)
  BY DEF Only, Touched
<1>2. \A y : y \in E(S) /\ Val(S, y).name = a => Val(T, y) = Val(S, y)
  BY DEF Only, Touched
<1>3. \A c : DirIs(T, a, c) <=> DirIs(S, a, c)
  BY <1>1, <1>2 DEF DirIs
<1>4. \A c : Named(f, T, c, a) = Named(f, S, c, a)
  BY <1>1 DEF Named
<1> QED BY <1>3, <1>4

\* The entry of a path comes, goes or changes.
PathTouched(f, S, T, p, x) ==
    /\ \A q \in Paths : q # p => FileIs(f, T, q) = FileIs(f, S, q)
    /\ DirsIn(f, T) = DirsIn(f, S)
    /\ FileAt(f, T, p) = {x} \cap E(T)
    /\ FileAt(f, S, p) = {x} \cap E(S)
LEMMA PathOnly ==
    ASSUME NEW f, NEW S, NEW H, NEW R, Vol(f, S, H, R), NEW T, NEW p \in Paths, NEW d, DirIs(S, p.dir, d),
           NEW x, Only(f, S, T, d, x, p.leaf)
    PROVE  PathTouched(f, S, T, p, x)
<1>1. /\ p.dir \in Dirs \cup {Absent} /\ p.leaf \in Leaves /\ p.leaf \notin Dirs
      /\ p \in [dir : Dirs \cup {Absent}, leaf : Leaves]
      /\ \A n \in Dirs : n # p.leaf
  BY FatAssumption
<1>2. \A a \in Dirs \cup {Absent} : \A c : DirIs(T, a, c) <=> DirIs(S, a, c)
  <2> SUFFICES ASSUME NEW a \in Dirs \cup {Absent}, NEW c PROVE DirIs(T, a, c) <=> DirIs(S, a, c)
    OBVIOUS
  <2>1. CASE a = Absent
    BY <2>1 DEF DirIs
  <2>2. CASE a \in Dirs
    BY <1>1, <2>2, DirsStay
  <2> QED BY <2>1, <2>2
<1>3. DirsIn(f, T) = DirsIn(f, S)
  BY <1>1, DirsStay DEF DirsIn
<1>4. \A y : y # x => (y \in E(T) <=> y \in E(S)) /\ (y \in E(S) => Val(T, y) = Val(S, y))
  BY DEF Only, Touched
<1>5. x[1] \in Owns(f, d) /\ (x \in E(S) => Val(S, x).name = p.leaf) /\ (x \in E(T) => Val(T, x).name = p.leaf)
  BY DEF Only, Touched
<1>6. FileAt(f, S, p) = {x} \cap E(S)
  <2>1. FileAt(f, S, p) = Named(f, S, d, p.leaf)
    BY FileAtIs
  <2> QED BY <1>5, <2>1 DEF Named, Only
<1>7. FileAt(f, T, p) = {x} \cap E(T)
  <2>1. \A c : DirIs(S, p.dir, c) => Named(f, S, c, p.leaf) \subseteq {x}
    BY FileAtIs, <1>6 DEF FileAt, Named
  <2>2. \A c : DirIs(S, p.dir, c) => Named(f, T, c, p.leaf) \subseteq {x}
    BY <1>4, <2>1 DEF Named
  <2>3. FileAt(f, T, p) \subseteq {x} \cap E(T)
    BY <1>1, <1>2, <2>2 DEF FileAt
  <2>4. x \in E(T) => x \in FileAt(f, T, p)
    BY <1>1, <1>2, <1>5 DEF FileAt, Named
  <2> QED BY <2>3, <2>4
<1>8. ASSUME NEW q \in Paths, q # p PROVE FileIs(f, T, q) = FileIs(f, S, q)
  <2>1. q.dir \in Dirs \cup {Absent} /\ q.leaf \in Leaves /\ q \in [dir : Dirs \cup {Absent}, leaf : Leaves]
    BY FatAssumption
  <2>2. q.dir # p.dir \/ q.leaf # p.leaf
    BY <1>1, <1>8, <2>1
  <2>3. ASSUME NEW c, DirIs(S, q.dir, c) PROVE Named(f, T, c, q.leaf) = Named(f, S, c, q.leaf) /\ x \notin Named(f, S, c, q.leaf)
    <3>1. CASE q.leaf # p.leaf
      BY <1>5, <3>1, DirsStay DEF Named
    <3>2. CASE q.dir # p.dir
      <4>1. Owns(f, d) \cap Owns(f, c) = {}
        BY <1>1, <2>1, <2>3, <3>2, DirsApart
      <4>2. x[1] \notin Owns(f, c)
        BY <1>5, <4>1
      <4> QED BY <1>4, <4>2 DEF Named
    <3> QED BY <2>2, <3>1, <3>2
  <2>4. ASSUME NEW y \in FileAt(f, S, q)
        PROVE  Val(T, y) = Val(S, y) /\ ContentsIn(f, T, Val(S, y)) = ContentsIn(f, S, Val(S, y))
    <3>1. y \in E(S) /\ Val(S, y).name \in Leaves /\ y # x
      BY <2>1, <2>3 DEF FileAt, Named
    <3>2. Touched(f, S, T, d, x)
      BY DEF Only
    <3> QED BY <3>1, <3>2, OthersStay
  <2>5. \A c : DirIs(T, q.dir, c) <=> DirIs(S, q.dir, c)
    BY <1>2, <2>1
  <2> QED BY <2>3, <2>4, <2>5, FileSame
<1> QED BY <1>3, <1>6, <1>7, <1>8 DEF PathTouched

\* The entry of a directory comes or goes; nothing is in it.
DirTouched(f, S, T, n, x) ==
    /\ FilesIn(f, T) = FilesIn(f, S)
    /\ \A p \in Paths : p.dir = n => FileIs(f, S, p) = Absent
    /\ \A m \in Dirs : m \in DirsIn(f, T) <=> (IF m = n THEN x \in E(T) ELSE m \in DirsIn(f, S))
    /\ n \in DirsIn(f, S) <=> x \in E(S)
LEMMA DirOnly ==
    ASSUME NEW f, NEW S, NEW H, NEW R, Vol(f, S, H, R), NEW T, NEW n \in Dirs,
           NEW x, Only(f, S, T, Root, x, n),
           \A c : DirIs(S, n, c) => \A y \in E(S) : y[1] \notin Owns(f, c),
           \A c : DirIs(T, n, c) => \A y \in E(T) : y[1] \notin Owns(f, c)
    PROVE  DirTouched(f, S, T, n, x)
<1>1. n \notin Leaves /\ n # Absent
  BY FatAssumption
<1>2. Touched(f, S, T, Root, x) /\ x[1] \in Owns(f, Root)
  BY DEF Only, Touched
<1>3. ASSUME NEW p \in Paths, p.dir = n PROVE FileIs(f, S, p) = Absent /\ FileIs(f, T, p) = Absent
  <2>1. FileAt(f, S, p) = {} /\ FileAt(f, T, p) = {}
    BY <1>3 DEF FileAt, Named
  <2> QED BY <2>1 DEF FileIs
<1>4. ASSUME NEW p \in Paths, p.dir # n PROVE FileIs(f, T, p) = FileIs(f, S, p)
  <2>1. p.dir \in Dirs \cup {Absent} /\ p.leaf \in Leaves /\ p.leaf # n
    BY <1>1, FatAssumption
  <2>2. (\A c : DirIs(T, p.dir, c) <=> DirIs(S, p.dir, c)) /\ \A c : Named(f, T, c, p.leaf) = Named(f, S, c, p.leaf)
    BY <1>4, <2>1, DirsStay
  <2>3. ASSUME NEW y \in FileAt(f, S, p)
        PROVE  Val(T, y) = Val(S, y) /\ ContentsIn(f, T, Val(S, y)) = ContentsIn(f, S, Val(S, y))
    <3>1. y \in E(S) /\ Val(S, y).name \in Leaves /\ y # x
      BY <2>1 DEF FileAt, Named, Only
    <3> QED BY <1>2, <3>1, OthersStay
  <2> QED BY <2>2, <2>3, FileSame
<1>5. \A m \in Dirs : m # n => (m \in DirsIn(f, T) <=> m \in DirsIn(f, S))
  BY DirsStay DEF DirsIn
<1>6. (n \in DirsIn(f, T) <=> x \in E(T)) /\ (n \in DirsIn(f, S) <=> x \in E(S))
  <2>1. Named(f, S, Root, n) = {x} \cap E(S)
    BY <1>2 DEF Named, Only
  <2>2. Named(f, T, Root, n) = {x} \cap E(T)
    BY <1>2, <2>1 DEF Named, Only, Touched
  <2> QED BY <2>1, <2>2 DEF DirsIn
<1>7. FilesIn(f, T) = FilesIn(f, S)
  BY <1>3, <1>4 DEF FilesIn
<1> QED BY <1>3, <1>5, <1>6, <1>7 DEF DirTouched

-----------------------------------------------------------------------------
(***************************************************************************)
(* fat32_write_file and fat32_mkdir take effect                            *)
(***************************************************************************)
\* The kinds of calls
LEMMA CallKinds ==
    ASSUME NEW c \in Calls
    PROVE  /\ c.do \in {"write", "delete", "mkdir", "rmdir"}
           /\ c.do \in {"write", "delete"} => c.path \in Paths /\ LeafOf(c) = c.path.leaf /\ LeafOf(c) \in Leaves
           /\ c.do = "write" => c.v \in Data
           /\ c.do \in {"mkdir", "rmdir"} => c.path \in Dirs /\ LeafOf(c) = c.path
           /\ \A S, d : ParentIs(S, c, d) <=> (IF c.do \in {"write", "delete"} THEN DirIs(S, c.path.dir, d) ELSE d = Root)
<1>1. /\ c.do \in {"write", "delete", "mkdir", "rmdir"}
      /\ c.do \in {"write", "delete"} => c.path \in Paths
      /\ c.do = "write" => c.v \in Data
      /\ c.do \in {"mkdir", "rmdir"} => c.path \in Dirs
  BY DEF Calls
<1>2. \A p \in Paths : p.leaf \in Leaves
  BY FatAssumption
<1> QED BY <1>1, <1>2 DEF LeafOf, ParentIs

\* The new chain, once it is linked, reads as the contents the call was given.
LEMMA ReadyTells ==
    ASSUME NEW f, NEW T, NEW o \in Ops, Ready(f, T, o), o.call.do = "write", NEW e, e.clus = o.first, e.size = Blocks[o.call.v]
    PROVE  ContentsIn(f, T, e) = o.call.v
<1> DEFINE v == o.call.v
           ch == Chain(f, e.clus)
<1>1. v \in Data /\ e.size \in Nat /\ \A w \in Data : Blocks[w] \in Nat
  BY OpFields, CallKinds, FatAssumption
<1>2. Len(ch) >= e.size /\ Tells(f, T, e, v)
  <2>1. CASE o.first = Nil
    <3>1. e.size = 0 /\ Chain(f, Nil) = <<>> /\ Len(<<>>) = 0
      BY <2>1, NilHas DEF Ready
    <3> QED BY <2>1, <3>1 DEF Tells
  <2>2. CASE o.first # Nil
    <3>1. Len(ch) = e.size /\ Built(f, T, o, e.size)
      BY <2>2 DEF Ready
    <3> QED BY <1>1, <3>1 DEF Tells, Built
  <2> QED BY <2>1, <2>2
<1>3. ASSUME NEW w \in Data, Tells(f, T, e, w) PROVE w = v
  <2>1. CASE e.size = 0
    BY <1>1, <1>3, <2>1, FatAssumption DEF Tells
  <2>2. CASE e.size # 0
    <3>1. 1 \in 1 .. e.size
      BY <1>1, <2>2
    <3>2. Block(w, 1) = Block(v, 1)
      BY <1>2, <1>3, <3>1 DEF Tells
    <3> QED BY <3>2 DEF Block
  <2> QED BY <2>1, <2>2
<1> HIDE DEF v
<1>4. (CHOOSE w \in Data : Tells(f, T, e, w)) = v
  BY <1>1, <1>2, <1>3
<1> QED BY <1>1, <1>2, <1>4 DEF ContentsIn, v

\* What the call changes, of all the files and directories.
Changes(c, F, D, G, K) ==
    \/ /\ c.do = "write" /\ c.path.dir \in D \cup {Absent}
       /\ G = [F EXCEPT ![c.path] = c.v] /\ K = D
    \/ /\ c.do = "delete" /\ F[c.path] # Absent
       /\ G = [F EXCEPT ![c.path] = Absent] /\ K = D
    \/ /\ c.do = "mkdir" /\ c.path \notin D
       /\ K = D \cup {c.path} /\ G = F
    \/ /\ c.do = "rmdir" /\ c.path \in D
       /\ \A p \in Paths : p.dir = c.path => F[p] = Absent
       /\ K = D \ {c.path} /\ G = F

\* The directory of a path is one of those that are.
LEMMA DirThere ==
    ASSUME NEW f, NEW S, NEW H, NEW R, Vol(f, S, H, R), NEW a \in Dirs \cup {Absent}, NEW d, DirIs(S, a, d)
    PROVE  a \in DirsIn(f, S) \cup {Absent}
<1>1. CASE a = Absent
  BY <1>1
<1>2. CASE a # Absent
  <2>1. PICK x \in E(S) : Val(S, x).name = a
    BY <1>2 DEF DirIs
  <2>2. Val(S, x).dir
    BY <1>2, <2>1, DirNames
  <2>3. x \in Named(f, S, Root, a)
    BY <2>1, <2>2, DirNames DEF Named
  <2> QED BY <1>2, <2>3 DEF DirsIn
<1> QED BY <1>1, <1>2

LEMMA PathChanges ==
    ASSUME NEW f, NEW S, NEW T, NEW p \in Paths, NEW x, PathTouched(f, S, T, p, x), NEW v,
           v = FileIs(f, T, p)
    PROVE  FilesIn(f, T) = [FilesIn(f, S) EXCEPT ![p] = v] /\ DirsIn(f, T) = DirsIn(f, S)
BY DEF PathTouched, FilesIn

LEMMA OneFile ==
    ASSUME NEW f, NEW S, NEW p, NEW x, FileAt(f, S, p) = {x}
    PROVE  FileIs(f, S, p) = ContentsIn(f, S, Val(S, x))
<1>1. (CHOOSE y \in FileAt(f, S, p) : TRUE) = x
  OBVIOUS
<1> QED BY <1>1 DEF FileIs

LEMMA NeverAbsent == ASSUME NEW f, NEW S, NEW e PROVE ContentsIn(f, S, e) # Absent
BY FatAssumption DEF ContentsIn

\* fat32_write_file: the entry of the path comes, or is another.
LEMMA WriteShows ==
    ASSUME FatInv, op # NoCall, op.pc = "entry", op.call.do = "write", NEW d, AtDir(d), NEW x,
           Only(fat[1], sec, sec', d, x, LeafOf(op.call)), x \in E(sec'), Val(sec', x) = NewEntry
    PROVE  Changes(op.call, FilesIn(fat[1], sec), DirsIn(fat[1], sec), FilesIn(fat[1], sec'), DirsIn(fat[1], sec'))
<1> DEFINE f == fat[1]
           p == op.call.path
           T == sec'
<1>1. op \in Ops /\ op.call \in Calls /\ Vol(f, sec, Held(op), Raw(op))
  BY RunIs, OpFields
<1>2. p \in Paths /\ LeafOf(op.call) = p.leaf /\ DirIs(sec, p.dir, d) /\ p.dir \in Dirs \cup {Absent}
  BY <1>1, CallKinds, FatAssumption DEF AtDir, Base
<1>3. PathTouched(f, sec, T, p, x)
  BY <1>1, <1>2, PathOnly
<1>4. NewEntry.clus = op.first /\ NewEntry.size = Blocks[op.call.v]
  BY DEF NewEntry, Entry
<1>5. Ready(f, T, op)
  BY <1>1, StaysReady DEF Only, Touched
<1> HIDE DEF f, T, p
<1>6. ContentsIn(f, T, NewEntry) = op.call.v
  BY <1>1, <1>4, <1>5, ReadyTells
<1>7. FileAt(f, T, p) = {x}
  BY <1>3 DEF PathTouched, T
<1>8. FileIs(f, T, p) = op.call.v
  BY <1>6, <1>7, OneFile DEF T
<1>9. FilesIn(f, T) = [FilesIn(f, sec) EXCEPT ![p] = op.call.v] /\ DirsIn(f, T) = DirsIn(f, sec)
  BY <1>2, <1>3, <1>8, PathChanges
<1>10. p.dir \in DirsIn(f, sec) \cup {Absent}
  BY <1>1, <1>2, DirThere
<1> QED BY <1>9, <1>10 DEF Changes, f, T, p

\* fat32_mkdir: the new directory comes, with nothing in it.
LEMMA MkdirShows ==
    ASSUME FatInv, op # NoCall, op.pc = "entry", op.call.do = "mkdir", NEW d, NEW x, PutAs(d, x), NewName
    PROVE  Changes(op.call, FilesIn(fat[1], sec), DirsIn(fat[1], sec), FilesIn(fat[1], sec'), DirsIn(fat[1], sec'))
<1> DEFINE f == fat[1]
           n == op.call.path
           T == sec'
           h == op.first
<1>1. op \in Ops /\ op.call \in Calls /\ Vol(f, sec, Held(op), Raw(op)) /\ AtDir(d)
  BY RunIs, OpFields DEF PutAs
<1>2. n \in Dirs /\ LeafOf(op.call) = n
  BY <1>1, CallKinds
<1>3. /\ d = Root /\ h \in Clusters /\ Chain(f, h) = <<h>> /\ NewEntry.clus = h /\ NewEntry.name = n
      /\ Held(op) = {h} \cap Clusters /\ Named(f, sec, Root, n) = {} /\ Root \in DirTops(sec)
  BY <1>1, <1>2, NewEntryIs DEF AtDir, NewName
<1>4. /\ x \in AllSlots /\ x \notin E(sec) /\ E(T) = E(sec) \cup {x} /\ (\A y \in E(sec) : Val(T, y) = Val(sec, y))
      /\ Val(T, x) = NewEntry /\ x[1] \in Owns(f, Root) /\ Rewrites(sec, T, x[1])
  BY <1>3 DEF PutAs, Puts
<1> HIDE DEF f, T, n, h
<1>5. Touched(f, sec, T, Root, x)
  BY <1>3, <1>4 DEF Touched
<1>6. Only(f, sec, T, Root, x, n)
  BY <1>3, <1>4, <1>5 DEF Only
<1>7. n # Absent
  BY <1>2, FatAssumption
<1>8. \A y \in E(sec) : Val(sec, y).name # n
  <2> SUFFICES ASSUME NEW y \in E(sec), Val(sec, y).name = n PROVE FALSE
    OBVIOUS
  <2>1. y[1] \in Owns(f, Root)
    BY <1>1, <1>2, DirNames
  <2> QED BY <1>3, <2>1 DEF Named
<1>9. \A c : ~DirIs(sec, n, c)
  BY <1>7, <1>8 DEF DirIs
<1>10. ASSUME NEW c, DirIs(T, n, c), NEW y \in E(T) PROVE y[1] \notin Owns(f, c)
  <2>1. c = h
    BY <1>3, <1>4, <1>7, <1>8, <1>10 DEF DirIs
  <2>2. h \in Held(op) /\ Held(op) \cap Live(sec) = {} /\ DirTops(sec) \subseteq Live(sec)
    BY <1>1, <1>3, DirsLive DEF Vol, VolTypes, Tops
  <2>3. \A e \in DirTops(sec) : Owns(f, e) \cap Owns(f, h) = {}
    BY <1>1, <2>2 DEF Vol, Tops
  <2>4. \E e \in DirTops(sec) : y[1] \in Owns(f, e)
    BY <1>1, <1>3, <1>4, <1>10 DEF Vol, Lies
  <2> QED BY <2>1, <2>3, <2>4
<1>11. DirTouched(f, sec, T, n, x)
  BY <1>1, <1>2, <1>6, <1>9, <1>10, DirOnly
<1>12. FilesIn(f, T) = FilesIn(f, sec) /\ n \notin DirsIn(f, sec)
  BY <1>4, <1>11 DEF DirTouched
<1>13. DirsIn(f, T) = DirsIn(f, sec) \cup {n}
  <2>1. DirsIn(f, T) \subseteq Dirs /\ DirsIn(f, sec) \subseteq Dirs
    BY DEF DirsIn
  <2> QED BY <1>2, <1>4, <1>11, <2>1 DEF DirTouched
<1> QED BY <1>12, <1>13 DEF Changes, f, T, n

-----------------------------------------------------------------------------
(***************************************************************************)
(* fat32_delete and fat32_rmdir take effect                                *)
(***************************************************************************)
\* fat32_delete: the entry of the path goes.
LEMMA DeleteShows ==
    ASSUME FatInv, op # NoCall, op.pc = "unlink", op.call.do = "delete", NEW d, NEW x, Removes(d, x)
    PROVE  Changes(op.call, FilesIn(fat[1], sec), DirsIn(fat[1], sec), FilesIn(fat[1], sec'), DirsIn(fat[1], sec'))
<1> DEFINE f == fat[1]
           p == op.call.path
           T == sec'
<1>1. op \in Ops /\ op.call \in Calls /\ Vol(f, sec, Held(op), Raw(op)) /\ AtDir(d)
  BY RunIs, OpFields DEF Removes
<1>2. p \in Paths /\ LeafOf(op.call) = p.leaf /\ DirIs(sec, p.dir, d) /\ d \in DirTops(sec)
  BY <1>1, CallKinds DEF AtDir, Base
<1>3. /\ x \in E(sec) /\ E(T) = E(sec) \ {x} /\ (\A y \in E(T) : Val(T, y) = Val(sec, y)) /\ Rewrites(sec, T, x[1])
      /\ Named(f, sec, d, p.leaf) = {x}
  BY <1>2 DEF Removes, Drops
<1> HIDE DEF f, T, p
<1>4. x \in AllSlots /\ x[1] \in Owns(f, d) /\ Val(sec, x).name = p.leaf
  BY <1>3 DEF Named, E
<1>5. Only(f, sec, T, d, x, p.leaf)
  BY <1>2, <1>3, <1>4 DEF Only, Touched
<1>6. PathTouched(f, sec, T, p, x)
  BY <1>1, <1>2, <1>5, PathOnly
<1>7. FileAt(f, T, p) = {} /\ FileAt(f, sec, p) = {x}
  BY <1>3, <1>6 DEF PathTouched
<1>8. FileIs(f, T, p) = Absent
  BY <1>7 DEF FileIs
<1>9. FileIs(f, sec, p) # Absent
  BY <1>7, OneFile, NeverAbsent
<1>10. FilesIn(f, T) = [FilesIn(f, sec) EXCEPT ![p] = Absent] /\ DirsIn(f, T) = DirsIn(f, sec)
  <2>1. Absent = FileIs(f, T, p)
    BY <1>8
  <2> QED BY <1>2, <1>6, <2>1, PathChanges
<1>11. FilesIn(f, sec)[p] # Absent
  BY <1>2, <1>9 DEF FilesIn
<1> QED BY <1>10, <1>11 DEF Changes, f, T, p

\* fat32_rmdir: the entry of an empty directory goes.
LEMMA RmdirShows ==
    ASSUME FatInv, op # NoCall, op.pc = "unlink", op.call.do = "rmdir", NEW d, NEW x, Removes(d, x)
    PROVE  Changes(op.call, FilesIn(fat[1], sec), DirsIn(fat[1], sec), FilesIn(fat[1], sec'), DirsIn(fat[1], sec'))
<1> DEFINE f == fat[1]
           n == op.call.path
           T == sec'
<1>1. op \in Ops /\ op.call \in Calls /\ Vol(f, sec, Held(op), Raw(op)) /\ AtDir(d)
  BY RunIs, OpFields DEF Removes
<1>2. n \in Dirs /\ LeafOf(op.call) = n /\ d = Root /\ d \in DirTops(sec)
  BY <1>1, CallKinds DEF AtDir, Base
<1>3. /\ x \in E(sec) /\ E(T) = E(sec) \ {x} /\ (\A y \in E(T) : Val(T, y) = Val(sec, y)) /\ Rewrites(sec, T, x[1])
      /\ Named(f, sec, Root, n) = {x} /\ Val(sec, x).clus = op.old
  BY <1>2 DEF Removes, Drops
<1>4. \A y \in E(sec) : y[1] \notin Owns(f, op.old)
  BY <1>1 DEF AtDir, Works, AtUnlink
<1> HIDE DEF f, T, n
<1>5. x \in AllSlots /\ x[1] \in Owns(f, Root) /\ Val(sec, x).name = n
  BY <1>3 DEF Named, E
<1>6. Only(f, sec, T, Root, x, n)
  BY <1>2, <1>3, <1>5 DEF Only, Touched
<1>7. n # Absent
  BY <1>2, FatAssumption
<1>8. ASSUME NEW y \in E(sec), Val(sec, y).name = n PROVE y = x
  <2>1. y[1] \in Owns(f, Root)
    BY <1>1, <1>2, <1>8, DirNames
  <2> QED BY <1>3, <1>8, <2>1 DEF Named
<1>9. \A c : DirIs(sec, n, c) => \A y \in E(sec) : y[1] \notin Owns(f, c)
  BY <1>3, <1>4, <1>7, <1>8 DEF DirIs
<1>10. \A c : ~DirIs(T, n, c)
  BY <1>3, <1>7, <1>8 DEF DirIs
<1>11. DirTouched(f, sec, T, n, x)
  BY <1>1, <1>2, <1>6, <1>9, <1>10, DirOnly
<1>12. FilesIn(f, T) = FilesIn(f, sec) /\ n \in DirsIn(f, sec) /\ \A p \in Paths : p.dir = n => FilesIn(f, sec)[p] = Absent
  BY <1>3, <1>11 DEF DirTouched, FilesIn
<1>13. DirsIn(f, T) = DirsIn(f, sec) \ {n}
  <2>1. DirsIn(f, T) \subseteq Dirs /\ DirsIn(f, sec) \subseteq Dirs
    BY DEF DirsIn
  <2> QED BY <1>2, <1>3, <1>11, <2>1 DEF DirTouched
<1> QED BY <1>12, <1>13 DEF Changes, f, T, n

\* The call goes on, or fails, without having changed anything more.
CallStays(o, q) == q # NoCall /\ q.call = o.call /\ q.applied = o.applied
LEMMA RetStays == ASSUME NEW o \in Ops, NEW a \in {"ok", "err"} PROVE Ret(o, a) \in Ops /\ CallStays(o, Ret(o, a))
<1> DEFINE q == Ret(o, a)
           r == [o EXCEPT !.pc = "ret"]
<1>1. "ret" \in {"find", "set", "flush", "data", "dots", "entry", "zero", "unlink", "free", "ret"} /\ a \in {"ok", "err", "undo"}
  OBVIOUS
<1>2. q = [r EXCEPT !.after = a] /\ q.call = o.call /\ q.applied = o.applied
  BY DEF Ret, Ops
<1>3. r \in Ops
  BY <1>1 DEF Ops
<1> HIDE DEF q, r
<1>4. q \in Ops
  BY <1>1, <1>2, <1>3 DEF Ops
<1> QED BY <1>2, <1>4, OpFields DEF CallStays, q
LEMMA FreeChainStays ==
    ASSUME NEW o \in Ops, NEW c \in Clusters, NEW a \in {"ok", "err", "undo"}
    PROVE  FreeChain(o, c, a) \in Ops /\ CallStays(o, FreeChain(o, c, a))
<1> DEFINE q == FreeChain(o, c, a)
           r == [o EXCEPT !.pc = "free", !.todo = c]
<1>1. c \in Numbers /\ 0 \in Nat /\ a \in {"ok", "err", "undo"}
      /\ "free" \in {"find", "set", "flush", "data", "dots", "entry", "zero", "unlink", "free", "ret"}
  BY DEF Numbers
<1>2. q = [r EXCEPT !.freed = 0, !.after = a] /\ q.call = o.call /\ q.applied = o.applied
  BY DEF FreeChain, Ops
<1>3. r \in Ops
  BY <1>1 DEF Ops
<1> HIDE DEF q, r
<1>4. q \in Ops
  BY <1>1, <1>2, <1>3 DEF Ops
<1> QED BY <1>2, <1>4, OpFields DEF CallStays, q
LEMMA UndoStays == ASSUME NEW o \in Ops PROVE CallStays(o, Undo(o))
BY RetStays, FreeChainStays DEF Undo, Valid
LEMMA FreedStays == ASSUME NEW o \in Ops, NEW ok \in BOOLEAN, o.after # "undo" => o.after \in {"ok", "err"} PROVE CallStays(o, Freed(o, ok))
BY RetStays, UndoStays DEF Freed

-----------------------------------------------------------------------------
(***************************************************************************)
(* Calls begin, search and set                                             *)
(***************************************************************************)
\* What a step shows of the files, the directories, the call and its answer: a call
\* begins, takes effect, returns, or goes on unseen.
SameView == FilesIn(fat'[1], sec') = FilesIn(fat[1], sec) /\ DirsIn(fat'[1], sec') = DirsIn(fat[1], sec)
AsBegin == op = NoCall /\ op' \in Ops /\ ~op'.applied /\ answer' = "none" /\ SameView
AsApply ==
    /\ op # NoCall /\ ~op.applied /\ op' # NoCall /\ op'.call = op.call /\ op'.applied /\ answer' = answer
    /\ Changes(op.call, FilesIn(fat[1], sec), DirsIn(fat[1], sec), FilesIn(fat'[1], sec'), DirsIn(fat'[1], sec'))
AsReturn ==
    op # NoCall /\ op' = NoCall /\ answer' \in {"ok", "err", "none"} /\ (answer' = "ok" => op.applied) /\ SameView
Unseen == op # NoCall /\ CallStays(op, op') /\ answer' = answer /\ SameView

LEMMA SameMedium == ASSUME fat' = fat, sec' = sec PROVE SameView
BY DEF SameView

\* A step that leaves the files where they are
LEMMA StillSame == ASSUME FatInv, Still(fat[1], sec, fat'[1], sec') PROVE SameView
<1>1. Vol(fat[1], sec, Held(op), Raw(op))
  BY DEF FatInv, VolInv
<1> QED BY <1>1, StillViews DEF SameView
LEMMA CalmSame == ASSUME FatInv, Calm, fat' = fat PROVE SameView
BY StillSame DEF Calm

\* A call begins.
LEMMA LookupClus ==
    ASSUME FatInv, Idle, NEW d \in DirTops(sec), NEW n, Lookup(Cached, d, n) # Absent
    PROVE  Lookup(Cached, d, n).clus \in Clusters \cup {Nil}
<1>1. Vol(fat[1], sec, {}, {}) /\ Agrees(fat[1], Cached, sec)
  BY IdleIs
<1>2. PICK x : x \in Named(fat[1], sec, d, n)
  BY <1>1, LookupIs
<1>3. Lookup(Cached, d, n) \in Entries
  BY <1>1, <1>2, LookupIs
<1> QED BY <1>3 DEF Entries
LEMMA BeginShows ==
    ASSUME NEW call \in Calls, NEW pc \in {"find", "entry", "unlink"}, NEW old \in Clusters \cup {Nil}, Begin(call, pc, old)
    PROVE  AsBegin
<1> DEFINE o == CallOp(call, pc, old)
<1>1. op' = o /\ op = NoCall /\ fat' = fat /\ sec' = sec /\ answer' = "none"
  BY DEF Begin, CallOp, disk, Idle
<1>2. o \in Ops
  <2>1. Nil \in Clusters \cup {Nil} /\ Nil \in Numbers /\ 0 \in 0..2 /\ 0 \in Nat /\ FALSE \in BOOLEAN
        /\ pc \in {"find", "set", "flush", "data", "dots", "entry", "zero", "unlink", "free", "ret"}
    BY DEF Numbers
  <2> QED BY <2>1 DEF CallOp, Ops
<1>3. ~o.applied
  BY DEF CallOp
<1> QED BY <1>1, <1>2, <1>3, SameMedium DEF AsBegin
LEMMA ParentTop ==
    ASSUME FatInv, Idle, NEW dir \in Dirs \cup {Absent}, Parent(Cached, dir) # Absent
    PROVE  Parent(Cached, dir) \in DirTops(sec)
<1>1. Vol(fat[1], sec, {}, {}) /\ Agrees(fat[1], Cached, sec)
  BY IdleIs
<1> QED BY <1>1, ParentFound
LEMMA WriteBegins == ASSUME FatInv, NEW p \in Paths, NEW v \in Data, fat32_write_file(p, v) PROVE AsBegin
<1> DEFINE d == Parent(Cached, p.dir)
           call == [do |-> "write", path |-> p, v |-> v]
           pc == IF Blocks[v] > 0 THEN "find" ELSE "entry"
           old == IF Lookup(Cached, d, p.leaf) = Absent THEN Nil ELSE Lookup(Cached, d, p.leaf).clus
<1>1. d # Absent /\ Begin(call, pc, old) /\ Idle
  BY DEF fat32_write_file, Begin
<1>2. p.dir \in Dirs \cup {Absent} /\ call \in Calls /\ pc \in {"find", "entry", "unlink"}
  BY FatAssumption DEF Calls
<1>3. d \in DirTops(sec)
  BY <1>1, <1>2, ParentTop
<1> HIDE DEF d
<1>4. old \in Clusters \cup {Nil}
  BY <1>1, <1>3, LookupClus
<1> HIDE DEF call, pc, old
<1> QED BY <1>1, <1>2, <1>4, BeginShows
LEMMA DeleteBegins == ASSUME FatInv, NEW p \in Paths, fat32_delete(p) PROVE AsBegin
<1> DEFINE d == Parent(Cached, p.dir)
           call == [do |-> "delete", path |-> p]
           old == Lookup(Cached, d, p.leaf).clus
<1>1. d # Absent /\ Begin(call, "unlink", old) /\ Idle /\ Lookup(Cached, d, p.leaf) # Absent
  BY DEF fat32_delete, Begin
<1>2. p.dir \in Dirs \cup {Absent} /\ call \in Calls
  BY FatAssumption DEF Calls
<1>3. d \in DirTops(sec)
  BY <1>1, <1>2, ParentTop
<1> HIDE DEF d
<1>4. old \in Clusters \cup {Nil}
  BY <1>1, <1>3, LookupClus
<1> HIDE DEF call, old
<1> QED BY <1>1, <1>2, <1>4, BeginShows
LEMMA DirBegins == ASSUME FatInv, NEW n \in Dirs, fat32_mkdir(n) \/ fat32_rmdir(n) PROVE AsBegin
<1>1. CASE fat32_mkdir(n)
  <2> DEFINE call == [do |-> "mkdir", path |-> n]
  <2>1. Begin(call, "find", Nil)
    BY <1>1 DEF fat32_mkdir
  <2>2. call \in Calls
    BY DEF Calls
  <2> HIDE DEF call
  <2> QED BY <2>1, <2>2, BeginShows
<1>2. CASE fat32_rmdir(n)
  <2> DEFINE call == [do |-> "rmdir", path |-> n]
             old == Lookup(Cached, Root, n).clus
  <2>1. Begin(call, "unlink", old) /\ Idle /\ Lookup(Cached, Root, n) # Absent
    BY <1>2 DEF fat32_rmdir, Begin
  <2>2. call \in Calls
    BY DEF Calls
  <2>3. Root \in DirTops(sec)
    BY <2>1, IdleIs
  <2>4. old \in Clusters \cup {Nil}
    BY <2>1, <2>3, LookupClus
  <2> HIDE DEF call, old
  <2> QED BY <2>1, <2>2, <2>4, BeginShows
<1> QED BY <1>1, <1>2

\* The call searches, sets an entry of the FAT, or frees a chain.
LEMMA SetStays ==
    ASSUME NEW o \in Ops, NEW c \in Numbers, NEW v \in Numbers, NEW then \in {"flush", "data", "zero", "free"}
    PROVE  CallStays(o, SetNext(o, c, v, then))
<1> DEFINE q == SetNext(o, c, v, then)
<1>1. IsSet(q, o, c, v, then)
  BY SetNextMoves
<1> HIDE DEF q
<1>2. q \in Ops /\ q.call = o.call /\ q.applied = o.applied
  BY <1>1 DEF IsSet
<1> QED BY <1>2, OpFields DEF CallStays, q
LEMMA FindUnseen == ASSUME FatInv, FindCluster PROVE Unseen
<1>1. op # NoCall /\ fat' = fat /\ sec' = sec /\ answer' = answer
  BY DEF FindCluster, Is, Idle, disk
<1>2. op \in Ops
  BY <1>1, RunIs
<1>3. CASE op' = Undo(op)
  BY <1>1, <1>2, <1>3, UndoStays, SameMedium DEF Unseen
<1>4. CASE \E c \in Clusters : op' = SetNext([op EXCEPT !.c = c, !.use = IF op.call.do = "mkdir" /\ op.first = Nil
                                                                     THEN "dir" ELSE @], c, Eoc, "flush")
  <2> DEFINE u == IF op.call.do = "mkdir" /\ op.first = Nil THEN "dir" ELSE op.use
  <2>1. PICK c \in Clusters : op' = SetNext([op EXCEPT !.c = c, !.use = u], c, Eoc, "flush")
    BY <1>2, <1>4 DEF Ops
  <2>2. u \in {"file", "dir", "grow"} /\ c \in Numbers /\ Eoc \in Numbers
    BY <1>2, OpFields DEF Numbers
  <2> HIDE DEF u
  <2> DEFINE o == [op EXCEPT !.c = c, !.use = u]
  <2>3. o \in Ops /\ o.call = op.call /\ o.applied = op.applied
    BY <1>2, <2>2 DEF Ops
  <2>4. op' = SetNext(o, c, Eoc, "flush")
    BY <2>1
  <2> HIDE DEF o
  <2>5. CallStays(o, op')
    BY <2>2, <2>3, <2>4, SetStays
  <2>6. CallStays(op, op')
    BY <2>3, <2>5 DEF CallStays
  <2> QED BY <1>1, <2>6, SameMedium DEF Unseen
<1> QED BY <1>3, <1>4 DEF FindCluster
LEMMA SetUnseen == ASSUME FatInv, fat_set_next PROVE Unseen
<1>1. op # NoCall /\ op.pc = "set" /\ sec' = sec /\ answer' = answer
  BY DEF fat_set_next, Is, Idle
<1>2. op \in Ops /\ OpInv(fat[1], sec, op) /\ op.then # ""
  BY <1>1, RunIs DEF OpInv
<1>3. Still(fat[1], sec, fat'[1], sec')
  BY <1>1, SetKeeps DEF Turned
<1>4. SameView
  BY <1>3, StillSame
<1>5. CallStays(op, op')
  <2>1. CASE ~(op.copy < num_fats)
    <3>1. op' = IF op.then = "free" THEN [op EXCEPT !.pc = "free", !.todo = op.c, !.freed = @ + 1] ELSE [op EXCEPT !.pc = op.then]
      BY <2>1 DEF fat_set_next
    <3>2. Done(op, op')
      BY <1>1, <1>2, <3>1, SetDone
    <3> QED BY <3>2, OpFields DEF Done, Same, CallStays
  <2>2. CASE op.copy < num_fats
    <3>1. op.copy \in 1 .. num_fats /\ num_fats \in {1, 2}
      BY <1>1, <1>2, RunIs DEF OpInv, FatTypes
    <3>2. op.copy = 1
      BY <2>2, <3>1
    <3>3. op' = [op EXCEPT !.copy = op.copy + 1]
      BY <1>2, <2>2 DEF fat_set_next, Ops
    <3>4. op' = Second(op)
      BY <3>2, <3>3 DEF Second
    <3> QED BY <1>1, <1>2, <3>4, SecondKeeps, SecondIs DEF Same, CallStays
  <2> QED BY <2>1, <2>2
<1> QED BY <1>1, <1>4, <1>5 DEF Unseen

-----------------------------------------------------------------------------
(***************************************************************************)
(* The other unseen steps, failures and a power loss                       *)
(***************************************************************************)
\* Unseen steps, on with the list
LEMMA TakenUnseen == ASSUME FatInv, Taken PROVE Unseen
<1>1. /\ op # NoCall /\ op.pc = "flush" /\ fat' = fat /\ sec' = sec /\ answer' = answer
      /\ op' = IF op.use = "dir" THEN [op EXCEPT !.pc = "dots", !.first = op.c]
               ELSE IF op.use = "grow" THEN SetNext(op, op.prev, op.c, "zero")
               ELSE IF op.k = 0 THEN [op EXCEPT !.pc = "data", !.first = op.c]
               ELSE SetNext(op, op.prev, op.c, "data")
  BY DEF Taken, Is, Idle
<1>2. op \in Ops /\ Held(op) \subseteq Clusters
  BY <1>1, RunIs
<1>3. op.c \in Clusters
  BY <1>1, <1>2 DEF Held, HeldC
<1>4. op.prev \in Numbers /\ op.c \in Numbers
  BY <1>2, OpFields DEF Numbers
<1>5. ASSUME NEW w \in {"dots", "data"}, op' = [op EXCEPT !.pc = w, !.first = op.c] PROVE CallStays(op, op')
  <2>1. w \in {"find", "set", "flush", "data", "dots", "entry", "zero", "unlink", "free", "ret"}
    OBVIOUS
  <2>2. op' \in Ops /\ op'.call = op.call /\ op'.applied = op.applied
    BY <1>2, <1>3, <1>5, <2>1 DEF Ops
  <2> QED BY <2>2, OpFields DEF CallStays
<1>6. CallStays(op, op')
  BY <1>1, <1>2, <1>4, <1>5, SetStays
<1> QED BY <1>1, <1>6, SameMedium DEF Unseen
LEMMA FreeUnseen == ASSUME FatInv, fat_free_chain PROVE Unseen
<1>1. op # NoCall /\ op.pc = "free" /\ fat' = fat /\ sec' = sec /\ answer' = answer
  BY DEF fat_free_chain, Is, Idle
<1>2. op \in Ops /\ FatTypes
  BY <1>1, RunIs
<1>3. CASE op' = Freed(op, FALSE) \/ op' = Freed(op, TRUE)
  <2>1. CallStays(op, op')
    BY <1>2, <1>3, FreedStays, OpFields
  <2> QED BY <1>1, <2>1, SameMedium DEF Unseen
<1>4. CASE Valid(op.todo) /\ op' = SetNext([op EXCEPT !.c = fat_next(op.todo)], op.todo, Free, "free")
  <2> DEFINE n == fat_next(op.todo)
             o == [op EXCEPT !.c = n]
  <2>1. 1 \in 1 .. num_fats
    BY <1>2 DEF FatTypes
  <2>2. Cached \in Fats
    BY <1>2, <2>1 DEF FatTypes, Cached
  <2>3. n \in Numbers /\ op.todo \in Numbers /\ Free \in Numbers
    BY <1>4, <2>2 DEF fat_next, Fats, Numbers, Valid
  <2> HIDE DEF n
  <2>4. o \in Ops /\ o.call = op.call /\ o.applied = op.applied
    BY <1>2, <2>3 DEF Ops
  <2>5. op' = SetNext(o, op.todo, Free, "free")
    BY <1>4 DEF n
  <2> HIDE DEF o
  <2>6. CallStays(o, op')
    BY <2>3, <2>4, <2>5, SetStays
  <2>7. CallStays(op, op')
    BY <2>4, <2>6 DEF CallStays
  <2> QED BY <1>1, <2>7, SameMedium DEF Unseen
<1> QED BY <1>3, <1>4 DEF fat_free_chain

\* Sectors that no one sees written
LEMMA PlaceStays ==
    ASSUME NEW o \in Ops, NEW w \in {"find", "entry"}, NEW q, q = [o EXCEPT !.pc = w]
    PROVE  CallStays(o, q)
<1>1. w \in {"find", "set", "flush", "data", "dots", "entry", "zero", "unlink", "free", "ret"}
  OBVIOUS
<1>2. q \in Ops /\ q.call = o.call /\ q.applied = o.applied
  BY <1>1 DEF Ops
<1> QED BY <1>2, OpFields DEF CallStays
LEMMA BlockUnseen == ASSUME FatInv, WriteBlock PROVE Unseen
<1>1. op # NoCall /\ op.pc = "data" /\ fat' = fat /\ answer' = answer /\ op' = NextBlock([op EXCEPT !.k = @ + 1, !.prev = op.c])
  BY DEF WriteBlock, Is, Idle, memory
<1>2. op \in Ops /\ OpInv(fat[1], sec, op) /\ Vol(fat[1], sec, Held(op), Raw(op)) /\ Held(op) \subseteq Clusters
  BY <1>1, RunIs
<1>3. PICK d \in Clusters : Works(fat[1], sec, op, d)
  BY <1>1, <1>2, AtWork
<1>4. op.call.do = "write" /\ op.first \in Clusters /\ op.c = Last(Chain(fat[1], op.first)) /\ ~op.applied
  BY <1>1, <1>3 DEF Works, AtData, Extended
<1>5. op.first \in Held(op)
  BY <1>1, <1>2, <1>4, OpFields, HeldAt
<1>6. op.c \in Clusters
  <2>1. IsTop(fat[1], op.first)
    BY <1>2, <1>5, LiveTops
  <2> QED BY <1>4, <2>1, TopFacts
<1>7. BlockNext(op, op.c, op')
  BY <1>1, <1>2, <1>4, <1>6, NextBlockIs
<1>8. CallStays(op, op')
  BY <1>7, OpFields DEF BlockNext, CallStays
<1>9. SameView
  BY <1>1, BlockKeeps, CalmSame
<1> QED BY <1>1, <1>8, <1>9 DEF Unseen
LEMMA DotsUnseen == ASSUME FatInv, WriteDots \/ ZeroCluster PROVE Unseen
<1>1. op # NoCall /\ fat' = fat /\ answer' = answer /\ op' = [op EXCEPT !.pc = "entry"]
  BY DEF WriteDots, ZeroCluster, Is, Idle, memory
<1>2. op \in Ops
  BY <1>1, RunIs
<1>3. CallStays(op, op')
  BY <1>1, <1>2, PlaceStays
<1>4. SameView
  BY <1>1, DotsKeep, ZeroKeeps, CalmSame
<1> QED BY <1>1, <1>3, <1>4 DEF Unseen
LEMMA MarkUnseen == ASSUME FatInv, MarkGap PROVE Unseen
<1>1. op # NoCall /\ fat' = fat /\ answer' = answer /\ op' = op
  BY DEF MarkGap, AtEntry, Is, Idle
<1>2. SameView
  BY <1>1, MarkKeeps, CalmSame
<1> QED BY <1>1, <1>2 DEF Unseen, CallStays
LEMMA GrowUnseen == ASSUME FatInv, Grow PROVE Unseen
<1>1. /\ op # NoCall /\ op.pc = "entry" /\ fat' = fat /\ answer' = answer
      /\ op' = [op EXCEPT !.pc = "find", !.use = "grow", !.prev = Last(Chain(Cached, ParentOf(op.call)))]
  BY DEF Grow, AtEntry, Is, Idle, disk
<1>2. op \in Ops
  BY <1>1, RunIs
<1>3. PICK d \in Clusters : AtDir(d)
  BY <1>1, AtDirIs
<1>4. Last(Chain(Cached, ParentOf(op.call))) \in Clusters
  BY <1>3, TopFacts DEF AtDir
<1>5. op' \in Ops /\ op'.call = op.call /\ op'.applied = op.applied
  <2> DEFINE c == Last(Chain(Cached, ParentOf(op.call)))
             r == [op EXCEPT !.pc = "find", !.use = "grow"]
  <2>1. r \in Ops /\ r.call = op.call /\ r.applied = op.applied
    BY <1>2 DEF Ops
  <2>2. op' = [r EXCEPT !.prev = c] /\ c \in Clusters
    BY <1>1, <1>2, <1>4 DEF Ops
  <2> HIDE DEF r, c
  <2> QED BY <2>1, <2>2 DEF Ops
<1>6. CallStays(op, op')
  BY <1>2, <1>5, OpFields DEF CallStays
<1>7. SameView
  BY <1>1, GrowKeeps, CalmSame
<1> QED BY <1>1, <1>6, <1>7 DEF Unseen

\* Accesses that fail
LEMMA WriteFailsUnseen == ASSUME FatInv, Spares, WriteFails PROVE Unseen
<1>1. op # NoCall /\ fat' = fat /\ sec' = sec /\ answer' = answer /\ Raw(op) = {}
  BY FaultIs DEF WriteFails, disk, Idle
<1>2. op \in Ops /\ OpInv(fat[1], sec, op) /\ Held(op) \subseteq Clusters
  BY <1>1, RunIs
<1>3. CASE op.pc = "set" /\ op.then = "free"
  <2>1. op' = Freed(op, FALSE)
    BY <1>3 DEF WriteFails
  <2>2. CallStays(op, op')
    BY <1>2, <2>1, FreedStays, OpFields
  <2> QED BY <1>1, <2>2, SameMedium DEF Unseen
<1>4. CASE op.pc = "set" /\ op.then = "zero"
  <2>1. PICK d \in Clusters : Works(fat[1], sec, op, d)
    BY <1>2, <1>4, AtWork
  <2>2. op.copy = 1
    <3>1. op.use = "grow"
      BY <1>4, <2>1 DEF Works, AtGrow
    <3>2. ~(op.copy > 1)
      BY <1>1, <1>4, <3>1 DEF Raw
    <3>3. op.copy \in 1 .. num_fats /\ op.copy \in 0 .. 2
      BY <1>2, <1>4, OpFields DEF OpInv
    <3> QED BY <3>2, <3>3
  <2>3. op.c \in Clusters
    BY <1>1, <1>2, <1>4, <2>2 DEF Held, HeldC, Linking
  <2>4. op' = FreeChain(op, op.c, "undo")
    BY <1>4 DEF WriteFails
  <2>5. CallStays(op, op')
    BY <1>2, <2>3, <2>4, FreeChainStays
  <2> QED BY <1>1, <2>5, SameMedium DEF Unseen
<1>5. CASE ~(op.pc = "set" /\ op.then \in {"free", "zero"})
  <2>1. op' = Ret(op, "err") \/ op' = Undo(op)
    BY <1>5 DEF WriteFails
  <2>2. CallStays(op, op')
    BY <1>2, <2>1, RetStays, UndoStays
  <2> QED BY <1>1, <2>2, SameMedium DEF Unseen
<1> QED BY <1>3, <1>4, <1>5
LEMMA ReadFailsUnseen == ASSUME FatInv, op # NoCall, ReadFails PROVE Unseen
<1> DEFINE o == [op EXCEPT !.io = TRUE]
<1>1. fat' = fat /\ sec' = sec /\ answer' = answer /\ op' = IF op.pc = "free" THEN Freed(o, FALSE) ELSE Undo(o)
  BY DEF ReadFails, disk
<1>2. op \in Ops
  BY RunIs
<1>3. o \in Ops /\ o.call = op.call /\ o.applied = op.applied
  BY <1>2 DEF Ops
<1> HIDE DEF o
<1>4. CallStays(o, op')
  BY <1>1, <1>3, FreedStays, UndoStays, OpFields
<1>5. CallStays(op, op')
  BY <1>3, <1>4 DEF CallStays
<1> QED BY <1>1, <1>5, SameMedium DEF Unseen

-----------------------------------------------------------------------------
(***************************************************************************)
(* Every step, as the store sees it                                        *)
(***************************************************************************)
\* The call has taken effect: it gives back what it held, or returns.
Applied(o, q) == q # NoCall /\ q.call = o.call /\ q.applied
LEMMA AppliedOk ==
    ASSUME NEW o \in Ops, NEW q, q = [o EXCEPT !.applied = TRUE]
    PROVE  Applied(o, Ret(q, "ok")) /\ \A c \in Clusters : Applied(o, FreeChain(q, c, "ok"))
<1>1. q \in Ops /\ q.call = o.call /\ q.applied
  BY DEF Ops
<1>2. CallStays(q, Ret(q, "ok")) /\ \A c \in Clusters : CallStays(q, FreeChain(q, c, "ok"))
  BY <1>1, RetStays, FreeChainStays
<1> QED BY <1>1, <1>2 DEF CallStays, Applied

LEMMA PutShows == ASSUME FatInv, PutEntry PROVE AsApply
<1>1. /\ op # NoCall /\ op.pc = "entry" /\ NewName /\ fat' = fat /\ answer' = answer
      /\ op' = Ret([op EXCEPT !.applied = TRUE], "ok")
  BY DEF PutEntry, AtEntry, Is, Idle
<1>2. op \in Ops
  BY <1>1, RunIs
<1>3. PICK d, x : PutAs(d, x)
  BY PutKeeps
<1>4. /\ AtDir(d) /\ x \in AllSlots /\ x \notin E(sec) /\ E(sec') = E(sec) \cup {x} /\ \A y \in E(sec) : Val(sec', y) = Val(sec, y)
      /\ Val(sec', x) = NewEntry /\ x[1] \in Owns(fat[1], d) /\ Rewrites(sec, sec', x[1])
  BY <1>3 DEF PutAs, Puts
<1>5. ~op.applied /\ d \in DirTops(sec) /\ Named(fat[1], sec, d, LeafOf(op.call)) = {}
  BY <1>1, <1>4 DEF AtDir, Base, NewName
<1>6. NewEntry.name = LeafOf(op.call) /\ op.call.do \in {"write", "mkdir"}
  BY <1>1, <1>2, <1>4, NewEntryIs
<1>7. Applied(op, op')
  BY <1>1, <1>2, AppliedOk
<1>8. Changes(op.call, FilesIn(fat[1], sec), DirsIn(fat[1], sec), FilesIn(fat[1], sec'), DirsIn(fat[1], sec'))
  <2>1. CASE op.call.do = "mkdir"
    BY <1>1, <1>3, <2>1, MkdirShows
  <2>2. CASE op.call.do = "write"
    <3>1. Only(fat[1], sec, sec', d, x, LeafOf(op.call))
      BY <1>4, <1>5, <1>6 DEF Only, Touched
    <3>2. x \in E(sec')
      BY <1>4
    <3> QED BY <1>1, <1>4, <2>2, <3>1, <3>2, WriteShows
  <2> QED BY <1>6, <2>1, <2>2
<1> QED BY <1>1, <1>5, <1>7, <1>8 DEF AsApply, Applied

LEMMA UpdateShows == ASSUME FatInv, UpdateEntry PROVE AsApply
<1>1. /\ op # NoCall /\ op.pc = "entry" /\ fat' = fat /\ answer' = answer
      /\ op' = LET o == [op EXCEPT !.applied = TRUE] IN
               IF Valid(op.old) THEN FreeChain(o, op.old, "ok") ELSE Ret(o, "ok")
  BY DEF UpdateEntry, AtEntry, Is, Idle
<1>2. op \in Ops
  BY <1>1, RunIs
<1>3. PICK d, x : Updates(d, x)
  BY UpdateKeeps
<1>4. /\ AtDir(d) /\ x \in E(sec) /\ E(sec') = E(sec) /\ Val(sec', x) = NewEntry
      /\ Named(fat[1], sec, d, LeafOf(op.call)) = {x}
      /\ \A y \in E(sec) : y # x => Val(sec', y) = Val(sec, y)
      /\ Rewrites(sec, sec', x[1])
  BY <1>3 DEF Updates
<1>5. ~op.applied /\ d \in DirTops(sec) /\ AtMaking(fat[1], sec, op, d)
  BY <1>4 DEF AtDir, Base
<1>6. op.call.do = "write" /\ NewEntry.name = LeafOf(op.call)
  <2>1. NewEntry.name = LeafOf(op.call) /\ op.call.do \in {"write", "mkdir"}
    BY <1>1, <1>2, <1>4, NewEntryIs
  <2> QED BY <1>1, <1>4, <1>5, <2>1 DEF AtMaking
<1>7. Applied(op, op')
  <2> DEFINE o == [op EXCEPT !.applied = TRUE]
  <2>1. (op' = FreeChain(o, op.old, "ok") /\ op.old \in Clusters) \/ op' = Ret(o, "ok")
    BY <1>1 DEF Valid
  <2> HIDE DEF o
  <2>2. Applied(op, Ret(o, "ok")) /\ \A c \in Clusters : Applied(op, FreeChain(o, c, "ok"))
    BY <1>2, AppliedOk DEF o
  <2> QED BY <2>1, <2>2
<1>8. x \in AllSlots /\ x[1] \in Owns(fat[1], d) /\ Val(sec, x).name = LeafOf(op.call)
  BY <1>4 DEF Named, E
<1>9. Only(fat[1], sec, sec', d, x, LeafOf(op.call)) /\ x \in E(sec')
  BY <1>4, <1>5, <1>6, <1>8 DEF Only, Touched
<1>10. Changes(op.call, FilesIn(fat[1], sec), DirsIn(fat[1], sec), FilesIn(fat[1], sec'), DirsIn(fat[1], sec'))
  BY <1>1, <1>4, <1>6, <1>9, WriteShows
<1> QED BY <1>1, <1>5, <1>7, <1>10 DEF AsApply, Applied

LEMMA UnlinkShows == ASSUME FatInv, Unlink PROVE AsApply
<1>1. /\ op # NoCall /\ op.pc = "unlink" /\ fat' = fat /\ answer' = answer
      /\ op' = LET o == [op EXCEPT !.applied = TRUE] IN
               IF Valid(op.old) THEN FreeChain(o, op.old, "ok") ELSE Ret(o, "ok")
  BY DEF Unlink, Is, Idle, memory
<1>2. op \in Ops
  BY <1>1, RunIs
<1>3. PICK d, x : Removes(d, x)
  BY UnlinkKeeps
<1>4. AtDir(d)
  BY <1>3 DEF Removes
<1>5. ~op.applied /\ op.call.do \in {"delete", "rmdir"}
  BY <1>1, <1>4 DEF AtDir, Works, AtUnlink
<1>6. Applied(op, op')
  <2> DEFINE o == [op EXCEPT !.applied = TRUE]
  <2>1. (op' = FreeChain(o, op.old, "ok") /\ op.old \in Clusters) \/ op' = Ret(o, "ok")
    BY <1>1 DEF Valid
  <2> HIDE DEF o
  <2>2. Applied(op, Ret(o, "ok")) /\ \A c \in Clusters : Applied(op, FreeChain(o, c, "ok"))
    BY <1>2, AppliedOk DEF o
  <2> QED BY <2>1, <2>2
<1>7. Changes(op.call, FilesIn(fat[1], sec), DirsIn(fat[1], sec), FilesIn(fat[1], sec'), DirsIn(fat[1], sec'))
  BY <1>1, <1>3, <1>5, DeleteShows, RmdirShows
<1> QED BY <1>1, <1>5, <1>6, <1>7 DEF AsApply, Applied

LEMMA ReturnShows == ASSUME FatInv, Return PROVE AsReturn
<1>1. op # NoCall /\ op.pc = "ret" /\ op' = NoCall /\ answer' = op.after /\ fat' = fat /\ sec' = sec
  BY DEF Return, Is, Idle, disk
<1>2. Returns(op) /\ op.after \in {"ok", "err", "undo"}
  BY <1>1, RunIs, OpFields DEF OpInv
<1> QED BY <1>1, <1>2, SameMedium DEF AsReturn, Returns
LEMMA PowerLossShows == ASSUME FatInv, op # NoCall, PowerLoss PROVE AsReturn
<1>1. op' = NoCall /\ answer' = "none" /\ fat' = fat /\ sec' = sec
  BY DEF PowerLoss, disk
<1> QED BY <1>1, SameMedium DEF AsReturn

LEMMA StepShows == ASSUME FatInv, Spares, Next PROVE AsBegin \/ AsApply \/ AsReturn \/ Unseen
<1>1. CASE \E p \in Paths : fat32_delete(p) \/ \E v \in Data : fat32_write_file(p, v)
  BY <1>1, DeleteBegins, WriteBegins
<1>2. CASE \E n \in Dirs : fat32_mkdir(n) \/ fat32_rmdir(n)
  BY <1>2, DirBegins
<1>3. CASE Step
  <2>1. CASE FindCluster \/ fat_set_next \/ Taken \/ fat_free_chain
    BY <2>1, FindUnseen, SetUnseen, TakenUnseen, FreeUnseen
  <2>2. CASE WriteBlock \/ WriteDots \/ ZeroCluster
    BY <2>2, BlockUnseen, DotsUnseen
  <2>3. CASE MarkGap \/ PutEntry \/ Grow
    BY <2>3, MarkUnseen, PutShows, GrowUnseen
  <2>4. CASE UpdateEntry \/ Unlink \/ Return
    BY <2>4, UpdateShows, UnlinkShows, ReturnShows
  <2> QED BY <1>3, <2>1, <2>2, <2>3, <2>4 DEF Step
<1>4. CASE ~Idle /\ (WriteFails \/ ReadFails \/ PowerLoss)
  BY <1>4, WriteFailsUnseen, ReadFailsUnseen, PowerLossShows DEF Idle
<1> QED BY <1>1, <1>2, <1>3, <1>4 DEF Next

-----------------------------------------------------------------------------
(***************************************************************************)
(* The refinement                                                          *)
(***************************************************************************)
\* FileStore's variables, as the volume shows them
StoreFiles == [p \in Paths |-> ReadFile(fat[1], p)]
StoreDirs == {n \in Dirs : Lookup(fat[1], Root, n) # Absent}
StoreCall == IF Idle THEN NoCall ELSE op.call
StoreApplied == ~Idle /\ op.applied

LEMMA StoreBegins == ASSUME Init PROVE Store!Init
<1>1. op = NoCall /\ answer = "none" /\ sec = [c \in Clusters |-> Blank]
  BY DEF Init
<1>2. FatInv
  BY FatBegins
<1>3. ViewIs
  BY <1>2, Views
<1>4. E(sec) = {}
  <2>1. ASSUME NEW x \in AllSlots PROVE Val(sec, x).kind = "0x00"
    <3>1. x[1] \in Clusters /\ x[2] \in 1 .. Slots
      BY DEF AllSlots
    <3>2. sec[x[1]] = Blank
      BY <1>1, <3>1
    <3>3. Blank.kind = "dir" /\ Blank.slots[x[2]] = Slot("0x00")
      BY <3>1 DEF Blank, Dir
    <3> QED BY <3>2, <3>3 DEF Val, Slot
  <2> QED BY <2>1 DEF E
<1>5. FilesIn(fat[1], sec) = [p \in Paths |-> Absent] /\ DirsIn(fat[1], sec) = {}
  BY <1>4 DEF FilesIn, DirsIn, FileIs, FileAt, Named
<1> QED BY <1>1, <1>3, <1>5 DEF Store!Init, ViewIs, Idle

LEMMA StoreStep == ASSUME FatInv, FatInv', Spares, [Next]_vars PROVE [Store!Next]_(Store!vars)
<1> DEFINE F == FilesIn(fat[1], sec)
           D == DirsIn(fat[1], sec)
           G == FilesIn(fat'[1], sec')
           K == DirsIn(fat'[1], sec')
<1>1. StoreFiles = F /\ StoreDirs = D
  BY Views DEF ViewIs, StoreFiles, StoreDirs
<1>2. StoreFiles' = G /\ StoreDirs' = K
  BY ViewsNext DEF ViewIs, StoreFiles, StoreDirs
<1>3. /\ op = NoCall => StoreCall = NoCall /\ StoreApplied = FALSE
      /\ op # NoCall => StoreCall = op.call /\ StoreApplied = op.applied
  <2>1. op # NoCall => op.applied \in BOOLEAN
    BY RunIs, OpFields
  <2> QED BY <2>1 DEF StoreCall, StoreApplied, Idle
<1>4. /\ op' = NoCall => StoreCall' = NoCall /\ StoreApplied' = FALSE
      /\ op' # NoCall => StoreCall' = op'.call /\ StoreApplied' = op'.applied /\ op' \in Ops
  <2>1. op' # NoCall => op' \in Ops
    BY DEF FatInv, FatTypes
  <2>2. op' # NoCall => op'.applied \in BOOLEAN
    BY <2>1, OpFields
  <2> QED BY <2>1, <2>2 DEF StoreCall, StoreApplied, Idle
<1>5. op # NoCall => op \in Ops /\ op.call \in Calls /\ op.call # NoCall
  <2>1. NoCall \notin Calls
    BY FatAssumption
  <2>2. op # NoCall => op \in Ops
    BY RunIs
  <2> QED BY <2>1, <2>2, OpFields
<1>6. CASE UNCHANGED vars
  <2>1. fat' = fat /\ sec' = sec /\ op' = op /\ answer' = answer
    BY <1>6 DEF vars, disk, memory
  <2>2. StoreFiles' = StoreFiles /\ StoreDirs' = StoreDirs /\ StoreCall' = StoreCall /\ StoreApplied' = StoreApplied
    BY <1>1, <1>2, <1>3, <1>4, <2>1
  <2> QED BY <2>1, <2>2 DEF Store!vars, StoreFiles, StoreDirs, StoreCall, StoreApplied
<1>7. CASE AsBegin
  <2>1. StoreFiles' = StoreFiles /\ StoreDirs' = StoreDirs
    BY <1>1, <1>2, <1>7 DEF AsBegin, SameView
  <2>2. op' # NoCall /\ op'.call \in Calls /\ ~op'.applied
    BY <1>7, OpFields DEF AsBegin
  <2>3. StoreCall = NoCall /\ StoreCall' \in Calls /\ StoreApplied' = FALSE /\ answer' = "none"
    BY <1>3, <1>4, <1>7, <2>2 DEF AsBegin
  <2>4. Store!Begin
    BY <2>1, <2>3 DEF Store!Begin, Store!Calls, Calls, StoreFiles, StoreDirs, StoreCall, StoreApplied
  <2> QED BY <2>4 DEF Store!Next
<1>8. CASE AsApply
  <2>1. Changes(op.call, F, D, G, K)
    BY <1>8 DEF AsApply
  <2>2. /\ StoreCall = op.call /\ StoreCall' = StoreCall /\ StoreCall # NoCall /\ StoreApplied = FALSE
        /\ StoreApplied' = TRUE /\ answer' = answer
    BY <1>3, <1>4, <1>5, <1>8 DEF AsApply
  <2>3. Changes(StoreCall, StoreFiles, StoreDirs, StoreFiles', StoreDirs')
    BY <1>1, <1>2, <2>1, <2>2
  <2>4. \A p \in Paths : InDir[p] = p.dir
    BY DEF InDir
  <2>5. StoreCall.do \in {"write", "delete"} => StoreCall.path \in Paths
    BY <1>5, <1>8, <2>2, CallKinds DEF AsApply
  <2>6. Store!Apply
    BY <2>2, <2>3, <2>4, <2>5 DEF Store!Apply, Changes, StoreFiles, StoreDirs, StoreCall, StoreApplied
  <2> QED BY <2>6 DEF Store!Next
<1>9. CASE AsReturn
  <2>1. StoreFiles' = StoreFiles /\ StoreDirs' = StoreDirs
    BY <1>1, <1>2, <1>9 DEF AsReturn, SameView
  <2>2. /\ StoreCall # NoCall /\ StoreCall' = NoCall /\ StoreApplied' = FALSE /\ answer' \in {"ok", "err", "none"}
        /\ answer' = "ok" => StoreApplied
    BY <1>3, <1>4, <1>5, <1>9 DEF AsReturn
  <2>3. Store!Return
    BY <2>1, <2>2 DEF Store!Return, StoreFiles, StoreDirs, StoreCall, StoreApplied
  <2> QED BY <2>3 DEF Store!Next
<1>10. CASE Unseen
  <2>1. StoreFiles' = StoreFiles /\ StoreDirs' = StoreDirs
    BY <1>1, <1>2, <1>10 DEF Unseen, SameView
  <2>2. StoreCall' = StoreCall /\ StoreApplied' = StoreApplied /\ answer' = answer
    BY <1>3, <1>4, <1>10 DEF Unseen, CallStays
  <2> QED BY <2>1, <2>2 DEF Store!vars, StoreFiles, StoreDirs, StoreCall, StoreApplied
<1> QED BY <1>6, <1>7, <1>8, <1>9, <1>10, StepShows

\* A call that meets no failing access and no power loss leaks no cluster, in every
\* run of the system, whatever files are written, deleted and made: the clusters
\* in use are those of the root, the directories and the files, every copy of the FAT
\* is the same and free_count is the number of free clusters.
THEOREM NothingLeaks == StorageSpec => []NoClusterLost
<1>1. StorageInit => NoFaultsExact
  <2> SUFFICES ASSUME StorageInit PROVE NoFaultsExact
    OBVIOUS
  <2>1. Init /\ faults = 0
    BY DEF StorageInit, Init
  <2> QED BY <2>1, FatBegins, BeginsAsExact DEF NoFaultsExact
<1>2. NoFaultsExact /\ [StorageNext]_storage_vars => NoFaultsExact'
  <2> SUFFICES ASSUME NoFaultsExact, [StorageNext]_storage_vars PROVE NoFaultsExact'
    OBVIOUS
  <2>1. [Next]_vars
    BY DEF StorageNext, InFat32, InUsers, InUsb, storage_vars
  <2> QED BY <2>1, NoFaultsStep
<1>3. NoFaultsExact => NoClusterLost
  BY NothingLostIs DEF NoClusterLost, OnVolume
<1> QED BY <1>1, <1>2, <1>3, PTL DEF StorageSpec

\* Whatever access fails and wherever the power is lost, the sector writes of the
\* driver show the callers an atomic store: a call changes the file or the directory
\* it names and nothing else, at one point between its begin and its return, and
\* an answer "ok" comes after that point.
THEOREM TheVolumeIsAStore == ASSUME ~GrowthFaults PROVE StorageSpec => VolumeIsStore
<1>1. StorageInit => Store!Init
  BY StoreBegins DEF StorageInit
<1>2. FatInv /\ FatInv' /\ [StorageNext]_storage_vars => [OnVolume([Store!Next]_(Store!vars))]_storage_vars
  <2> SUFFICES ASSUME FatInv, FatInv', [StorageNext]_storage_vars PROVE [Store!Next]_(Store!vars)
    BY DEF OnVolume
  <2>1. [Next]_vars
    BY DEF StorageNext, InFat32, InUsers, InUsb, storage_vars
  <2> QED BY <2>1, StoreStep DEF Spares
<1> QED BY <1>1, <1>2, FatInductive, PTL DEF StorageSpec, VolumeIsStore
-----------------------------------------------------------------------------
(***************************************************************************)
(* The stick: what its driver and the device have in common                *)
(*                                                                         *)
(* Without a fault a command runs in step: CBW, data and CSW lie on the    *)
(* rings and are taken one after the other. One fault leaves the driver    *)
(* one TRB or one event behind the device. The states it can then be in    *)
(* are few, and in each the CSW in g_csw has the tag of the command only   *)
(* when its data have moved. From there the two get back into step, or     *)
(* an endpoint halts, or they wait for each other: no command passes any   *)
(* more then.                                                              *)
(***************************************************************************)

\* The TRB of a CBW, and what may lie on the IN ring from an earlier command
CbwTrb == [buf |-> "cbw", len |-> 31, at |-> 0]
InTrbs == [buf : {"buf", "g_buf", "csw"}, len : Nat, at : Nat]
OldWrites == [buf : {"buf"}, len : Nat, at : Nat]
\* Transfer events without an error
Going == [type : {"xfer"}, code : {"success", "short"}, resid : Int]
Port == [type |-> "port"]

\* A sequence of one item, of two, and of a port event and one
One(S, s) == Len(s) = 1 /\ s = <<s[1]>> /\ s[1] \in S
Two(S, s) == Len(s) = 2 /\ s = <<s[1], s[2]>> /\ s[1] \in S /\ s[2] \in S
PortAnd(S, s) ==
    /\ Len(s) = 2 /\ s = <<s[1], s[2]>>
    /\ (s[1] = Port /\ s[2] \in S) \/ (s[1] \in S /\ s[2] = Port)
\* n transfer events wait, none of an error.
Pending(n) == CASE n = 0 -> evs = <<>> [] n = 1 -> One(Going, evs) [] OTHER -> Two(Going, evs)
\* The same where a port event, the one fault, may be among them
Queued(n) == Pending(n) \/ (usbFaults = 1 /\ IF n = 0 THEN evs = <<Port>> ELSE PortAnd(Going, evs))
\* What lies on the two rings
On(o, i) == out = o /\ in = i

Writes == cmd.op = "write"
Rw == usbCall.do \in {"read", "write"}
\* The device runs the command of the driver, or has its answer; it says of a command that it failed.
Running == dev.at = (IF Writes THEN "out" ELSE "in") /\ dev.cbw.tag = g_tag
Answers == dev.at = "csw" /\ dev.csw.tag = g_tag
Refuses == dev.at = "csw" /\ dev.csw.status # 0
\* What the device runs is of an earlier command.
Earlier ==
    /\ dev.at \in {"in", "out"} => dev.cbw.tag < g_tag
    /\ dev.at = "csw" => dev.csw.tag < g_tag
NoFail == dev.at \in {"in", "out"} => ~dev.fails
\* A TRB of an earlier call is left only where the call has moved nothing yet.
AtFirst == Rw => usbCall.i = 0
\* The buffer still holds what the running write is to write.
Unwritten == usbCall.do = "write" => \A j \in usbCall.i .. usbCall.count - 1 : usbBuf[j] = usbCall.v

Failed == cmd.pc = "err" /\ ~B!Passed

\* Between two commands. The first state is that of a driver that has missed nothing; in
\* the others the one fault has left a TRB or an event behind.
AtRest ==
    /\ B!Done /\ (B!Ok => Unwritten)
    /\ \/ On(<<>>, <<>>) /\ Queued(0) /\ dev.at = "cbw"
       \/ /\ usbFaults = 1
          /\ NoFail
          /\ \/ On(<<CbwTrb>>, <<>>) /\ Pending(0) /\ dev.at = "cbw"
             \/ One(OldWrites, out) /\ in = <<>> /\ Pending(0) /\ dev.at \in {"cbw", "out"} /\ Failed
             \/ out = <<>> /\ One(InTrbs, in) /\ Pending(0) /\ dev.at = "in" /\ Failed
             \/ On(<<>>, <<B!CswTrb>>) /\ Pending(0) /\ (dev.at = "cbw" \/ (dev.at = "csw" /\ Failed))
             \/ On(<<>>, <<>>) /\ Pending(1)

\* The driver waits for its CBW, its data, its CSW: likewise.
CbwPhase ==
    /\ cmd.pc = "cbw" /\ ~B!Passed
    /\ \/ On(<<CbwTrb>>, <<>>) /\ Queued(0) /\ dev.at = "cbw" /\ Unwritten
       \/ On(<<>>, <<>>) /\ Queued(1) /\ Running /\ (usbFaults = 0 => NoFail) /\ Unwritten
       \/ /\ usbFaults = 1 /\ NoFail
          /\ \/ On(<<CbwTrb, CbwTrb>>, <<>>) /\ Pending(0) /\ dev.at = "cbw" /\ Unwritten
             \/ /\ Len(out) = 2 /\ On(<<out[1], CbwTrb>>, <<>>) /\ out[1] \in OldWrites /\ Pending(0)
                /\ dev.at \in {"cbw", "out"} /\ Earlier /\ AtFirst /\ Unwritten
             \/ out = <<CbwTrb>> /\ One(InTrbs, in) /\ Pending(0) /\ dev.at = "in" /\ Earlier /\ AtFirst
             \/ On(<<CbwTrb>>, <<B!CswTrb>>) /\ Pending(0) /\ dev.at \in {"cbw", "csw"} /\ Earlier /\ Unwritten
             \/ On(<<CbwTrb>>, <<>>) /\ Pending(1) /\ (IF dev.at = "csw" THEN Earlier ELSE Unwritten)
             \/ On(<<>>, <<B!CswTrb>>) /\ Pending(1) /\ Running /\ Unwritten
             \/ On(<<>>, <<>>) /\ Pending(2) /\ (Running \/ (dev.at = "csw" /\ (Writes => Refuses))) /\ Unwritten

DataPhase ==
    /\ cmd.pc = "data" /\ Unwritten
    /\ \/ On(IF Writes THEN <<B!DataTrb>> ELSE <<>>, IF Writes THEN <<>> ELSE <<B!DataTrb>>) /\ Queued(0)
             /\ Running /\ (usbFaults = 0 => NoFail) /\ ~B!Passed
       \/ On(<<>>, <<>>) /\ Queued(1) /\ Answers /\ ~B!Passed
       \/ /\ usbFaults = 1 /\ NoFail /\ ~B!Passed /\ ~Writes
          /\ \/ On(<<CbwTrb>>, <<B!DataTrb>>) /\ Pending(0)
             \/ On(<<CbwTrb>>, <<>>) /\ Pending(1) /\ dev.at \in {"cbw", "csw"}
             \/ On(<<>>, <<B!DataTrb>>) /\ Pending(1) /\ (Running \/ dev.at = "csw")
             \/ On(<<>>, <<B!CswTrb, B!DataTrb>>) /\ Pending(0) /\ Running
             \/ On(<<>>, <<>>) /\ Pending(2) /\ Running
       \/ /\ usbFaults = 1 /\ NoFail /\ ~B!Passed /\ Writes
          /\ \/ On(<<CbwTrb, B!DataTrb>>, <<>>) /\ Pending(0) /\ dev.at \in {"cbw", "out"}
             \/ On(<<B!DataTrb>>, <<>>) /\ Pending(1) /\ (Running \/ Refuses)
             \/ On(<<B!DataTrb>>, <<B!CswTrb>>) /\ Pending(0) /\ Running
       \/ /\ usbFaults = 1 /\ NoFail
          /\ \/ On(<<>>, <<B!CswTrb>>) /\ Pending(1) /\ dev.at = "csw" /\ ~B!Passed
             \/ On(<<>>, <<>>) /\ Pending(2) /\ (dev.at = "cbw" \/ (dev.at = "csw" /\ ~B!Passed))

CswPhase ==
    /\ cmd.pc = "csw" /\ Unwritten
    /\ \/ On(<<>>, <<B!CswTrb>>) /\ Queued(0) /\ Answers /\ ~B!Passed
       \/ On(<<>>, <<>>) /\ Queued(1) /\ dev.at = "cbw"
       \/ /\ usbFaults = 1 /\ NoFail /\ ~Writes
          /\ \/ On(<<CbwTrb>>, <<B!CswTrb>>) /\ Pending(0) /\ (dev.at = "csw" \/ dev.at = "cbw") /\ ~B!Passed
             \/ On(<<CbwTrb>>, <<>>) /\ Pending(1) /\ dev.at = "cbw"
             \/ On(<<>>, <<B!DataTrb, B!CswTrb>>) /\ Pending(0) /\ (Running \/ dev.at = "csw") /\ ~B!Passed
             \/ On(<<>>, <<B!CswTrb>>) /\ Pending(1) /\ Running /\ ~B!Passed
       \/ /\ usbFaults = 1 /\ NoFail /\ Writes
          /\ \/ On(<<B!DataTrb>>, <<B!CswTrb>>) /\ Pending(0) /\ (Running \/ Refuses) /\ ~B!Passed
             \/ On(<<B!DataTrb>>, <<>>) /\ Pending(1) /\ dev.at = "cbw" /\ ~B!Passed
       \/ /\ usbFaults = 1 /\ NoFail
          /\ \/ On(<<>>, <<B!CswTrb>>) /\ Pending(1) /\ (dev.at = "cbw" \/ (dev.at = "csw" /\ ~B!Passed))
             \/ On(<<>>, <<B!CswTrb, B!CswTrb>>) /\ Pending(0) /\ dev.at = "csw"
             \/ On(<<>>, <<>>) /\ Pending(2)

InStep == halted = {} /\ (AtRest \/ CbwPhase \/ DataPhase \/ CswPhase)

\* No command can pass any more: an endpoint is halted, or the driver sends what the
\* device does not take while the device has what the driver does not ask for.
Hopeless == ~B!Passed /\ ~B!Ok /\ (usbCall.do = "ret" => ~usbCall.ok)
InLost == "in" \in halted /\ Hopeless
OutLost == "out" \in halted /\ Hopeless /\ (dev.at = "cbw" \/ Refuses)
Stuck ==
    /\ usbFaults = 1 /\ evs = <<>> /\ in = <<>> /\ halted = {}
    /\ dev.at \in {"in", "csw"}
    /\ cmd.pc \in {"cbw", "err"} \/ (cmd.pc = "data" /\ Writes)
    /\ usbCall.do = "ret" => ~usbCall.ok

\* The piece j of the call c is on the stick and in the buffer.
SameAt(c, j) == usbBuf[j] = medium[c.lba + j] /\ (c.do = "write" => usbBuf[j] = c.v)
Within(c) == c.lba \in B!Lbas /\ c.count \in 1 .. Pieces - c.lba

Commands == {"inquiry", "capacity", "sense", "read", "write"}
Cmds == [pc : {"cbw", "data", "csw", "again", "ok", "err"}, op : Commands, at : Nat]
RwCalls == [do : {"read", "write"}, lba : Nat, count : Nat, v : Values \cup {Junk}, i : Nat]
InitCalls == [do : {"init"}, step : {"start", "inquiry", "capacity", "sense"}, tries : Nat]

\* The driver: before the first command nothing has moved; then g_cbw is that of the
\* command and the command that of the call.
HostOK ==
    /\ g_tag \in Nat
    /\ g_tag = 0 => /\ B!Done /\ usbCall.do = "init" /\ usbCall.step = "start"
                    /\ dev.at = "cbw" /\ out = <<>> /\ in = <<>> /\ g_csw = Junk
    /\ g_tag # 0 => cmd \in Cmds /\ g_cbw.tag = g_tag /\ g_cbw.op = cmd.op
    /\ usbCall.do \in {"init", "none", "ret", "read", "write"}
    /\ usbCall.do = "init" => usbCall \in InitCalls
    /\ Rw => /\ usbCall \in RwCalls /\ Within(usbCall) /\ usbCall.i < usbCall.count
             /\ g_tag # 0 /\ cmd.op = usbCall.do /\ cmd.at = usbCall.i /\ g_cbw.lba = usbCall.lba + usbCall.i
    /\ B!Waits => Rw \/ (usbCall.do = "init" /\ ~Writes /\ cmd.op # "read")
    /\ usbCall.do = "ret" /\ usbCall.ok => B!Ok /\ Within(usbCall.of)
\* The device: what it runs has a tag the driver has given.
DevOK ==
    /\ dev.at \in {"cbw", "in", "out", "csw"}
    /\ dev.at \in {"in", "out"} =>
          /\ dev.cbw.tag \in 0 .. g_tag
          /\ dev.cbw.tag = g_tag => dev.cbw = g_cbw
          /\ dev.cbw.op \in Commands /\ (dev.at = "out" <=> dev.cbw.op = "write")
          /\ dev.fails \in BOOLEAN
    /\ dev.at = "csw" => dev.csw.tag \in 0 .. g_tag
    /\ g_csw # Junk => g_csw.tag \in 0 .. g_tag
\* The buffers and the bounds
BufOK ==
    /\ MaxUsbFaults \in 0 .. 1 /\ usbFaults \in 0 .. MaxUsbFaults
    /\ g_buf \in {Junk, Pieces} /\ g_sectors \in {0, Pieces}
    /\ DOMAIN usbBuf = B!Lbas /\ DOMAIN medium = B!Lbas
    /\ usbBuf = [i \in B!Lbas |-> usbBuf[i]] /\ medium = [i \in B!Lbas |-> medium[i]]

\* What has been moved, where a command still can pass
PiecesMoved ==
    /\ Rw /\ cmd.pc # "err" => \A j \in 0 .. usbCall.i - 1 : SameAt(usbCall, j)
    /\ Rw /\ cmd.pc # "err" /\ (B!Passed \/ B!Ok) => SameAt(usbCall, usbCall.i)
    /\ Rw /\ B!Waits /\ Answers /\ ~Refuses => SameAt(usbCall, usbCall.i)
    /\ usbCall.do = "ret" /\ usbCall.ok => \A j \in 0 .. usbCall.of.count - 1 : SameAt(usbCall.of, j)

UsbInv == HostOK /\ DevOK /\ BufOK /\ ((InStep /\ PiecesMoved) \/ InLost \/ OutLost \/ Stuck)

-----------------------------------------------------------------------------
LEMMA Heads == \A a, b : Head(<<a>>) = a /\ Head(<<a, b>>) = a
  OBVIOUS
LEMMA Tails == \A a, b : Tail(<<a>>) = <<>> /\ Tail(<<a, b>>) = <<b>>
  OBVIOUS
LEMMA Appends == \A a, b : Append(<<>>, a) = <<a>> /\ Append(<<a>>, b) = <<a, b>>
<1>1. ASSUME NEW a PROVE Append(<<>>, a) = <<a>>
  <2>1. <<>> \in Seq({a}) /\ <<a>> \in Seq({a}) OBVIOUS
  <2>2. Append(<<>>, a) \in Seq({a}) /\ Len(Append(<<>>, a)) = 1 /\ Append(<<>>, a)[1] = a BY <2>1
  <2> QED BY <2>1, <2>2, SeqEqual
<1>2. ASSUME NEW a, NEW b PROVE Append(<<a>>, b) = <<a, b>>
  <2>1. <<a>> \in Seq({a, b}) /\ <<a, b>> \in Seq({a, b}) OBVIOUS
  <2>2. /\ Append(<<a>>, b) \in Seq({a, b}) /\ Len(Append(<<a>>, b)) = 2
        /\ Append(<<a>>, b)[1] = a /\ Append(<<a>>, b)[2] = b BY <2>1
  <2>3. \A i \in 1 .. 2 : Append(<<a>>, b)[i] = <<a, b>>[i] BY <2>2
  <2> QED BY <2>1, <2>2, <2>3, SeqEqual
<1> QED BY <1>1, <1>2

LEMMA Items ==
    /\ \A S, e : e \in S => One(S, <<e>>)
    /\ \A S, e, g : e \in S /\ g \in S => Two(S, <<e, g>>)
    /\ \A S, e : e \in S => PortAnd(S, <<Port, e>>) /\ PortAnd(S, <<e, Port>>)
  BY DEF One, Two, PortAnd

LEMMA ItemsAre ==
    /\ \A S, s : One(S, s) => \E e \in S : s = <<e>>
    /\ \A S, s : Two(S, s) => \E e, g \in S : s = <<e, g>>
    /\ \A S, s : PortAnd(S, s) => \E e \in S : s = <<Port, e>> \/ s = <<e, Port>>
  BY DEF One, Two, PortAnd

LEMMA PendingMore ==
    ASSUME NEW e, evs' = Append(evs, e), e \in Going
    PROVE  /\ Pending(0) => Pending(1)'
           /\ Pending(1) => Pending(2)'
           /\ Queued(0) /\ usbFaults' = usbFaults => Queued(1)'
           /\ Pending(0) => Queued(1)'
<1>1. Pending(0) => Pending(1)'
  BY Appends, Items DEF Pending
<1>2. ASSUME Pending(1) PROVE Pending(2)'
  <2>1. PICK f \in Going : evs = <<f>>
    BY <1>2, ItemsAre DEF Pending
  <2>2. evs' = <<f, e>>
    BY <2>1, Appends
  <2> QED BY <2>2, Items DEF Pending
<1>3. evs = <<Port>> => PortAnd(Going, evs)'
  BY Appends, Items
<1> QED BY <1>1, <1>2, <1>3 DEF Queued, Pending

LEMMA PendingLess ==
    ASSUME evs' = Tail(evs)
    PROVE  /\ Pending(1) => evs # <<>> /\ Head(evs) \in Going /\ Pending(0)'
           /\ Pending(2) => evs # <<>> /\ Head(evs) \in Going /\ Pending(1)'
           /\ Queued(0) /\ evs # <<>> => Head(evs) = Port /\ Pending(0)'
           /\ Queued(1) /\ usbFaults' = usbFaults =>
                 evs # <<>> /\ ((Head(evs) = Port /\ Pending(1)') \/ (Head(evs) \in Going /\ Queued(0)'))
<1>1. ASSUME Pending(1) PROVE evs # <<>> /\ Head(evs) \in Going /\ Pending(0)'
  <2>1. PICK e \in Going : evs = <<e>>
    BY <1>1, ItemsAre DEF Pending
  <2> QED BY <2>1, Heads, Tails DEF Pending
<1>2. ASSUME Pending(2) PROVE evs # <<>> /\ Head(evs) \in Going /\ Pending(1)'
  <2>1. PICK e \in Going, g \in Going : evs = <<e, g>>
    BY <1>2, ItemsAre DEF Pending
  <2>2. evs' = <<g>>
    BY <2>1, Tails
  <2> QED BY <2>1, <2>2, Heads, Items DEF Pending
<1>3. evs = <<Port>> => evs # <<>> /\ Head(evs) = Port /\ evs' = <<>>
  BY Heads, Tails
<1>4. ASSUME PortAnd(Going, evs)
      PROVE  evs # <<>> /\ ((Head(evs) = Port /\ Pending(1)') \/ (Head(evs) \in Going /\ evs' = <<Port>>))
  <2>1. PICK e \in Going : evs = <<Port, e>> \/ evs = <<e, Port>>
    BY <1>4, ItemsAre
  <2>2. CASE evs = <<Port, e>>
    <3>1. Head(evs) = Port /\ evs' = <<e>>
      BY <2>2, Heads, Tails
    <3> QED BY <2>2, <3>1, Items DEF Pending
  <2>3. CASE evs = <<e, Port>>
    BY <2>3, Heads, Tails
  <2> QED BY <2>1, <2>2, <2>3
<1> QED BY <1>1, <1>2, <1>3, <1>4 DEF Queued, Pending

LEMMA Kinds ==
    /\ CbwTrb.buf = "cbw" /\ B!CswTrb.buf = "csw" /\ B!CswTrb \in InTrbs
    /\ \A b \in OldWrites : b.buf = "buf"
    /\ cmd \in Cmds => B!DataTrb \in InTrbs /\ B!DataTrb.at = cmd.at /\ (Writes => B!DataTrb \in OldWrites)
    /\ cmd \in Cmds => (B!DataTrb.buf = "buf" <=> Writes \/ cmd.op = "read")
    /\ \A k \in {"success", "short"}, n \in Int : [type |-> "xfer", code |-> k, resid |-> n] \in Going
  BY DEF CbwTrb, B!CswTrb, B!CswLen, InTrbs, OldWrites, B!DataTrb, Cmds, Commands, B!Size, Writes, Going

\* What the controller takes from the OUT ring
LEMMA OutRing ==
    ASSUME B!RunOut
    PROVE  /\ out # <<>> /\ "out" \notin halted /\ in' = in
           /\ \A t : out = <<t>> => Head(out) = t /\ out' = <<>>
           /\ \A t, u : out = <<t, u>> => Head(out) = t /\ out' = <<u>>
           /\ UNCHANGED <<g_csw, g_buf, usbBuf, B!host>>
  BY Heads, Tails DEF B!RunOut, B!Untouched

\* The event of a run that went well
Counted ==
    /\ Pending(0) => Pending(1)' /\ Queued(1)'
    /\ Pending(1) => Pending(2)'
    /\ Queued(0) /\ usbFaults' = usbFaults => Queued(1)'

LEMMA CountedIs == ASSUME NEW e \in Going, evs' = Append(evs, e) PROVE Counted
  BY PendingMore DEF Counted

StickSound == HostOK /\ DevOK /\ BufOK

LEMMA OutCbw ==
    ASSUME StickSound, B!RunOut, dev.at = "cbw", Head(out) = CbwTrb
    PROVE  /\ Running' /\ halted' = halted /\ medium' = medium /\ Counted
           /\ (usbFaults' = usbFaults /\ NoFail') \/ (usbFaults = 0 /\ usbFaults' = 1)
<1>1. g_tag # 0
  BY OutRing DEF StickSound, HostOK
<1>2. PICK e \in Going : evs' = Append(evs, e)
  BY Kinds DEF B!RunOut, B!Event
<1>3. Counted
  BY <1>2, CountedIs
<1> QED BY <1>1, <1>3, Kinds DEF StickSound, HostOK, BufOK, B!RunOut, Running, Writes, B!Untouched, B!host, B!Fault, NoFail

LEMMA OutData ==
    ASSUME StickSound, B!RunOut, dev.at = "out", Head(out).buf = "buf"
    PROVE  /\ usbFaults' = usbFaults /\ dev'.at = "csw" /\ dev'.csw.tag = dev.cbw.tag
           /\ dev.fails => medium' = medium /\ Refuses' /\ ("out" \in halted' \/ (halted' = halted /\ Counted))
           /\ ~dev.fails => /\ medium' = [medium EXCEPT ![dev.cbw.lba] = usbBuf[Head(out).at]]
                            /\ halted' = halted /\ Counted
<1>1. "out" \in halted' \/ (halted' = halted /\ \E e \in Going : evs' = Append(evs, e))
  BY Kinds DEF B!RunOut, B!Event, B!Stall
<1>2. "out" \in halted' \/ (halted' = halted /\ Counted)
  BY <1>1, CountedIs
<1>3. ~dev.fails => halted' = halted
  BY Kinds DEF B!RunOut
<1> QED BY <1>2, <1>3, OutRing, Kinds DEF StickSound, DevOK, B!RunOut, B!Csw, Refuses

LEMMA OutShort ==
    ASSUME StickSound, B!RunOut, dev.at = "out", Head(out) = CbwTrb, NoFail
    PROVE  /\ usbFaults' = usbFaults /\ medium' = medium /\ halted' = halted
           /\ Refuses' /\ dev'.csw.tag = dev.cbw.tag /\ Counted
<1>1. PICK e \in Going : evs' = Append(evs, e)
  BY Kinds DEF B!RunOut, B!Event, NoFail
<1>2. Counted
  BY <1>1, CountedIs
<1> QED BY <1>2, Kinds DEF StickSound, DevOK, B!RunOut, B!Csw, Refuses, NoFail

LEMMA OutHalts ==
    ASSUME B!RunOut, dev.at = "cbw", Head(out).buf = "buf"
    PROVE  "out" \in halted' /\ dev' = dev /\ medium' = medium /\ usbFaults' = usbFaults
  BY Kinds DEF B!RunOut, B!Event, B!Stall

LEMMA OutBlocked ==
    ASSUME StickSound, B!RunOut, usbFaults = 1
    PROVE  dev.at \in {"cbw", "out"}
  BY DEF StickSound, B!RunOut, BufOK, B!Fault

LEMMA OutBase == ASSUME StickSound, B!RunOut PROVE StickSound'
<1>1. HostOK'
  BY DEF StickSound, HostOK, B!RunOut, B!Untouched, B!host, B!Done, B!Ok, B!Waits, Writes, Rw, Within
<1>2. DevOK'
  <2>1. g_tag' = g_tag /\ g_cbw' = g_cbw /\ g_csw' = g_csw
    BY DEF B!RunOut, B!Untouched, B!host
  <2>2. g_tag \in Nat /\ g_cbw.tag = g_tag /\ g_cbw.op \in Commands
    BY DEF StickSound, HostOK, B!RunOut, Cmds
  <2>3. \/ dev' = dev
        \/ \E f \in BOOLEAN : dev' = [at |-> IF g_cbw.op = "write" THEN "out" ELSE "in", cbw |-> g_cbw, fails |-> f]
        \/ dev.at = "out" /\ (dev' = B!Csw(0, 0) \/ dev' = B!Csw(1, 512 - 31) \/ dev' = B!Csw(1, 512))
    BY DEF B!RunOut
  <2> QED BY <2>1, <2>2, <2>3 DEF StickSound, DevOK, B!Csw
<1>3. BufOK'
  BY DEF StickSound, BufOK, DevOK, B!RunOut, B!Untouched, B!host, B!Fault
<1> QED BY <1>1, <1>2, <1>3 DEF StickSound

\* The device takes what is in front: they stay in step, or the endpoint halts.
LEMMA OutFlow ==
    ASSUME StickSound, InStep, B!RunOut
    PROVE  InStep' \/ OutLost'
<1>1. /\ cmd' = cmd /\ usbCall' = usbCall /\ g_tag' = g_tag /\ g_csw' = g_csw /\ usbBuf' = usbBuf /\ in' = in
      /\ out # <<>> /\ g_tag # 0 /\ halted = {}
  BY OutRing DEF StickSound, HostOK, InStep, B!host
<1>2. /\ Unwritten' = Unwritten /\ B!Passed' = B!Passed /\ Writes' = Writes /\ B!Ok' = B!Ok /\ B!DataTrb' = B!DataTrb
      /\ AtFirst' = AtFirst /\ Failed' = Failed /\ B!Done' = B!Done
  BY <1>1 DEF Unwritten, B!Passed, B!TagMatches, Writes, B!DataTrb, AtFirst, Rw, B!Ok, B!Done, Failed
<1>3. ASSUME dev.at = "cbw", Head(out).buf = "buf", ~B!Passed, ~B!Ok PROVE OutLost'
  BY <1>1, <1>2, <1>3, OutHalts DEF OutLost, Hopeless, StickSound, HostOK
<1>4. ASSUME dev.at = "cbw", Head(out) = CbwTrb, usbFaults = 1
      PROVE  Running' /\ NoFail' /\ usbFaults' = 1 /\ halted' = {} /\ Counted
  BY <1>1, <1>4, OutCbw
<1>5. ASSUME dev.at = "out", Head(out) = CbwTrb, usbFaults = 1, NoFail
      PROVE  Refuses' /\ dev'.csw.tag = dev.cbw.tag /\ NoFail' /\ usbFaults' = 1 /\ halted' = {} /\ Counted
  BY <1>1, <1>5, OutShort DEF NoFail, Refuses
<1>6. ASSUME dev.at = "out", Head(out).buf = "buf", usbFaults = 1, NoFail
      PROVE  dev'.at = "csw" /\ dev'.csw.tag = dev.cbw.tag /\ NoFail' /\ usbFaults' = 1 /\ halted' = {} /\ Counted
  BY <1>1, <1>6, OutData DEF NoFail
<1>7. CASE AtRest
  <2>1. usbFaults = 1 /\ NoFail
    BY <1>1, <1>7 DEF AtRest, On
  <2>2. CASE On(<<CbwTrb>>, <<>>) /\ Pending(0) /\ dev.at = "cbw"
    BY <1>1, <1>2, <1>4, <1>7, <2>1, <2>2, OutRing DEF InStep, AtRest, On, Counted
  <2>3. CASE One(OldWrites, out) /\ in = <<>> /\ Pending(0) /\ dev.at \in {"cbw", "out"} /\ Failed
    <3>1. PICK b \in OldWrites : out = <<b>>
      BY <2>3, ItemsAre
    <3>2. Head(out).buf = "buf" /\ out' = <<>>
      BY <3>1, Kinds, OutRing
    <3>3. CASE dev.at = "cbw"
      BY <1>3, <2>3, <3>2, <3>3 DEF Failed, B!Ok
    <3>4. CASE dev.at = "out"
      BY <1>1, <1>2, <1>6, <1>7, <2>1, <2>3, <3>2, <3>4 DEF InStep, AtRest, On, Counted
    <3> QED BY <2>3, <3>3, <3>4
  <2> QED BY <1>1, <1>7, <2>2, <2>3 DEF AtRest, On
<1>8. CASE CbwPhase
  <2>1. cmd.pc = "cbw" /\ ~B!Passed /\ ~B!Ok
    BY <1>8 DEF CbwPhase, B!Ok
  <2>2. CASE On(<<CbwTrb>>, <<>>) /\ Queued(0) /\ dev.at = "cbw" /\ Unwritten
    <3>1. out' = <<>> /\ Running' /\ halted' = {} /\ Counted
      BY <1>1, <2>2, OutRing, OutCbw DEF On
    <3>2. usbFaults' = 0 => NoFail'
      BY <2>2, OutRing, OutCbw DEF On
    <3>3. usbFaults = 0 => Pending(0)
      BY <2>2 DEF Queued
    <3>4. Queued(1)'
      BY <2>2, <3>1, <3>3, OutRing, OutCbw DEF On, Counted
    <3> QED BY <1>1, <1>2, <2>1, <2>2, <3>1, <3>2, <3>4 DEF InStep, CbwPhase, On
  <2>3. CASE usbFaults = 1 /\ NoFail
    <3>1. dev.at \in {"cbw", "out"}
      BY <2>3, OutBlocked
    <3>2. CASE On(<<CbwTrb, CbwTrb>>, <<>>) /\ Pending(0) /\ dev.at = "cbw" /\ Unwritten
      BY <1>1, <1>2, <1>4, <2>1, <2>3, <3>2, OutRing DEF InStep, CbwPhase, On, Counted, Running
    <3>3. CASE /\ Len(out) = 2 /\ On(<<out[1], CbwTrb>>, <<>>) /\ out[1] \in OldWrites /\ Pending(0)
               /\ dev.at \in {"cbw", "out"} /\ Earlier /\ AtFirst /\ Unwritten
      <4>1. Head(out).buf = "buf" /\ out' = <<CbwTrb>>
        BY <3>3, Kinds, OutRing DEF On
      <4>2. CASE dev.at = "cbw"
        BY <1>3, <2>1, <4>1, <4>2
      <4>3. CASE dev.at = "out"
        BY <1>1, <1>2, <1>6, <2>1, <2>3, <3>3, <4>1, <4>3 DEF InStep, CbwPhase, On, Counted, Earlier
      <4> QED BY <3>1, <4>2, <4>3
    <3>4. CASE On(<<CbwTrb>>, <<B!CswTrb>>) /\ Pending(0) /\ dev.at = "cbw" /\ Unwritten
      BY <1>1, <1>2, <1>4, <2>1, <2>3, <3>4, OutRing DEF InStep, CbwPhase, On, Counted
    <3>5. CASE On(<<CbwTrb>>, <<>>) /\ Pending(1) /\ (IF dev.at = "csw" THEN Earlier ELSE Unwritten)
      <4>1. CASE dev.at = "cbw"
        BY <1>1, <1>2, <1>4, <2>1, <2>3, <3>5, <4>1, OutRing DEF InStep, CbwPhase, On, Counted
      <4>2. CASE dev.at = "out"
        BY <1>1, <1>2, <1>5, <2>1, <2>3, <3>5, <4>2, OutRing DEF InStep, CbwPhase, On, Counted, Refuses
      <4> QED BY <3>1, <4>1, <4>2
    <3> QED BY <1>1, <1>8, <2>2, <2>3, <3>1, <3>2, <3>3, <3>4, <3>5 DEF CbwPhase, On
  <2> QED BY <1>1, <1>8, <2>2, <2>3 DEF CbwPhase, On
<1>9. CASE DataPhase
  <2>1. cmd.pc = "data" /\ ~B!Ok /\ Unwritten /\ (Writes => B!DataTrb.buf = "buf")
    BY <1>1, <1>9, Kinds DEF DataPhase, B!Ok, StickSound, HostOK, OldWrites
  <2>2. CASE Writes /\ On(<<B!DataTrb>>, <<>>) /\ Queued(0) /\ Running /\ (usbFaults = 0 => NoFail) /\ ~B!Passed
    <3>1. /\ out' = <<>> /\ usbFaults' = usbFaults /\ dev'.at = "csw" /\ dev'.csw.tag = g_tag'
          /\ ("out" \in halted' /\ Refuses') \/ (halted' = {} /\ Counted)
      BY <1>1, <2>1, <2>2, OutRing, OutData DEF On, Running, StickSound, DevOK
    <3>2. CASE "out" \in halted' /\ Refuses'
      BY <1>1, <1>2, <2>1, <2>2, <3>2 DEF OutLost, Hopeless, StickSound, HostOK
    <3>3. CASE halted' = {} /\ Counted
      BY <1>1, <1>2, <2>1, <2>2, <3>1, <3>3 DEF InStep, DataPhase, On, Counted, Answers
    <3> QED BY <3>1, <3>2, <3>3
  <2>3. CASE usbFaults = 1 /\ NoFail /\ ~B!Passed /\ ~Writes
    <3>1. dev.at \in {"cbw", "out"}
      BY <2>3, OutBlocked
    <3>2. CASE On(<<CbwTrb>>, <<B!DataTrb>>) /\ Pending(0)
      <4>1. CASE dev.at = "cbw"
        BY <1>1, <1>2, <1>4, <2>1, <2>3, <3>2, <4>1, OutRing DEF InStep, DataPhase, On, Counted
      <4>2. CASE dev.at = "out"
        BY <1>1, <1>2, <1>5, <2>1, <2>3, <3>2, <4>2, OutRing DEF InStep, DataPhase, On, Counted, Refuses
      <4> QED BY <3>1, <4>1, <4>2
    <3>3. CASE On(<<CbwTrb>>, <<>>) /\ Pending(1) /\ dev.at \in {"cbw", "csw"}
      BY <1>1, <1>2, <1>4, <2>1, <2>3, <3>1, <3>3, OutRing DEF InStep, DataPhase, On, Counted
    <3> QED BY <1>1, <1>9, <2>3, <3>2, <3>3 DEF DataPhase, On
  <2>4. CASE usbFaults = 1 /\ NoFail /\ ~B!Passed /\ Writes
    <3>1. CASE On(<<CbwTrb, B!DataTrb>>, <<>>) /\ Pending(0) /\ dev.at \in {"cbw", "out"}
      <4>1. CASE dev.at = "cbw"
        BY <1>1, <1>2, <1>4, <2>1, <2>4, <3>1, <4>1, OutRing DEF InStep, DataPhase, On, Counted
      <4>2. CASE dev.at = "out"
        BY <1>1, <1>2, <1>5, <2>1, <2>4, <3>1, <4>2, OutRing DEF InStep, DataPhase, On, Counted
      <4> QED BY <3>1, <4>1, <4>2
    <3>2. CASE On(<<B!DataTrb>>, <<>>) /\ Pending(1) /\ (Running \/ Refuses)
      <4>1. dev.at = "out"
        BY <2>4, <3>2, OutBlocked DEF Running, Refuses
      <4> QED BY <1>1, <1>2, <1>6, <2>1, <2>4, <3>2, <4>1, OutRing DEF InStep, DataPhase, On, Counted
    <3>3. CASE On(<<B!DataTrb>>, <<B!CswTrb>>) /\ Pending(0) /\ Running
      BY <1>1, <1>2, <1>6, <2>1, <2>4, <3>3, OutRing DEF InStep, DataPhase, On, Counted, Running
    <3> QED BY <1>1, <1>9, <2>2, <2>4, <3>1, <3>2, <3>3 DEF DataPhase, On
  <2> QED BY <1>1, <1>9, <2>2, <2>3, <2>4 DEF DataPhase, On
<1>10. CASE CswPhase
  <2>1. cmd.pc = "csw" /\ ~B!Ok /\ Unwritten /\ (Writes => B!DataTrb.buf = "buf")
    BY <1>1, <1>10, Kinds DEF CswPhase, B!Ok, StickSound, HostOK, OldWrites
  <2>2. usbFaults = 1 /\ NoFail
    BY <1>1, <1>10 DEF CswPhase, On
  <2>3. dev.at \in {"cbw", "out"}
    BY <2>2, OutBlocked
  <2>4. CASE On(<<CbwTrb>>, <<B!CswTrb>>) /\ Pending(0) /\ dev.at = "cbw" /\ ~B!Passed /\ ~Writes
    BY <1>1, <1>2, <1>4, <2>1, <2>2, <2>4, OutRing DEF InStep, CswPhase, On, Counted
  <2>5. CASE On(<<CbwTrb>>, <<>>) /\ Pending(1) /\ dev.at = "cbw" /\ ~Writes
    BY <1>1, <1>2, <1>4, <2>1, <2>2, <2>5, OutRing DEF InStep, CswPhase, On, Counted
  <2>6. CASE On(<<B!DataTrb>>, <<B!CswTrb>>) /\ Pending(0) /\ Running /\ ~B!Passed /\ Writes
    BY <1>1, <1>2, <1>6, <2>1, <2>2, <2>6, OutRing DEF InStep, CswPhase, On, Counted, Running
  <2>7. CASE On(<<B!DataTrb>>, <<>>) /\ Pending(1) /\ dev.at = "cbw" /\ ~B!Passed /\ Writes
    BY <1>1, <1>3, <2>1, <2>7, OutRing DEF On
  <2> QED BY <1>1, <1>10, <2>3, <2>4, <2>5, <2>6, <2>7 DEF CswPhase, On, Refuses
<1> QED BY <1>7, <1>8, <1>9, <1>10 DEF InStep

\* What the device may be about to write: nothing that counts, data of an earlier
\* call, or those of the running piece.
LEMMA OutWrites ==
    ASSUME StickSound, InStep, B!RunOut, dev.at = "out", Head(out).buf = "buf"
    PROVE  \/ Failed
           \/ B!Waits /\ ~B!Passed /\ AtFirst /\ Earlier
           \/ B!Waits /\ ~B!Passed /\ Writes /\ Running /\ Head(out) = B!DataTrb /\ Unwritten
<1>1. out # <<>> /\ Head(out) # CbwTrb
  BY OutRing, Kinds
<1>2. \A t : (out = <<CbwTrb>> \/ out = <<CbwTrb, t>>) => FALSE
  BY <1>1, OutRing
<1>3. CASE AtRest
  BY <1>1, <1>2, <1>3 DEF AtRest, On
<1>4. CASE CbwPhase
  BY <1>1, <1>2, <1>4 DEF CbwPhase, On, B!Waits
<1>5. CASE DataPhase
  BY <1>1, <1>2, <1>5, OutRing DEF DataPhase, On, B!Waits, Refuses, Answers
<1>6. CASE CswPhase
  BY <1>1, <1>2, <1>6, OutRing DEF CswPhase, On, B!Waits, Refuses, Answers
<1> QED BY <1>3, <1>4, <1>5, <1>6 DEF InStep

LEMMA OutMoves ==
    ASSUME StickSound, InStep, PiecesMoved, B!RunOut
    PROVE  PiecesMoved'
<1>1. UNCHANGED <<cmd, usbCall, g_tag, g_csw, g_cbw, usbBuf>>
  BY OutRing DEF B!host
<1>2. B!Passed' = B!Passed /\ Rw' = Rw /\ B!Waits' = B!Waits
  BY <1>1 DEF B!Passed, B!TagMatches, Rw, B!Waits
<1>3. CASE dev.at = "out" /\ Head(out).buf = "buf" /\ ~dev.fails
  <2>1. /\ medium' = [medium EXCEPT ![dev.cbw.lba] = usbBuf[Head(out).at]]
        /\ dev'.at = "csw" /\ dev'.csw.tag = dev.cbw.tag
    BY <1>3, OutData
  <2>2. CASE Failed
    BY <1>1, <1>2, <2>2 DEF PiecesMoved, Failed, B!Waits, StickSound, HostOK, B!Ok
  <2>3. CASE B!Waits /\ ~B!Passed /\ AtFirst /\ Earlier
    BY <1>1, <1>2, <1>3, <2>1, <2>3 DEF PiecesMoved, B!Waits, StickSound, HostOK, AtFirst, Rw, B!Ok, Earlier, Answers
  <2>4. CASE B!Waits /\ ~B!Passed /\ Writes /\ Running /\ Head(out) = B!DataTrb /\ Unwritten
    <3>1. /\ usbCall.do = "write" /\ usbCall \in RwCalls /\ Within(usbCall) /\ usbCall.i < usbCall.count
          /\ dev.cbw.lba = usbCall.lba + usbCall.i /\ B!DataTrb.at = usbCall.i
      BY <2>4, Kinds DEF StickSound, HostOK, DevOK, B!Waits, Rw, Writes, Running
    <3>2. usbCall.i \in Nat /\ usbCall.lba \in Nat /\ usbCall.lba + usbCall.i \in B!Lbas /\ usbBuf[usbCall.i] = usbCall.v
      BY <2>4, <3>1, StickAssumption DEF RwCalls, Within, B!Lbas, Unwritten
    <3>3. medium'[usbCall.lba + usbCall.i] = usbCall.v
      BY <2>1, <2>4, <3>1, <3>2 DEF StickSound, BufOK
    <3>4. \A j \in 0 .. usbCall.i - 1 : medium'[usbCall.lba + j] = medium[usbCall.lba + j]
      BY <2>1, <2>4, <3>1, <3>2 DEF StickSound, BufOK
    <3> QED BY <1>1, <1>2, <2>4, <3>1, <3>2, <3>3, <3>4 DEF PiecesMoved, SameAt, Rw, B!Waits
  <2> QED BY <1>3, <2>2, <2>3, <2>4, OutWrites
<1>4. CASE ~(dev.at = "out" /\ Head(out).buf = "buf" /\ ~dev.fails)
  <2>1. medium' = medium
    BY <1>4 DEF B!RunOut
  <2>2. dev' = dev \/ dev'.at \in {"in", "out"} \/ Refuses'
    BY <1>4 DEF B!RunOut, B!Csw, Refuses
  <2> QED BY <1>1, <1>2, <2>1, <2>2 DEF PiecesMoved, SameAt, Answers, Refuses, B!Ok
<1> QED BY <1>3, <1>4

-----------------------------------------------------------------------------
LEMMA InRing ==
    ASSUME B!RunIn
    PROVE  /\ in # <<>> /\ "in" \notin halted /\ out' = out /\ dev.at \in {"in", "csw"}
           /\ \A t : in = <<t>> => Head(in) = t /\ in' = <<>>
           /\ \A t, u : in = <<t, u>> => Head(in) = t /\ in' = <<u>>
           /\ UNCHANGED <<medium, B!host, usbFaults>>
  BY Heads, Tails DEF B!RunIn

LEMMA Sizes ==
    \A c \in Commands : B!Size[c] \in Nat /\ B!Size[c] > 0 /\ B!Size[c] # B!CswLen /\ (B!Size[c] = 8 <=> c = "capacity")
                        /\ (c = "read" => B!Size[c] = 512)
  BY DEF Commands, B!Size, B!CswLen

LEMMA IntoIs ==
    ASSUME NEW t \in InTrbs, NEW what, NEW n \in Nat, B!Into(t, what, n)
    PROVE  /\ "in" \in halted' \/ (halted' = halted /\ Counted)
           /\ t.len = n => halted' = halted
<1>1. "in" \in halted' \/ (halted' = halted /\ \E e \in Going : evs' = Append(evs, e))
  <2>1. t.len \in Nat
    BY DEF InTrbs
  <2>2. \A k \in {"success", "short"}, r \in Int : B!Event(k, r) => \E e \in Going : evs' = Append(evs, e)
    BY Kinds DEF B!Event
  <2>3. CASE t.len < n
    BY <2>3 DEF B!Into
  <2>4. CASE t.len = n
    BY <2>1, <2>2, <2>4 DEF B!Into
  <2>5. CASE t.len > n
    BY <2>1, <2>2, <2>5 DEF B!Into
  <2> QED BY <2>1, <2>3, <2>4, <2>5
<1> QED BY <1>1, CountedIs DEF B!Into, InTrbs

\* Data of a command that does not fail
LEMMA InData ==
    ASSUME StickSound, B!RunIn, dev.at = "in", ~dev.fails, Head(in) \in InTrbs
    PROVE  /\ dev'.at = "csw" /\ dev'.csw.tag = dev.cbw.tag
           /\ "in" \in halted' \/ (halted' = halted /\ Counted)
           /\ Head(in).len < B!Size[dev.cbw.op] => "in" \in halted'
           /\ g_csw' \in {g_csw, Junk}
           /\ Head(in).buf # "buf" => usbBuf' = usbBuf
           /\ \A j \in B!Lbas : j # Head(in).at => usbBuf'[j] = usbBuf[j]
           /\ dev.cbw.op = "read" /\ Head(in).buf = "buf" /\ Head(in).len = 512 /\ Head(in).at \in B!Lbas =>
                 usbBuf'[Head(in).at] = medium[dev.cbw.lba]
<1>1. dev.cbw.op \in Commands
  BY DEF StickSound, DevOK
<1>2. B!Into(Head(in), B!Answer, B!Size[dev.cbw.op]) /\ B!Fill(Head(in), B!Answer, B!Size[dev.cbw.op]) /\ dev' = B!Csw(0, 0)
  BY DEF B!RunIn
<1>3. "in" \in halted' \/ (halted' = halted /\ Counted)
  BY <1>1, <1>2, IntoIs, Sizes
<1>4. Head(in).len \in Nat
  BY DEF InTrbs
<1>5. Head(in).len < B!Size[dev.cbw.op] => "in" \in halted'
  BY <1>2 DEF B!Into
<1>6. /\ \A j \in B!Lbas : j # Head(in).at => usbBuf'[j] = usbBuf[j]
      /\ dev.cbw.op = "read" /\ Head(in).buf = "buf" /\ Head(in).len = 512 /\ Head(in).at \in B!Lbas =>
            usbBuf'[Head(in).at] = medium[dev.cbw.lba]
  BY <1>2, Sizes DEF B!Fill, B!Answer, StickSound, BufOK, Commands
<1> QED BY <1>1, <1>2, <1>3, <1>4, <1>5, <1>6, Sizes DEF B!Fill, B!Csw

LEMMA InFails ==
    ASSUME B!RunIn, dev.at = "in", dev.fails, Head(in) \in InTrbs
    PROVE  /\ Refuses' /\ dev'.csw.tag = dev.cbw.tag
           /\ "in" \in halted' \/ (halted' = halted /\ Counted)
           /\ g_csw' = g_csw /\ usbBuf' = usbBuf
<1>1. "in" \in halted' \/ (halted' = halted /\ \E e \in Going : evs' = Append(evs, e))
  BY Kinds DEF B!RunIn, B!Event, B!Stall, InTrbs
<1> QED BY <1>1, CountedIs DEF B!RunIn, B!Csw, Refuses

\* The CSW: into a buffer of its size, or lost in another
LEMMA InCsw ==
    ASSUME StickSound, B!RunIn, dev.at = "csw", Head(in) \in InTrbs
    PROVE  /\ dev'.at = "cbw"
           /\ "in" \in halted' \/ (halted' = halted /\ Counted)
           /\ Head(in) = B!CswTrb => halted' = halted /\ g_csw' = dev.csw /\ usbBuf' = usbBuf
           /\ Head(in).buf \in {"buf", "g_buf"} => g_csw' = g_csw
           /\ Head(in).buf # "buf" => usbBuf' = usbBuf
           /\ \A j \in B!Lbas : j # Head(in).at => usbBuf'[j] = usbBuf[j]
<1>1. B!Into(Head(in), dev.csw, B!CswLen) /\ B!Fill(Head(in), dev.csw, B!CswLen) /\ dev' = [at |-> "cbw"]
  BY DEF B!RunIn
<1>2. B!CswLen \in Nat /\ Head(in).len \in Nat
  BY DEF B!CswLen, InTrbs
<1>3. /\ "in" \in halted' \/ (halted' = halted /\ Counted)
      /\ Head(in) = B!CswTrb => halted' = halted
  BY <1>1, <1>2, IntoIs DEF B!CswTrb
<1>4. \A j \in B!Lbas : j # Head(in).at => usbBuf'[j] = usbBuf[j]
  BY <1>1 DEF B!Fill, StickSound, BufOK
<1>5. Head(in) = B!CswTrb => g_csw' = dev.csw /\ usbBuf' = usbBuf
  BY <1>1, <1>2 DEF B!Fill, B!CswTrb
<1>6. /\ Head(in).buf \in {"buf", "g_buf"} => g_csw' = g_csw
      /\ Head(in).buf # "buf" => usbBuf' = usbBuf
  BY <1>1 DEF B!Fill
<1> QED BY <1>1, <1>3, <1>4, <1>5, <1>6

LEMMA InBase == ASSUME StickSound, B!RunIn PROVE StickSound'
<1>1. UNCHANGED <<g_cbw, g_tag, g_sectors, cmd, usbCall, out, medium, usbFaults>>
  BY InRing DEF B!host
<1>2. HostOK'
  BY <1>1, InRing DEF StickSound, HostOK, B!Done, B!Ok, B!Waits, Writes, Rw, Within
<1>3. DevOK'
  <2>1. g_csw' \in {g_csw, Junk} \/ (dev.at = "csw" /\ g_csw' = dev.csw)
    BY Sizes DEF B!RunIn, B!Fill, StickSound, DevOK
  <2>2. dev'.at = "cbw" \/ (dev.at = "in" /\ (dev' = B!Csw(0, 0) \/ dev' = B!Csw(1, B!Size[dev.cbw.op])))
    BY DEF B!RunIn
  <2> QED BY <1>1, <2>1, <2>2 DEF StickSound, DevOK, B!Csw
<1>4. BufOK'
  <2>1. g_buf' \in {g_buf, Junk, Pieces}
    <3>1. dev.at = "in" => dev.cbw.op \in Commands /\ (B!Size[dev.cbw.op] = 8 => B!Answer = Pieces)
      BY Sizes DEF StickSound, DevOK, B!Answer
    <3> QED BY <3>1 DEF B!RunIn, B!Fill, B!CswLen
  <2>2. usbBuf' = usbBuf \/ \E b : usbBuf' = [usbBuf EXCEPT ![Head(in).at] = b]
    BY DEF B!RunIn, B!Fill
  <2> QED BY <1>1, <2>1, <2>2 DEF StickSound, BufOK
<1> QED BY <1>2, <1>3, <1>4 DEF StickSound

\* The device sends what it has into the TRB in front: they stay in step, or it halts.
LEMMA InFlow ==
    ASSUME StickSound, InStep, B!RunIn
    PROVE  InStep' \/ InLost'
<1>1. /\ cmd' = cmd /\ usbCall' = usbCall /\ g_tag' = g_tag /\ usbFaults' = usbFaults /\ out' = out
      /\ in # <<>> /\ g_tag # 0 /\ g_tag \in Nat /\ halted = {} /\ dev.at \in {"in", "csw"}
      /\ cmd \in Cmds /\ (dev.at = "in" => dev.cbw.tag \in Nat)
  BY InRing DEF StickSound, HostOK, DevOK, InStep, B!host
<1>2. /\ Writes' = Writes /\ B!Ok' = B!Ok /\ B!DataTrb' = B!DataTrb /\ B!Done' = B!Done
      /\ usbBuf' = usbBuf => Unwritten' = Unwritten
      /\ ~Writes /\ B!Waits => Unwritten'
  BY <1>1 DEF Unwritten, Writes, B!DataTrb, B!Ok, B!Done, StickSound, HostOK, B!Waits, Rw
<1>3. ASSUME "in" \in halted', ~B!Passed', ~B!Ok PROVE InLost'
  BY <1>1, <1>2, <1>3 DEF InLost, Hopeless, StickSound, HostOK
\* What becomes of the first TRB
<1>4. ASSUME dev.at = "in", Head(in) \in InTrbs
      PROVE  /\ dev'.at = "csw" /\ dev'.csw.tag = dev.cbw.tag /\ NoFail'
             /\ "in" \in halted' \/ (halted' = {} /\ Counted)
             /\ ~B!Passed => ~B!Passed'
             /\ Head(in).buf # "buf" => usbBuf' = usbBuf
  <2>1. CASE dev.fails
    BY <1>1, <1>4, <2>1, InFails DEF NoFail, Refuses, B!Passed, B!TagMatches
  <2>2. CASE ~dev.fails
    BY <1>1, <1>4, <2>2, InData DEF NoFail, B!Passed, B!TagMatches
  <2> QED BY <2>1, <2>2
<1>5. ASSUME dev.at = "csw", Head(in) = B!CswTrb
      PROVE  /\ dev'.at = "cbw" /\ NoFail' /\ halted' = {} /\ Counted /\ usbBuf' = usbBuf
             /\ B!Passed' => Answers /\ ~Refuses
  BY <1>1, <1>5, InCsw, Kinds DEF NoFail, B!Passed, B!TagMatches, Answers, Refuses
<1>6. ASSUME dev.at = "csw", Head(in) = B!DataTrb
      PROVE  /\ dev'.at = "cbw" /\ NoFail'
             /\ "in" \in halted' \/ (halted' = {} /\ Counted)
             /\ ~B!Passed => ~B!Passed'
  <2>1. Head(in) \in InTrbs /\ Head(in).buf \in {"buf", "g_buf"}
    BY <1>1, <1>6, Kinds DEF B!DataTrb
  <2> QED BY <1>1, <1>6, <2>1, InCsw DEF NoFail, B!Passed, B!TagMatches
<1>7. B!CswTrb \in InTrbs /\ B!DataTrb \in InTrbs /\ B!CswTrb.buf # "buf"
  BY <1>1, Kinds
<1>8. CASE AtRest
  <2>1. usbFaults = 1 /\ NoFail /\ out = <<>> /\ Failed /\ ~B!Ok
    BY <1>1, <1>8 DEF AtRest, On, Failed, B!Ok
  <2>2. CASE One(InTrbs, in) /\ Pending(0) /\ dev.at = "in"
    <3>1. PICK x \in InTrbs : in = <<x>>
      BY <2>2, ItemsAre
    <3>2. Head(in) = x /\ in' = <<>>
      BY <3>1, InRing
    <3> QED BY <1>1, <1>2, <1>3, <1>4, <1>8, <2>1, <2>2, <3>2 DEF InStep, AtRest, On, Counted, Failed
  <2>3. CASE On(<<>>, <<B!CswTrb>>) /\ Pending(0) /\ dev.at = "csw"
    BY <1>1, <1>2, <1>5, <1>8, <2>1, <2>3, InRing DEF InStep, AtRest, On, Counted
  <2> QED BY <1>1, <1>8, <2>2, <2>3 DEF AtRest, On
<1>9. CASE CbwPhase
  <2>1. cmd.pc = "cbw" /\ ~B!Passed /\ ~B!Ok /\ usbFaults = 1 /\ NoFail /\ B!Waits
    BY <1>1, <1>9 DEF CbwPhase, B!Ok, On, B!Waits
  <2>2. CASE out = <<CbwTrb>> /\ One(InTrbs, in) /\ Pending(0) /\ dev.at = "in" /\ Earlier
    <3>1. PICK x \in InTrbs : in = <<x>>
      BY <2>2, ItemsAre
    <3>2. Head(in) = x /\ in' = <<>>
      BY <3>1, InRing
    <3> QED BY <1>1, <1>3, <1>4, <2>1, <2>2, <3>2 DEF InStep, CbwPhase, On, Counted, Earlier
  <2>3. CASE On(<<CbwTrb>>, <<B!CswTrb>>) /\ Pending(0) /\ dev.at = "csw" /\ Earlier /\ Unwritten
    BY <1>1, <1>2, <1>5, <2>1, <2>3, InRing DEF InStep, CbwPhase, On, Counted, Earlier, Answers, StickSound, DevOK
  <2>4. CASE On(<<>>, <<B!CswTrb>>) /\ Pending(1) /\ Running /\ Unwritten
    <3>1. dev.at = "in" /\ ~Writes /\ Head(in) = B!CswTrb /\ in' = <<>>
      BY <1>1, <2>4, InRing DEF Running, On
    <3> QED BY <1>1, <1>2, <1>3, <1>4, <1>7, <2>1, <2>4, <3>1 DEF InStep, CbwPhase, On, Counted
  <2> QED BY <1>1, <1>9, <2>1, <2>2, <2>3, <2>4 DEF CbwPhase, On
<1>10. CASE DataPhase
  <2>1. cmd.pc = "data" /\ ~B!Ok /\ Unwritten /\ B!Waits
    BY <1>10 DEF DataPhase, B!Ok, B!Waits
  <2>2. CASE ~Writes /\ On(<<>>, <<B!DataTrb>>) /\ Queued(0) /\ Running /\ ~B!Passed
    BY <1>1, <1>2, <1>3, <1>4, <1>7, <2>1, <2>2, InRing DEF InStep, DataPhase, On, Counted, Running, Answers
  <2>3. CASE On(<<>>, <<B!CswTrb>>) /\ Pending(1) /\ dev.at = "csw" /\ usbFaults = 1 /\ NoFail
    BY <1>1, <1>2, <1>5, <2>1, <2>3, InRing DEF InStep, DataPhase, On, Counted
  <2>4. CASE usbFaults = 1 /\ NoFail /\ ~B!Passed /\ ~Writes
    <3>1. CASE On(<<CbwTrb>>, <<B!DataTrb>>) /\ Pending(0)
      <4>1. CASE dev.at = "in"
        BY <1>1, <1>2, <1>3, <1>4, <1>7, <2>1, <2>4, <3>1, <4>1, InRing DEF InStep, DataPhase, On, Counted
      <4>2. CASE dev.at = "csw"
        BY <1>1, <1>2, <1>3, <1>6, <2>1, <2>4, <3>1, <4>2, InRing DEF InStep, DataPhase, On, Counted
      <4> QED BY <1>1, <4>1, <4>2
    <3>2. CASE On(<<>>, <<B!DataTrb>>) /\ Pending(1) /\ (Running \/ dev.at = "csw")
      <4>1. CASE dev.at = "in"
        BY <1>1, <1>2, <1>3, <1>4, <1>7, <2>1, <2>4, <3>2, <4>1, InRing DEF InStep, DataPhase, On, Counted
      <4>2. CASE dev.at = "csw"
        BY <1>1, <1>2, <1>3, <1>6, <2>1, <2>4, <3>2, <4>2, InRing DEF InStep, DataPhase, On, Counted
      <4> QED BY <1>1, <4>1, <4>2
    <3>3. CASE On(<<>>, <<B!CswTrb, B!DataTrb>>) /\ Pending(0) /\ Running
      BY <1>1, <1>2, <1>3, <1>4, <1>7, <2>1, <2>4, <3>3, InRing DEF InStep, DataPhase, On, Counted, Running
    <3> QED BY <1>1, <1>10, <2>2, <2>3, <2>4, <3>1, <3>2, <3>3 DEF DataPhase, On
  <2> QED BY <1>1, <1>10, <2>2, <2>3, <2>4 DEF DataPhase, On, Running
<1>11. CASE CswPhase
  <2>1. cmd.pc = "csw" /\ ~B!Ok /\ Unwritten /\ B!Waits
    BY <1>11 DEF CswPhase, B!Ok, B!Waits
  <2>2. CASE On(<<>>, <<B!CswTrb>>) /\ Queued(0) /\ Answers /\ ~B!Passed
    BY <1>1, <1>2, <1>5, <2>1, <2>2, InRing DEF InStep, CswPhase, On, Counted, Answers
  <2>3. CASE usbFaults = 1 /\ NoFail /\ ~Writes
    <3>1. CASE On(<<CbwTrb>>, <<B!CswTrb>>) /\ Pending(0) /\ dev.at = "csw"
      BY <1>1, <1>2, <1>5, <2>1, <2>3, <3>1, InRing DEF InStep, CswPhase, On, Counted
    <3>2. CASE On(<<>>, <<B!DataTrb, B!CswTrb>>) /\ Pending(0) /\ (Running \/ dev.at = "csw") /\ ~B!Passed
      <4>1. CASE dev.at = "in"
        BY <1>1, <1>2, <1>3, <1>4, <1>7, <2>1, <2>3, <3>2, <4>1, InRing DEF InStep, CswPhase, On, Counted
      <4>2. CASE dev.at = "csw"
        BY <1>1, <1>2, <1>3, <1>6, <2>1, <2>3, <3>2, <4>2, InRing DEF InStep, CswPhase, On, Counted
      <4> QED BY <1>1, <4>1, <4>2
    <3>3. CASE On(<<>>, <<B!CswTrb>>) /\ Pending(1) /\ Running /\ ~B!Passed
      BY <1>1, <1>2, <1>3, <1>4, <1>7, <2>1, <2>3, <3>3, InRing DEF InStep, CswPhase, On, Counted, Running
    <3>4. CASE On(<<>>, <<B!CswTrb>>) /\ Pending(1) /\ dev.at = "csw"
      BY <1>1, <1>2, <1>5, <2>1, <2>3, <3>4, InRing DEF InStep, CswPhase, On, Counted
    <3>5. CASE On(<<>>, <<B!CswTrb, B!CswTrb>>) /\ Pending(0) /\ dev.at = "csw"
      BY <1>1, <1>2, <1>5, <2>1, <2>3, <3>5, InRing DEF InStep, CswPhase, On, Counted
    <3> QED BY <1>1, <1>11, <2>2, <2>3, <3>1, <3>2, <3>3, <3>4, <3>5 DEF CswPhase, On
  <2>4. CASE usbFaults = 1 /\ NoFail /\ Writes
    <3>1. CASE On(<<B!DataTrb>>, <<B!CswTrb>>) /\ Pending(0) /\ Refuses
      BY <1>1, <1>2, <1>5, <2>1, <2>4, <3>1, InRing DEF InStep, CswPhase, On, Counted, Refuses
    <3>2. CASE On(<<>>, <<B!CswTrb>>) /\ Pending(1) /\ dev.at = "csw"
      BY <1>1, <1>2, <1>5, <2>1, <2>4, <3>2, InRing DEF InStep, CswPhase, On, Counted
    <3>3. CASE On(<<>>, <<B!CswTrb, B!CswTrb>>) /\ Pending(0) /\ dev.at = "csw"
      BY <1>1, <1>2, <1>5, <2>1, <2>4, <3>3, InRing DEF InStep, CswPhase, On, Counted
    <3> QED BY <1>1, <1>11, <2>2, <2>4, <3>1, <3>2, <3>3 DEF CswPhase, On, Running
  <2> QED BY <1>1, <1>11, <2>2, <2>3, <2>4 DEF CswPhase, On
<1> QED BY <1>8, <1>9, <1>10, <1>11 DEF InStep

\* Whose TRB the device is about to fill
LEMMA InFills ==
    ASSUME StickSound, InStep, B!RunIn
    PROVE  /\ Head(in) \in InTrbs
           /\ \/ Failed
              \/ B!Waits /\ ~B!Passed /\ AtFirst /\ Earlier /\ dev.at = "in"
              \/ B!Waits /\ ~B!Passed /\ ~Writes /\ Head(in) = B!DataTrb
              \/ B!Waits /\ Head(in) = B!CswTrb
<1>1. /\ in # <<>> /\ dev.at \in {"in", "csw"} /\ B!CswTrb \in InTrbs /\ B!DataTrb \in InTrbs
      /\ \A t : in = <<t>> => Head(in) = t
      /\ \A t, u : in = <<t, u>> => Head(in) = t
  BY InRing, Kinds DEF StickSound, HostOK
<1>2. \A x : in = <<x>> /\ x \in InTrbs => Head(in) \in InTrbs
  BY <1>1
<1>3. One(InTrbs, in) => Head(in) \in InTrbs
  BY <1>2, ItemsAre
<1>4. CASE AtRest
  BY <1>1, <1>3, <1>4 DEF AtRest, On
<1>5. CASE CbwPhase
  BY <1>1, <1>3, <1>5 DEF CbwPhase, On, B!Waits
<1>6. CASE DataPhase
  BY <1>1, <1>6 DEF DataPhase, On, B!Waits
<1>7. CASE CswPhase
  BY <1>1, <1>7 DEF CswPhase, On, B!Waits, Running
<1> QED BY <1>4, <1>5, <1>6, <1>7 DEF InStep

LEMMA InMoves ==
    ASSUME StickSound, InStep, PiecesMoved, B!RunIn, halted' = {}
    PROVE  PiecesMoved'
<1>1. UNCHANGED <<cmd, usbCall, g_tag, g_cbw, medium>>
  BY InRing DEF B!host
<1>2. Rw' = Rw /\ B!Waits' = B!Waits
  BY <1>1 DEF Rw, B!Waits
<1>3. CASE Failed
  BY <1>1, <1>2, <1>3 DEF PiecesMoved, Failed, B!Waits, StickSound, HostOK, B!Ok
<1>4. CASE B!Waits /\ ~B!Passed /\ AtFirst /\ Earlier /\ dev.at = "in"
  <2>1. dev'.csw.tag < g_tag' /\ ~B!Passed'
    BY <1>1, <1>4, InFills, InData, InFails DEF Earlier, B!Passed, B!TagMatches, StickSound, DevOK
  <2> QED BY <1>1, <1>2, <1>4, <2>1 DEF PiecesMoved, B!Waits, StickSound, HostOK, AtFirst, Rw, B!Ok, Answers, DevOK
<1>5. CASE B!Waits /\ ~B!Passed /\ ~Writes /\ Head(in) = B!DataTrb
  <2>1. SUFFICES ASSUME Rw PROVE PiecesMoved'
    BY <1>1, <1>2, <1>5 DEF PiecesMoved, StickSound, HostOK, B!Waits, Rw
  <2>2. /\ usbCall.do = "read" /\ usbCall \in RwCalls /\ Within(usbCall) /\ usbCall.i < usbCall.count
        /\ cmd.op = "read" /\ g_cbw.op = "read" /\ g_cbw.lba = usbCall.lba + usbCall.i
        /\ B!DataTrb.at = usbCall.i /\ B!DataTrb.buf = "buf" /\ B!DataTrb.len = 512
    BY <1>5, <2>1 DEF StickSound, HostOK, Rw, Writes, B!DataTrb, B!Size
  <2>3. usbCall.i \in Nat /\ usbCall.i \in B!Lbas
    BY <2>2, StickAssumption DEF RwCalls, Within, B!Lbas
  <2>4. ~B!Passed'
    BY <1>1, <1>5, <2>2, InFills, InData, InFails, InCsw, InRing DEF B!Passed, B!TagMatches
  <2>5. \A j \in 0 .. usbCall.i - 1 : usbBuf'[j] = usbBuf[j]
    <3>1. \A j \in B!Lbas : j # usbCall.i => usbBuf'[j] = usbBuf[j]
      BY <1>5, <2>2, InFills, InData, InFails, InCsw, InRing DEF StickSound, DevOK
    <3>2. \A j \in 0 .. usbCall.i - 1 : j \in B!Lbas /\ j # usbCall.i
      BY <2>3, StickAssumption DEF B!Lbas
    <3> QED BY <3>1, <3>2
  <2>6. Answers' /\ ~Refuses' => usbBuf'[usbCall.i] = medium[usbCall.lba + usbCall.i]
    <3>1. SUFFICES ASSUME Answers', ~Refuses' PROVE usbBuf'[usbCall.i] = medium[usbCall.lba + usbCall.i]
      OBVIOUS
    <3>2. dev.at = "in" /\ ~dev.fails /\ dev.cbw.tag = g_tag
      BY <1>1, <3>1, InFills, InRing, InCsw, InFails, InData DEF Answers
    <3>3. dev.cbw = g_cbw
      BY <3>2 DEF StickSound, DevOK
    <3> QED BY <1>5, <2>2, <2>3, <3>2, <3>3, InFills, InData
  <2> QED BY <1>1, <1>2, <1>5, <2>1, <2>2, <2>4, <2>5, <2>6 DEF PiecesMoved, SameAt, B!Waits, Rw, B!Ok
<1>6. CASE B!Waits /\ Head(in) = B!CswTrb
  <2>1. usbBuf' = usbBuf
    BY <1>6, InFills, InRing, InData, InFails, InCsw, Kinds
  <2>2. B!Passed' => B!Passed \/ (Answers /\ ~Refuses)
    BY <1>1, <1>6, InFills, InRing, InData, InFails, InCsw DEF B!Passed, B!TagMatches, Answers, Refuses
  <2>3. Rw /\ Answers' => Refuses'
    <3>1. SUFFICES ASSUME Rw, Answers', ~Refuses' PROVE FALSE
      OBVIOUS
    <3>2. dev.at = "in" /\ ~dev.fails /\ dev.cbw.tag = g_tag
      BY <1>1, <3>1, InFills, InRing, InCsw, InFails, InData DEF Answers
    <3>3. dev.cbw.op \in {"read", "write"}
      BY <1>6, <3>1, <3>2 DEF StickSound, DevOK, HostOK, Rw
    <3> QED BY <1>6, <3>2, <3>3, InFills, InData DEF B!CswTrb, B!CswLen, B!Size
  <2> QED BY <1>1, <1>2, <1>6, <2>1, <2>2, <2>3 DEF PiecesMoved, SameAt, B!Waits, B!Ok
<1> QED BY <1>3, <1>4, <1>5, <1>6, InFills

-----------------------------------------------------------------------------
LEMMA TakenEvent ==
    ASSUME NEW e \in Going, NEW n \in Nat
    PROVE  e.type = "xfer" /\ B!Moved(e, n) \in Nat
  BY DEF Going, B!Moved

LEMMA WaitRing ==
    ASSUME StickSound, B!xfer_wait
    PROVE  /\ evs # <<>> /\ B!Waits /\ g_tag # 0 /\ cmd \in Cmds
           /\ Head(evs) = Port => UNCHANGED <<out, in, cmd>>
           /\ Head(evs) \in Going => \E r \in Nat : B!After(r)
           /\ UNCHANGED <<halted, dev, medium, g_cbw, g_csw, g_buf, usbBuf, g_tag, g_sectors, usbCall, usbFaults>>
<1>1. B!Expected \in Nat
  BY Sizes DEF B!Expected, StickSound, HostOK, B!Waits, B!xfer_wait, B!Done, B!CswLen, Cmds
<1>2. Port.type = "port" /\ \A e \in Going : e.type = "xfer" /\ B!Moved(e, B!Expected) \in Nat
  BY <1>1, TakenEvent DEF Port
<1> QED BY <1>2 DEF B!xfer_wait, B!device, StickSound, HostOK, B!Waits, B!Done

\* How the driver goes on after a move without an error
LEMMA AfterMove ==
    ASSUME StickSound, NEW r \in Nat, B!After(r), B!Waits, g_tag # 0
    PROVE  /\ cmd.pc = "cbw" => /\ cmd' = [cmd EXCEPT !.pc = "data"]
                                /\ IF Writes THEN out' = Append(out, B!DataTrb) /\ in' = in
                                   ELSE in' = Append(in, B!DataTrb) /\ out' = out
           /\ cmd.pc = "data" => cmd' = [cmd EXCEPT !.pc = "csw"] /\ in' = Append(in, B!CswTrb) /\ out' = out
           /\ cmd.pc = "csw" => /\ \/ B!Passed /\ cmd' = [cmd EXCEPT !.pc = "ok"]
                                   \/ cmd' = [cmd EXCEPT !.pc = "err"]
                                /\ ~B!Passed => cmd' = [cmd EXCEPT !.pc = "err"]
                                /\ UNCHANGED <<out, in>>
  BY DEF B!After, B!To, Writes

LEMMA WaitBase == ASSUME StickSound, B!xfer_wait PROVE StickSound'
<1>1. g_tag # 0 /\ cmd \in Cmds /\ B!Waits /\ UNCHANGED <<halted, dev, medium, g_cbw, g_csw, g_buf, usbBuf, g_tag, g_sectors, usbCall, usbFaults>>
  BY WaitRing
<1>2. \E pc \in {"cbw", "data", "csw", "again", "ok", "err"} : cmd' = [cmd EXCEPT !.pc = pc]
  <2>1. cmd' = [cmd EXCEPT !.pc = cmd.pc] \/ cmd' # cmd
    BY <1>1 DEF Cmds
  <2>2. cmd.pc \in {"cbw", "data", "csw", "again", "ok", "err"}
    BY <1>1 DEF Cmds
  <2> QED BY <1>1, <2>1, <2>2 DEF B!xfer_wait, B!After, B!To
<1>3. cmd' \in Cmds /\ cmd'.op = cmd.op /\ cmd'.at = cmd.at
  BY <1>1, <1>2 DEF Cmds
<1> QED BY <1>1, <1>3 DEF StickSound, HostOK, DevOK, BufOK, B!Done, B!Ok, B!Waits, Rw, Writes, Within

\* The driver takes the next event, whichever TRB it is of.
LEMMA WaitFlow ==
    ASSUME StickSound, InStep, B!xfer_wait
    PROVE  InStep' \/ Stuck'
<1>1. /\ evs # <<>> /\ B!Waits /\ g_tag # 0 /\ cmd \in Cmds /\ evs' = Tail(evs) /\ halted' = {}
      /\ Head(evs) = Port => UNCHANGED <<out, in, cmd>>
      /\ Head(evs) \in Going => \E r \in Nat : B!After(r)
      /\ UNCHANGED <<halted, dev, medium, g_cbw, g_csw, g_buf, usbBuf, g_tag, g_sectors, usbCall, usbFaults>>
  BY WaitRing DEF B!xfer_wait, InStep
<1>2. \A pc : cmd' = [cmd EXCEPT !.pc = pc] => cmd'.pc = pc /\ cmd'.op = cmd.op /\ cmd'.at = cmd.at
  BY <1>1 DEF Cmds
<1>3. /\ B!Passed' = B!Passed /\ Unwritten' = Unwritten /\ NoFail' = NoFail
      /\ Answers' = Answers /\ Refuses' = Refuses /\ usbFaults' = usbFaults
      /\ \A pc : cmd' = [cmd EXCEPT !.pc = pc] => Writes' = Writes /\ B!DataTrb' = B!DataTrb /\ Running' = Running
  BY <1>1, <1>2 DEF B!Passed, B!TagMatches, Unwritten, NoFail, Answers, Refuses, Writes, B!DataTrb, Running
<1>4. Pending(0) => FALSE
  BY <1>1 DEF Pending
<1>5. CASE Head(evs) = Port
  <2>1. /\ UNCHANGED <<out, in, cmd>> /\ Writes' = Writes /\ B!DataTrb' = B!DataTrb /\ Running' = Running /\ Head(evs) \notin Going
        /\ B!Ok' = B!Ok /\ B!Done' = B!Done
    BY <1>1, <1>5 DEF Writes, B!DataTrb, Running, Going, Port, B!Ok, B!Done
  <2>2. /\ Queued(0) => Queued(0)'
        /\ Queued(1) => Queued(1)'
        /\ ~Pending(1) /\ ~Pending(2)
    BY <1>1, <1>3, <2>1, PendingLess DEF Queued
  <2>3. ~AtRest
    BY <1>1 DEF AtRest, B!Done, B!Waits
  <2>4. CbwPhase => CbwPhase'
    <3>1. SUFFICES ASSUME CbwPhase PROVE CbwPhase'
      OBVIOUS
    <3>2. AtFirst' = AtFirst /\ Earlier' = Earlier /\ dev' = dev /\ cmd' = cmd /\ usbFaults' = usbFaults
      BY <1>1, <2>1 DEF AtFirst, Rw, Earlier
    <3>3. CASE On(<<CbwTrb>>, <<>>) /\ Queued(0) /\ dev.at = "cbw" /\ Unwritten
      BY <1>3, <2>1, <2>2, <3>1, <3>2, <3>3 DEF CbwPhase, On
    <3>4. CASE On(<<>>, <<>>) /\ Queued(1) /\ Running /\ (usbFaults = 0 => NoFail) /\ Unwritten
      BY <1>3, <2>1, <2>2, <3>1, <3>2, <3>4 DEF CbwPhase, On
    <3> QED BY <1>4, <2>2, <3>1, <3>3, <3>4 DEF CbwPhase
  <2>5. DataPhase => DataPhase'
    BY <1>3, <1>4, <2>1, <2>2 DEF DataPhase, On
  <2>6. CswPhase => CswPhase'
    <3>1. SUFFICES ASSUME CswPhase PROVE CswPhase'
      OBVIOUS
    <3>2. CASE On(<<>>, <<B!CswTrb>>) /\ Queued(0) /\ Answers /\ ~B!Passed
      BY <1>1, <1>3, <2>1, <2>2, <3>1, <3>2 DEF CswPhase, On
    <3>3. CASE On(<<>>, <<>>) /\ Queued(1) /\ dev.at = "cbw"
      BY <1>1, <1>3, <2>1, <2>2, <3>1, <3>3 DEF CswPhase, On
    <3> QED BY <1>4, <2>2, <3>1, <3>2, <3>3 DEF CswPhase
  <2> QED BY <1>1, <2>3, <2>4, <2>5, <2>6 DEF InStep
<1>6. CASE Head(evs) \in Going
  <2>1. /\ Pending(1) => Pending(0)'
        /\ Pending(2) => Pending(1)'
        /\ Queued(1) => Queued(0)'
        /\ ~Queued(0)
    BY <1>1, <1>3, <1>6, PendingLess DEF Going, Port
  <2>2. PICK r \in Nat : B!After(r)
    BY <1>1, <1>6
  <2>3. CASE CbwPhase
    <3>1. /\ cmd'.pc = "data" /\ Writes' = Writes /\ B!DataTrb' = B!DataTrb /\ Running' = Running /\ ~B!Passed'
          /\ Writes => out' = Append(out, B!DataTrb) /\ in' = in
          /\ ~Writes => in' = Append(in, B!DataTrb) /\ out' = out
      BY <1>1, <1>2, <1>3, <2>2, <2>3, AfterMove DEF CbwPhase
    <3>2. ~Writes => Unwritten
      BY <1>1 DEF StickSound, HostOK, Unwritten, Rw, Writes
    <3>3. CASE On(<<>>, <<>>) /\ Queued(1) /\ Running /\ (usbFaults = 0 => NoFail) /\ Unwritten
      BY <1>1, <1>3, <2>1, <3>1, <3>3, Appends DEF InStep, DataPhase, On
    <3>4. CASE On(<<CbwTrb>>, <<>>) /\ Pending(1) /\ (IF dev.at = "csw" THEN Earlier ELSE Unwritten) /\ usbFaults = 1 /\ NoFail
      <4>1. CASE ~Writes
        BY <1>1, <1>3, <2>1, <3>1, <3>2, <3>4, <4>1, Appends DEF InStep, DataPhase, On
      <4>2. CASE Writes /\ dev.at \in {"cbw", "out"}
        BY <1>1, <1>3, <2>1, <3>1, <3>4, <4>2, Appends DEF InStep, DataPhase, On
      <4>3. CASE Writes /\ dev.at \in {"in", "csw"}
        BY <1>1, <1>3, <2>1, <3>1, <3>4, <4>3 DEF Stuck, On, Pending, StickSound, HostOK, Rw
      <4> QED BY <4>1, <4>2, <4>3 DEF StickSound, DevOK
    <3>5. CASE On(<<>>, <<B!CswTrb>>) /\ Pending(1) /\ Running /\ Unwritten /\ usbFaults = 1 /\ NoFail
      BY <1>1, <1>3, <2>1, <3>1, <3>5, Appends DEF InStep, DataPhase, On
    <3>6. CASE /\ On(<<>>, <<>>) /\ Pending(2) /\ (Running \/ (dev.at = "csw" /\ (Writes => Refuses)))
               /\ Unwritten /\ usbFaults = 1 /\ NoFail
      BY <1>1, <1>3, <2>1, <3>1, <3>6, Appends DEF InStep, DataPhase, On
    <3> QED BY <1>4, <2>1, <2>3, <3>3, <3>4, <3>5, <3>6 DEF CbwPhase
  <2>4. CASE DataPhase
    <3>1. /\ cmd'.pc = "csw" /\ Writes' = Writes /\ B!DataTrb' = B!DataTrb /\ Running' = Running
          /\ in' = Append(in, B!CswTrb) /\ out' = out /\ Unwritten'
      BY <1>1, <1>2, <1>3, <2>2, <2>4, AfterMove DEF DataPhase
    <3>2. CASE On(<<>>, <<>>) /\ Queued(1) /\ Answers /\ ~B!Passed
      BY <1>1, <1>3, <2>1, <3>1, <3>2, Appends DEF InStep, CswPhase, On
    <3>3. CASE usbFaults = 1 /\ NoFail /\ ~B!Passed /\ ~Writes
      BY <1>1, <1>3, <1>4, <2>1, <2>4, <3>1, <3>2, <3>3, Appends DEF InStep, DataPhase, CswPhase, On
    <3>4. CASE usbFaults = 1 /\ NoFail /\ ~B!Passed /\ Writes
      BY <1>1, <1>3, <1>4, <2>1, <2>4, <3>1, <3>2, <3>4, Appends DEF InStep, DataPhase, CswPhase, On
    <3>5. CASE usbFaults = 1 /\ NoFail /\ On(<<>>, <<>>) /\ Pending(2) /\ dev.at = "cbw"
      BY <1>1, <1>3, <2>1, <3>1, <3>5, Appends DEF InStep, CswPhase, On
    <3> QED BY <1>4, <2>1, <2>4, <3>2, <3>3, <3>4, <3>5 DEF DataPhase
  <2>5. CASE CswPhase
    <3>1. /\ cmd'.pc \in {"ok", "err"} /\ (~B!Passed => cmd'.pc = "err") /\ Writes' = Writes /\ B!DataTrb' = B!DataTrb /\ Running' = Running
          /\ in' = in /\ out' = out /\ Unwritten'
      BY <1>1, <1>2, <1>3, <2>2, <2>5, AfterMove DEF CswPhase
    <3>2. B!Done' /\ (~B!Passed => Failed')
      BY <1>3, <3>1 DEF B!Done, Failed
    <3>3. CASE On(<<>>, <<>>) /\ Queued(1) /\ dev.at = "cbw"
      BY <1>1, <1>3, <2>1, <3>1, <3>2, <3>3 DEF InStep, AtRest, On
    <3>4. CASE usbFaults = 1 /\ NoFail
      BY <1>1, <1>3, <1>4, <2>1, <2>5, <3>1, <3>2, <3>3, <3>4, Kinds, Items DEF InStep, AtRest, CswPhase, On, Running
    <3> QED BY <1>4, <2>1, <2>5, <3>3, <3>4 DEF CswPhase
  <2> QED BY <1>1, <2>3, <2>4, <2>5 DEF InStep, AtRest, B!Done, B!Waits
<1>7. Head(evs) = Port \/ Head(evs) \in Going
  <2>1. ~AtRest
    BY <1>1 DEF AtRest, B!Done, B!Waits
  <2>2. Pending(1) \/ Pending(2) \/ Queued(0) \/ Queued(1)
    BY <1>4, <2>1 DEF InStep, CbwPhase, DataPhase, CswPhase
  <2> QED BY <1>1, <2>2, PendingLess
<1> QED BY <1>5, <1>6, <1>7

\* What was moved stays so while the driver waits.
LEMMA WaitMoves ==
    ASSUME StickSound, PiecesMoved, B!xfer_wait \/ B!Timeout
    PROVE  PiecesMoved'
<1>1. B!Waits /\ UNCHANGED <<dev, medium, g_csw, usbBuf, g_tag, usbCall>>
  BY DEF B!xfer_wait, B!Timeout, B!device
<1>2. cmd.pc # "err" /\ ~B!Ok /\ (usbCall.do = "ret" => ~usbCall.ok) /\ B!Passed' = B!Passed
  BY <1>1 DEF B!Waits, B!Ok, StickSound, HostOK, B!Passed, B!TagMatches
<1>3. B!Ok' => B!Passed
  BY <1>1 DEF B!xfer_wait, B!Timeout, B!After, B!To, B!Ok, B!Waits, StickSound, HostOK, B!Done, Cmds
<1> QED BY <1>1, <1>2, <1>3 DEF PiecesMoved, Rw, Answers, Refuses, SameAt

-----------------------------------------------------------------------------
LEMMA TimeoutRing ==
    ASSUME StickSound, B!Timeout, cmd.pc # "again"
    PROVE  /\ B!Waits /\ g_tag # 0 /\ cmd \in Cmds /\ evs = <<>>
           /\ cmd' = [cmd EXCEPT !.pc = "err"]
           /\ (B!Silent /\ usbFaults' = usbFaults) \/ (usbFaults = 0 /\ usbFaults' = 1)
           /\ UNCHANGED <<out, in, evs, halted, dev, medium, g_cbw, g_csw, g_buf, usbBuf, g_tag, g_sectors, usbCall>>
<1>1. B!Waits /\ g_tag # 0 /\ cmd \in Cmds /\ evs = <<>>
  BY DEF B!Timeout, StickSound, HostOK, B!Waits, B!Done
<1>2. cmd' = [cmd EXCEPT !.pc = "err"] /\ UNCHANGED <<out, in>>
  BY <1>1 DEF B!Timeout, B!After, B!To, B!CswLen, B!Waits
<1>3. (B!Silent /\ usbFaults' = usbFaults) \/ (usbFaults = 0 /\ usbFaults' = 1)
  BY DEF B!Timeout, B!Fault, StickSound, BufOK
<1> QED BY <1>1, <1>2, <1>3 DEF B!Timeout, B!device

LEMMA TimeoutBase == ASSUME StickSound, B!Timeout PROVE StickSound'
<1>1. g_tag # 0 /\ cmd \in Cmds /\ B!Waits /\ UNCHANGED <<halted, dev, medium, g_cbw, g_csw, g_buf, usbBuf, g_tag, g_sectors, usbCall>>
  BY DEF B!Timeout, B!device, StickSound, HostOK, B!Waits, B!Done
<1>2. \E pc \in {"again", "err", "ok", "data", "csw"} : cmd' = [cmd EXCEPT !.pc = pc]
  BY DEF B!Timeout, B!After, B!To
<1>3. cmd' \in Cmds /\ cmd'.op = cmd.op /\ cmd'.at = cmd.at
  BY <1>1, <1>2 DEF Cmds
<1>4. usbFaults' \in 0 .. MaxUsbFaults
  BY DEF B!Timeout, B!Fault, StickSound, BufOK
<1> QED BY <1>1, <1>3, <1>4 DEF StickSound, HostOK, DevOK, BufOK, B!Done, B!Ok, B!Waits, Rw, Writes, Within

\* It gives up: what it leaves on the rings is one of the states at rest.
LEMMA TimeoutFlow ==
    ASSUME StickSound, InStep, B!Timeout
    PROVE  InStep'
<1>1. cmd.pc # "again" /\ B!Waits /\ ~AtRest
  BY DEF InStep, AtRest, CbwPhase, DataPhase, CswPhase, B!Done, B!Waits, B!Timeout
<1>2. /\ g_tag # 0 /\ cmd \in Cmds /\ evs = <<>> /\ halted = {}
      /\ cmd' = [cmd EXCEPT !.pc = "err"]
      /\ (B!Silent /\ usbFaults' = usbFaults) \/ (usbFaults = 0 /\ usbFaults' = 1)
      /\ UNCHANGED <<out, in, evs, halted, dev, medium, g_cbw, g_csw, g_buf, usbBuf, g_tag, g_sectors, usbCall>>
  BY <1>1, TimeoutRing DEF InStep
<1>3. B!Passed' = B!Passed /\ B!Done' /\ ~B!Ok' /\ (~B!Passed => Failed') /\ NoFail' = NoFail /\ Pending(0)'
  BY <1>2 DEF B!Passed, B!TagMatches, B!Done, B!Ok, Failed, NoFail, Cmds, Pending
<1>4. ~Pending(1) /\ ~Pending(2) /\ ~Queued(1) /\ (Queued(0) => Pending(0))
  BY <1>2 DEF Pending, Queued, One, Two, PortAnd
<1>5. usbFaults = 1 => B!Silent
  BY <1>2
<1>6. CASE CbwPhase
  <2>1. ~B!Silent
    BY <1>2, <1>4, <1>6, Kinds DEF CbwPhase, On, B!Silent, One
  <2>2. On(<<CbwTrb>>, <<>>) /\ dev.at = "cbw"
    BY <1>2, <1>4, <1>5, <1>6, <2>1 DEF CbwPhase
  <2> QED BY <1>2, <1>3, <2>1, <2>2 DEF InStep, AtRest, On, NoFail
<1>7. CASE DataPhase
  <2>1. ~B!Silent
    <3>1. dev.at \in {"cbw", "in", "out", "csw"} /\ (\A a : <<a>> # <<>>) /\ (\A a, b : <<a, b>> # <<>>)
      BY DEF StickSound, DevOK
    <3>2. CASE Writes
      BY <1>2, <1>4, <1>7, <3>1, <3>2 DEF DataPhase, On, B!Silent, Running
    <3>3. CASE ~Writes
      BY <1>2, <1>4, <1>7, <3>1, <3>3 DEF DataPhase, On, B!Silent, Running
    <3> QED BY <3>2, <3>3
  <2>2. /\ On(IF Writes THEN <<B!DataTrb>> ELSE <<>>, IF Writes THEN <<>> ELSE <<B!DataTrb>>)
        /\ Running /\ usbFaults = 0 /\ usbFaults' = 1 /\ NoFail /\ ~B!Passed
    BY <1>2, <1>4, <1>5, <1>7, <2>1 DEF DataPhase
  <2>3. CASE Writes
    <3>1. One(OldWrites, out)' /\ in' = <<>> /\ dev'.at = "out"
      BY <1>2, <2>2, <2>3, Kinds, Items DEF On, Running
    <3> QED BY <1>2, <1>3, <2>2, <3>1 DEF InStep, AtRest
  <2>4. CASE ~Writes
    <3>1. One(InTrbs, in)' /\ out' = <<>> /\ dev'.at = "in"
      BY <1>2, <2>2, <2>4, Kinds, Items DEF On, Running
    <3> QED BY <1>2, <1>3, <2>2, <3>1 DEF InStep, AtRest
  <2> QED BY <2>3, <2>4
<1>8. CASE CswPhase
  <2>1. ~B!Silent
    <3>1. (\A a : <<a>> # <<>>) /\ (\A a, b : <<a, b>> # <<>>)
      OBVIOUS
    <3>2. CASE Writes
      BY <1>2, <1>4, <1>8, <3>1, <3>2 DEF CswPhase, On, B!Silent, Running, Answers, Refuses
    <3>3. CASE ~Writes
      BY <1>2, <1>4, <1>8, <3>1, <3>3 DEF CswPhase, On, B!Silent, Running, Answers, Refuses
    <3> QED BY <3>2, <3>3
  <2>2. On(<<>>, <<B!CswTrb>>) /\ dev.at = "csw" /\ ~B!Passed
    BY <1>2, <1>4, <1>5, <1>8, <2>1 DEF CswPhase, Answers
  <2> QED BY <1>2, <1>3, <2>1, <2>2 DEF InStep, AtRest, On, NoFail
<1> QED BY <1>1, <1>6, <1>7, <1>8 DEF InStep

-----------------------------------------------------------------------------
LEMMA StartTag ==
    ASSUME StickSound, NEW todo, NEW lba, NEW at, B!Start(todo, lba, at), B!Still
    PROVE  /\ g_tag' \in Nat /\ g_tag' > g_tag /\ g_tag' # 0 /\ ~B!Passed' /\ Earlier' /\ ~Answers'
           /\ cmd' = [pc |-> "cbw", op |-> todo, at |-> at]
           /\ g_cbw' = [tag |-> g_tag', op |-> todo, lba |-> lba]
           /\ DevOK'
  BY DEF StickSound, HostOK, DevOK, B!Start, B!Still, B!device, B!Passed, B!TagMatches, Earlier, Answers

\* A command begins where the one before it has left the rings.
LEMMA Started ==
    ASSUME StickSound, InStep, B!Done, NEW todo, NEW lba, NEW at, B!Start(todo, lba, at), B!Still,
           Unwritten', Failed => AtFirst'
    PROVE  InStep'
<1>1. /\ ~B!Passed' /\ Earlier' /\ cmd'.pc = "cbw" /\ out' = Append(out, CbwTrb)
      /\ UNCHANGED <<in, evs, halted, dev, medium, g_csw, g_buf, usbFaults>>
  BY StartTag DEF B!Start, CbwTrb, B!Still, B!device
<1>2. AtRest /\ halted' = {}
  BY <1>1 DEF InStep, CbwPhase, DataPhase, CswPhase, B!Done
<1>3. Queued(0)' = Queued(0) /\ Pending(0)' = Pending(0) /\ Pending(1)' = Pending(1) /\ NoFail' = NoFail
  BY <1>1 DEF Queued, Pending, NoFail
<1>4. CASE On(<<>>, <<>>) /\ Queued(0) /\ dev.at = "cbw"
  BY <1>1, <1>2, <1>3, <1>4, Appends DEF InStep, CbwPhase, On
<1>5. CASE usbFaults = 1 /\ NoFail
  <2>1. CASE On(<<CbwTrb>>, <<>>) /\ Pending(0) /\ dev.at = "cbw"
    BY <1>1, <1>2, <1>3, <1>5, <2>1, Appends DEF InStep, CbwPhase, On
  <2>2. CASE One(OldWrites, out) /\ in = <<>> /\ Pending(0) /\ dev.at \in {"cbw", "out"} /\ Failed
    <3>1. PICK b \in OldWrites : out = <<b>>
      BY <2>2, ItemsAre
    <3>2. out' = <<b, CbwTrb>>
      BY <1>1, <3>1, Appends
    <3>3. Len(out') = 2 /\ out'[1] = b
      BY <3>2
    <3> QED BY <1>1, <1>2, <1>3, <1>5, <2>2, <3>2, <3>3 DEF InStep, CbwPhase, On
  <2>3. CASE out = <<>> /\ One(InTrbs, in) /\ Pending(0) /\ dev.at = "in" /\ Failed
    BY <1>1, <1>2, <1>3, <1>5, <2>3, Appends DEF InStep, CbwPhase
  <2>4. CASE On(<<>>, <<B!CswTrb>>) /\ Pending(0) /\ dev.at \in {"cbw", "csw"}
    BY <1>1, <1>2, <1>3, <1>5, <2>4, Appends DEF InStep, CbwPhase, On
  <2>5. CASE On(<<>>, <<>>) /\ Pending(1)
    BY <1>1, <1>2, <1>3, <1>5, <2>5, Appends DEF InStep, CbwPhase, On
  <2> QED BY <1>2, <1>4, <1>5, <2>1, <2>2, <2>3, <2>4, <2>5 DEF AtRest
<1> QED BY <1>2, <1>4, <1>5 DEF AtRest

\* A state that no command can leave is kept by a new one.
LEMMA StartedLost ==
    ASSUME StickSound, B!Done, NEW todo, NEW lba, NEW at, B!Start(todo, lba, at), B!Still, usbCall'.do # "ret"
    PROVE  /\ InLost => InLost'
           /\ OutLost => OutLost'
           /\ Stuck => Stuck'
<1>1. ~B!Passed' /\ cmd'.pc = "cbw" /\ UNCHANGED <<in, evs, halted, dev, usbFaults>>
  BY StartTag DEF B!Still, B!device
<1> QED BY <1>1 DEF InLost, OutLost, Stuck, Hopeless, B!Ok, Refuses

-----------------------------------------------------------------------------
\* The steps of msc_init and msc_rw: with a new command, or to return
LEMMA InitSteps ==
    ASSUME StickSound, B!msc_init
    PROVE  /\ B!Done /\ B!Still /\ StickSound' /\ usbBuf' = usbBuf
           /\ \/ usbCall' \in InitCalls /\ \E todo : B!Start(todo, 0, 0)
              \/ usbCall' = [do |-> "none"] /\ UNCHANGED <<out, cmd, g_cbw, g_tag>>
<1>1. B!Done /\ B!Still /\ usbBuf' = usbBuf /\ usbCall.do = "init" /\ usbCall \in InitCalls /\ calls' = calls
      /\ g_sectors' \in {0, Pieces}
  BY DEF B!msc_init, StickSound, HostOK, BufOK
<1>2. UNCHANGED <<in, evs, halted, dev, medium, g_csw, g_buf, usbFaults>>
  BY <1>1 DEF B!Still, B!device
<1>3. BufOK'
  BY <1>1, <1>2 DEF StickSound, BufOK
<1>4. ASSUME NEW todo \in {"inquiry", "capacity", "sense"}, B!Start(todo, 0, 0), usbCall' \in InitCalls
      PROVE  HostOK' /\ DevOK'
  <2>1. cmd' \in Cmds /\ cmd'.op = todo /\ g_tag' \in Nat /\ g_tag' # 0 /\ g_cbw'.tag = g_tag' /\ g_cbw'.op = todo /\ DevOK'
    BY <1>1, <1>4, StartTag DEF Cmds, Commands
  <2> QED BY <1>4, <2>1 DEF HostOK, InitCalls, Rw, Writes, B!Waits
<1>5. ASSUME usbCall' = [do |-> "none"], UNCHANGED <<out, cmd, g_cbw, g_tag>>
      PROVE  HostOK' /\ DevOK'
  <2>1. g_tag # 0
    BY <1>5 DEF B!msc_init, B!Start, StickSound, HostOK
  <2> QED BY <1>1, <1>2, <1>5, <2>1 DEF StickSound, HostOK, DevOK, Rw, B!Waits, B!Done
<1>6. ASSUME NEW step \in {"inquiry", "capacity", "sense"}, NEW n \in Nat, B!Init_(step, n) PROVE usbCall' \in InitCalls
  BY <1>1, <1>6 DEF B!Init_, InitCalls
<1>7. usbCall.tries \in Nat
  BY <1>1 DEF InitCalls
<1>8. \/ \E todo \in {"inquiry", "capacity", "sense"} : B!Start(todo, 0, 0) /\ usbCall' \in InitCalls
      \/ usbCall' = [do |-> "none"] /\ UNCHANGED <<out, cmd, g_cbw, g_tag>>
  BY <1>6, <1>7 DEF B!msc_init
<1> QED BY <1>1, <1>3, <1>4, <1>5, <1>8 DEF StickSound

LEMMA RwSteps ==
    ASSUME StickSound, NEW todo \in {"read", "write"}, NEW lba \in B!Lbas, NEW count \in 1 .. Pieces,
           NEW v \in Values \cup {Junk}, B!msc_rw(todo, lba, count, v), B!Done
    PROVE  /\ B!Still /\ StickSound' /\ Unwritten' /\ AtFirst'
           /\ usbCall'.do = todo /\ usbCall'.i = 0 /\ B!Start(todo, lba, 0)
<1>1. /\ B!Still /\ B!Start(todo, lba, 0) /\ g_sectors' = g_sectors
      /\ usbCall' = [do |-> todo, lba |-> lba, count |-> count, v |-> v, i |-> 0]
      /\ usbBuf' = [i \in B!Lbas |-> IF todo = "write" /\ i < count THEN v ELSE usbBuf[i]]
  BY DEF B!msc_rw
<1>2. UNCHANGED <<in, evs, halted, dev, medium, g_csw, g_buf, usbFaults>>
  BY <1>1 DEF B!Still, B!device
<1>3. lba \in Nat /\ count \in Nat /\ count \in 1 .. Pieces - lba
  BY StickAssumption DEF B!msc_rw, StickSound, BufOK, B!Lbas
<1>4. BufOK'
  BY <1>1, <1>2 DEF StickSound, BufOK
<1>5. usbCall' \in RwCalls /\ Within(usbCall') /\ usbCall'.i = 0 /\ usbCall'.do = todo /\ usbCall'.lba = lba /\ usbCall'.count = count /\ usbCall'.v = v
  BY <1>1, <1>3 DEF RwCalls, Within
<1>6. HostOK'
  <2>1. cmd' \in Cmds /\ cmd'.op = todo /\ cmd'.at = 0 /\ g_tag' \in Nat /\ g_tag' # 0
        /\ g_cbw'.tag = g_tag' /\ g_cbw'.op = todo /\ g_cbw'.lba = lba
    BY <1>1, StartTag DEF Cmds, Commands
  <2>2. Within(usbCall)'
    BY <1>5 DEF Within
  <2> QED BY <1>3, <1>5, <2>1, <2>2 DEF HostOK, Rw
<1>7. Unwritten'
  <2>1. \A j \in 0 .. count - 1 : j \in B!Lbas /\ j < count
    BY <1>3, StickAssumption DEF B!Lbas
  <2> QED BY <1>1, <1>5, <2>1 DEF Unwritten
<1> QED BY <1>1, <1>4, <1>5, <1>6, <1>7, StartTag DEF StickSound, AtFirst

LEMMA PieceSteps ==
    ASSUME StickSound, B!NextPiece
    PROVE  /\ B!Done /\ Rw /\ B!Still /\ StickSound' /\ usbBuf' = usbBuf
           /\ \/ /\ B!Ok /\ usbCall.i + 1 < usbCall.count /\ usbCall' = [usbCall EXCEPT !.i = @ + 1]
                 /\ \E todo, lba, at : B!Start(todo, lba, at)
              \/ /\ (B!Ok => usbCall.i + 1 = usbCall.count) /\ usbCall' = [do |-> "ret", of |-> usbCall, ok |-> B!Ok]
                 /\ UNCHANGED <<out, cmd, g_cbw, g_tag>>
<1>1. B!Done /\ Rw /\ B!Still /\ usbBuf' = usbBuf /\ g_sectors' = g_sectors
  BY DEF B!NextPiece, Rw
<1>2. UNCHANGED <<in, evs, halted, dev, medium, g_csw, g_buf, usbFaults>>
  BY <1>1 DEF B!Still, B!device
<1>3. BufOK'
  BY <1>1, <1>2 DEF StickSound, BufOK
<1>4. usbCall \in RwCalls /\ Within(usbCall) /\ usbCall.i < usbCall.count /\ g_tag # 0 /\ cmd \in Cmds /\ cmd.op = usbCall.do
  BY <1>1 DEF StickSound, HostOK
<1>5. CASE B!Ok /\ usbCall.i + 1 < usbCall.count /\ usbCall' = [usbCall EXCEPT !.i = @ + 1] /\ B!Start(usbCall.do, usbCall.lba + usbCall.i + 1, usbCall.i + 1)
  <2>1. /\ usbCall' \in RwCalls /\ usbCall'.i = usbCall.i + 1 /\ usbCall'.do = usbCall.do /\ usbCall'.lba = usbCall.lba
        /\ usbCall'.count = usbCall.count /\ Within(usbCall')
    BY <1>4, <1>5 DEF RwCalls, Within
  <2>2. Within(usbCall)'
    BY <2>1 DEF Within
  <2>3. cmd' \in Cmds /\ cmd'.op = usbCall.do /\ cmd'.at = usbCall.i + 1 /\ g_tag' \in Nat /\ g_tag' # 0
        /\ g_cbw'.tag = g_tag' /\ g_cbw'.op = usbCall.do /\ g_cbw'.lba = usbCall.lba + usbCall.i + 1 /\ DevOK'
    BY <1>1, <1>4, <1>5, StartTag DEF Cmds, Commands, RwCalls
  <2>4. usbCall.lba \in Nat /\ usbCall.i \in Nat
    BY <1>4 DEF RwCalls
  <2>5. HostOK'
    BY <1>4, <1>5, <2>1, <2>2, <2>3, <2>4 DEF HostOK, Rw, RwCalls
  <2> QED BY <1>1, <1>3, <1>5, <2>3, <2>5 DEF StickSound
<1>6. CASE (B!Ok => usbCall.i + 1 = usbCall.count) /\ usbCall' = [do |-> "ret", of |-> usbCall, ok |-> B!Ok] /\ UNCHANGED <<out, cmd, g_cbw, g_tag>>
  <2>1. usbCall'.do = "ret" /\ usbCall'.ok = B!Ok /\ usbCall'.of = usbCall
    BY <1>6
  <2>2. usbCall'.ok => B!Ok' /\ Within(usbCall.of)'
    BY <1>4, <1>6, <2>1 DEF B!Ok, Within
  <2>3. HostOK' /\ DevOK'
    BY <1>1, <1>2, <1>4, <1>6, <2>1, <2>2 DEF StickSound, HostOK, DevOK, Rw, B!Waits, B!Done
  <2> QED BY <1>1, <1>3, <1>6, <2>3 DEF StickSound
<1> QED BY <1>5, <1>6 DEF B!NextPiece

LEMMA PieceMoves ==
    ASSUME StickSound, InStep, PiecesMoved, B!NextPiece
    PROVE  InStep' /\ PiecesMoved'
<1>1. B!Done /\ Rw /\ B!Still /\ StickSound' /\ usbBuf' = usbBuf /\ usbCall \in RwCalls /\ usbCall.i < usbCall.count
  BY PieceSteps DEF StickSound, HostOK
<1>2. UNCHANGED <<in, evs, halted, dev, medium, g_csw, g_buf, usbFaults>>
  BY <1>1 DEF B!Still, B!device
<1>3. AtRest
  BY <1>1 DEF InStep, CbwPhase, DataPhase, CswPhase, B!Done
<1>4. B!Ok => \A j \in 0 .. usbCall.i : SameAt(usbCall, j)
  BY <1>1 DEF PiecesMoved, B!Ok, RwCalls
<1>5. CASE B!Ok /\ usbCall.i + 1 < usbCall.count /\ usbCall' = [usbCall EXCEPT !.i = @ + 1] /\ \E todo, lba, at : B!Start(todo, lba, at)
  <2>1. PICK todo, lba, at : B!Start(todo, lba, at)
    BY <1>5
  <2>2. usbCall' \in RwCalls /\ usbCall'.i = usbCall.i + 1 /\ usbCall'.do = usbCall.do /\ usbCall'.count = usbCall.count /\ usbCall'.v = usbCall.v /\ usbCall'.lba = usbCall.lba
    BY <1>1, <1>5 DEF RwCalls
  <2>3. Unwritten'
    BY <1>1, <1>3, <1>5, <2>2 DEF AtRest, Unwritten, RwCalls
  <2>4. ~Failed
    BY <1>5 DEF B!Ok, Failed
  <2>5. InStep'
    BY <1>1, <2>1, <2>3, <2>4, Started
  <2>6. ~B!Passed' /\ ~Answers' /\ cmd'.pc = "cbw"
    BY <1>1, <2>1, StartTag
  <2>7. \A j \in 0 .. usbCall.i : SameAt(usbCall, j)'
    BY <1>1, <1>2, <1>4, <1>5, <2>2 DEF SameAt
  <2>8. \A j \in 0 .. usbCall'.i - 1 : SameAt(usbCall, j)'
    BY <1>1, <2>2, <2>7 DEF RwCalls
  <2>9. usbCall'.do # "ret" /\ ~B!Ok'
    BY <1>1, <2>2, <2>6 DEF Rw, B!Ok
  <2> QED BY <2>5, <2>6, <2>8, <2>9 DEF PiecesMoved
<1>6. CASE (B!Ok => usbCall.i + 1 = usbCall.count) /\ usbCall' = [do |-> "ret", of |-> usbCall, ok |-> B!Ok] /\ UNCHANGED <<out, cmd, g_cbw, g_tag>>
  <2>1. usbCall'.do = "ret" /\ usbCall'.ok = B!Ok /\ usbCall'.of = usbCall /\ ~Rw'
    BY <1>6 DEF Rw
  <2>2. B!Ok => \A j \in 0 .. usbCall.count - 1 : SameAt(usbCall, j)
    BY <1>1, <1>4, <1>6 DEF RwCalls
  <2>3. usbCall'.ok => \A j \in 0 .. usbCall'.of.count - 1 : SameAt(usbCall.of, j)'
    BY <1>1, <1>2, <2>1, <2>2 DEF SameAt
  <2>4. PiecesMoved'
    BY <2>1, <2>3 DEF PiecesMoved
  <2>5. B!Done' = B!Done /\ Unwritten' /\ Failed' = Failed /\ NoFail' = NoFail /\ Queued(0)' = Queued(0) /\ Pending(0)' = Pending(0) /\ Pending(1)' = Pending(1)
    BY <1>2, <1>6, <2>1 DEF B!Done, Unwritten, Failed, B!Passed, B!TagMatches, NoFail, Queued, Pending
  <2>6. AtRest'
    BY <1>2, <1>3, <1>6, <2>5 DEF AtRest, On
  <2> QED BY <1>2, <2>4, <2>6 DEF InStep
<1> QED BY <1>5, <1>6, PieceSteps

LEMMA InitMoves ==
    ASSUME StickSound, InStep, PiecesMoved, B!msc_init
    PROVE  InStep' /\ PiecesMoved'
<1>1. B!Done /\ B!Still /\ StickSound' /\ usbBuf' = usbBuf
  BY InitSteps
<1>2. UNCHANGED <<in, evs, halted, dev, medium, g_csw, g_buf, usbFaults>>
  BY <1>1 DEF B!Still, B!device
<1>3. AtRest
  BY <1>1 DEF InStep, CbwPhase, DataPhase, CswPhase, B!Done
<1>4. PiecesMoved' /\ Unwritten' /\ AtFirst'
  <2>1. usbCall'.do \in {"init", "none"}
    BY InitSteps DEF InitCalls
  <2> QED BY <2>1 DEF PiecesMoved, Unwritten, AtFirst, Rw
<1>5. CASE \E todo : B!Start(todo, 0, 0)
  BY <1>1, <1>4, <1>5, Started
<1>6. CASE UNCHANGED <<out, cmd, g_cbw, g_tag>>
  <2>1. B!Done' = B!Done /\ Failed' = Failed /\ NoFail' = NoFail /\ Queued(0)' = Queued(0) /\ Pending(0)' = Pending(0) /\ Pending(1)' = Pending(1)
    BY <1>2, <1>6 DEF B!Done, Failed, B!Passed, B!TagMatches, NoFail, Queued, Pending
  <2>2. AtRest'
    BY <1>2, <1>3, <1>4, <1>6, <2>1 DEF AtRest, On
  <2> QED BY <1>2, <1>4, <2>2 DEF InStep
<1> QED BY <1>5, <1>6, InitSteps

LEMMA RwMoves ==
    ASSUME StickSound, InStep, PiecesMoved, B!Done, NEW todo \in {"read", "write"}, NEW lba \in B!Lbas,
           NEW count \in 1 .. Pieces, NEW v \in Values \cup {Junk}, B!msc_rw(todo, lba, count, v)
    PROVE  InStep' /\ PiecesMoved'
<1>1. B!Still /\ StickSound' /\ Unwritten' /\ AtFirst' /\ usbCall'.do = todo /\ usbCall'.i = 0 /\ B!Start(todo, lba, 0)
  BY RwSteps
<1>2. InStep'
  BY <1>1, Started
<1>3. ~B!Passed' /\ ~Answers' /\ cmd'.pc = "cbw" /\ ~B!Ok'
  BY <1>1, StartTag DEF B!Ok
<1> QED BY <1>1, <1>2, <1>3 DEF PiecesMoved

-----------------------------------------------------------------------------
LEMMA PortMoves ==
    ASSUME StickSound, B!Waits, B!PortEvent
    PROVE  /\ StickSound'
           /\ InStep /\ PiecesMoved => InStep' /\ PiecesMoved'
<1>1. /\ UNCHANGED <<out, in, halted, dev, medium, g_csw, g_buf, usbBuf, g_cbw, g_tag, g_sectors, cmd, usbCall>>
      /\ usbFaults = 0 /\ usbFaults' = 1 /\ usbFaults' \in 0 .. MaxUsbFaults /\ evs' = Append(evs, Port)
  BY DEF B!PortEvent, B!Untouched, B!device, B!host, B!Fault, StickSound, BufOK, Port
<1>2. StickSound'
  BY <1>1 DEF StickSound, HostOK, DevOK, BufOK, B!Done, B!Ok, B!Waits, Rw, Writes, Within
<1>3. PiecesMoved' = PiecesMoved
  BY <1>1 DEF PiecesMoved, SameAt, Rw, B!Waits, B!Ok, B!Passed, B!TagMatches, Answers, Refuses
<1>4. /\ Queued(0) => Queued(0)'
      /\ Queued(1) => Queued(1)'
  <2>1. ASSUME Queued(0) PROVE Queued(0)'
    BY <1>1, <2>1, Appends DEF Queued, Pending
  <2>2. ASSUME Queued(1) PROVE Queued(1)'
    <3>1. PICK e \in Going : evs = <<e>>
      BY <1>1, <2>2, ItemsAre DEF Queued, Pending
    <3>2. evs' = <<e, Port>>
      BY <1>1, <3>1, Appends
    <3>3. PortAnd(Going, evs)'
      BY <3>2, Items
    <3> QED BY <1>1, <3>3 DEF Queued
  <2> QED BY <2>1, <2>2
<1>5. ASSUME InStep PROVE InStep'
  <2>1. ~AtRest
    BY DEF AtRest, B!Done, B!Waits
  <2>2. /\ B!Passed' = B!Passed /\ Unwritten' = Unwritten /\ Running' = Running /\ Answers' = Answers
        /\ Writes' = Writes /\ B!DataTrb' = B!DataTrb
    BY <1>1 DEF B!Passed, B!TagMatches, Unwritten, Running, Answers, Writes, B!DataTrb
  <2>3. CbwPhase => CbwPhase'
    BY <1>1, <1>4, <2>2 DEF CbwPhase, On
  <2>4. DataPhase => DataPhase'
    BY <1>1, <1>4, <2>2 DEF DataPhase, On
  <2>5. CswPhase => CswPhase'
    BY <1>1, <1>4, <2>2 DEF CswPhase, On
  <2> QED BY <1>1, <1>5, <2>1, <2>3, <2>4, <2>5 DEF InStep
<1> QED BY <1>2, <1>3, <1>5

-----------------------------------------------------------------------------
\* Where no command can pass any more, or the driver and the device wait for each other, it stays so.
LEMMA DriverLost ==
    ASSUME StickSound, B!xfer_wait \/ B!Timeout
    PROVE  /\ InLost => InLost'
           /\ OutLost => OutLost'
           /\ Stuck => Stuck'
<1>1. B!Waits /\ UNCHANGED <<halted, dev, g_csw, g_tag, usbCall>>
  BY DEF B!xfer_wait, B!Timeout, B!device
<1>2. B!Passed' = B!Passed /\ (~B!Passed => ~B!Ok')
  <2>1. cmd \in Cmds
    BY <1>1 DEF StickSound, HostOK, B!Waits, B!Done
  <2> QED BY <1>1, <2>1 DEF B!xfer_wait, B!Timeout, B!After, B!To, B!Ok, B!Waits, Cmds, B!Passed, B!TagMatches
<1>3. ASSUME Stuck PROVE Stuck'
  <2>1. B!Timeout /\ cmd.pc # "again"
    BY <1>3 DEF Stuck, B!xfer_wait
  <2>2. cmd' = [cmd EXCEPT !.pc = "err"] /\ cmd \in Cmds /\ usbFaults' = 1 /\ UNCHANGED <<in, evs, halted, dev, usbCall>>
    BY <1>3, <2>1, TimeoutRing DEF Stuck
  <2>3. cmd'.pc = "err"
    BY <2>2 DEF Cmds
  <2> QED BY <1>3, <2>2, <2>3 DEF Stuck
<1> QED BY <1>1, <1>2, <1>3 DEF InLost, OutLost, Hopeless, Refuses

LEMMA ReturnLost ==
    ASSUME StickSound, B!Done, B!Still, UNCHANGED <<out, cmd, g_cbw, g_tag>>,
           usbCall'.do = "ret" => usbCall'.ok = B!Ok
    PROVE  /\ InLost => InLost'
           /\ OutLost => OutLost'
           /\ Stuck => Stuck'
<1>1. UNCHANGED <<in, evs, halted, dev, medium, g_csw, g_buf, usbFaults>>
  BY DEF B!Still, B!device
<1>2. B!Passed' = B!Passed /\ B!Ok' = B!Ok /\ Refuses' = Refuses
  BY <1>1 DEF B!Passed, B!TagMatches, B!Ok, Refuses
<1> QED BY <1>1, <1>2 DEF InLost, OutLost, Stuck, Hopeless, B!Ok, B!Done

LEMMA DeviceLost ==
    ASSUME StickSound, B!RunOut \/ B!RunIn
    PROVE  /\ InLost => InLost'
           /\ OutLost => OutLost'
           /\ ~Stuck
<1>1. UNCHANGED <<cmd, usbCall, g_tag>>
  BY OutRing, InRing DEF B!host
<1>2. ~Stuck
  BY OutBlocked, InRing DEF Stuck
<1>3. ASSUME InLost PROVE InLost'
  <2>1. B!RunOut /\ g_csw' = g_csw /\ "in" \in halted'
    BY <1>3, InRing, OutRing DEF InLost, B!RunOut, B!Stall
  <2> QED BY <1>1, <1>3, <2>1 DEF InLost, Hopeless, B!Passed, B!TagMatches, B!Ok
<1>4. ASSUME OutLost PROVE OutLost'
  <2>1. B!RunIn /\ dev.at = "csw" /\ Refuses /\ dev' = [at |-> "cbw"]
    BY <1>4, InRing, OutRing DEF OutLost, B!RunIn, Refuses
  <2>2. "out" \in halted' /\ g_csw' \in {g_csw, Junk, dev.csw}
    BY <1>4, <2>1 DEF OutLost, B!RunIn, B!Into, B!Fill
  <2>3. ~B!Passed'
    BY <1>1, <1>4, <2>1, <2>2 DEF OutLost, Hopeless, B!Passed, B!TagMatches, Refuses
  <2> QED BY <1>1, <1>4, <2>1, <2>2, <2>3 DEF OutLost, Hopeless, B!Ok
<1> QED BY <1>2, <1>3, <1>4

LEMMA PortLost ==
    ASSUME StickSound, B!Waits, B!PortEvent
    PROVE  /\ InLost => InLost'
           /\ OutLost => OutLost'
           /\ ~Stuck
<1>1. UNCHANGED <<halted, dev, g_csw, g_tag, cmd, usbCall>> /\ usbFaults = 0
  BY DEF B!PortEvent, B!Untouched, B!device, B!host, B!Fault, StickSound, BufOK
<1> QED BY <1>1 DEF InLost, OutLost, Stuck, Hopeless, B!Ok, B!Passed, B!TagMatches, Refuses

-----------------------------------------------------------------------------
LEMMA UsbStarts == ASSUME MaxUsbFaults \in 0 .. 1, B!Init PROVE UsbInv
<1>1. StickSound
  <2>1. medium = [i \in B!Lbas |-> medium[i]] /\ DOMAIN medium = B!Lbas
    BY DEF B!Init
  <2> QED BY <2>1 DEF B!Init, StickSound, HostOK, DevOK, BufOK, InitCalls, B!Done, Rw, B!Waits
<1>2. InStep /\ PiecesMoved
  BY DEF B!Init, InStep, AtRest, PiecesMoved, Rw, B!Done, B!Ok, Unwritten, On, Queued, Pending
<1> QED BY <1>1, <1>2 DEF UsbInv, StickSound

LEMMA UsbSteps == ASSUME UsbInv, [B!Next]_(B!vars) PROVE UsbInv'
<1>1. StickSound
  BY DEF UsbInv, StickSound
<1>2. ASSUME StickSound',
             InStep /\ PiecesMoved => (InStep' /\ PiecesMoved') \/ InLost' \/ OutLost' \/ Stuck',
             InLost => InLost', OutLost => OutLost', Stuck => Stuck'
      PROVE  UsbInv'
  BY <1>2 DEF UsbInv, StickSound
<1>3. CASE B!xfer_wait
  BY <1>1, <1>2, <1>3, WaitBase, WaitFlow, WaitMoves, DriverLost
<1>4. CASE B!Timeout
  BY <1>1, <1>2, <1>4, TimeoutBase, TimeoutFlow, WaitMoves, DriverLost
<1>5. CASE B!msc_init
  <2>1. StickSound' /\ B!Done /\ B!Still
    BY <1>1, <1>2, <1>5, InitSteps
  <2>2. CASE usbCall' \in InitCalls /\ \E todo : B!Start(todo, 0, 0)
    <3>1. usbCall'.do # "ret"
      BY <2>2 DEF InitCalls
    <3> QED BY <1>1, <1>2, <1>5, <2>1, <2>2, <3>1, InitMoves, StartedLost
  <2>3. CASE usbCall' = [do |-> "none"] /\ UNCHANGED <<out, cmd, g_cbw, g_tag>>
    BY <1>1, <1>2, <1>5, <2>1, <2>3, InitMoves, ReturnLost
  <2> QED BY <1>1, <1>2, <1>5, <2>2, <2>3, InitSteps
<1>6. CASE B!NextPiece
  <2>1. StickSound' /\ B!Done /\ B!Still /\ Rw
    BY <1>1, <1>2, <1>6, PieceSteps
  <2>2. CASE usbCall' = [usbCall EXCEPT !.i = @ + 1] /\ \E todo, lba, at : B!Start(todo, lba, at)
    <3>1. usbCall'.do # "ret"
      BY <1>1, <2>1, <2>2 DEF Rw, RwCalls, StickSound, HostOK
    <3> QED BY <1>1, <1>2, <1>6, <2>1, <2>2, <3>1, PieceMoves, StartedLost
  <2>3. CASE usbCall' = [do |-> "ret", of |-> usbCall, ok |-> B!Ok] /\ UNCHANGED <<out, cmd, g_cbw, g_tag>>
    BY <1>1, <1>2, <1>6, <2>1, <2>3, PieceMoves, ReturnLost
  <2> QED BY <1>1, <1>2, <1>6, <2>2, <2>3, PieceSteps
<1>7. ASSUME NEW todo \in {"read", "write"}, NEW lba \in B!Lbas, NEW count \in 1 .. Pieces,
             NEW v \in Values \cup {Junk}, B!msc_rw(todo, lba, count, v)
      PROVE  UsbInv'
  <2>1. B!Done
    BY <1>1, <1>2, <1>7 DEF B!msc_rw, StickSound, HostOK, B!Waits, B!Done, Rw, Cmds
  <2>2. B!Still /\ StickSound' /\ usbCall'.do = todo /\ B!Start(todo, lba, 0)
    BY <1>1, <1>2, <1>7, <2>1, RwSteps
  <2> QED BY <1>1, <1>2, <1>7, <2>1, <2>2, RwMoves, StartedLost DEF UsbInv, StickSound
<1>8. CASE B!RunOut
  BY <1>1, <1>2, <1>8, OutBase, OutFlow, OutMoves, DeviceLost
<1>9. CASE B!RunIn
  <2>1. InStep' => halted' = {}
    BY DEF InStep
  <2> QED BY <1>1, <1>2, <1>9, <2>1, InBase, InFlow, InMoves, DeviceLost
<1>10. CASE B!Waits /\ B!PortEvent
  BY <1>1, <1>2, <1>10, PortMoves, PortLost
<1>11. CASE UNCHANGED B!vars
  <2>1. UNCHANGED <<out, in, evs, halted, dev, medium, g_csw, g_buf, usbBuf, g_cbw, g_tag, g_sectors, cmd, usbCall, usbFaults>>
    BY <1>11 DEF B!vars, B!rings, B!device, B!host
  <2>2. StickSound'
    BY <1>1, <2>1 DEF StickSound, HostOK, DevOK, BufOK, B!Done, B!Ok, B!Waits, Rw, Writes, Within
  <2>3. /\ B!Passed' = B!Passed /\ B!Ok' = B!Ok /\ B!Done' = B!Done /\ Refuses' = Refuses /\ Answers' = Answers /\ Rw' = Rw
        /\ Writes' = Writes /\ B!DataTrb' = B!DataTrb /\ Running' = Running /\ Unwritten' = Unwritten /\ NoFail' = NoFail
        /\ Earlier' = Earlier /\ AtFirst' = AtFirst /\ Failed' = Failed
    BY <2>1 DEF B!Passed, B!TagMatches, B!Ok, B!Done, Refuses, Answers, Rw, Writes, B!DataTrb, Running, Unwritten, NoFail, Earlier, AtFirst, Failed
  <2>4. /\ Pending(0)' = Pending(0) /\ Pending(1)' = Pending(1) /\ Pending(2)' = Pending(2)
        /\ Queued(0)' = Queued(0) /\ Queued(1)' = Queued(1)
    BY <2>1 DEF Pending, Queued
  <2>5. PiecesMoved' = PiecesMoved
    BY <2>1, <2>3 DEF PiecesMoved, SameAt, B!Waits
  <2>6. AtRest' = AtRest
    BY <2>1, <2>3, <2>4 DEF AtRest, On
  <2>7. CbwPhase' = CbwPhase
    BY <2>1, <2>3, <2>4 DEF CbwPhase, On
  <2>8. DataPhase' = DataPhase
    BY <2>1, <2>3, <2>4 DEF DataPhase, On
  <2>9. CswPhase' = CswPhase
    BY <2>1, <2>3, <2>4 DEF CswPhase, On
  <2>10. InLost' = InLost /\ OutLost' = OutLost /\ Stuck' = Stuck
    BY <2>1, <2>3 DEF InLost, OutLost, Stuck, Hopeless
  <2>11. InStep' = InStep
    BY <2>1, <2>6, <2>7, <2>8, <2>9 DEF InStep
  <2> QED BY <1>2, <2>2, <2>5, <2>10, <2>11
<1> QED BY <1>3, <1>4, <1>5, <1>6, <1>7, <1>8, <1>9, <1>10, <1>11 DEF B!Next


LEMMA UsbDone == UsbInv => OkMeansDone
<1>1. SUFFICES ASSUME UsbInv, usbCall.do = "ret", usbCall.ok PROVE PiecesMoved
  BY DEF OkMeansDone, B!OkMeansDone, PiecesMoved, SameAt
<1> QED BY <1>1 DEF UsbInv, InLost, OutLost, Stuck, Hopeless

\* A call of the mass storage driver that returns 0 has done what it says: the
\* caller's buffer and the medium hold the same, and after a write they hold what was
\* to be written, for every capacity, content and number of calls, if at most one
\* answer is late, stalls or fails. (With two faults it is wrong: see UsbMsc.)
THEOREM OkIsDone == ASSUME MaxUsbFaults \in 0 .. 1 PROVE StorageSpec => []OkMeansDone
<1>1. StorageInit => UsbInv
  BY UsbStarts DEF StorageInit
<1>2. UsbInv /\ [StorageNext]_storage_vars => UsbInv'
  <2>1. UNCHANGED stick => UNCHANGED B!vars
    BY DEF stick, B!vars, B!rings, B!device, B!host
  <2>2. [StorageNext]_storage_vars => B!Next \/ UNCHANGED stick
    BY DEF StorageNext, InFat32, InUsers, InUsb, storage_vars
  <2> QED BY <2>1, <2>2, UsbSteps
<1> QED BY <1>1, <1>2, UsbDone, PTL DEF StorageSpec
=============================================================================
