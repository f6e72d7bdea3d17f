------------------------- MODULE ExportIndexProofs -------------------------
(***************************************************************************)
(* What is proved of the export lookup (ExportIndex): the slot arrays have *)
(* one owner each, and the index answers as the linear scan does; and of   *)
(* the reload loop that builds and retires such indexes (ReloadCadence):   *)
(* what it retires is reclaimed when it must be, and freed once.  Then of  *)
(* the benchmarks: the three index layouts they compare answer alike       *)
(* (BenchIndex), and their schedules hold the shares that their tables     *)
(* announce (Workload).                                                    *)
(***************************************************************************)
EXTENDS Workload, BenchIndex, ExportIndex, ReloadCadence, Induction, FiniteSetTheorems, SequenceTheorems, TLAPS

-----------------------------------------------------------------------------
(***************************************************************************)
(* The slot arrays.                                                        *)
(***************************************************************************)
\* What one step of a build() or a destroy() does to the tasks.
LEMMA GoEffect ==
    ASSUME ExportTypes, NEW w \in Builders, NEW a, NEW s, Go(w, a, s)
    PROVE  /\ DOMAIN task' = Builders
           /\ DOMAIN task'[w] = {"at", "index", "table", "slots"}
           /\ task'[w].at = a /\ task'[w].slots = s
           /\ task'[w].index = task[w].index /\ task'[w].table = task[w].table
           /\ \A u \in Builders : u # w => task'[u] = task[u]
<1> DEFINE g == [task EXCEPT ![w].at = a]
<1>1. /\ DOMAIN g = Builders /\ DOMAIN g[w] = {"at", "index", "table", "slots"}
      /\ g[w].at = a /\ g[w].slots = task[w].slots
      /\ g[w].index = task[w].index /\ g[w].table = task[w].table
      /\ \A u \in Builders : u # w => g[u] = task[u]
  BY DEF ExportTypes
<1>2. task' = [g EXCEPT ![w].slots = s]
  BY DEF Go, ExportTypes
<1> HIDE DEF g
<1> QED BY <1>1, <1>2

LEMMA RestEffect ==
    ASSUME ExportTypes, NEW w \in Builders, task' = [task EXCEPT ![w] = Resting]
    PROVE  /\ DOMAIN task' = Builders
           /\ DOMAIN task'[w] = {"at", "index", "table", "slots"}
           /\ task'[w].at = "idle" /\ task'[w].slots = NoBuffer /\ task'[w].index = NoBuffer
           /\ \A u \in Builders : u # w => task'[u] = task[u]
  BY DEF ExportTypes, Resting

LEMMA ExportInitInv == ExportInit => ExportInv
<1> SUFFICES ASSUME ExportInit PROVE ExportInv
  OBVIOUS
<1> USE BuffersAssumption DEF ExportInit
<1>1. ExportTypes
  BY DEF ExportTypes, Resting, Unbuilt, TaskSteps
<1>2. TasksApart
  BY DEF TasksApart, Resting
<1>3. OneArrayOwner
  BY DEF OneArrayOwner, Resting, Unbuilt
<1> QED BY <1>1, <1>2, <1>3 DEF ExportInv

\* A worker's call that leaves the indexes alone: the invariant follows from who
\* owns what afterwards.
LEMMA OwnerMoves ==
    ASSUME ExportInv, NEW w \in Builders, index' = index,
           task[w].at # "idle",
           DOMAIN task' = Builders, DOMAIN task'[w] = {"at", "index", "table", "slots"},
           task'[w].index = task[w].index,
           \A u \in Builders : u # w => task'[u] = task[u],
           task'[w].at \in TaskSteps \ {"idle"},
           task'[w].slots \in Buffers \union {NoBuffer},
           task'[w].at \in {"take", "done"} => task'[w].slots = NoBuffer,
           task'[w].at = "fill" => task'[w].slots # NoBuffer
    PROVE  TasksApart'
  BY DEF ExportInv, TasksApart

\* Beginning a build() or a destroy() hands the index's array to the task.
LEMMA ExportBegin ==
    ASSUME ExportInv, NEW w \in Builders, NEW i \in Indexes, NEW t,
           NEW a \in {"offer_old", "offer_last"}, BeginTask(w, i, t, a)
    PROVE  ExportInv'
<1> USE BuffersAssumption DEF ExportInv
<1>1. /\ task[w].at = "idle" /\ task[w].slots = NoBuffer
      /\ \A u \in Builders : task[u].index # i
      /\ pool' = pool /\ buffer' = buffer
    BY DEF BeginTask, Resting
<1>2. /\ DOMAIN task' = Builders
      /\ DOMAIN task'[w] = {"at", "index", "table", "slots"}
      /\ task'[w].at = a /\ task'[w].slots = index[i].slots /\ task'[w].index = i
      /\ \A u \in Builders : u # w => task'[u] = task[u]
  BY DEF BeginTask, ExportTypes
<1>3. /\ DOMAIN index' = Indexes /\ DOMAIN index'[i] = {"slots", "table"}
      /\ index'[i].slots = NoBuffer
      /\ \A j \in Indexes : j # i => index'[j] = index[j]
  BY DEF BeginTask, ExportTypes, Unbuilt
<1>4. ExportTypes'
  BY <1>1, <1>2, <1>3 DEF ExportTypes, TaskSteps
<1>5. TasksApart'
  BY <1>1, <1>2, <1>3 DEF TasksApart
<1>6. OneArrayOwner'
  <2>1. ASSUME NEW u \in Builders, task'[u].slots # NoBuffer
        PROVE  /\ task'[u].slots # pool
               /\ \A v \in Builders : task'[v].slots = task'[u].slots => v = u
               /\ \A j \in Indexes : index'[j].slots # task'[u].slots
    BY <1>1, <1>2, <1>3, <2>1 DEF OneArrayOwner
  <2>2. ASSUME NEW j \in Indexes, index'[j].slots # NoBuffer
        PROVE  /\ index'[j].slots # pool
               /\ \A k \in Indexes : index'[k].slots = index'[j].slots => k = j
    BY <1>1, <1>2, <1>3, <2>2 DEF OneArrayOwner
  <2>3. ASSUME NEW b \in Buffers
        PROVE  buffer[b].allocated <=>
                  \/ pool = b
                  \/ \E j \in Indexes : index'[j].slots = b
                  \/ \E u \in Builders : task'[u].slots = b
    BY <1>1, <1>2, <1>3 DEF OneArrayOwner, ExportTypes
  <2> QED BY <1>1, <2>1, <2>2, <2>3 DEF OneArrayOwner
<1> QED BY <1>4, <1>5, <1>6

\* release(): the array goes to the pool, and what was parked to delete[].
LEMMA ExportOffer ==
    ASSUME ExportInv, NEW w \in Builders, Offer(w)
    PROVE  ExportInv'
<1> USE BuffersAssumption DEF ExportInv
<1> DEFINE mine == task[w].slots
<1>1. /\ task[w].at \in {"offer_old", "offer_last"}
      /\ buffer' = buffer /\ index' = index
  BY DEF Offer
<1>2. PICK a, s :
        /\ Go(w, a, s)
        /\ \/ mine = NoBuffer /\ pool' = pool /\ s = NoBuffer /\ a \in {"take", "done"}
           \/ mine # NoBuffer /\ pool' = mine /\ s = pool /\ a \in {"delete_old", "delete_last"}
           \/ mine # NoBuffer /\ pool' = pool /\ s = mine /\ a \in {"delete_old", "delete_last"}
  BY DEF Offer, AfterRelease, Deleting
<1>3. /\ DOMAIN task' = Builders
      /\ DOMAIN task'[w] = {"at", "index", "table", "slots"}
      /\ task'[w].at = a /\ task'[w].slots = s /\ task'[w].index = task[w].index
      /\ \A u \in Builders : u # w => task'[u] = task[u]
  BY <1>2, GoEffect
<1>4. ExportTypes'
  BY <1>1, <1>2, <1>3 DEF ExportTypes, TaskSteps
<1>5. TasksApart'
  <2>1. task'[w].at \in TaskSteps \ {"idle"} /\ task'[w].slots \in Buffers \union {NoBuffer}
    BY <1>2, <1>3 DEF TaskSteps, ExportTypes
  <2>2. /\ task'[w].at \in {"take", "done"} => task'[w].slots = NoBuffer
        /\ task'[w].at = "fill" => task'[w].slots # NoBuffer
    BY <1>2, <1>3
  <2> QED BY <1>1, <1>3, <2>1, <2>2, OwnerMoves
<1>6. OneArrayOwner'
  <2>1. ASSUME NEW u \in Builders, task'[u].slots # NoBuffer
        PROVE  /\ task'[u].slots # pool'
               /\ \A v \in Builders : task'[v].slots = task'[u].slots => v = u
               /\ \A j \in Indexes : index[j].slots # task'[u].slots
    BY <1>2, <1>3, <2>1 DEF OneArrayOwner
  <2>2. ASSUME NEW j \in Indexes, index[j].slots # NoBuffer
        PROVE  index[j].slots # pool'
    BY <1>2, <2>2 DEF OneArrayOwner
  <2>3. ASSUME NEW b \in Buffers
        PROVE  buffer[b].allocated <=>
                  \/ pool' = b
                  \/ \E j \in Indexes : index[j].slots = b
                  \/ \E u \in Builders : task'[u].slots = b
    BY <1>2, <1>3 DEF OneArrayOwner, ExportTypes
  <2> QED BY <1>1, <2>1, <2>2, <2>3 DEF OneArrayOwner
<1> QED BY <1>4, <1>5, <1>6

\* delete[]: an array that nobody else owns is freed, if there is one.
LEMMA ExportDelete ==
    ASSUME ExportInv, NEW w \in Builders, Delete(w)
    PROVE  ExportInv'
<1> USE BuffersAssumption DEF ExportInv
<1> DEFINE mine == task[w].slots
<1>1. task[w].at \in {"delete_old", "delete_last"} /\ pool' = pool /\ index' = index
  BY DEF Delete
<1>2. /\ Go(w, AfterRelease(w), NoBuffer)
      /\ AfterRelease(w) \in {"take", "done"}
  BY DEF Delete, AfterRelease
<1>3. /\ DOMAIN task' = Builders
      /\ DOMAIN task'[w] = {"at", "index", "table", "slots"}
      /\ task'[w].at \in {"take", "done"} /\ task'[w].slots = NoBuffer
      /\ task'[w].index = task[w].index
      /\ \A u \in Builders : u # w => task'[u] = task[u]
  BY <1>2, GoEffect
<1>4. /\ DOMAIN buffer' = Buffers
      /\ \A b \in Buffers : DOMAIN buffer'[b] = {"allocated", "slots"}
      /\ \A b \in Buffers : buffer'[b].allocated \in BOOLEAN
      /\ \A b \in Buffers : buffer'[b].allocated <=> buffer[b].allocated /\ b # mine
  <2>1. CASE mine = NoBuffer
    BY <2>1 DEF Delete, ExportTypes
  <2>2. CASE mine # NoBuffer
    <3>1. mine \in Buffers /\ buffer' = [buffer EXCEPT ![mine].allocated = FALSE]
      BY <2>2 DEF Delete, ExportTypes
    <3> HIDE DEF mine
    <3> QED BY <3>1 DEF ExportTypes
  <2> QED BY <2>1, <2>2
<1>5. ExportTypes'
  BY <1>1, <1>3, <1>4 DEF ExportTypes, TaskSteps
<1>6. TasksApart'
  <2>1. task'[w].at \in TaskSteps \ {"idle"} /\ task'[w].slots \in Buffers \union {NoBuffer}
    BY <1>3 DEF TaskSteps
  <2>2. /\ task'[w].at \in {"take", "done"} => task'[w].slots = NoBuffer
        /\ task'[w].at = "fill" => task'[w].slots # NoBuffer
    BY <1>3
  <2> QED BY <1>1, <1>3, <2>1, <2>2, OwnerMoves
<1>7. OneArrayOwner'
  <2>1. ASSUME NEW u \in Builders, task'[u].slots # NoBuffer
        PROVE  /\ task'[u].slots # pool
               /\ \A v \in Builders : task'[v].slots = task'[u].slots => v = u
               /\ \A j \in Indexes : index[j].slots # task'[u].slots
    BY <1>3, <2>1 DEF OneArrayOwner
  <2>2. ASSUME NEW b \in Buffers
        PROVE  buffer'[b].allocated <=>
                  \/ pool = b
                  \/ \E j \in Indexes : index[j].slots = b
                  \/ \E u \in Builders : task'[u].slots = b
    <3>1. CASE b = mine
      BY <1>3, <1>4, <3>1 DEF OneArrayOwner
    <3>2. CASE b # mine
      BY <1>3, <1>4, <3>2 DEF OneArrayOwner
    <3> QED BY <3>1, <3>2
  <2> QED BY <1>1, <2>1, <2>2 DEF OneArrayOwner
<1> QED BY <1>5, <1>6, <1>7

\* take(): the parked array, a fresh one, or none.
LEMMA ExportTake ==
    ASSUME ExportInv, NEW w \in Builders, Take(w)
    PROVE  ExportInv'
<1> USE BuffersAssumption DEF ExportInv
<1> DEFINE want == Capacity(task[w].table)
<1>1. task[w].at = "take" /\ task[w].slots = NoBuffer /\ index' = index
  BY DEF Take, TasksApart
<1>2. PICK a, s :
        /\ Go(w, a, s)
        /\ \/ a = "fill" /\ s = pool /\ pool # NoBuffer /\ pool' = NoBuffer /\ buffer' = buffer
           \/ /\ a = "fill" /\ s \in Buffers /\ ~buffer[s].allocated /\ pool' = pool
              /\ buffer' = [buffer EXCEPT ![s] = [allocated |-> TRUE,
                     slots |-> [k \in 1..want |-> [hash |-> 1, index_plus1 |-> 1]]]]
           \/ a = "done" /\ s = NoBuffer /\ pool' = pool /\ buffer' = buffer
  <2>1. CASE CanTake(want)
    BY <2>1 DEF Take, CanTake
  <2>2. CASE ~CanTake(want)
    BY <2>2 DEF Take
  <2> QED BY <2>1, <2>2
<1>3. /\ DOMAIN task' = Builders
      /\ DOMAIN task'[w] = {"at", "index", "table", "slots"}
      /\ task'[w].at = a /\ task'[w].slots = s /\ task'[w].index = task[w].index
      /\ \A u \in Builders : u # w => task'[u] = task[u]
  BY <1>2, GoEffect
<1>4. /\ DOMAIN buffer' = Buffers
      /\ \A b \in Buffers : DOMAIN buffer'[b] = {"allocated", "slots"}
      /\ \A b \in Buffers : buffer'[b].allocated \in BOOLEAN
      /\ \A b \in Buffers : buffer'[b].allocated <=> buffer[b].allocated \/ b = s
  <2>1. CASE buffer' = buffer
    BY <1>2, <2>1 DEF ExportTypes, OneArrayOwner
  <2>2. CASE /\ s \in Buffers
             /\ buffer' = [buffer EXCEPT ![s] = [allocated |-> TRUE,
                     slots |-> [k \in 1..want |-> [hash |-> 1, index_plus1 |-> 1]]]]
    <3> HIDE DEF want
    <3> QED BY <2>2 DEF ExportTypes
  <2> QED BY <1>2, <2>1, <2>2
<1>5. ExportTypes'
  BY <1>1, <1>2, <1>3, <1>4 DEF ExportTypes, TaskSteps
<1>6. TasksApart'
  <2>1. task'[w].at \in TaskSteps \ {"idle"} /\ task'[w].slots \in Buffers \union {NoBuffer}
    BY <1>2, <1>3 DEF TaskSteps, ExportTypes
  <2>2. /\ task'[w].at \in {"take", "done"} => task'[w].slots = NoBuffer
        /\ task'[w].at = "fill" => task'[w].slots # NoBuffer
    BY <1>2, <1>3
  <2> QED BY <1>1, <1>3, <2>1, <2>2, OwnerMoves
<1>7. OneArrayOwner'
  <2>0. /\ s # NoBuffer => s # pool'
        /\ \A u \in Builders : u # w => task[u].slots # s \/ s = NoBuffer
        /\ \A j \in Indexes : index[j].slots # s \/ s = NoBuffer
        /\ pool' = pool \/ (pool' = NoBuffer /\ s = pool)
    <3>1. \/ s = pool /\ pool # NoBuffer /\ pool' = NoBuffer
          \/ s \in Buffers /\ ~buffer[s].allocated /\ pool' = pool
          \/ s = NoBuffer /\ pool' = pool
      BY <1>2
    <3>2. CASE s = pool /\ pool # NoBuffer /\ pool' = NoBuffer
      BY <3>2 DEF OneArrayOwner
    <3>3. CASE s \in Buffers /\ ~buffer[s].allocated /\ pool' = pool
      <4>1. /\ pool # s
            /\ \A j \in Indexes : index[j].slots # s
            /\ \A u \in Builders : task[u].slots # s
        BY <3>3 DEF OneArrayOwner
      <4> QED BY <3>3, <4>1
    <3>4. CASE s = NoBuffer /\ pool' = pool
      BY <3>4
    <3> QED BY <3>1, <3>2, <3>3, <3>4
  <2>1. ASSUME NEW u \in Builders, task'[u].slots # NoBuffer
        PROVE  /\ task'[u].slots # pool'
               /\ \A v \in Builders : task'[v].slots = task'[u].slots => v = u
               /\ \A j \in Indexes : index[j].slots # task'[u].slots
    BY <1>3, <2>0, <2>1 DEF OneArrayOwner
  <2>2. ASSUME NEW j \in Indexes, index[j].slots # NoBuffer
        PROVE  index[j].slots # pool'
    BY <2>0, <2>2 DEF OneArrayOwner
  <2>3. ASSUME NEW b \in Buffers
        PROVE  buffer'[b].allocated <=>
                  \/ pool' = b
                  \/ \E j \in Indexes : index[j].slots = b
                  \/ \E u \in Builders : task'[u].slots = b
    <3>1. CASE b = s
      BY <1>3, <1>4, <3>1
    <3>2. CASE b # s
      BY <1>1, <1>3, <1>4, <2>0, <3>2 DEF OneArrayOwner
    <3> QED BY <3>1, <3>2
  <2> QED BY <1>1, <2>1, <2>2, <2>3 DEF OneArrayOwner
<1> QED BY <1>5, <1>6, <1>7

\* The end of build(): the array goes from the task to its index.
LEMMA ExportFill ==
    ASSUME ExportInv, NEW w \in Builders, Fill(w)
    PROVE  ExportInv'
<1> USE BuffersAssumption DEF ExportInv
<1> DEFINE b == task[w].slots
           i == task[w].index
<1>1. /\ task[w].at = "fill" /\ b \in Buffers /\ i \in Indexes
      /\ index[i].slots = NoBuffer /\ pool' = pool
  BY DEF Fill, TasksApart, ExportTypes
<1>2. /\ DOMAIN task' = Builders
      /\ DOMAIN task'[w] = {"at", "index", "table", "slots"}
      /\ task'[w].at = "idle" /\ task'[w].slots = NoBuffer /\ task'[w].index = NoBuffer
      /\ \A u \in Builders : u # w => task'[u] = task[u]
  BY RestEffect DEF Fill
<1>3. /\ DOMAIN index' = Indexes
      /\ DOMAIN index'[i] = {"slots", "table"} /\ index'[i].slots = b
      /\ \A j \in Indexes : j # i => index'[j] = index[j]
  BY <1>1 DEF Fill, ExportTypes
<1>4. /\ DOMAIN buffer' = Buffers
      /\ \A c \in Buffers : DOMAIN buffer'[c] = {"allocated", "slots"}
      /\ \A c \in Buffers : buffer'[c].allocated = buffer[c].allocated
  <2>1. PICK f : buffer' = [buffer EXCEPT ![b].slots = f]
    BY DEF Fill
  <2> HIDE DEF b
  <2> QED BY <1>1, <2>1 DEF ExportTypes
<1>5. ExportTypes'
  BY <1>1, <1>2, <1>3, <1>4 DEF ExportTypes, TaskSteps
<1>6. TasksApart'
  BY <1>1, <1>2, <1>3 DEF TasksApart
<1>7. OneArrayOwner'
  <2>1. ASSUME NEW u \in Builders, task'[u].slots # NoBuffer
        PROVE  /\ task'[u].slots # pool
               /\ \A v \in Builders : task'[v].slots = task'[u].slots => v = u
               /\ \A j \in Indexes : index'[j].slots # task'[u].slots
    BY <1>1, <1>2, <1>3, <2>1 DEF OneArrayOwner
  <2>2. ASSUME NEW j \in Indexes, index'[j].slots # NoBuffer
        PROVE  /\ index'[j].slots # pool
               /\ \A k \in Indexes : index'[k].slots = index'[j].slots => k = j
    BY <1>1, <1>3, <2>2 DEF OneArrayOwner
  <2>3. ASSUME NEW c \in Buffers
        PROVE  buffer'[c].allocated <=>
                  \/ pool = c
                  \/ \E j \in Indexes : index'[j].slots = c
                  \/ \E u \in Builders : task'[u].slots = c
    <3>1. CASE c = b
      BY <1>1, <1>3, <1>4, <3>1 DEF OneArrayOwner
    <3>2. CASE c # b
      BY <1>1, <1>2, <1>3, <1>4, <3>2 DEF OneArrayOwner
    <3> QED BY <3>1, <3>2
  <2> QED BY <1>1, <2>1, <2>2, <2>3 DEF OneArrayOwner
<1> QED BY <1>5, <1>6, <1>7

LEMMA ExportFinish ==
    ASSUME ExportInv, NEW w \in Builders, Finish(w)
    PROVE  ExportInv'
<1> USE BuffersAssumption DEF ExportInv
<1>1. /\ task[w].at = "done" /\ task[w].slots = NoBuffer
      /\ pool' = pool /\ buffer' = buffer /\ index' = index
  BY DEF Finish, TasksApart
<1>2. /\ DOMAIN task' = Builders
      /\ DOMAIN task'[w] = {"at", "index", "table", "slots"}
      /\ task'[w].at = "idle" /\ task'[w].slots = NoBuffer /\ task'[w].index = NoBuffer
      /\ \A u \in Builders : u # w => task'[u] = task[u]
  BY RestEffect DEF Finish
<1>3. ExportTypes'
  BY <1>1, <1>2 DEF ExportTypes, TaskSteps
<1>4. TasksApart'
  BY <1>1, <1>2 DEF TasksApart
<1>5. OneArrayOwner'
  BY <1>1, <1>2 DEF OneArrayOwner
<1> QED BY <1>3, <1>4, <1>5

\* One owner at most, counted over the pool, the indexes and the tasks.
LEMMA ArraysCounted == ExportInv => BuffersOwnedOnce
<1> SUFFICES ASSUME ExportInv, NEW b \in Buffers
             PROVE  (IF pool = b THEN 1 ELSE 0)
                      + Cardinality({i \in Indexes : index[i].slots = b})
                      + Cardinality({w \in Builders : task[w].slots = b})
                    = IF buffer[b].allocated THEN 1 ELSE 0
  BY DEF BuffersOwnedOnce
<1> DEFINE I == {i \in Indexes : index[i].slots = b}
           W == {w \in Builders : task[w].slots = b}
<1> USE BuffersAssumption DEF ExportInv, OneArrayOwner
<1>1. CASE pool = b
  <2>1. I = {} /\ W = {} /\ buffer[b].allocated
    BY <1>1
  <2>2. Cardinality(I) = 0 /\ Cardinality(W) = 0
    BY <2>1, FS_EmptySet
  <2> QED BY <1>1, <2>1, <2>2
<1>2. CASE \E i \in Indexes : index[i].slots = b
  <2>1. PICK i \in Indexes : index[i].slots = b
    BY <1>2
  <2>2. I = {i} /\ W = {} /\ pool # b /\ buffer[b].allocated
    BY <2>1
  <2>3. Cardinality(I) = 1 /\ Cardinality(W) = 0
    BY <2>2, FS_EmptySet, FS_Singleton
  <2> QED BY <2>2, <2>3
<1>3. CASE \E w \in Builders : task[w].slots = b
  <2>1. PICK w \in Builders : task[w].slots = b
    BY <1>3
  <2>2. W = {w} /\ I = {} /\ pool # b /\ buffer[b].allocated
    BY <2>1
  <2>3. Cardinality(I) = 0 /\ Cardinality(W) = 1
    BY <2>2, FS_EmptySet, FS_Singleton
  <2> QED BY <2>2, <2>3
<1>4. CASE pool # b /\ ~(\E i \in Indexes : index[i].slots = b)
           /\ ~(\E w \in Builders : task[w].slots = b)
  <2>1. I = {} /\ W = {} /\ ~buffer[b].allocated
    BY <1>4
  <2>2. Cardinality(I) = 0 /\ Cardinality(W) = 0
    BY <2>1, FS_EmptySet
  <2> QED BY <1>4, <2>1, <2>2
<1> QED BY <1>1, <1>2, <1>3, <1>4

LEMMA ExportStep == ExportInv /\ [ExportNext]_exportVars => ExportInv'
<1> SUFFICES ASSUME ExportInv, [ExportNext]_exportVars PROVE ExportInv'
  OBVIOUS
<1>1. CASE UNCHANGED exportVars
  BY <1>1 DEF exportVars, ExportInv, ExportTypes, TasksApart, OneArrayOwner
<1>2. ASSUME NEW w \in Builders, NEW i \in Indexes, Destroy(w, i)
      PROVE  ExportInv'
  BY <1>2, ExportBegin DEF Destroy
<1>3. ASSUME NEW w \in Builders, NEW i \in Indexes, NEW t \in ExportTables, Build(w, i, t)
      PROVE  ExportInv'
  BY <1>3, ExportBegin DEF Build
<1> QED
  BY <1>1, <1>2, <1>3, ExportOffer, ExportDelete, ExportTake, ExportFill, ExportFinish
     DEF ExportNext

\* However the builds and the destructions of HashIndex objects on several threads
\* interleave around the SlotPool's lock, every allocated slot array is owned
\* exactly once, by the pool, an index or a call, and none is lost or freed twice.
THEOREM ArraysStayOwned == ExportSpec => []BuffersOwnedOnce
  BY ExportInitInv, ExportStep, ArraysCounted, PTL DEF ExportSpec

-----------------------------------------------------------------------------
(***************************************************************************)
(* Positions.                                                              *)
(***************************************************************************)
LEMMA Division ==
    ASSUME NEW x \in Nat, NEW n \in Nat \ {0}
    PROVE  x = n * (x \div n) + (x % n) /\ x \div n \in Nat /\ x % n \in 0..(n - 1)
  OBVIOUS

LEMMA SmallMultiple ==
    ASSUME NEW n \in Nat \ {0}, NEW k \in Int, n * k < n, -n < n * k
    PROVE  k = 0
  OBVIOUS

\* From any hash a probe comes past every slot.
LEMMA ProbeComesPast ==
    ASSUME NEW h \in Nat, NEW n \in Nat \ {0}, NEW p \in 0..(n - 1)
    PROVE  \E d \in 0..(n - 1) : (h + d) % n = p
<1> DEFINE q == h \div n
           r == h % n
<1>1. h = n * q + r /\ q \in Nat /\ r \in 0..(n - 1)
  BY Division
<1> HIDE DEF q, r
<1>2. PICK d \in 0..(n - 1), e \in Nat : h + d = n * e + p
  <2>1. CASE p >= r
    <3>1. p - r \in 0..(n - 1) /\ h + (p - r) = n * q + p
      BY <1>1, <2>1
    <3> QED BY <1>1, <3>1
  <2>2. CASE p < r
    <3>1. n * (q + 1) = n * q + n
      BY <1>1
    <3>2. p - r + n \in 0..(n - 1) /\ h + (p - r + n) = n * (q + 1) + p /\ q + 1 \in Nat
      BY <1>1, <2>2, <3>1
    <3> QED BY <3>2
  <2> QED BY <1>1, <2>1, <2>2
<1> DEFINE f == (h + d) \div n
           s == (h + d) % n
<1>3. h + d = n * f + s /\ f \in Nat /\ s \in 0..(n - 1)
  <2>1. h + d \in Nat
    OBVIOUS
  <2> QED BY <2>1, Division
<1> HIDE DEF f, s
<1>4. n * (f - e) = n * f - n * e
  BY <1>3
<1>5. n * (f - e) = p - s
  BY <1>2, <1>3, <1>4
<1>6. f - e = 0
  <2>1. n * (f - e) < n /\ -n < n * (f - e) /\ f - e \in Int
    BY <1>3, <1>5
  <2> QED BY <2>1, SmallMultiple
<1>7. s = p
  BY <1>3, <1>5, <1>6
<1> QED BY <1>7 DEF s

\* Arrays of n slots, as functions.
Arrays(n) == [1..n -> SlotType]

LEMMA ArrayFacts ==
    ASSUME NEW n \in Nat \ {0}, NEW a \in Arrays(n)
    PROVE  /\ Len(a) = n /\ a \in Seq(SlotType)
           /\ \A x \in Nat : (x % n) + 1 \in 1..n /\ At(a, x) = a[(x % n) + 1]
           /\ \A p \in 1..n : a[p].index_plus1 \in Nat /\ a[p].hash \in Nat
<1>1. Len(a) = n /\ a \in Seq(SlotType)
  BY FunctionIsSeq DEF Arrays
<1>2. \A x \in Nat : (x % n) + 1 \in 1..n
  <2>1. \A x \in Nat : x % n \in 0..(n - 1)
    BY Division
  <2> QED BY <2>1
<1>3. \A p \in 1..n : a[p].index_plus1 \in Nat /\ a[p].hash \in Nat
  BY DEF Arrays, SlotType
<1> QED BY <1>1, <1>2, <1>3 DEF At

Stored(a, p, h, i) == [a EXCEPT ![p] = [hash |-> h, index_plus1 |-> i]]

\* Slot p, at distance d from the hash, is the first that is free.
FirstFree(n, a, h, d, p) ==
    /\ p = ((h + d) % n) + 1 /\ a[p].index_plus1 = 0
    /\ \A e \in 0..(d - 1) : At(a, h + e).index_plus1 # 0

\* build(): the entry goes to the first free slot, if there is one.
LEMMA InsertEffect ==
    ASSUME NEW n \in Nat \ {0}, NEW a \in Arrays(n), NEW h \in Nat, NEW i \in Nat,
           \E p \in 1..n : a[p].index_plus1 = 0
    PROVE  \E d \in 0..(n - 1), p \in 1..n :
               FirstFree(n, a, h, d, p) /\ Insert(a, h, i) = Stored(a, p, h, i)
<1>1. Len(a) = n /\ \A x \in Nat : (x % n) + 1 \in 1..n /\ At(a, x) = a[(x % n) + 1]
  BY ArrayFacts
<1> DEFINE F == {d \in 0..(n - 1) : At(a, h + d).index_plus1 = 0}
           Q(d) == /\ At(a, h + d).index_plus1 = 0
                   /\ \A e \in 0..(d - 1) : At(a, h + e).index_plus1 # 0
<1>2. F # {} /\ F \subseteq Nat
  <2>1. PICK p \in 1..n : a[p].index_plus1 = 0
    OBVIOUS
  <2>2. p - 1 \in 0..(n - 1) /\ (p - 1) + 1 = p
    OBVIOUS
  <2>3. PICK d \in 0..(n - 1) : (h + d) % n = p - 1
    BY <2>2, ProbeComesPast
  <2>4. h + d \in Nat
    OBVIOUS
  <2>5. At(a, h + d) = a[p]
    BY <1>1, <2>2, <2>3, <2>4
  <2>6. d \in F
    BY <2>1, <2>5
  <2>7. F \subseteq 0..(n - 1)
    OBVIOUS
  <2> HIDE DEF F
  <2>8. F \subseteq Nat
    BY <2>7
  <2> QED BY <2>6, <2>8
<1>3. PICK d \in F : \A e \in F : d <= e
  <2> HIDE DEF F
  <2> QED BY <1>2, LeastElement
<1>4. d \in 0..(n - 1) /\ Q(d)
  <2>1. \A e \in 0..(d - 1) : e \in 0..(n - 1) /\ ~(d <= e)
    OBVIOUS
  <2> QED BY <1>3, <2>1
<1>5. PICK g \in 0..(n - 1) : Q(g) /\ g = CHOOSE x \in 0..(n - 1) : Q(x)
  <2> HIDE DEF Q
  <2> QED BY <1>4
<1>6. Insert(a, h, i) = [a EXCEPT ![((h + g) % n) + 1] = [hash |-> h, index_plus1 |-> i]]
  BY <1>1, <1>5 DEF Insert
<1>7. h + g \in Nat
  OBVIOUS
<1>8. ((h + g) % n) + 1 \in 1..n /\ a[((h + g) % n) + 1].index_plus1 = 0
  BY <1>1, <1>5, <1>7
<1>9. Insert(a, h, i) = Stored(a, ((h + g) % n) + 1, h, i)
  BY <1>6 DEF Stored
<1>10. FirstFree(n, a, h, g, ((h + g) % n) + 1)
  BY <1>5, <1>8 DEF FirstFree
<1> QED BY <1>8, <1>9, <1>10

-----------------------------------------------------------------------------
(***************************************************************************)
(* build() puts every entry in its place.                                  *)
(***************************************************************************)
\* As long as fewer entries than slots are in place, a slot is free.
LEMMA SlotIsFree ==
    ASSUME NEW n \in Nat \ {0}, NEW a \in Arrays(n), NEW table, NEW k \in Nat, k < n,
           InPlace(a, table, k)
    PROVE  \E p \in 1..n : a[p].index_plus1 = 0
<1> SUFFICES ASSUME \A p \in 1..n : a[p].index_plus1 # 0
             PROVE  FALSE
  OBVIOUS
<1>1. Len(a) = n
  BY ArrayFacts
<1>2. {p \in 1..Len(a) : a[p].index_plus1 # 0} = 1..n
  BY <1>1
<1>3. Cardinality(1..n) = k
  BY <1>2 DEF InPlace
<1>4. Cardinality(1..n) = n
  <2>1. 1 \in Int /\ n \in Int
    OBVIOUS
  <2>2. Cardinality(1..n) = IF 1 > n THEN 0 ELSE n - 1 + 1
    BY <2>1, FS_Interval
  <2> QED BY <2>2
<1> QED BY <1>3, <1>4

LEMMA InsertKeepsPlace ==
    ASSUME NEW n \in Nat \ {0}, NEW a \in Arrays(n), NEW table, NEW k \in Nat, k < n,
           \A i \in 1..(k + 1) : Hash(table, i) \in Nat,
           InPlace(a, table, k)
    PROVE  LET b == Insert(a, Hash(table, k + 1), k + 1)
           IN  b \in Arrays(n) /\ InPlace(b, table, k + 1)
<1> DEFINE h == Hash(table, k + 1)
           b == Insert(a, h, k + 1)
<1>1. h \in Nat /\ k + 1 \in Nat /\ k + 1 # 0 /\ k + 1 \in 1..(k + 1)
  OBVIOUS
<1>2. \E p \in 1..n : a[p].index_plus1 = 0
  BY SlotIsFree
<1>3. PICK g \in 0..(n - 1), p \in 1..n :
        /\ p = ((h + g) % n) + 1 /\ a[p].index_plus1 = 0
        /\ \A e \in 0..(g - 1) : At(a, h + e).index_plus1 # 0
        /\ b = Stored(a, p, h, k + 1)
  <2> HIDE DEF h
  <2>1. PICK j \in Nat : j = k + 1
    BY <1>1
  <2>2. PICK g \in 0..(n - 1), p \in 1..n :
          FirstFree(n, a, h, g, p) /\ Insert(a, h, j) = Stored(a, p, h, j)
    BY ONLY ZenonT(30), <1>1, <1>2, n \in Nat \ {0}, a \in Arrays(n), j \in Nat, InsertEffect
  <2> QED BY <2>1, <2>2 DEF FirstFree
<1> HIDE DEF b, h
<1>4. /\ b \in Arrays(n) /\ b[p].hash = h /\ b[p].index_plus1 = k + 1
      /\ \A q \in 1..n : q # p => b[q] = a[q]
  BY <1>1, <1>3 DEF Arrays, SlotType, Stored
<1>5. /\ Len(a) = n /\ Len(b) = n
      /\ \A x \in Nat : (x % n) + 1 \in 1..n
      /\ \A x \in Nat : At(a, x) = a[(x % n) + 1]
      /\ \A x \in Nat : At(b, x) = b[(x % n) + 1]
  BY <1>4, ArrayFacts
\* An occupied slot keeps its entry, and stays occupied.
<1>6. \A x \in Nat : At(a, x).index_plus1 # 0 =>
        At(b, x).index_plus1 = At(a, x).index_plus1
  <2>1. ASSUME NEW x \in Nat, At(a, x).index_plus1 # 0
        PROVE  At(b, x).index_plus1 = At(a, x).index_plus1
    <3>1. PICK q \in 1..n : At(a, x) = a[q] /\ At(b, x) = b[q]
      BY <1>5
    <3>2. q # p
      BY <1>3, <2>1, <3>1
    <3> QED BY <1>4, <3>1, <3>2
  <2> QED BY <2>1
<1>7. \A x \in Nat : \/ At(b, x).index_plus1 = At(a, x).index_plus1
                     \/ At(b, x).index_plus1 = k + 1 /\ At(a, x).index_plus1 = 0
  <2>1. ASSUME NEW x \in Nat
        PROVE  \/ At(b, x).index_plus1 = At(a, x).index_plus1
               \/ At(b, x).index_plus1 = k + 1 /\ At(a, x).index_plus1 = 0
    <3>1. PICK q \in 1..n : At(a, x) = a[q] /\ At(b, x) = b[q]
      BY <1>5
    <3>2. CASE q = p
      BY <1>3, <1>4, <3>1, <3>2
    <3>3. CASE q # p
      BY <1>4, <3>1, <3>3
    <3> QED BY <3>2, <3>3
  <2> QED BY <2>1
<1>8. \A i \in 1..(k + 1), d \in 0..(n - 1) : Hash(table, i) + d \in Nat
  OBVIOUS
<1>9. ASSUME NEW i \in 1..k
      PROVE  \E d \in 0..(n - 1) :
               /\ At(a, Hash(table, i) + d).index_plus1 = i
               /\ At(b, Hash(table, i) + d).index_plus1 = i
               /\ \A e \in 0..d : At(a, Hash(table, i) + e).index_plus1 # 0
               /\ d \in Probed(b, Hash(table, i))
  <2>1. PICK d \in Probed(a, Hash(table, i)) : At(a, Hash(table, i) + d).index_plus1 = i
    BY DEF InPlace
  <2>2. d \in 0..(n - 1) /\ \A e \in 0..d : At(a, Hash(table, i) + e).index_plus1 # 0
    BY <1>5, <2>1 DEF Probed
  <2>3. \A e \in 0..d : e \in 0..(n - 1)
    BY <2>2
  <2>4. i \in 1..(k + 1) /\ i # 0 /\ d \in 0..d
    BY <2>2
  <2>5. \A e \in 0..d : Hash(table, i) + e \in Nat
    BY <1>8, <2>3, <2>4
  <2>6. \A e \in 0..d : At(b, Hash(table, i) + e).index_plus1
                          = At(a, Hash(table, i) + e).index_plus1
    BY <1>6, <2>2, <2>5
  <2>7. d \in Probed(b, Hash(table, i))
    BY <1>5, <2>2, <2>6 DEF Probed
  <2> QED BY <2>1, <2>2, <2>4, <2>6, <2>7
<1>10. ASSUME NEW q \in 1..n, b[q].index_plus1 # 0
       PROVE  /\ b[q].index_plus1 \in 1..(k + 1)
              /\ b[q].hash = Hash(table, b[q].index_plus1)
  <2>1. CASE q = p
    BY <1>1, <1>4, <2>1 DEF h
  <2>2. CASE q # p
    <3>1. b[q] = a[q]
      BY <1>4, <2>2
    <3>2. a[q].index_plus1 \in 1..k /\ a[q].hash = Hash(table, a[q].index_plus1)
      BY <1>5, <1>10, <3>1 DEF InPlace
    <3>3. \A i \in 1..k : i \in 1..(k + 1)
      OBVIOUS
    <3> QED BY <3>1, <3>2, <3>3
  <2> QED BY <2>1, <2>2
<1>11. ASSUME NEW i \in 1..(k + 1)
       PROVE  \E d \in Probed(b, Hash(table, i)) : At(b, Hash(table, i) + d).index_plus1 = i
  <2>1. CASE i \in 1..k
    BY <1>9, <2>1
  <2>2. CASE i = k + 1
    <3>1. h = Hash(table, i)
      BY <2>2 DEF h
    <3>2. At(b, h + g).index_plus1 = k + 1
      <4>1. h + g \in Nat
        BY <1>1
      <4>2. At(b, h + g) = b[p]
        BY <1>3, <1>5, <4>1
      <4> QED BY <1>4, <4>2
    <3>3. \A e \in 0..g : e \in 0..(g - 1) \/ e = g
      OBVIOUS
    <3>4. \A e \in 0..(g - 1) : h + e \in Nat
      BY <1>1
    <3>5. \A e \in 0..g : At(b, h + e).index_plus1 # 0
      BY <1>1, <1>3, <1>6, <3>2, <3>3, <3>4
    <3>6. g \in Probed(b, h)
      BY <1>5, <3>5 DEF Probed
    <3> QED BY <2>2, <3>1, <3>2, <3>6
  <2>3. i \in 1..k \/ i = k + 1
    OBVIOUS
  <2> QED BY <2>1, <2>2, <2>3
<1>12. ASSUME NEW i \in 1..(k + 1), NEW j \in 1..(k + 1), NEW d \in 0..(n - 1), i < j,
              Hash(table, i) = Hash(table, j), At(b, Hash(table, j) + d).index_plus1 = j
       PROVE  \E e \in 0..(d - 1) : At(b, Hash(table, j) + e).index_plus1 = i
  <2>1. i \in 1..k /\ i # 0 /\ Hash(table, j) + d \in Nat
    BY <1>8, <1>12
  <2>2. CASE j = k + 1
    <3>1. h = Hash(table, j)
      BY <2>2 DEF h
    <3>2. PICK c \in 0..(n - 1) :
            /\ At(b, h + c).index_plus1 = i
            /\ \A e \in 0..c : At(a, h + e).index_plus1 # 0
      BY <1>9, <1>12, <2>1, <3>1
    <3>3. At(a, h + d).index_plus1 = 0
      <4>1. \/ At(a, h + d).index_plus1 = k + 1
            \/ At(a, h + d).index_plus1 = 0
        BY <1>7, <1>12, <2>1, <2>2, <3>1
      <4>2. At(a, h + d).index_plus1 # k + 1
        <5>1. ((h + d) % n) + 1 \in 1..n /\ At(a, h + d) = a[((h + d) % n) + 1]
          BY <1>5, <2>1, <3>1
        <5>2. At(a, h + d).index_plus1 # 0 => At(a, h + d).index_plus1 \in 1..k
          BY ZenonT(30), <1>5, <5>1 DEF InPlace
        <5>3. k + 1 # 0 /\ ~(k + 1 \in 1..k)
          OBVIOUS
        <5> QED BY <5>2, <5>3
      <4> QED BY <4>1, <4>2
    <3>4. ~(d \in 0..c)
      BY <3>2, <3>3
    <3>5. c \in 0..(d - 1)
      BY <3>4
    <3> QED BY <3>1, <3>2, <3>5
  <2>3. CASE j # k + 1
    <3>1. j \in 1..k /\ j # k + 1 /\ j # 0
      BY <2>3
    <3>2. At(a, Hash(table, j) + d).index_plus1 = j
      BY <1>7, <1>12, <2>1, <3>1
    <3>3. PICK e \in 0..(d - 1) : At(a, Hash(table, j) + e).index_plus1 = i
      BY ZenonT(30), <1>5, <1>12, <2>1, <3>1, <3>2 DEF InPlace
    <3>4. e \in 0..(n - 1)
      OBVIOUS
    <3>5. Hash(table, j) + e \in Nat
      BY <1>8, <3>4
    <3>6. At(b, Hash(table, j) + e).index_plus1 = i
      BY <1>6, <2>1, <3>3, <3>5
    <3> QED BY <3>6
  <2> QED BY <2>2, <2>3
<1>13. Cardinality({q \in 1..n : b[q].index_plus1 # 0}) = k + 1
  <2> DEFINE U == {q \in 1..n : a[q].index_plus1 # 0}
             V == {q \in 1..n : b[q].index_plus1 # 0}
  <2>1. V = U \union {p} /\ p \notin U
    BY <1>1, <1>3, <1>4
  <2>2. Cardinality(U) = k
    BY <1>5 DEF InPlace
  <2>3. IsFiniteSet(U)
    <3>1. IsFiniteSet(1..n) /\ U \subseteq 1..n
      <4>1. 1 \in Int /\ n \in Int
        OBVIOUS
      <4>2. IsFiniteSet(1..n)
        BY ONLY <4>1, FS_Interval
      <4> QED BY <4>2
    <3> HIDE DEF U
    <3> QED BY <3>1, FS_Subset
  <2> HIDE DEF U, V
  <2>4. Cardinality(V) = k + 1
    BY <2>1, <2>2, <2>3, FS_AddElement
  <2> QED BY <2>4 DEF V
<1>14. InPlace(b, table, k + 1)
  <2>1. \A q \in 1..Len(b) : b[q].index_plus1 # 0 =>
          b[q].index_plus1 \in 1..(k + 1) /\ b[q].hash = Hash(table, b[q].index_plus1)
    BY <1>5, <1>10
  <2>2. \A i, j \in 1..(k + 1), d \in 0..(Len(b) - 1) :
          i < j /\ Hash(table, i) = Hash(table, j) /\ At(b, Hash(table, j) + d).index_plus1 = j =>
              \E e \in 0..(d - 1) : At(b, Hash(table, j) + e).index_plus1 = i
    BY <1>5, <1>12
  <2>3. Cardinality({q \in 1..Len(b) : b[q].index_plus1 # 0}) = k + 1
    BY <1>5, <1>13
  <2> QED BY <1>11, <2>1, <2>2, <2>3 DEF InPlace
<1> QED BY <1>4, <1>14 DEF b, h

LEMMA InsertType ==
    ASSUME NEW n \in Nat \ {0}, NEW a \in Arrays(n), NEW h \in Nat, NEW i \in Nat
    PROVE  Insert(a, h, i) \in Arrays(n)
<1>1. PICK p : Insert(a, h, i) = Stored(a, p, h, i)
  BY DEF Insert, Stored
<1>2. Stored(a, p, h, i) \in Arrays(n)
  BY DEF Stored, Arrays, SlotType
<1> QED BY <1>1, <1>2

\* What memset() leaves.
LEMMA ClearedInPlace ==
    ASSUME NEW n \in Nat \ {0}, NEW table
    PROVE  LET a == [k \in 1..n |-> EmptySlot]
           IN  a \in Arrays(n) /\ InPlace(a, table, 0)
<1> DEFINE a == [k \in 1..n |-> EmptySlot]
<1>1. a \in Arrays(n) /\ \A p \in 1..n : a[p].index_plus1 = 0
  BY DEF Arrays, SlotType, EmptySlot
<1> HIDE DEF a
<1>2. Len(a) = n
  BY <1>1, ArrayFacts
<1>3. {p \in 1..Len(a) : a[p].index_plus1 # 0} = {}
  BY <1>1, <1>2
<1>4. Cardinality({p \in 1..Len(a) : a[p].index_plus1 # 0}) = 0
  BY <1>3, FS_EmptySet
<1>5. InPlace(a, table, 0)
  BY <1>1, <1>2, <1>4 DEF InPlace
<1> QED BY <1>1, <1>5 DEF a

\* build(): all entries are in place, by induction over the table.
LEMMA FilledInPlace ==
    ASSUME NEW n \in Nat \ {0}, NEW from \in Arrays(n), NEW table, InPlace(from, table, 0),
           Len(table) \in Nat, Len(table) < n,
           \A i \in 1..Len(table) : Hash(table, i) \in Nat
    PROVE  Filled(from, table) \in Arrays(n) /\ InPlace(Filled(from, table), table, Len(table))
<1> DEFINE l == Len(table)
           S == Arrays(n)
           step == [p \in S \X (1..l) |-> Insert(p[1], Hash(table, p[2]), p[2])]
           Rec(g) == g = [i \in 0..l |->
                             IF i = 0 THEN from ELSE Insert(g[i - 1], Hash(table, i), i)]
<1>1. step \in [S \X (1..l) -> S]
  <2>1. \A a \in S, i \in 1..l : Insert(a, Hash(table, i), i) \in S
    BY InsertType
  <2> HIDE DEF S, l
  <2> QED BY <2>1
<1>2. \A a \in S, i \in 1..l : step[<<a, i>>] = Insert(a, Hash(table, i), i)
  <2> HIDE DEF S, l
  <2> QED OBVIOUS
<1> HIDE DEF step
<1>3. PICK g : Loop(g, S, from, l, step)
  BY <1>1, LoopExists
<1>4. \A i \in 1..l : i \in 0..l /\ i # 0 /\ i - 1 \in 0..l
  OBVIOUS
<1>5. \A i \in 1..l : g[i] = Insert(g[i - 1], Hash(table, i), i)
  <2> HIDE DEF S, l
  <2> QED BY <1>2, <1>3, <1>4 DEF Loop
<1>6. Rec(g)
  <2>1. \A i \in 0..l : i # 0 => i \in 1..l
    OBVIOUS
  <2> HIDE DEF S, l
  <2> QED BY <1>3, <1>5, <2>1 DEF Loop
<1> DEFINE upto == CHOOSE f : Rec(f)
<1>7. Rec(upto)
  BY <1>6
<1>8. Filled(from, table) = upto[l]
  BY DEF Filled, Hash
<1>9. upto[0] = from /\ \A i \in 1..l : upto[i] = Insert(upto[i - 1], Hash(table, i), i)
  <2>1. 0 \in 0..l
    OBVIOUS
  <2> HIDE DEF upto, l
  <2> QED BY <1>4, <1>7, <2>1
<1> HIDE DEF upto
<1> DEFINE Good(k) == upto[k] \in S /\ InPlace(upto[k], table, k)
           P == {k \in Nat : k <= l => Good(k)}
<1>10. 0 \in P
  BY <1>9
<1>11. ASSUME NEW k \in Nat, k \in P
       PROVE  k + 1 \in P
  <2>1. SUFFICES ASSUME k + 1 <= l
                 PROVE  Good(k + 1)
    OBVIOUS
  <2>2. k <= l /\ k < n /\ k + 1 \in 1..l /\ (k + 1) - 1 = k
    BY <2>1
  <2>3. Good(k)
    BY <1>11, <2>2
  <2>4. \A i \in 1..(k + 1) : Hash(table, i) \in Nat
    BY <2>1
  <2>5. upto[k + 1] = Insert(upto[k], Hash(table, k + 1), k + 1)
    BY <1>9, <2>2
  <2>6. PICK a \in Arrays(n) : a = upto[k]
    BY <2>3
  <2>7. /\ Insert(a, Hash(table, k + 1), k + 1) \in Arrays(n)
        /\ InPlace(Insert(a, Hash(table, k + 1), k + 1), table, k + 1)
    BY <2>2, <2>3, <2>4, <2>6, InsertKeepsPlace
  <2> QED BY <2>5, <2>6, <2>7
<1>12. l \in P
  <2> HIDE DEF P
  <2>1. Nat \subseteq P
    BY <1>10, <1>11, NumbersByInduction
  <2> QED BY <2>1
<1>13. l \in Nat /\ l <= l
  OBVIOUS
<1> QED BY <1>8, <1>12, <1>13

-----------------------------------------------------------------------------
(***************************************************************************)
(* next_pow2().                                                            *)
(***************************************************************************)
LEMMA Powers ==
    /\ \A k \in 0..30 : Pow2[k] \in Nat
    /\ Pow2[0] = 1 /\ \A k \in 1..30 : Pow2[k] = 2 * Pow2[k - 1]
<1> DEFINE step == [p \in Nat \X (1..30) |-> 2 * p[1]]
           Rec(g) == g = [k \in 0..30 |-> IF k = 0 THEN 1 ELSE 2 * g[k - 1]]
<1>1. step \in [Nat \X (1..30) -> Nat] /\ \A v \in Nat, i \in 1..30 : step[<<v, i>>] = 2 * v
  OBVIOUS
<1> HIDE DEF step
<1>2. PICK g : Loop(g, Nat, 1, 30, step)
  BY <1>1, LoopExists
<1>3. \A i \in 1..30 : i \in 0..30 /\ i # 0 /\ i - 1 \in 0..30
  OBVIOUS
<1>4. \A i \in 1..30 : g[i] = 2 * g[i - 1]
  BY <1>1, <1>2, <1>3 DEF Loop
<1>5. Rec(g)
  <2>1. \A i \in 0..30 : i # 0 => i \in 1..30
    OBVIOUS
  <2> QED BY <1>2, <1>4, <2>1 DEF Loop
<1>6. Rec(Pow2)
  BY <1>5 DEF Pow2
<1>7. Pow2[0] = 1 /\ \A k \in 1..30 : Pow2[k] = 2 * Pow2[k - 1]
  BY <1>3, <1>6
<1> DEFINE P == {k \in Nat : k <= 30 => Pow2[k] \in Nat}
<1>8. Nat \subseteq P
  <2>1. 0 \in P
    BY <1>7
  <2>2. ASSUME NEW k \in Nat, k \in P
        PROVE  k + 1 \in P
    <3>1. k + 1 <= 30 => k \in Nat /\ k <= 30 /\ k + 1 \in 1..30 /\ (k + 1) - 1 = k
      OBVIOUS
    <3> QED BY <1>7, <2>2, <3>1
  <2> HIDE DEF P
  <2> QED BY <2>1, <2>2, NumbersByInduction
<1>9. \A k \in 0..30 : Pow2[k] \in Nat
  BY <1>8
<1> QED BY <1>7, <1>9

\* next_pow2() is never below its argument, in the range where it does not wrap.
LEMMA PowerFits ==
    ASSUME NEW v \in Nat, v <= Pow2[30]
    PROVE  next_pow2(v) \in Nat \ {0} /\ next_pow2(v) >= v
<1>1. CASE v = 0
  <2>1. next_pow2(v) = 1
    BY <1>1 DEF next_pow2
  <2> QED BY <1>1, <2>1
<1>2. CASE v # 0
  <2> DEFINE K == {k \in 0..30 : Pow2[k] >= v}
             Fits(c) == c >= v /\ c < 2 * v
  <2>1. K # {} /\ K \subseteq Nat
    <3>1. 30 \in 0..30 /\ Pow2[30] \in Nat
      BY Powers
    <3>2. 30 \in K
      BY <3>1
    <3>3. \A k \in 0..30 : k \in Nat
      OBVIOUS
    <3> QED BY <3>2, <3>3
  <2>2. PICK k \in K : \A j \in K : k <= j
    <3> HIDE DEF K
    <3> QED BY <2>1, LeastElement
  <2>3. PICK x \in Nat : x = Pow2[k] /\ x >= v
    BY <2>2, Powers
  <2>4. Fits(x)
    <3>1. CASE k = 0
      BY <1>2, <2>3, <3>1, Powers
    <3>2. CASE k # 0
      <4>1. k \in 1..30 /\ k - 1 \in 0..30 /\ ~(k <= k - 1)
        BY <2>2, <3>2
      <4>2. k - 1 \notin K
        <5> HIDE DEF K
        <5> QED BY <2>2, <4>1
      <4>3. PICK y \in Nat : y = Pow2[k - 1] /\ x = 2 * y
        BY <2>3, <4>1, Powers
      <4>4. ~(y >= v)
        BY <4>1, <4>2, <4>3
      <4> QED BY ONLY <2>3, <4>3, <4>4, v \in Nat, x \in Nat, y \in Nat
    <3> QED BY <3>1, <3>2
  <2> DEFINE C == {Pow2[j] : j \in 0..30}
  <2>5. x \in C /\ C \subseteq Nat
    <3>1. \A j \in 0..30 : Pow2[j] \in Nat
      BY Powers
    <3> QED BY <2>2, <2>3, <3>1
  <2>6. next_pow2(v) = CHOOSE c \in C : Fits(c)
    BY <1>2 DEF next_pow2
  <2>7. next_pow2(v) \in C /\ Fits(next_pow2(v))
    <3> HIDE DEF C, Fits
    <3> QED BY <2>4, <2>5, <2>6
  <2>8. next_pow2(v) \in Nat /\ next_pow2(v) >= v
    <3> HIDE DEF C
    <3> QED BY <2>5, <2>7
  <2> QED BY <1>2, <2>8
<1> QED BY <1>1, <1>2

\* The capacity is a number, and leaves a slot free.
LEMMA CapacityFits ==
    ASSUME NEW t \in ExportTables
    PROVE  Len(t) \in Nat /\ Capacity(t) \in Nat \ {0} /\ Len(t) < Capacity(t)
<1>1. /\ t \in Seq([name : DOMAIN NameHash, sig : Nat, version : Nat])
      /\ 2 * Len(t) <= Pow2[30]
  BY TablesAssumption
<1>2. PICK l \in Nat : l = Len(t)
  BY <1>1, LenProperties
<1>3. 2 * l \in Nat /\ 2 * l <= Pow2[30]
  BY <1>1, <1>2
<1>4. PICK c \in Nat \ {0} : c = next_pow2(2 * l) /\ c >= 2 * l
  BY <1>3, PowerFits
<1>5. l < c
  BY ONLY <1>4, l \in Nat, c \in Nat \ {0}
<1> QED BY <1>2, <1>4, <1>5 DEF Capacity
-----------------------------------------------------------------------------
(***************************************************************************)
(* Lookups.                                                                *)
(***************************************************************************)
LEMMA LeastOf ==
    ASSUME NEW S, S \subseteq Nat, S # {}
    PROVE  Least(S) \in S /\ \A j \in S : Least(S) <= j
<1>1. \E i \in S : \A j \in S : i <= j
  BY LeastElement
<1> QED BY <1>1 DEF Least

\* Entries of the table that have one hash.
OneHash(table, l, h, W) == W \subseteq 1..l /\ \A i \in W : Hash(table, i) = h

\* A probe that accepts entries of one hash comes to the first of them, in the
\* order of the table: it passes no empty slot before, and an earlier entry of
\* the same hash lies on its way.
LEMMA HitIsFirst ==
    ASSUME NEW n \in Nat \ {0}, NEW a \in Arrays(n), NEW table, NEW l \in Nat,
           InPlace(a, table, l), NEW h \in Nat, NEW W, OneHash(table, l, h, W)
    PROVE  FirstHit(a, h, W) = IF W = {} THEN 0 ELSE Least(W)
<1> USE DEF OneHash
<1> DEFINE hits == {d \in Probed(a, h) : /\ At(a, h + d).hash = h
                                         /\ At(a, h + d).index_plus1 \in W}
<1>0. FirstHit(a, h, W) = IF hits = {} THEN 0 ELSE At(a, h + Least(hits)).index_plus1
  BY DEF FirstHit
<1>1. CASE W = {}
  <2>1. hits = {}
    BY <1>1
  <2> QED BY <1>0, <1>1, <2>1
<1>2. CASE W # {}
  <2>1. /\ Len(a) = n
        /\ \A x \in Nat : (x % n) + 1 \in 1..n
        /\ \A x \in Nat : At(a, x) = a[(x % n) + 1]
    BY ArrayFacts
  <2>2. \A i \in 1..l : i \in Nat /\ i # 0
    OBVIOUS
  <2> DEFINE m == Least(W)
  <2>3. m \in W /\ \A j \in W : m <= j
    <3>1. W \subseteq Nat
      BY <2>2
    <3> QED BY <1>2, <3>1, LeastOf
  <2> HIDE DEF m
  <2>4. m \in 1..l /\ m \in Nat /\ m # 0 /\ Hash(table, m) = h
    BY <2>2, <2>3
  <2>5. \A d \in Probed(a, h) : d \in 0..(n - 1)
    BY <2>1 DEF Probed
  \* A slot on the way that has the entry m bears the hash.
  <2>6. ASSUME NEW d \in Probed(a, h), At(a, h + d).index_plus1 = m
        PROVE  d \in hits
    <3>1. h + d \in Nat
      BY <2>5
    <3>2. PICK p \in 1..n : At(a, h + d) = a[p]
      BY <2>1, <3>1
    <3>3. a[p].hash = Hash(table, a[p].index_plus1)
      BY <2>1, <2>4, <2>6, <3>2 DEF InPlace
    <3>4. At(a, h + d).hash = h
      BY <2>4, <2>6, <3>2, <3>3
    <3> QED BY <2>3, <2>6, <3>4
  <2>7. PICK d0 \in Probed(a, h) : At(a, h + d0).index_plus1 = m
    BY <2>4 DEF InPlace
  <2>8. hits # {} /\ hits \subseteq Nat
    <3>1. d0 \in hits
      BY <2>6, <2>7
    <3>2. \A d \in hits : d \in Nat
      BY <2>5
    <3> HIDE DEF hits
    <3> QED BY <3>1, <3>2
  <2> DEFINE x == Least(hits)
  <2>9. x \in hits /\ \A e \in hits : x <= e
    <3> HIDE DEF hits
    <3> QED BY <2>8, LeastOf
  <2> HIDE DEF x
  <2>10. PICK j \in W : j = At(a, h + x).index_plus1
    BY <2>9
  <2>11. x \in Probed(a, h) /\ x \in 0..(n - 1) /\ j \in 1..l /\ Hash(table, j) = h /\ m <= j
    BY <2>3, <2>5, <2>9, <2>10
  <2>12. j = m
    <3>1. SUFFICES ASSUME j # m PROVE FALSE
      OBVIOUS
    <3>2. m < j
      BY <2>2, <2>4, <2>11, <3>1
    <3>3. PICK e \in 0..(x - 1) : At(a, h + e).index_plus1 = m
      <4>1. \A i, k \in 1..l, d \in 0..(n - 1) :
              /\ i < k /\ Hash(table, i) = Hash(table, k)
              /\ At(a, Hash(table, k) + d).index_plus1 = k
              => \E e \in 0..(d - 1) : At(a, Hash(table, k) + e).index_plus1 = i
        BY <2>1 DEF InPlace
      <4>2. At(a, Hash(table, j) + x).index_plus1 = j /\ Hash(table, m) = Hash(table, j)
        BY <2>4, <2>10, <2>11
      <4>3. \E e \in 0..(x - 1) : At(a, Hash(table, j) + e).index_plus1 = m
        <5> HIDE DEF hits
        <5> QED BY <2>4, <2>11, <3>2, <4>1, <4>2
      <4> QED BY <2>11, <4>3
    <3>4. e \in 0..(n - 1) /\ 0..e \subseteq 0..x /\ ~(x <= e)
      BY <2>11
    <3>5. e \in Probed(a, h)
      BY <2>1, <2>11, <3>4 DEF Probed
    <3>6. e \in hits
      BY <2>6, <3>3, <3>5
    <3> HIDE DEF hits
    <3> QED BY <2>9, <3>4, <3>6
  <2>13. FirstHit(a, h, W) = j
    <3> HIDE DEF hits
    <3> QED BY <1>0, <2>8, <2>10 DEF x
  <2> QED BY <1>2, <2>12, <2>13 DEF m
<1> QED BY <1>1, <1>2

\* An array in which the table is in place answers as the scan does.
LEMMA AnswersAgree ==
    ASSUME NEW t \in ExportTables, NEW n \in Nat \ {0}, NEW a \in Arrays(n),
           InPlace(a, t, Len(t)), NEW q \in Queries
    PROVE  /\ lookup_hash(t, a, q) = lookup_linear(t, q)
           /\ \/ find_hash(t, a, q) = find_linear(t, q)
              \/ find_hash(t, a, q)[1] = "version_mismatch"
<1> DEFINE l == Len(t)
           h == NameHash[q.name]
<1>1. l \in Nat /\ h \in Nat
  BY CapacityFits, TablesAssumption
<1> HIDE DEF l
<1>2. \A i \in 1..l : t[i].name = q.name => Hash(t, i) = h
  BY DEF Hash
<1> HIDE DEF h
<1>3. lookup_hash(t, a, q) = lookup_linear(t, q)
  <2> DEFINE W == {k \in 1..l : t[k].name = q.name /\ t[k].sig = q.sig}
  <2>1. lookup_hash(t, a, q) = FirstHit(a, h, W)
    BY DEF lookup_hash, l, h
  <2>2. lookup_linear(t, q) = IF W = {} THEN 0 ELSE Least(W)
    BY DEF lookup_linear, l
  <2>3. OneHash(t, l, h, W)
    BY <1>2 DEF OneHash
  <2>4. InPlace(a, t, l)
    BY DEF l
  <2> HIDE DEF W
  <2>5. FirstHit(a, h, W) = IF W = {} THEN 0 ELSE Least(W)
    BY ONLY <1>1, <2>3, <2>4, n \in Nat \ {0}, a \in Arrays(n), HitIsFirst
  <2> QED BY <2>1, <2>2, <2>5
<1>4. \/ find_hash(t, a, q) = find_linear(t, q)
      \/ find_hash(t, a, q)[1] = "version_mismatch"
  <2> DEFINE W == {k \in 1..l : t[k].name = q.name}
             V == {k \in 1..l : t[k].name = q.name /\ ~OtherVersion(t[k], q)}
             i == FirstHit(a, h, W)
             m == Least(W)
  <2>1. find_hash(t, a, q) = IF i = 0 THEN <<"not_found", 0>>
                             ELSE IF OtherVersion(t[i], q) THEN <<"version_mismatch", i>>
                             ELSE Verdict(t[i], q, i)
    BY DEF find_hash, l, h
  <2>2. find_linear(t, q) = IF V = {} THEN <<"not_found", 0>>
                            ELSE Verdict(t[Least(V)], q, Least(V))
    BY DEF find_linear, l
  <2>3. W \subseteq 1..l /\ V \subseteq W /\ OneHash(t, l, h, W)
    BY <1>2 DEF OneHash
  <2>4. InPlace(a, t, l)
    BY DEF l
  <2>5. i = IF W = {} THEN 0 ELSE m
    <3> HIDE DEF W
    <3>1. OneHash(t, l, h, W)
      BY <2>3
    <3>2. FirstHit(a, h, W) = IF W = {} THEN 0 ELSE Least(W)
      BY ONLY <1>1, <2>4, <3>1, n \in Nat \ {0}, a \in Arrays(n), HitIsFirst
    <3> QED BY <3>2
  <2>6. CASE W = {}
    <3>1. V = {} /\ i = 0
      <4> HIDE DEF i, m, V, W
      <4> QED BY <2>3, <2>5, <2>6
    <3> HIDE DEF i, V
    <3> QED BY <2>1, <2>2, <3>1
  <2>7. CASE W # {}
    <3>1. \A k \in 1..l : k \in Nat /\ k # 0
      BY <1>1
    <3>2. W \subseteq Nat /\ V \subseteq Nat
      <4> HIDE DEF V, W
      <4> QED BY <2>3, <3>1
    <3>3. m \in W /\ \A j \in W : m <= j
      <4> HIDE DEF W
      <4> QED BY <2>7, <3>2, LeastOf
    <3>4. i = m /\ i # 0
      <4> HIDE DEF i, m, W
      <4> QED BY <2>3, <2>5, <2>7, <3>1, <3>3
    <3>5. CASE OtherVersion(t[m], q)
      <4>1. find_hash(t, a, q) = <<"version_mismatch", i>>
        <5> HIDE DEF i, m
        <5> QED BY <2>1, <3>4, <3>5
      <4> QED BY <4>1
    <3>6. CASE ~OtherVersion(t[m], q)
      <4>1. m \in V
        <5> HIDE DEF m
        <5> QED BY <3>3, <3>6
      <4>2. Least(V) \in V /\ Least(V) <= m
        <5> HIDE DEF V, m
        <5> QED BY <3>2, <4>1, LeastOf
      <4>3. m <= Least(V) /\ m \in Nat /\ Least(V) \in Nat
        <5> HIDE DEF V, W, m
        <5> QED BY <2>3, <3>2, <3>3, <4>2
      <4>4. Least(V) = m
        <5> HIDE DEF V, m
        <5> QED BY <4>2, <4>3
      <4> HIDE DEF i, m, V
      <4> QED BY <2>1, <2>2, <3>4, <3>6, <4>1, <4>4
    <3> QED BY <3>5, <3>6
  <2> QED BY <2>6, <2>7
<1> QED BY <1>3, <1>4
-----------------------------------------------------------------------------
(***************************************************************************)
(* Every index that has an array has the one its table needs, and the      *)
(* table is in place in it.                                                *)
(***************************************************************************)
LEMMA ArraysInitInv == ExportInit => ArraysInv
<1> SUFFICES ASSUME ExportInit PROVE ArraysInv
  OBVIOUS
<1>1. \A b \in Buffers : buffer[b].slots \in Seq(SlotType)
  BY EmptySeq DEF ExportInit
<1>2. \A i \in Indexes : index[i].slots = NoBuffer
  BY DEF ExportInit, Unbuilt
<1>3. \A w \in Builders : task[w].at = "idle"
  BY DEF ExportInit, Resting
<1> QED BY <1>1, <1>2, <1>3 DEF ArraysInv, TaskSized

\* A step of one thread: the indexes and the tasks of the others keep what they
\* have when their arrays do.
LEMMA ArraysFrame ==
    ASSUME ArraysInv, NEW w \in Builders,
           \A b \in Buffers : buffer'[b].slots \in Seq(SlotType),
           \A j \in Indexes : index'[j].slots # NoBuffer =>
               \/ IndexBuilt(j)'
               \/ /\ index'[j] = index[j]
                  /\ buffer'[index[j].slots].slots = buffer[index[j].slots].slots,
           \A u \in Builders : u # w =>
               /\ task'[u] = task[u]
               /\ task[u].at = "fill" => buffer'[task[u].slots].slots = buffer[task[u].slots].slots,
           TaskSized(w)'
    PROVE  ArraysInv'
<1>1. ASSUME NEW j \in Indexes, index'[j].slots # NoBuffer
      PROVE  IndexBuilt(j)'
  <2>1. CASE /\ index'[j] = index[j]
             /\ buffer'[index[j].slots].slots = buffer[index[j].slots].slots
    <3>1. IndexBuilt(j)
      BY <1>1, <2>1 DEF ArraysInv
    <3> QED BY <2>1, <3>1 DEF IndexBuilt
  <2> QED BY <1>1, <2>1
<1>2. ASSUME NEW u \in Builders
      PROVE  TaskSized(u)'
  <2>1. CASE u # w
    <3>1. TaskSized(u)
      BY DEF ArraysInv
    <3> QED BY <2>1, <3>1 DEF TaskSized
  <2> QED BY <2>1
<1> QED BY <1>1, <1>2 DEF ArraysInv

LEMMA ArraysBegin ==
    ASSUME ExportInv, ArraysInv, NEW w \in Builders, NEW i \in Indexes, NEW t,
           NEW a \in {"offer_old", "offer_last"}, a = "offer_old" => t \in ExportTables,
           BeginTask(w, i, t, a)
    PROVE  ArraysInv'
<1>1. /\ buffer' = buffer
      /\ task'[w].at = a /\ task'[w].table = t
      /\ \A u \in Builders : u # w => task'[u] = task[u]
      /\ index'[i].slots = NoBuffer
      /\ \A j \in Indexes : j # i => index'[j] = index[j]
  BY DEF BeginTask, ExportInv, ExportTypes, Unbuilt
<1>2. TaskSized(w)'
  BY <1>1 DEF TaskSized
<1>3. \A b \in Buffers : buffer'[b].slots \in Seq(SlotType)
  BY <1>1 DEF ArraysInv
<1> QED BY <1>1, <1>2, <1>3, ArraysFrame

\* What changes no array and no index.
LEMMA ArraysUntouched ==
    ASSUME ArraysInv, NEW w \in Builders, index' = index,
           \A b \in Buffers \union {NoBuffer} : buffer'[b].slots = buffer[b].slots,
           ExportTypes,
           \A u \in Builders : u # w => task'[u] = task[u],
           TaskSized(w)'
    PROVE  ArraysInv'
<1>1. \A b \in Buffers : buffer'[b].slots \in Seq(SlotType)
  BY DEF ArraysInv
<1>2. \A j \in Indexes : buffer'[index[j].slots].slots = buffer[index[j].slots].slots
  BY DEF ExportTypes
<1>3. \A u \in Builders : buffer'[task[u].slots].slots = buffer[task[u].slots].slots
  BY DEF ExportTypes
<1> QED BY <1>1, <1>2, <1>3, ArraysFrame

LEMMA ArraysOffer ==
    ASSUME ExportInv, ArraysInv, NEW w \in Builders, Offer(w)
    PROVE  ArraysInv'
<1>1. task[w].at \in {"offer_old", "offer_last"} /\ buffer' = buffer /\ index' = index
  BY DEF Offer
<1>2. PICK a, s : Go(w, a, s) /\ a \in {AfterRelease(w), Deleting(w)}
  BY DEF Offer
<1>3. a # "fill" /\ (a \in {"offer_old", "delete_old", "take"} => task[w].at = "offer_old")
  BY <1>1, <1>2 DEF AfterRelease, Deleting
<1>4. /\ task'[w].at = a /\ task'[w].table = task[w].table
      /\ \A u \in Builders : u # w => task'[u] = task[u]
  BY <1>2, GoEffect DEF ExportInv
<1>5. TaskSized(w)'
  <2>1. TaskSized(w)
    BY DEF ArraysInv
  <2> QED BY <1>3, <1>4, <2>1 DEF TaskSized
<1> QED BY <1>1, <1>4, <1>5, ArraysUntouched DEF ExportInv

LEMMA ArraysDelete ==
    ASSUME ExportInv, ArraysInv, NEW w \in Builders, Delete(w)
    PROVE  ArraysInv'
<1>1. task[w].at \in {"delete_old", "delete_last"} /\ index' = index
  BY DEF Delete
<1>2. Go(w, AfterRelease(w), NoBuffer) /\ AfterRelease(w) # "fill"
      /\ (AfterRelease(w) \in {"offer_old", "delete_old", "take"} => task[w].at = "delete_old")
  BY <1>1 DEF Delete, AfterRelease
<1>3. /\ task'[w].at = AfterRelease(w) /\ task'[w].table = task[w].table
      /\ \A u \in Builders : u # w => task'[u] = task[u]
  BY <1>2, GoEffect DEF ExportInv
<1>4. TaskSized(w)'
  <2>1. TaskSized(w)
    BY DEF ArraysInv
  <2> QED BY <1>2, <1>3, <2>1 DEF TaskSized
<1>5. \A b \in Buffers \union {NoBuffer} : buffer'[b].slots = buffer[b].slots
  <2>1. CASE task[w].slots = NoBuffer
    BY <2>1 DEF Delete
  <2>2. CASE task[w].slots # NoBuffer
    <3>1. PICK c \in Buffers : buffer' = [buffer EXCEPT ![c].allocated = FALSE]
      BY <2>2 DEF Delete, ExportInv, ExportTypes
    <3>2. DOMAIN buffer = Buffers /\ NoBuffer \notin Buffers
      BY BuffersAssumption DEF ExportInv, ExportTypes
    <3> QED BY <3>1, <3>2 DEF ExportInv, ExportTypes
  <2> QED BY <2>1, <2>2
<1> QED BY <1>1, <1>3, <1>4, <1>5, ArraysUntouched DEF ExportInv

LEMMA ArraysFinish ==
    ASSUME ExportInv, ArraysInv, NEW w \in Builders, Finish(w)
    PROVE  ArraysInv'
<1>1. /\ buffer' = buffer /\ index' = index /\ task'[w].at = "idle"
      /\ \A u \in Builders : u # w => task'[u] = task[u]
  BY RestEffect DEF Finish, ExportInv
<1>2. TaskSized(w)'
  BY <1>1 DEF TaskSized
<1> QED BY <1>1, <1>2, ArraysUntouched DEF ExportInv
\* take(): the parked array has the length that is wanted, a fresh one is made
\* with it, and nobody else owns either.
LEMMA ArraysTake ==
    ASSUME ExportInv, ArraysInv, NEW w \in Builders, Take(w)
    PROVE  ArraysInv'
<1> DEFINE want == Capacity(task[w].table)
           fresh == [k \in 1..want |-> [hash |-> 1, index_plus1 |-> 1]]
<1>1. task[w].at = "take" /\ index' = index /\ task[w].table \in ExportTables
  <2>1. TaskSized(w)
    BY DEF ArraysInv
  <2> QED BY <2>1 DEF Take, TaskSized
<1>2. want \in Nat \ {0}
  BY <1>1, CapacityFits
<1>3. fresh \in Seq(SlotType) /\ Len(fresh) = want
  <2>1. fresh \in [1..want -> SlotType]
    <3> HIDE DEF want
    <3> QED BY DEF SlotType
  <2> HIDE DEF fresh, want
  <2> QED BY <1>2, <2>1, FunctionIsSeq
<1> HIDE DEF fresh
<1>4. PICK a, s :
        /\ Go(w, a, s)
        /\ \/ a = "fill" /\ s = pool /\ pool # NoBuffer /\ Len(buffer[pool].slots) = want
              /\ buffer' = buffer
           \/ /\ a = "fill" /\ s \in Buffers /\ ~buffer[s].allocated
              /\ buffer' = [buffer EXCEPT ![s] = [allocated |-> TRUE, slots |-> fresh]]
           \/ a = "done" /\ buffer' = buffer
  <2>1. CASE CanTake(want)
    BY <2>1 DEF Take, CanTake
  <2>2. CASE ~CanTake(want)
    BY <2>2 DEF Take, fresh
  <2> QED BY <2>1, <2>2
<1>5. /\ task'[w].at = a /\ task'[w].slots = s /\ task'[w].table = task[w].table
      /\ \A u \in Builders : u # w => task'[u] = task[u]
  BY <1>4, GoEffect DEF ExportInv
<1>6. CASE buffer' = buffer
  <2>1. a = "fill" => Len(buffer[s].slots) = want
    BY <1>4, <1>6, <1>3 DEF ExportInv, ExportTypes
  <2>2. TaskSized(w)'
    BY <1>1, <1>4, <1>5, <1>6, <2>1 DEF TaskSized
  <2> QED BY <1>1, <1>5, <1>6, <2>2, ArraysUntouched DEF ExportInv
<1>7. CASE /\ a = "fill" /\ s \in Buffers /\ ~buffer[s].allocated
           /\ buffer' = [buffer EXCEPT ![s] = [allocated |-> TRUE, slots |-> fresh]]
  <2>1. /\ buffer'[s].slots = fresh
        /\ \A b : b # s => buffer'[b] = buffer[b]
    BY <1>7 DEF ExportInv, ExportTypes
  <2>2. \A b \in Buffers : buffer'[b].slots \in Seq(SlotType)
    BY <1>3, <2>1 DEF ArraysInv
  <2>3. /\ \A j \in Indexes : index[j].slots # s
        /\ \A u \in Builders : task[u].slots # s
    BY <1>7 DEF ExportInv, OneArrayOwner
  <2>4. TaskSized(w)'
    BY <1>1, <1>3, <1>5, <2>1 DEF TaskSized
  <2> QED BY <1>1, <1>5, <2>1, <2>2, <2>3, <2>4, ArraysFrame
<1> QED BY <1>4, <1>6, <1>7

\* The end of build(): whatever the array held, it is cleared, and the table is put
\* in place.
LEMMA ArraysFill ==
    ASSUME ExportInv, ArraysInv, NEW w \in Builders, Fill(w)
    PROVE  ArraysInv'
<1> DEFINE b == task[w].slots
           t == task[w].table
           n == Capacity(t)
           cleared == [k \in 1..Len(buffer[b].slots) |-> EmptySlot]
           f == Filled(cleared, t)
<1>1. /\ task[w].at = "fill" /\ b \in Buffers /\ task[w].index \in Indexes
      /\ t \in ExportTables /\ Len(buffer[b].slots) = n
  <2>1. TaskSized(w)
    BY DEF ArraysInv
  <2>2. task[w].at = "fill"
    BY DEF Fill
  <2> QED BY <2>1, <2>2 DEF TaskSized, ExportInv, TasksApart, ExportTypes
<1>2. n \in Nat \ {0} /\ Len(t) \in Nat /\ Len(t) < n
  BY <1>1, CapacityFits
<1>3. \A k \in 1..Len(t) : Hash(t, k) \in Nat
  <2>1. t \in Seq([name : DOMAIN NameHash, sig : Nat, version : Nat])
    BY <1>1, TablesAssumption
  <2>2. \A k \in 1..Len(t) : t[k] \in [name : DOMAIN NameHash, sig : Nat, version : Nat]
    <3> HIDE DEF t
    <3> QED BY <2>1, ElementOfSeq
  <2>3. \A k \in 1..Len(t) : t[k].name \in DOMAIN NameHash
    <3> HIDE DEF t
    <3> QED BY <2>2
  <2> HIDE DEF t
  <2> QED BY <2>3, TablesAssumption DEF Hash
<1>4. f \in Arrays(n) /\ InPlace(f, t, Len(t))
  <2> DEFINE from == [k \in 1..n |-> EmptySlot]
  <2>1. cleared = from
    BY <1>1
  <2> HIDE DEF cleared, t, n
  <2>2. from \in Arrays(n) /\ InPlace(from, t, 0)
    BY <1>2, ClearedInPlace
  <2> HIDE DEF from
  <2>3. Filled(from, t) \in Arrays(n) /\ InPlace(Filled(from, t), t, Len(t))
    BY ONLY <1>2, <1>3, <2>2, FilledInPlace
  <2> QED BY <2>1, <2>3
<1>5. f \in Seq(SlotType) /\ Len(f) = n
  <2> HIDE DEF f, n
  <2> QED BY <1>2, <1>4, ArrayFacts
<1>6. /\ buffer'[b].slots = f
      /\ \A c : c # b => buffer'[c] = buffer[c]
  <2>1. buffer' = [buffer EXCEPT ![b].slots = f]
    BY DEF Fill
  <2> HIDE DEF f, b
  <2> QED BY <1>1, <2>1 DEF ExportInv, ExportTypes
<1>7. PICK i \in Indexes : i = task[w].index
  BY <1>1
<1>8. /\ index'[i].slots = b /\ index'[i].table = t
      /\ \A j \in Indexes : j # i => index'[j] = index[j]
  BY <1>1, <1>7 DEF Fill, ExportInv, ExportTypes
<1>9. task'[w].at = "idle" /\ \A u \in Builders : u # w => task'[u] = task[u]
  BY RestEffect DEF Fill, ExportInv
<1>10. /\ \A j \in Indexes : index[j].slots # b
      /\ \A u \in Builders : u # w => task[u].slots # b
  BY <1>1, BuffersAssumption DEF ExportInv, OneArrayOwner
<1> HIDE DEF b, t, n, cleared, f
<1>11. IndexBuilt(i)'
  BY <1>1, <1>4, <1>5, <1>6, <1>8 DEF IndexBuilt, n
<1>12. \A c \in Buffers : buffer'[c].slots \in Seq(SlotType)
  BY <1>5, <1>6 DEF ArraysInv
<1>13. TaskSized(w)'
  BY <1>9 DEF TaskSized
<1>14. \A j \in Indexes : index'[j].slots # NoBuffer =>
         \/ IndexBuilt(j)'
         \/ /\ index'[j] = index[j]
            /\ buffer'[index[j].slots].slots = buffer[index[j].slots].slots
  BY <1>6, <1>8, <1>10, <1>11
<1> QED BY <1>6, <1>9, <1>10, <1>12, <1>13, <1>14, ArraysFrame

LEMMA ArraysStep == ExportInv /\ ArraysInv /\ [ExportNext]_exportVars => ArraysInv'
<1> SUFFICES ASSUME ExportInv, ArraysInv, [ExportNext]_exportVars PROVE ArraysInv'
  OBVIOUS
<1>1. CASE UNCHANGED exportVars
  BY <1>1 DEF exportVars, ArraysInv, IndexBuilt, TaskSized
<1>2. ASSUME NEW w \in Builders, NEW i \in Indexes, Destroy(w, i)
      PROVE  ArraysInv'
  BY <1>2, ArraysBegin DEF Destroy
<1>3. ASSUME NEW w \in Builders, NEW i \in Indexes, NEW t \in ExportTables, Build(w, i, t)
      PROVE  ArraysInv'
  BY <1>3, ArraysBegin DEF Build
<1> QED
  BY <1>1, <1>2, <1>3, ArraysOffer, ArraysDelete, ArraysTake, ArraysFill, ArraysFinish
     DEF ExportNext

LEMMA BuiltAnswers == ArraysInv => IndexAnswersAsScan
<1> SUFFICES ASSUME ArraysInv, NEW i \in Indexes, index[i].slots # NoBuffer
             PROVE  LET slots == buffer[index[i].slots].slots
                        table == index[i].table
                    IN /\ Terminates(slots)
                       /\ Len(slots) = Capacity(table)
                       /\ \A q \in Queries :
                            /\ lookup_hash(table, slots, q) = lookup_linear(table, q)
                            /\ \/ find_index(i, table, q) = find_linear(table, q)
                               \/ find_index(i, table, q)[1] = "version_mismatch"
  BY DEF IndexAnswersAsScan
<1> DEFINE a == buffer[index[i].slots].slots
           t == index[i].table
           n == Capacity(t)
<1>1. t \in ExportTables /\ a \in Seq(SlotType) /\ Len(a) = n /\ InPlace(a, t, Len(t))
  BY DEF ArraysInv, IndexBuilt
<1>2. \A q \in Queries : find_index(i, t, q) = find_hash(t, a, q)
  BY DEF find_index
<1> HIDE DEF a, t
<1>3. n \in Nat \ {0} /\ Len(t) \in Nat /\ Len(t) < n
  BY <1>1, CapacityFits
<1> HIDE DEF n
<1>4. a \in Arrays(n)
  BY <1>1, LenProperties DEF Arrays
<1>5. Terminates(a)
  <2>1. \E p \in 1..n : a[p].index_plus1 = 0
    BY <1>1, <1>3, <1>4, SlotIsFree
  <2> QED BY <1>1, <2>1 DEF Terminates
<1>6. ASSUME NEW q \in Queries
      PROVE  /\ lookup_hash(t, a, q) = lookup_linear(t, q)
             /\ \/ find_hash(t, a, q) = find_linear(t, q)
                \/ find_hash(t, a, q)[1] = "version_mismatch"
  BY <1>1, <1>3, <1>4, AnswersAgree
<1> QED BY <1>1, <1>2, <1>5, <1>6 DEF a, t, n

\* Whatever array an index was given and whatever an earlier index left in it, for
\* every table and every hash of its names, collisions included: the probes of
\* HashIndex end, lookup_hash answers exactly as lookup_linear, and find_hash as
\* find_linear but for the version mismatches that it alone reports.
THEOREM IndexAnswersRight == ExportSpec => []IndexAnswersAsScan
<1>1. ExportInit => ExportInv /\ ArraysInv
  BY ExportInitInv, ArraysInitInv
<1>2. (ExportInv /\ ArraysInv) /\ [ExportNext]_exportVars => (ExportInv /\ ArraysInv)'
  BY ExportStep, ArraysStep
<1> QED BY <1>1, <1>2, BuiltAnswers, PTL DEF ExportSpec

-----------------------------------------------------------------------------
(***************************************************************************)
(* The reload loop: the calls of the domain, then the steps of the loops.  *)
(***************************************************************************)
\* One more call, inside a batch and at its end.
LEMMA NextCall ==
    ASSUME NEW c \in Nat
    PROVE  /\ c % EpochBatch \in 0..(EpochBatch - 1) /\ c \div EpochBatch \in Nat
           /\ (c % EpochBatch) + 1 < EpochBatch =>
                 (c + 1) % EpochBatch = (c % EpochBatch) + 1 /\ (c + 1) \div EpochBatch = c \div EpochBatch
           /\ (c % EpochBatch) + 1 >= EpochBatch =>
                 (c + 1) % EpochBatch = 0 /\ (c + 1) \div EpochBatch = c \div EpochBatch + 1
<1> DEFINE q == c \div EpochBatch
           r == c % EpochBatch
           p == (c + 1) \div EpochBatch
           s == (c + 1) % EpochBatch
<1>1. EpochBatch \in Nat \ {0}
  BY CadenceAssumption
<1>2. c = EpochBatch * q + r /\ q \in Nat /\ r \in 0..(EpochBatch - 1)
  BY <1>1
<1>3. c + 1 = EpochBatch * p + s /\ p \in Nat /\ s \in 0..(EpochBatch - 1)
  BY <1>1
<1> HIDE DEF q, r, p, s
<1>4. EpochBatch * (p - q) = r + 1 - s /\ p - q \in Int
  <2>1. EpochBatch * (p - q) = EpochBatch * p - EpochBatch * q
    BY <1>1, <1>2, <1>3
  <2> QED BY <1>1, <1>2, <1>3, <2>1
<1>5. \A k \in Int : EpochBatch * k < EpochBatch /\ -EpochBatch < EpochBatch * k => k = 0
  BY <1>1
<1>6. r + 1 < EpochBatch => p = q /\ s = r + 1
  <2> SUFFICES ASSUME r + 1 < EpochBatch PROVE p = q /\ s = r + 1
    OBVIOUS
  <2>1. p - q = 0
    BY <1>1, <1>2, <1>3, <1>4, <1>5
  <2> QED BY <1>1, <1>2, <1>3, <1>4, <2>1
<1>7. r + 1 >= EpochBatch => p = q + 1 /\ s = 0
  <2> SUFFICES ASSUME r + 1 >= EpochBatch PROVE p = q + 1 /\ s = 0
    OBVIOUS
  <2>0. r + 1 = EpochBatch
    BY <1>1, <1>2
  <2>1. EpochBatch * (p - q - 1) = -s /\ p - q - 1 \in Int
    <3>1. EpochBatch * (p - q - 1) = EpochBatch * (p - q) - EpochBatch
      BY <1>1, <1>4
    <3> QED BY <1>1, <1>2, <1>3, <1>4, <2>0, <3>1
  <2>2. p - q - 1 = 0
    <3> DEFINE k == p - q - 1
    <3>1. k \in Int /\ EpochBatch * k = -s
      BY <2>1
    <3> HIDE DEF k
    <3>2. EpochBatch * k < EpochBatch /\ -EpochBatch < EpochBatch * k
      BY <1>1, <1>3, <3>1
    <3>3. k = 0
      BY <1>5, <3>1, <3>2
    <3> QED BY <3>3 DEF k
  <2> QED BY <1>1, <1>2, <1>3, <2>1, <2>2
<1> QED BY <1>2, <1>6, <1>7 DEF q, r, p, s

LEMMA DomainFields ==
    ASSUME NEW d \in CadenceDomains
    PROVE  /\ d.epoch \in Nat /\ d.syncs \in Nat /\ d.calls \in Nat
           /\ d.completed \in [eager : Nat, batched : Nat]
           /\ d.completed.eager \in Nat /\ d.completed.batched \in Nat
           /\ d.retired \in SUBSET RetiredNodes /\ d.collected \in SUBSET RetiredNodes
  BY DEF CadenceDomains

LEMMA RetireEffect ==
    ASSUME NEW d \in CadenceDomains, NEW what \in Nat, NEW cls \in {"eager", "batched"}
    PROVE  LET e == retire(d, what, cls)
               n == [what |-> what, cls |-> cls, epoch |-> d.epoch, at |-> d.calls]
           IN /\ e \in CadenceDomains
              /\ e.retired = d.retired \union {n} /\ e.collected = d.collected
              /\ e.epoch = d.epoch /\ e.syncs = d.syncs /\ e.calls = d.calls /\ e.completed = d.completed
<1> DEFINE n == [what |-> what, cls |-> cls, epoch |-> d.epoch, at |-> d.calls]
           s == d.retired \union {n}
<1>1. n \in RetiredNodes /\ s \in SUBSET RetiredNodes
  BY DomainFields DEF RetiredNodes
<1>2. retire(d, what, cls) = [d EXCEPT !.retired = s]
  BY DEF retire, CadenceDomains
<1> HIDE DEF s
<1>3. LET e == [d EXCEPT !.retired = s]
      IN /\ e \in CadenceDomains /\ e.retired = s /\ e.collected = d.collected
         /\ e.epoch = d.epoch /\ e.syncs = d.syncs /\ e.calls = d.calls /\ e.completed = d.completed
  BY <1>1 DEF CadenceDomains
<1> QED BY <1>2, <1>3 DEF s

LEMMA RetireKeeps ==
    ASSUME NEW d \in CadenceDomains, BatchKept(d), NEW what \in Nat, NEW cls \in {"eager", "batched"}
    PROVE  BatchKept(retire(d, what, cls))
<1> DEFINE e == retire(d, what, cls)
           n == [what |-> what, cls |-> cls, epoch |-> d.epoch, at |-> d.calls]
<1>1. /\ e.retired = d.retired \union {n} /\ e.collected = d.collected
      /\ e.epoch = d.epoch /\ e.syncs = d.syncs /\ e.calls = d.calls /\ e.completed = d.completed
  BY RetireEffect
<1>2. n.epoch = d.epoch /\ n.at = d.calls /\ d.epoch \in Nat
  BY DomainFields
<1> HIDE DEF e, n
<1>3. BatchKept(e)
  BY <1>1, <1>2 DEF BatchKept
<1> QED BY <1>3 DEF e

\* The nodes that a collection through an epoch takes.
Passed(d, safe, cls) == {n \in d.retired : n.cls = cls /\ n.epoch <= safe}

LEMMA CollectEffect ==
    ASSUME NEW d \in CadenceDomains, NEW safe \in Nat, NEW cls \in {"eager", "batched"},
           safe > d.completed[cls]
    PROVE  LET e == collect(d, safe, cls)
           IN /\ e \in CadenceDomains
              /\ e.retired = d.retired \ Passed(d, safe, cls) /\ e.collected = d.collected \union Passed(d, safe, cls)
              /\ e.epoch = d.epoch /\ e.syncs = d.syncs /\ e.calls = d.calls
              /\ e.completed = [d.completed EXCEPT ![cls] = safe]
<1> DEFINE a == d.retired \ Passed(d, safe, cls)
           b == d.collected \union Passed(d, safe, cls)
           c == [d.completed EXCEPT ![cls] = safe]
<1>1. a \in SUBSET RetiredNodes /\ b \in SUBSET RetiredNodes
  BY DomainFields DEF Passed
<1>2. c \in [eager : Nat, batched : Nat]
  BY DomainFields
<1>3. d.completed[cls] \in Nat
  BY DomainFields
<1>4. ~(safe <= d.completed[cls])
  BY <1>3
<1>5. collect(d, safe, cls) = [d EXCEPT !.completed = c, !.retired = a, !.collected = b]
  BY <1>4 DEF collect, Passed, CadenceDomains
<1> HIDE DEF a, b, c
<1>6. LET e == [d EXCEPT !.completed = c, !.retired = a, !.collected = b]
      IN /\ e \in CadenceDomains /\ e.retired = a /\ e.collected = b
         /\ e.epoch = d.epoch /\ e.syncs = d.syncs /\ e.calls = d.calls /\ e.completed = c
  BY <1>1, <1>2 DEF CadenceDomains
<1> QED BY <1>5, <1>6 DEF a, b, c

\* synchronize() of the eager class takes all of it and none of the other.
LEMMA SyncEager ==
    ASSUME NEW d \in CadenceDomains, BatchKept(d)
    PROVE  LET e == synchronize_impl(d, TRUE)
           IN /\ e \in CadenceDomains /\ BatchKept(e)
              /\ e.retired = {n \in d.retired : n.cls # "eager"}
              /\ e.collected = d.collected \union {n \in d.retired : n.cls = "eager"}
<1> DEFINE k == d.epoch + 1
           c == [d EXCEPT !.epoch = k]
           e == synchronize_impl(d, TRUE)
<1>1. k \in Nat /\ d.epoch \in Nat
  BY DomainFields
<1> HIDE DEF k
<1>2. /\ c \in CadenceDomains /\ c.epoch = k /\ c.syncs = d.syncs /\ c.calls = d.calls
      /\ c.completed = d.completed /\ c.retired = d.retired /\ c.collected = d.collected
  BY <1>1 DEF CadenceDomains
<1>3. e = collect(c, d.epoch, "eager")
  <2>1. [d EXCEPT !.epoch = @ + 1, !.syncs = @] = c
    BY DEF CadenceDomains, k
  <2> QED BY <2>1 DEF synchronize_impl, Gated
<1>4. d.epoch > c.completed["eager"]
  <2>1. d.completed.eager \in Nat /\ d.completed.eager < d.epoch
    BY DomainFields DEF BatchKept
  <2> QED BY <1>1, <1>2, <2>1
<1> HIDE DEF c, e
<1>5. /\ e \in CadenceDomains
      /\ e.retired = c.retired \ Passed(c, d.epoch, "eager") /\ e.collected = c.collected \union Passed(c, d.epoch, "eager")
      /\ e.epoch = c.epoch /\ e.syncs = c.syncs /\ e.calls = c.calls
      /\ e.completed = [c.completed EXCEPT !["eager"] = d.epoch]
  BY <1>1, <1>2, <1>3, <1>4, CollectEffect
<1>6. Passed(c, d.epoch, "eager") = {n \in d.retired : n.cls = "eager"}
  <2>1. \A n \in d.retired : n.epoch <= d.epoch
    BY DEF BatchKept
  <2> QED BY <1>2, <2>1 DEF Passed
<1>7. /\ e.retired = {n \in d.retired : n.cls # "eager"}
      /\ e.collected = d.collected \union {n \in d.retired : n.cls = "eager"}
  BY <1>2, <1>5, <1>6
<1>8. e.completed.eager = d.epoch /\ e.completed.batched = d.completed.batched
  BY <1>2, <1>5, DomainFields
<1>9. BatchKept(e)
  <2>1. e.completed.eager < e.epoch /\ e.completed.batched < e.epoch
    BY <1>1, <1>2, <1>5, <1>8, DomainFields DEF BatchKept, k
  <2>2. \A n \in d.retired : n.epoch <= k
    <3>1. \A n \in d.retired : n.epoch \in Nat /\ n.epoch <= d.epoch
      BY DomainFields DEF BatchKept, RetiredNodes
    <3> QED BY <1>1, <3>1 DEF k
  <2> QED BY <1>2, <1>5, <1>7, <2>1, <2>2 DEF BatchKept
<1> QED BY <1>5, <1>7, <1>9 DEF e

\* synchronize() of the batched class inside a batch counts and does nothing else.
LEMMA SyncGated ==
    ASSUME NEW d \in CadenceDomains, BatchKept(d), d.syncs + 1 < EpochBatch
    PROVE  LET e == synchronize_impl(d, FALSE)
           IN /\ e \in CadenceDomains /\ BatchKept(e)
              /\ e.retired = d.retired /\ e.collected = d.collected /\ e.epoch = d.epoch
<1> DEFINE k == d.calls + 1
           j == d.syncs + 1
           e == [d EXCEPT !.calls = k, !.syncs = j]
<1>1. k \in Nat /\ j \in Nat
  BY DomainFields
<1>2. synchronize_impl(d, FALSE) = e
  BY DEF synchronize_impl, Gated, CadenceDomains
<1>3. j = k % EpochBatch /\ k \div EpochBatch = d.calls \div EpochBatch
  BY NextCall, DomainFields DEF BatchKept
<1> HIDE DEF j, k
<1>4. /\ e \in CadenceDomains /\ e.epoch = d.epoch /\ e.syncs = j /\ e.calls = k
      /\ e.completed = d.completed /\ e.retired = d.retired /\ e.collected = d.collected
  BY <1>1 DEF CadenceDomains
<1> HIDE DEF e
<1>5. BatchKept(e)
  BY <1>3, <1>4 DEF BatchKept
<1> QED BY <1>2, <1>4, <1>5

\* At the end of a batch it takes all of the batched class.
LEMMA SyncCompletes ==
    ASSUME NEW d \in CadenceDomains, BatchKept(d), ~(d.syncs + 1 < EpochBatch)
    PROVE  LET e == synchronize_impl(d, FALSE)
           IN /\ e \in CadenceDomains /\ BatchKept(e)
              /\ e.retired = {n \in d.retired : n.cls # "batched"}
              /\ e.collected = d.collected \union {n \in d.retired : n.cls = "batched"}
<1> DEFINE k == d.epoch + 1
           j == d.calls + 1
           c == [d EXCEPT !.calls = j, !.epoch = k, !.syncs = 0]
           e == synchronize_impl(d, FALSE)
<1>1. k \in Nat /\ j \in Nat /\ d.epoch \in Nat /\ d.calls \in Nat
  BY DomainFields
<1>0. 0 = j % EpochBatch /\ j \div EpochBatch = d.calls \div EpochBatch + 1 /\ d.calls \div EpochBatch \in Nat
  <2>1. (d.calls % EpochBatch) + 1 >= EpochBatch
    BY CadenceAssumption, DomainFields DEF BatchKept
  <2> QED BY <1>1, <2>1, NextCall
<1> HIDE DEF k, j
<1>2. /\ c \in CadenceDomains /\ c.epoch = k /\ c.syncs = 0 /\ c.calls = j
      /\ c.completed = d.completed /\ c.retired = d.retired /\ c.collected = d.collected
  <2> DEFINE z == 0
  <2>1. z \in Nat
    OBVIOUS
  <2> HIDE DEF z
  <2>2. LET x == [d EXCEPT !.calls = j, !.epoch = k, !.syncs = z]
        IN /\ x \in CadenceDomains /\ x.epoch = k /\ x.syncs = z /\ x.calls = j
           /\ x.completed = d.completed /\ x.retired = d.retired /\ x.collected = d.collected
    BY <1>1, <2>1 DEF CadenceDomains
  <2> QED BY <2>2 DEF z
<1>3. e = collect(c, d.epoch, "batched")
  <2>1. LET x == [d EXCEPT !.calls = @ + 1] IN [x EXCEPT !.epoch = @ + 1, !.syncs = 0] = c
    BY DEF CadenceDomains, j, k
  <2> QED BY <2>1 DEF synchronize_impl, Gated
<1>4. d.epoch > c.completed["batched"]
  <2>1. d.completed.batched \in Nat /\ d.completed.batched < d.epoch
    BY DomainFields DEF BatchKept
  <2> QED BY <1>1, <1>2, <2>1
<1> HIDE DEF c, e
<1>5. /\ e \in CadenceDomains
      /\ e.retired = c.retired \ Passed(c, d.epoch, "batched") /\ e.collected = c.collected \union Passed(c, d.epoch, "batched")
      /\ e.epoch = c.epoch /\ e.syncs = c.syncs /\ e.calls = c.calls
      /\ e.completed = [c.completed EXCEPT !["batched"] = d.epoch]
  BY <1>1, <1>2, <1>3, <1>4, CollectEffect
<1>6. Passed(c, d.epoch, "batched") = {n \in d.retired : n.cls = "batched"}
  <2>1. \A n \in d.retired : n.epoch <= d.epoch
    BY DEF BatchKept
  <2> QED BY <1>2, <2>1 DEF Passed
<1>7. /\ e.retired = {n \in d.retired : n.cls # "batched"}
      /\ e.collected = d.collected \union {n \in d.retired : n.cls = "batched"}
  BY <1>2, <1>5, <1>6
<1>8. e.completed.batched = d.epoch /\ e.completed.eager = d.completed.eager
  BY <1>2, <1>5, DomainFields
<1>9. BatchKept(e)
  <2>1. e.completed.eager < e.epoch /\ e.completed.batched < e.epoch
    BY <1>1, <1>2, <1>5, <1>8, DomainFields DEF BatchKept, k
  <2>2. \A n \in d.retired : n.epoch <= k
    <3>1. \A n \in d.retired : n.epoch \in Nat /\ n.epoch <= d.epoch
      BY DomainFields DEF BatchKept, RetiredNodes
    <3> QED BY <1>1, <3>1 DEF k
  <2>3. \A n \in e.collected : n.cls = "batched" => n.at \div EpochBatch < j \div EpochBatch
    <3>1. \A n \in d.retired : n.cls = "batched" => n.at \div EpochBatch = d.calls \div EpochBatch
      BY DEF BatchKept
    <3>2. \A n \in d.collected : n.cls = "batched" => n.at \div EpochBatch < d.calls \div EpochBatch
      BY DEF BatchKept
    <3>3. \A n \in d.collected : n.at \div EpochBatch \in Int
      <4>1. \A n \in d.collected : n.at \in Nat
        BY DomainFields DEF RetiredNodes
      <4> QED BY <4>1, CadenceAssumption
    <3> QED BY <1>0, <1>7, <3>1, <3>2, <3>3
  <2>4. e.syncs = e.calls % EpochBatch
    BY <1>0, <1>2, <1>5
  <2> QED BY <1>2, <1>5, <1>7, <2>1, <2>2, <2>3, <2>4 DEF BatchKept
<1> QED BY <1>5, <1>7, <1>9 DEF e

\* try_collect() finds nothing when all that is retired is of the present epoch.
LEMMA TryCollectIdle ==
    ASSUME NEW d \in CadenceDomains, BatchKept(d), \A n \in d.retired : n.epoch = d.epoch
    PROVE  LET e == try_collect(d)
           IN /\ e \in CadenceDomains /\ BatchKept(e)
              /\ e.retired = d.retired /\ e.collected = d.collected /\ e.epoch = d.epoch
<1> DEFINE safe == d.epoch - 1
<1>1. CASE safe < 1
  BY <1>1 DEF try_collect, Oldest
<1>2. CASE ~(safe < 1)
  <2>1. safe \in Nat /\ d.epoch \in Nat /\ safe < d.epoch
    BY <1>2, DomainFields
  <2>2. try_collect(d) = collect(collect(d, safe, "eager"), safe, "batched")
    BY <1>2 DEF try_collect, Oldest
  <2> HIDE DEF safe
  <2>3. ASSUME NEW x \in CadenceDomains, NEW cls \in {"eager", "batched"}, BatchKept(x),
               x.retired = d.retired, x.collected = d.collected, x.epoch = d.epoch
        PROVE  LET e == collect(x, safe, cls)
               IN /\ e \in CadenceDomains /\ BatchKept(e)
                  /\ e.retired = d.retired /\ e.collected = d.collected /\ e.epoch = d.epoch
    <3>1. CASE safe <= x.completed[cls]
      BY <2>3, <3>1 DEF collect
    <3>2. CASE ~(safe <= x.completed[cls])
      <4> DEFINE e == collect(x, safe, cls)
      <4>0. x.completed[cls] \in Nat
        BY DomainFields
      <4>1. safe > x.completed[cls]
        BY <2>1, <3>2, <4>0
      <4>2. Passed(x, safe, cls) = {}
        BY <2>1, <2>3 DEF Passed
      <4>3. /\ e \in CadenceDomains
            /\ e.retired = x.retired /\ e.collected = x.collected
            /\ e.epoch = x.epoch /\ e.syncs = x.syncs /\ e.calls = x.calls
            /\ e.completed = [x.completed EXCEPT ![cls] = safe]
        <5>1. /\ e \in CadenceDomains
              /\ e.retired = x.retired \ Passed(x, safe, cls) /\ e.collected = x.collected \union Passed(x, safe, cls)
              /\ e.epoch = x.epoch /\ e.syncs = x.syncs /\ e.calls = x.calls
              /\ e.completed = [x.completed EXCEPT ![cls] = safe]
          <6>1. x \in CadenceDomains /\ cls \in {"eager", "batched"} /\ safe \in Nat /\ safe > x.completed[cls]
            BY <2>1, <2>3, <4>1
          <6>2. CASE cls = "eager"
            BY ONLY <6>1, <6>2, CollectEffect
          <6>3. CASE cls = "batched"
            BY ONLY <6>1, <6>3, CollectEffect
          <6> QED BY <6>1, <6>2, <6>3
        <5> HIDE DEF e
        <5> QED BY <4>2, <5>1
      <4> HIDE DEF e
      <4>4. e.completed.eager \in {x.completed.eager, safe} /\ e.completed.batched \in {x.completed.batched, safe}
        BY <4>3, DomainFields
      <4>5. BatchKept(e)
        BY <2>1, <2>3, <4>3, <4>4 DEF BatchKept
      <4> QED BY <2>3, <4>3, <4>5 DEF e
    <3> QED BY <3>1, <3>2
  <2> DEFINE y == collect(d, safe, "eager")
  <2>4. /\ y \in CadenceDomains /\ BatchKept(y)
        /\ y.retired = d.retired /\ y.collected = d.collected /\ y.epoch = d.epoch
    BY <2>3
  <2> HIDE DEF y
  <2>5. LET e == collect(y, safe, "batched")
        IN /\ e \in CadenceDomains /\ BatchKept(e)
           /\ e.retired = d.retired /\ e.collected = d.collected /\ e.epoch = d.epoch
    BY <2>3, <2>4
  <2> QED BY <2>2, <2>5 DEF y
<1> QED BY <1>1, <1>2

\* Both together: a node changes sides, and only a batched one.
LEMMA Synced ==
    ASSUME NEW d \in CadenceDomains, BatchKept(d)
    PROVE  LET e == synchronize_impl(d, FALSE)
           IN /\ e \in CadenceDomains /\ BatchKept(e)
              /\ e.retired \subseteq d.retired
              /\ e.retired \union e.collected = d.retired \union d.collected
              /\ d.collected \subseteq e.collected
              /\ (\A n \in d.retired : n.cls = "batched" /\ n.epoch = d.epoch)
                     => \A n \in e.retired : n.cls = "batched" /\ n.epoch = e.epoch
<1> DEFINE e == synchronize_impl(d, FALSE)
<1>1. CASE d.syncs + 1 < EpochBatch
  <2>1. /\ e \in CadenceDomains /\ BatchKept(e)
        /\ e.retired = d.retired /\ e.collected = d.collected /\ e.epoch = d.epoch
    BY <1>1, SyncGated
  <2> HIDE DEF e
  <2>2. /\ e \in CadenceDomains /\ BatchKept(e)
        /\ e.retired \subseteq d.retired
        /\ e.retired \union e.collected = d.retired \union d.collected
        /\ d.collected \subseteq e.collected
        /\ (\A n \in d.retired : n.cls = "batched" /\ n.epoch = d.epoch)
               => \A n \in e.retired : n.cls = "batched" /\ n.epoch = e.epoch
    BY <2>1
  <2> QED BY <2>2 DEF e
<1>2. CASE ~(d.syncs + 1 < EpochBatch)
  <2>1. /\ e \in CadenceDomains /\ BatchKept(e)
        /\ e.retired = {n \in d.retired : n.cls # "batched"}
        /\ e.collected = d.collected \union {n \in d.retired : n.cls = "batched"}
    BY <1>2, SyncCompletes
  <2> HIDE DEF e
  <2>2. /\ e \in CadenceDomains /\ BatchKept(e)
        /\ e.retired \subseteq d.retired
        /\ e.retired \union e.collected = d.retired \union d.collected
        /\ d.collected \subseteq e.collected
        /\ (\A n \in d.retired : n.cls = "batched" /\ n.epoch = d.epoch)
               => \A n \in e.retired : n.cls = "batched" /\ n.epoch = e.epoch
    BY <2>1
  <2> QED BY <2>2 DEF e
<1> QED BY <1>1, <1>2

-----------------------------------------------------------------------------
\* What a reload leaves in the domain before its synchronize(): d is the domain with the
\* live index and its image retired, and in the eager variant the index collected.
Replaced(d) ==
    /\ d \in CadenceDomains /\ BatchKept(d)
    /\ \A n \in d.retired \union d.collected :
          n \in domain.retired \union domain.collected \/ n.what \in {live, TOKEN}
    /\ domain.collected \subseteq d.collected
    /\ run.mode = "eager" => /\ \A n \in d.retired : n.cls # "eager"
                             /\ live # 0 => \E n \in d.collected : n.what = live

LEMMA ReplacedBatched ==
    ASSUME CadenceInv, run.mode = "batched"
    PROVE  Replaced(retire_batched(domain))
<1> DEFINE n == [what |-> live, cls |-> "batched", epoch |-> domain.epoch, at |-> domain.calls]
           d == retire(domain, live, "batched")
           m == [what |-> TOKEN, cls |-> "batched", epoch |-> d.epoch, at |-> d.calls]
           e == retire(d, TOKEN, "batched")
<1>1. domain \in CadenceDomains /\ BatchKept(domain) /\ live \in Nat /\ TOKEN \in Nat
  BY DEF CadenceInv, CadenceTypes, TOKEN
<1>2. d \in CadenceDomains /\ d.retired = domain.retired \union {n} /\ d.collected = domain.collected
  BY <1>1, RetireEffect
<1>3. BatchKept(d)
  BY <1>1, RetireKeeps
<1>4. n.what = live /\ m.what = TOKEN
  OBVIOUS
<1> HIDE DEF d, n
<1>5. e \in CadenceDomains /\ e.retired = d.retired \union {m} /\ e.collected = d.collected
  BY <1>1, <1>2, RetireEffect
<1>6. BatchKept(e)
  BY <1>1, <1>2, <1>3, RetireKeeps
<1> HIDE DEF e, m
<1>7. Replaced(e)
  BY <1>2, <1>4, <1>5, <1>6 DEF Replaced
<1> QED BY <1>7 DEF e, d, retire_batched

LEMMA ReplacedEager ==
    ASSUME CadenceInv, run.mode = "eager"
    PROVE  Replaced(retire_split(domain))
<1> DEFINE n == [what |-> live, cls |-> "eager", epoch |-> domain.epoch, at |-> domain.calls]
           d == retire(domain, live, "eager")
           c == synchronize_impl(d, TRUE)
           m == [what |-> TOKEN, cls |-> "batched", epoch |-> c.epoch, at |-> c.calls]
           e == retire(c, TOKEN, "batched")
<1>1. domain \in CadenceDomains /\ BatchKept(domain) /\ live \in Nat /\ TOKEN \in Nat
  BY DEF CadenceInv, CadenceTypes, TOKEN
<1>2. d \in CadenceDomains /\ d.retired = domain.retired \union {n} /\ d.collected = domain.collected
  BY <1>1, RetireEffect
<1>3. BatchKept(d)
  BY <1>1, RetireKeeps
<1>4. n.what = live /\ n.cls = "eager" /\ m.what = TOKEN /\ m.cls = "batched"
  OBVIOUS
<1> HIDE DEF d, n
<1>5. /\ c \in CadenceDomains /\ BatchKept(c)
      /\ c.retired = {x \in d.retired : x.cls # "eager"}
      /\ c.collected = d.collected \union {x \in d.retired : x.cls = "eager"}
  BY <1>2, <1>3, SyncEager
<1> HIDE DEF c
<1>6. e \in CadenceDomains /\ e.retired = c.retired \union {m} /\ e.collected = c.collected
  BY <1>1, <1>5, RetireEffect
<1>7. BatchKept(e)
  BY <1>1, <1>5, RetireKeeps
<1> HIDE DEF e, m
<1>8. n \in e.collected
  BY <1>2, <1>4, <1>5, <1>6
<1>9. Replaced(e)
  <2>1. \A x \in e.retired \union e.collected :
            x \in domain.retired \union domain.collected \/ x = n \/ x = m
    BY <1>2, <1>5, <1>6
  <2>2. \A x \in e.retired : x.cls # "eager"
    BY <1>4, <1>5, <1>6
  <2>3. domain.collected \subseteq e.collected
    BY <1>2, <1>5, <1>6
  <2> QED BY <1>4, <1>6, <1>7, <1>8, <2>1, <2>2, <2>3 DEF Replaced
<1> QED BY <1>9 DEF e, c, d, retire_split

LEMMA ReplacedNone ==
    ASSUME CadenceInv, live = 0
    PROVE  Replaced(domain)
  BY DEF CadenceInv, CadenceTypes, ModesKept, Replaced

LEMMA DestroyedOnce ==
    ASSUME NEW b \in IndexBuffers, b.freed = IF b.owned THEN 0 ELSE 1
    PROVE  /\ destroyed(b) \in IndexBuffers
           /\ destroyed(b).owned = FALSE /\ destroyed(b).freed = 1
  BY DEF IndexBuffers, destroyed

\* The indexes after a reload: none is freed twice, and what is owned was, or is new.
LEMMA AfterReload ==
    ASSUME CadenceInv, NEW e
    PROVE  LET after == Append(AfterCallbacks(e), FreshIndex)
               owned == {i \in DOMAIN after : after[i].owned}
           IN /\ after \in Seq(IndexBuffers) /\ Len(after) = Len(buffers) + 1
              /\ \A i \in DOMAIN after : after[i].freed = IF after[i].owned THEN 0 ELSE 1
              /\ Len(after) \in owned
              /\ owned \subseteq OwnedIndexes \union {Len(after)}
              /\ (\E n \in e.collected \ domain.collected : n.what = live)
                     => owned \subseteq (OwnedIndexes \ {live}) \union {Len(after)}
<1> DEFINE b == AfterCallbacks(e)
           after == Append(b, FreshIndex)
           owned == {i \in DOMAIN after : after[i].owned}
           gone(i) == \E n \in e.collected \ domain.collected : n.what = i
           k == Len(buffers)
<1>1. buffers \in Seq(IndexBuffers) /\ k \in Nat /\ DOMAIN buffers = 1..k
  BY DEF CadenceInv, CadenceTypes
<1>2. \A i \in 1..k : buffers[i] \in IndexBuffers /\ buffers[i].freed = IF buffers[i].owned THEN 0 ELSE 1
  BY <1>1 DEF CadenceInv, IndexesKept
<1> HIDE DEF k
<1>3. b = [i \in 1..k |-> IF gone(i) THEN destroyed(buffers[i]) ELSE buffers[i]]
  BY <1>1 DEF AfterCallbacks
<1> HIDE DEF b, gone
<1>4. \A i \in 1..k : /\ b[i] \in IndexBuffers
                      /\ b[i].freed = IF b[i].owned THEN 0 ELSE 1
                      /\ b[i].owned => buffers[i].owned /\ ~gone(i)
  <2> SUFFICES ASSUME NEW i \in 1..k
               PROVE  /\ b[i] \in IndexBuffers
                      /\ b[i].freed = IF b[i].owned THEN 0 ELSE 1
                      /\ b[i].owned => buffers[i].owned /\ ~gone(i)
    OBVIOUS
  <2>1. /\ destroyed(buffers[i]) \in IndexBuffers
        /\ destroyed(buffers[i]).owned = FALSE /\ destroyed(buffers[i]).freed = 1
    BY <1>2, DestroyedOnce
  <2> QED BY <1>2, <1>3, <2>1
<1>5. b \in Seq(IndexBuffers) /\ Len(b) = k
  <2>1. b \in [1..k -> IndexBuffers]
    BY <1>3, <1>4
  <2> QED BY <1>1, <2>1, FunctionIsSeq
<1>6. FreshIndex \in IndexBuffers /\ FreshIndex.owned /\ FreshIndex.freed = IF FreshIndex.owned THEN 0 ELSE 1
  BY DEF FreshIndex, IndexBuffers
<1>7. /\ after \in Seq(IndexBuffers) /\ Len(after) = k + 1 /\ DOMAIN after = 1..(k + 1)
      /\ after[k + 1] = FreshIndex /\ \A i \in 1..k : after[i] = b[i]
  BY <1>1, <1>5, <1>6
<1> HIDE DEF after
<1>8. \A i \in DOMAIN after : i = k + 1 \/ i \in 1..k
  BY <1>1, <1>7
<1>9. \A i \in DOMAIN after : after[i].freed = IF after[i].owned THEN 0 ELSE 1
  BY <1>4, <1>6, <1>7, <1>8
<1>10. Len(after) \in owned
  BY <1>1, <1>6, <1>7
<1>11. \A i \in owned : i = k + 1 \/ (i \in OwnedIndexes /\ ~gone(i))
  BY <1>1, <1>4, <1>7, <1>8 DEF OwnedIndexes
<1> HIDE DEF owned
<1>12. owned \subseteq OwnedIndexes \union {Len(after)}
  BY <1>7, <1>11
<1>13. gone(live) => owned \subseteq (OwnedIndexes \ {live}) \union {Len(after)}
  BY <1>7, <1>11
<1> QED BY <1>7, <1>9, <1>10, <1>12, <1>13 DEF after, owned, b, k, gone

LEMMA OwnedFinite ==
    ASSUME CadenceTypes
    PROVE  IsFiniteSet(OwnedIndexes) /\ Cardinality(OwnedIndexes) \in Nat
           /\ Len(buffers) + 1 \notin OwnedIndexes
<1>1. Len(buffers) \in Nat /\ DOMAIN buffers = 1..Len(buffers)
  BY DEF CadenceTypes
<1>2. 1 \in Int /\ Len(buffers) \in Int
  BY <1>1
<1>3. IsFiniteSet(1..Len(buffers))
  BY <1>2, FS_Interval
<1>4. OwnedIndexes \subseteq 1..Len(buffers)
  BY <1>1 DEF OwnedIndexes
<1>5. IsFiniteSet(OwnedIndexes)
  BY <1>3, <1>4, FS_Subset
<1>6. Len(buffers) + 1 \notin OwnedIndexes
  BY <1>1, <1>4
<1> QED BY <1>5, <1>6, FS_CardinalityType

\* A reload keeps the invariant.
LEMMA CadenceReload ==
    ASSUME CadenceInv, ReloadStep
    PROVE  CadenceInv'
<1> DEFINE d == CASE live = 0 -> domain
                  [] live # 0 /\ run.mode = "eager" -> retire_split(domain)
                  [] live # 0 /\ run.mode = "batched" -> retire_batched(domain)
<1>0. /\ run.mode \in {"batched", "eager"} /\ round <= run.rounds /\ turn < run.steps
      /\ live' = Len(buffers') /\ turn' = turn + 1 /\ run' = run /\ round' = round
      /\ buffers' = Append(AfterCallbacks(domain'), FreshIndex)
  BY DEF ReloadStep
<1>1. domain' = synchronize_impl(d, FALSE)
  BY DEF ReloadStep
<1>2. Replaced(d)
  <2>1. CASE live = 0
    <3>1. d = domain
      BY <2>1
    <3> HIDE DEF d
    <3> QED BY <2>1, <3>1, ReplacedNone
  <2>2. CASE live # 0 /\ run.mode = "eager"
    BY <2>2, ReplacedEager
  <2>3. CASE live # 0 /\ run.mode = "batched"
    BY <2>3, ReplacedBatched
  <2> HIDE DEF d
  <2> QED BY <1>0, <2>1, <2>2, <2>3
<1> HIDE DEF d
<1>3. /\ domain' \in CadenceDomains /\ BatchKept(domain')
      /\ domain'.retired \subseteq d.retired
      /\ domain'.retired \union domain'.collected = d.retired \union d.collected
      /\ d.collected \subseteq domain'.collected
  BY <1>1, <1>2, Synced DEF Replaced
<1> DEFINE owned == {i \in DOMAIN buffers' : buffers'[i].owned}
           k == Len(buffers)
<1>4. /\ buffers' \in Seq(IndexBuffers) /\ Len(buffers') = k + 1
      /\ \A i \in DOMAIN buffers' : buffers'[i].freed = IF buffers'[i].owned THEN 0 ELSE 1
      /\ Len(buffers') \in owned
      /\ owned \subseteq OwnedIndexes \union {Len(buffers')}
      /\ (\E n \in domain'.collected \ domain.collected : n.what = live)
             => owned \subseteq (OwnedIndexes \ {live}) \union {Len(buffers')}
  BY <1>0, AfterReload
<1>5. /\ k \in Nat /\ live \in 0..k /\ round \in Nat \ {0} /\ turn \in Nat
      /\ run \in [mode : {"none", "batched", "eager", "reclaim"}, steps : Nat, rounds : Nat]
  BY DEF CadenceInv, CadenceTypes
<1>6. OwnedIndexes' = owned
  BY DEF OwnedIndexes
<1> HIDE DEF owned, k
<1>7. CadenceTypes'
  BY <1>0, <1>3, <1>4, <1>5 DEF CadenceTypes
<1>8. ModesKept'
  <2>1. run.mode = "eager" => \A n \in domain'.retired : n.cls # "eager"
    BY <1>2, <1>3 DEF Replaced
  <2> QED BY <1>0, <2>1 DEF ModesKept
<1>9. \A n \in domain'.retired \union domain'.collected : n.what \in Nat /\ n.what <= k
  <2>1. \A n \in domain'.retired \union domain'.collected :
            n \in domain.retired \union domain.collected \/ n.what \in {live, TOKEN}
    BY <1>2, <1>3 DEF Replaced
  <2>2. \A n \in domain.retired \union domain.collected : n.what <= k
    BY DEF CadenceInv, IndexesKept, k
  <2>3. \A n \in domain'.retired \union domain'.collected : n.what \in Nat
    BY <1>3, DomainFields DEF RetiredNodes
  <2> QED BY <1>5, <2>1, <2>2, <2>3 DEF TOKEN
<1>10. run.mode = "eager" => Cardinality(owned) <= round
  <2> SUFFICES ASSUME run.mode = "eager"
               PROVE  Cardinality(owned) <= round
    OBVIOUS
  <2>0. IsFiniteSet(OwnedIndexes) /\ Cardinality(OwnedIndexes) \in Nat /\ k + 1 \notin OwnedIndexes
    BY OwnedFinite DEF CadenceInv, k
  <2>1. CASE live = 0
    <3>1. Cardinality(OwnedIndexes) <= round - 1
      BY <2>1 DEF CadenceInv, IndexesKept
    <3>2. /\ IsFiniteSet(OwnedIndexes \union {k + 1})
          /\ Cardinality(OwnedIndexes \union {k + 1}) = Cardinality(OwnedIndexes) + 1
      BY <2>0, FS_AddElement
    <3>3. Cardinality(owned) <= Cardinality(OwnedIndexes \union {k + 1}) /\ IsFiniteSet(owned)
      BY <1>4, <3>2, FS_Subset
    <3> QED BY <1>5, <2>0, <3>1, <3>2, <3>3, FS_CardinalityType
  <2>2. CASE live # 0
    <3>1. live \in OwnedIndexes /\ Cardinality(OwnedIndexes) <= round
      BY <1>0, <1>5, <2>2 DEF CadenceInv, IndexesKept
    <3>2. \A n \in domain.collected : n.what # live
      BY <1>0, <2>2 DEF CadenceInv, IndexesKept
    <3>3. \E n \in domain'.collected \ domain.collected : n.what = live
      BY <1>2, <1>3, <2>2, <3>2 DEF Replaced
    <3> DEFINE rest == OwnedIndexes \ {live}
    <3>4. IsFiniteSet(rest) /\ Cardinality(rest) = Cardinality(OwnedIndexes) - 1 /\ k + 1 \notin rest
      BY <2>0, <3>1, FS_RemoveElement
    <3> HIDE DEF rest
    <3>5. /\ IsFiniteSet(rest \union {k + 1})
          /\ Cardinality(rest \union {k + 1}) = Cardinality(rest) + 1
      BY <3>4, FS_AddElement
    <3>6. owned \subseteq rest \union {k + 1}
      BY <1>4, <3>3 DEF rest
    <3>7. Cardinality(owned) <= Cardinality(rest \union {k + 1}) /\ IsFiniteSet(owned)
      BY <3>5, <3>6, FS_Subset
    <3> QED BY <1>5, <2>0, <3>1, <3>4, <3>5, <3>7, FS_CardinalityType
  <2> QED BY <2>1, <2>2
<1>11. IndexesKept'
  <2>1. ~(round' > run'.rounds)
    BY <1>0, <1>5
  <2>2. \A n \in domain'.retired \union domain'.collected : n.what <= Len(buffers') /\ n.what # live'
    BY <1>0, <1>4, <1>5, <1>9
  <2>3. live' \in OwnedIndexes' /\ live' # 0
    BY <1>0, <1>4, <1>5, <1>6
  <2>4. run'.mode = "eager" => Cardinality(OwnedIndexes') <= round' - IF live' = 0 THEN 1 ELSE 0
    BY <1>0, <1>5, <1>6, <1>10, <2>3
  <2> QED BY <1>4, <2>1, <2>2, <2>3, <2>4 DEF IndexesKept
<1> QED BY <1>3, <1>7, <1>8, <1>11 DEF CadenceInv

LEMMA CadenceInitInv == CadenceInit => CadenceInv
<1> SUFFICES ASSUME CadenceInit PROVE CadenceInv
  OBVIOUS
<1>1. /\ run = [mode |-> "none", steps |-> 0, rounds |-> 0]
      /\ turn = 0 /\ round = 1 /\ live = 0 /\ buffers = <<>>
      /\ domain.epoch = 1 /\ domain.syncs = 0 /\ domain.retired = {} /\ domain.collected = {}
      /\ domain.calls = 0 /\ domain.completed.eager = 0 /\ domain.completed.batched = 0
  BY DEF CadenceInit
<1>2. domain \in CadenceDomains
  BY DEF CadenceInit, CadenceDomains
<1>3. CadenceTypes
  BY <1>1, <1>2 DEF CadenceTypes
<1>4. BatchKept(domain)
  <2>1. 0 % EpochBatch = 0
    BY CadenceAssumption
  <2> QED BY <1>1, <2>1 DEF BatchKept
<1>5. ModesKept
  BY <1>1 DEF ModesKept
<1>6. IndexesKept
  <2>1. OwnedIndexes = {}
    BY <1>1 DEF OwnedIndexes
  <2> QED BY <1>1, <2>1 DEF IndexesKept
<1> QED BY <1>3, <1>4, <1>5, <1>6 DEF CadenceInv

LEMMA CadenceStart ==
    ASSUME CadenceInv, NEW mode \in {"batched", "eager", "reclaim"},
           NEW steps \in Nat, NEW rounds \in Nat, rounds >= 1, Start(mode, steps, rounds)
    PROVE  CadenceInv'
<1>0. mode \in {"none", "batched", "eager", "reclaim"} /\ mode # "none"
  OBVIOUS
<1>1. /\ run.mode = "none" /\ run' = [mode |-> mode, steps |-> steps, rounds |-> rounds]
      /\ turn' = turn /\ round' = round /\ live' = live /\ buffers' = buffers /\ domain' = domain
  BY DEF Start
<1>2. /\ run'.mode = mode /\ run'.rounds = rounds
      /\ run' \in [mode : {"none", "batched", "eager", "reclaim"}, steps : Nat, rounds : Nat]
  BY <1>0, <1>1
<1>3. buffers = <<>> /\ live = 0 /\ domain.retired = {} /\ round \in Nat \ {0}
  BY <1>1 DEF CadenceInv, ModesKept, CadenceTypes
<1>4. CadenceTypes'
  BY <1>1, <1>2 DEF CadenceInv, CadenceTypes
<1>5. BatchKept(domain')
  BY <1>1 DEF CadenceInv
<1>6. ModesKept'
  BY <1>0, <1>1, <1>2, <1>3 DEF ModesKept
<1>7. IndexesKept'
  <2>1. OwnedIndexes' = {}
    BY <1>1, <1>3 DEF OwnedIndexes
  <2>2. Cardinality(OwnedIndexes') <= round' - IF live' = 0 THEN 1 ELSE 0
    BY <1>1, <1>3, <2>1, FS_EmptySet
  <2> QED BY <1>1, <1>3, <2>1, <2>2 DEF CadenceInv, IndexesKept
<1> QED BY <1>4, <1>5, <1>6, <1>7 DEF CadenceInv

\* The next round keeps what the last index owns, and one more may.
LEMMA CadenceRound ==
    ASSUME CadenceInv, NextRound
    PROVE  CadenceInv'
<1>1. /\ run.mode \in {"batched", "eager"} /\ round < run.rounds /\ run' = run
      /\ round' = round + 1 /\ turn' = 0 /\ live' = 0 /\ buffers' = buffers /\ domain' = domain
  BY DEF NextRound
<1>2. round \in Nat \ {0} /\ run.rounds \in Nat
  BY DEF CadenceInv, CadenceTypes
<1>3. CadenceTypes'
  BY <1>1, <1>2 DEF CadenceInv, CadenceTypes
<1>4. BatchKept(domain') /\ ModesKept'
  BY <1>1 DEF CadenceInv, ModesKept
<1>5. IndexesKept'
  <2>1. OwnedIndexes' = OwnedIndexes
    BY <1>1 DEF OwnedIndexes
  <2>2. run.mode = "eager" => Cardinality(OwnedIndexes') <= round' - IF live' = 0 THEN 1 ELSE 0
    <3> SUFFICES ASSUME run.mode = "eager"
                 PROVE  Cardinality(OwnedIndexes) <= round
      BY <1>1, <1>2, <2>1
    <3>1. Cardinality(OwnedIndexes) \in Nat
      BY OwnedFinite DEF CadenceInv
    <3>2. Cardinality(OwnedIndexes) <= round - IF live = 0 THEN 1 ELSE 0
      BY DEF CadenceInv, IndexesKept
    <3> QED BY <1>2, <3>1, <3>2
  <2>3. ~(round' > run'.rounds)
    BY <1>1, <1>2
  <2> QED BY <1>1, <2>1, <2>2, <2>3 DEF CadenceInv, IndexesKept
<1> QED BY <1>3, <1>4, <1>5 DEF CadenceInv

\* The end of the process frees what is still owned, and nothing else.
LEMMA CadenceFree ==
    ASSUME CadenceInv, FreeAll
    PROVE  CadenceInv'
<1> DEFINE k == Len(buffers)
<1>1. /\ run.mode \in {"batched", "eager"} /\ round = run.rounds /\ run' = run
      /\ round' = round + 1 /\ turn' = turn /\ live' = live /\ domain' = domain
      /\ buffers' = [i \in DOMAIN buffers |-> destroyed(buffers[i])]
  BY DEF FreeAll
<1>2. /\ round \in Nat \ {0} /\ run.rounds \in Nat /\ k \in Nat
      /\ buffers \in Seq(IndexBuffers) /\ DOMAIN buffers = 1..k
  BY DEF CadenceInv, CadenceTypes
<1>3. \A i \in 1..k : buffers[i] \in IndexBuffers /\ buffers[i].freed = IF buffers[i].owned THEN 0 ELSE 1
  BY <1>2 DEF CadenceInv, IndexesKept
<1> HIDE DEF k
<1>4. \A i \in 1..k : /\ buffers'[i] \in IndexBuffers
                      /\ buffers'[i].owned = FALSE /\ buffers'[i].freed = 1
  <2> SUFFICES ASSUME NEW i \in 1..k
               PROVE  /\ buffers'[i] \in IndexBuffers
                      /\ buffers'[i].owned = FALSE /\ buffers'[i].freed = 1
    OBVIOUS
  <2>0. i \in DOMAIN buffers
    BY <1>2
  <2>1. buffers'[i] = destroyed(buffers[i])
    BY <1>1, <2>0
  <2>2. /\ destroyed(buffers[i]) \in IndexBuffers
        /\ destroyed(buffers[i]).owned = FALSE /\ destroyed(buffers[i]).freed = 1
    BY <1>3, DestroyedOnce
  <2> QED BY <2>1, <2>2
<1>5. buffers' \in Seq(IndexBuffers) /\ Len(buffers') = k /\ DOMAIN buffers' = 1..k
  <2>1. buffers' \in [1..k -> IndexBuffers]
    BY <1>1, <1>2, <1>4
  <2> QED BY <1>2, <2>1, FunctionIsSeq
<1>6. CadenceTypes'
  BY <1>1, <1>2, <1>5 DEF CadenceInv, CadenceTypes, k
<1>7. BatchKept(domain') /\ ModesKept'
  BY <1>1 DEF CadenceInv, ModesKept
<1>8. IndexesKept'
  <2>1. OwnedIndexes' = {}
    BY <1>4, <1>5 DEF OwnedIndexes
  <2>2. Cardinality(OwnedIndexes') <= round' - IF live' = 0 THEN 1 ELSE 0
    BY <1>1, <1>2, <2>1, FS_EmptySet
  <2>3. \A n \in domain'.retired \union domain'.collected : n.what <= Len(buffers')
    BY <1>1, <1>5 DEF CadenceInv, IndexesKept, k
  <2>4. ~(round' <= run'.rounds)
    BY <1>1, <1>2
  <2>5. \A i \in DOMAIN buffers' : buffers'[i].freed = IF buffers'[i].owned THEN 0 ELSE 1
    BY <1>4, <1>5
  <2> QED BY <2>1, <2>2, <2>3, <2>4, <2>5 DEF IndexesKept
<1> QED BY <1>6, <1>7, <1>8 DEF CadenceInv

\* The loops of reclaim_cadence(): try_collect() comes when nothing is left for it.
LEMMA CadenceReclaim ==
    ASSUME CadenceInv, ReclaimStep
    PROVE  CadenceInv'
<1> DEFINE n == [what |-> TOKEN, cls |-> "batched", epoch |-> domain.epoch, at |-> domain.calls]
           d == retire(domain, TOKEN, "batched")
           e == synchronize_impl(d, FALSE)
<1>1. /\ run.mode = "reclaim" /\ round <= run.rounds /\ run' = run
      /\ domain' = IF round = 2 THEN try_collect(e) ELSE e
      /\ live' = live /\ buffers' = buffers
  BY DEF ReclaimStep
<1>2. turn' \in Nat /\ round' \in Nat \ {0}
  BY DEF ReclaimStep, CadenceInv, CadenceTypes
<1>3. domain \in CadenceDomains /\ BatchKept(domain) /\ TOKEN \in Nat
  BY DEF CadenceInv, CadenceTypes, TOKEN
<1>4. d \in CadenceDomains /\ d.retired = domain.retired \union {n} /\ d.collected = domain.collected
      /\ d.epoch = domain.epoch
  BY <1>3, RetireEffect
<1>5. BatchKept(d)
  BY <1>3, RetireKeeps
<1>6. n.what = 0 /\ n.cls = "batched" /\ n.epoch = domain.epoch
  BY DEF TOKEN
<1> HIDE DEF d, n
<1>7. \A m \in d.retired : m.cls = "batched" /\ m.epoch = d.epoch
  BY <1>1, <1>4, <1>6 DEF CadenceInv, ModesKept
<1>8. /\ e \in CadenceDomains /\ BatchKept(e)
      /\ e.retired \union e.collected = d.retired \union d.collected
      /\ \A m \in e.retired : m.cls = "batched" /\ m.epoch = e.epoch
  BY <1>4, <1>5, <1>7, Synced
<1> HIDE DEF e
<1>9. /\ domain' \in CadenceDomains /\ BatchKept(domain')
      /\ domain'.retired \union domain'.collected = e.retired \union e.collected
      /\ \A m \in domain'.retired : m.cls = "batched" /\ m.epoch = domain'.epoch
  <2>1. CASE round # 2
    BY <1>1, <1>8, <2>1
  <2>2. CASE round = 2
    <3>1. LET f == try_collect(e)
          IN /\ f \in CadenceDomains /\ BatchKept(f)
             /\ f.retired = e.retired /\ f.collected = e.collected /\ f.epoch = e.epoch
      BY <1>8, TryCollectIdle
    <3> QED BY <1>1, <1>8, <2>2, <3>1
  <2> QED BY <2>1, <2>2
<1>10. buffers = <<>> /\ live = 0
  BY <1>1 DEF CadenceInv, ModesKept
<1>11. CadenceTypes'
  BY <1>1, <1>2, <1>9 DEF CadenceInv, CadenceTypes
<1>12. ModesKept'
  BY <1>1, <1>9, <1>10 DEF ModesKept
<1>13. IndexesKept'
  <2>1. OwnedIndexes' = {}
    BY <1>1, <1>10 DEF OwnedIndexes
  <2>2. \A m \in domain'.retired \union domain'.collected : m.what <= Len(buffers')
    <3>1. \A m \in domain'.retired \union domain'.collected :
              m \in domain.retired \union domain.collected \/ m = n
      BY <1>4, <1>8, <1>9
    <3> QED BY <1>1, <1>6, <1>10, <3>1 DEF CadenceInv, IndexesKept
  <2> QED BY <1>1, <1>10, <2>1, <2>2 DEF IndexesKept
<1> QED BY <1>9, <1>11, <1>12, <1>13 DEF CadenceInv

LEMMA CadenceInductive ==
    ASSUME CadenceInv, [CadenceNext]_cadenceVars
    PROVE  CadenceInv'
<1>1. ASSUME NEW mode \in {"batched", "eager", "reclaim"}, NEW steps \in 1..MaxSteps,
             NEW rounds \in 1..MaxRounds, Start(mode, steps, rounds)
      PROVE  CadenceInv'
  <2>1. steps \in Nat /\ rounds \in Nat /\ rounds >= 1
    OBVIOUS
  <2> QED BY <1>1, <2>1, CadenceStart
<1>2. CASE UNCHANGED cadenceVars
  BY <1>2 DEF cadenceVars, CadenceInv, CadenceTypes, ModesKept, IndexesKept, OwnedIndexes
<1> QED BY <1>1, <1>2, CadenceReload, CadenceRound, CadenceFree, CadenceReclaim DEF CadenceNext

\* The invariant says where each node is by the call that retired it.
LEMMA CadenceInvKept == CadenceInv => CadenceKept
<1> SUFFICES ASSUME CadenceInv PROVE CadenceKept
  OBVIOUS
<1> DEFINE batch == domain.calls \div EpochBatch
<1>1. domain.calls \in Nat /\ batch \in Nat
  <2>1. domain \in CadenceDomains
    BY DEF CadenceInv, CadenceTypes
  <2>2. domain.calls \in Nat
    BY <2>1, DomainFields
  <2> QED BY <2>2, CadenceAssumption
<1> HIDE DEF batch
<1>2. DeferralIsOneBatch
  <2>1. \A n \in domain.retired : n.cls = "batched" => n.at \div EpochBatch = batch
    BY DEF CadenceInv, BatchKept, batch
  <2>2. \A n \in domain.collected : n.cls = "batched" => n.at \div EpochBatch < batch
    BY DEF CadenceInv, BatchKept, batch
  <2>3. \A n \in domain.collected : n.cls = "batched" => n.at \div EpochBatch # batch
    <3>1. \A n \in domain.collected : n.at \div EpochBatch \in Int
      <4>1. \A n \in domain.collected : n.at \in Nat
        BY DomainFields DEF CadenceInv, CadenceTypes, RetiredNodes
      <4> QED BY <4>1, CadenceAssumption
    <3> QED BY <1>1, <2>2, <3>1
  <2> QED BY <2>1, <2>3 DEF DeferralIsOneBatch, batch
<1>3. EagerIndexReturns
  <2>1. run.mode = "eager" => Cardinality(OwnedIndexes) <= round
    <3>1. run.mode = "eager" => Cardinality(OwnedIndexes) <= round - IF live = 0 THEN 1 ELSE 0
      BY DEF CadenceInv, IndexesKept
    <3>2. round \in Nat \ {0}
      BY DEF CadenceInv, CadenceTypes
    <3>3. Cardinality(OwnedIndexes) \in Nat
      BY OwnedFinite DEF CadenceInv
    <3> QED BY <3>1, <3>2, <3>3
  <2> QED BY <2>1 DEF EagerIndexReturns, OwnedIndexes, CadenceInv, ModesKept
<1>4. BuffersFreedOnce
  BY DEF BuffersFreedOnce, CadenceInv, IndexesKept, OwnedIndexes
<1> QED BY <1>2, <1>3, <1>4 DEF CadenceKept

\* A retired image waits for the synchronize() that completes its batch, whatever the eager
\* advances and try_collect() do meanwhile; in the eager variant a replaced index returns
\* with the reload that replaces it; and no buffer is freed twice.
THEOREM CadenceIsKept == CadenceSpec => []CadenceKept
<1>1. CadenceInit => CadenceInv
  BY CadenceInitInv
<1>2. CadenceInv /\ [CadenceNext]_cadenceVars => CadenceInv'
  BY CadenceInductive
<1>3. CadenceInv => CadenceKept
  BY CadenceInvKept
<1> QED BY <1>1, <1>2, <1>3, PTL DEF CadenceSpec
-----------------------------------------------------------------------------
(***************************************************************************)
(* The three layouts of the index that are compared (BenchIndex).          *)
(***************************************************************************)
\* A probe stays inside the array.
LEMMA PositionInside ==
    ASSUME NEW n \in Nat \ {0}, NEW h \in Nat, NEW d \in Nat
    PROVE  Position(n, h, d) \in 1..n
<1>1. h + d \in Nat
  OBVIOUS
<1>2. (h + d) % n \in 0..(n - 1)
  BY <1>1, Division
<1> QED BY <1>2 DEF Position

\* A probe that has a slot to stop at stops at the first it comes to.
LEMMA ProbeStops ==
    ASSUME NEW n \in Nat \ {0}, NEW h \in Nat, NEW stops, NEW q \in 1..n, q \in stops
    PROVE  LET d == Steps(n, h, stops)
           IN  /\ d \in 0..(n - 1) /\ Position(n, h, d) \in stops
               /\ \A e \in 0..(d - 1) : Position(n, h, e) \notin stops
<1> DEFINE F == {d \in 0..n : Position(n, h, d) \in stops}
           Q(d) == /\ d = n \/ Position(n, h, d) \in stops
                   /\ \A e \in 0..(d - 1) : Position(n, h, e) \notin stops
<1>1. PICK c \in 0..(n - 1) : (h + c) % n = q - 1
  <2>1. q - 1 \in 0..(n - 1)
    OBVIOUS
  <2> QED BY <2>1, ProbeComesPast
<1>2. c \in F
  <2>1. Position(n, h, c) = q
    BY <1>1 DEF Position
  <2> QED BY <2>1
<1>3. PICK d \in F : \A e \in F : d <= e
  <2>1. F \subseteq Nat
    OBVIOUS
  <2> HIDE DEF F
  <2> QED BY <1>2, <2>1, LeastElement
<1>4. d \in 0..n /\ Q(d)
  <2>1. \A e \in 0..(d - 1) : e \in 0..n /\ ~(d <= e)
    BY <1>3
  <2> QED BY <1>3, <2>1
<1>5. PICK g \in 0..n : Q(g) /\ g = Steps(n, h, stops)
  <2>1. Steps(n, h, stops) = CHOOSE x \in 0..n : Q(x)
    BY DEF Steps
  <2> HIDE DEF Q
  <2> QED BY <1>4, <2>1
<1>6. g # n
  <2>1. SUFFICES ASSUME g = n
                 PROVE  FALSE
    OBVIOUS
  <2>2. c \in 0..(g - 1) /\ Position(n, h, c) \in stops
    BY <1>1, <1>2, <2>1
  <2> QED BY <1>5, <2>2
<1> QED BY <1>5, <1>6

\* What one insertion does to an array whose free slots are those of a set.
Put(n, a, h, free, item) == [a EXCEPT ![Position(n, h, Steps(n, h, {p \in 1..n : a[p] \in free}))] = item]

\* The arrays that l insertions one after another produce.
FillingOf(u, n, S, a, l, hash, item, free) ==
    /\ u \in [0..l -> [1..n -> S]] /\ u[0] = a
    /\ \A i \in 1..l : u[i] = Put(n, u[i - 1], hash[i], free, item[i])

\* build() computes something for every table.
LEMMA FillingLoop ==
    ASSUME NEW n \in Nat \ {0}, NEW S, NEW a \in [1..n -> S], NEW l \in Nat,
           NEW hash, NEW item \in [1..l -> S], NEW free
    PROVE  \E u : FillingOf(u, n, S, a, l, hash, item, free)
<1> DEFINE A == [1..n -> S]
           step == [q \in A \X (1..l) |-> Put(n, q[1], hash[q[2]], free, item[q[2]])]
<1>1. step \in [A \X (1..l) -> A]
  <2>1. \A b \in A, i \in 1..l : Put(n, b, hash[i], free, item[i]) \in A
    BY DEF Put
  <2> HIDE DEF A
  <2> QED BY <2>1
<1>2. \A b \in A, i \in 1..l : step[<<b, i>>] = Put(n, b, hash[i], free, item[i])
  <2> HIDE DEF A
  <2> QED OBVIOUS
<1> HIDE DEF step
<1>3. PICK u : Loop(u, A, a, l, step)
  BY <1>1, LoopExists
<1>4. \A i \in 1..l : u[i] = Put(n, u[i - 1], hash[i], free, item[i])
  <2>1. \A i \in 1..l : i - 1 \in 0..l
    OBVIOUS
  <2> HIDE DEF A
  <2> QED BY <1>2, <1>3, <2>1 DEF Loop
<1> QED BY <1>3, <1>4 DEF Loop, FillingOf

\* Two loops that start and go on alike end alike.
LEMMA SameLoop ==
    ASSUME NEW l \in Nat, NEW u, NEW f, u[0] = f[0],
           \A i \in 1..l : u[i - 1] = f[i - 1] => u[i] = f[i]
    PROVE  u[l] = f[l]
<1> DEFINE P == {k \in Nat : k <= l => u[k] = f[k]}
<1>1. ASSUME NEW k \in Nat, k \in P
      PROVE  k + 1 \in P
  <2>1. SUFFICES ASSUME k + 1 <= l
                 PROVE  u[k + 1] = f[k + 1]
    OBVIOUS
  <2>2. PICK i \in 1..l : i = k + 1 /\ i - 1 = k
    BY <2>1
  <2> QED BY <1>1, <2>1, <2>2
<1>2. 0 \in P
  OBVIOUS
<1>3. Nat \subseteq P
  <2> HIDE DEF P
  <2> QED BY <1>1, <1>2, NumbersByInduction
<1> QED BY <1>3

\* A table the three indexes are built for.
Fitting(t, l) == l \in Nat /\ Len(t) = l /\ \A i \in 1..l : BenchHash[t[i]] \in Nat

\* One insertion into each layout.
BasePut(n, a, h, i) ==
    [a EXCEPT ![Position(n, h, Steps(n, h, {p \in 1..n : a[p].index = -1}))]
        = [hash |-> h, index |-> i - 1]]
ZeroPut(n, a, h, i) ==
    [a EXCEPT ![Position(n, h, Steps(n, h, {p \in 1..n : a[p].index_plus1 = 0}))]
        = [hash |-> h, index_plus1 |-> i]]
GenPut(n, a, now, h, i) ==
    [a EXCEPT ![Position(n, h, Steps(n, h, {p \in 1..n : a[p].gen # now}))]
        = [hash |-> h, index |-> i - 1, gen |-> now]]

BaseRun(u, n, a, t, l) ==
    /\ u \in [0..l -> [1..n -> BaseSlots]] /\ u[0] = a
    /\ \A i \in 1..l : u[i] = BasePut(n, u[i - 1], BenchHash[t[i]], i)
    /\ BaseFilled(a, t) = u[l]

\* build() of the base layout is a loop of such insertions.
LEMMA BaseLoop ==
    ASSUME NEW n \in Nat \ {0}, NEW a \in [1..n -> BaseSlots], NEW t, NEW l, Fitting(t, l)
    PROVE  \E u : BaseRun(u, n, a, t, l)
<1> DEFINE hash == [i \in 1..l |-> BenchHash[t[i]]]
           item == [i \in 1..l |-> [hash |-> hash[i], index |-> i - 1]]
           free == {s \in BaseSlots : s.index = -1}
           Next(g, i) == LET h == BenchHash[t[i]]
                             d == Steps(n, h, {p \in 1..n : BaseFree(g[i - 1][p])})
                         IN [g[i - 1] EXCEPT ![Position(n, h, d)] = BaseSlot(h, i)]
           Rec(g) == g = [i \in 0..l |-> IF i = 0 THEN a ELSE Next(g, i)]
<1>1. l \in Nat /\ Len(t) = l /\ Len(a) = n
  BY FunctionIsSeq DEF Fitting
<1>2. item \in [1..l -> BaseSlots]
  BY <1>1 DEF Fitting, BaseSlots
<1>3. PICK f \in [0..l -> [1..n -> BaseSlots]] :
        f[0] = a /\ \A i \in 1..l : f[i] = Put(n, f[i - 1], hash[i], free, item[i])
  <2> HIDE DEF item, free, hash
  <2>1. l \in Nat
    BY <1>1
  <2>2. \E f : FillingOf(f, n, BaseSlots, a, l, hash, item, free)
    BY ONLY n \in Nat \ {0}, a \in [1..n -> BaseSlots], <2>1, <1>2, FillingLoop
  <2> QED BY <2>2 DEF FillingOf
<1>4. ASSUME NEW g \in [0..l -> [1..n -> BaseSlots]], NEW i \in 1..l
      PROVE  /\ Put(n, g[i - 1], hash[i], free, item[i]) = BasePut(n, g[i - 1], BenchHash[t[i]], i)
             /\ Next(g, i) = BasePut(n, g[i - 1], BenchHash[t[i]], i)
  <2>1. PICK b \in [1..n -> BaseSlots] : b = g[i - 1]
    <3>1. i - 1 \in 0..l
      BY <1>1
    <3> QED BY <3>1
  <2>2. \A p \in 1..n : b[p] \in BaseSlots
    OBVIOUS
  <2>3. {p \in 1..n : b[p] \in free} = {p \in 1..n : b[p].index = -1}
    BY <2>2
  <2>4. {p \in 1..n : BaseFree(b[p])} = {p \in 1..n : b[p].index = -1}
    BY DEF BaseFree, EMPTY
  <2> HIDE DEF free
  <2> QED BY <2>1, <2>3, <2>4 DEF Put, BasePut, BaseSlot
<1>5. \A i \in 1..l : i \in 0..l /\ i # 0
  BY <1>1
<1>6. Rec(f)
  <2>1. \A i \in 1..l : f[i] = Next(f, i)
    <3> HIDE DEF Next, item, free, hash
    <3> QED BY <1>3, <1>4
  <2>2. \A i \in 0..l : i # 0 => i \in 1..l
    BY <1>1
  <2> HIDE DEF Next
  <2> QED BY <1>3, <2>1, <2>2
<1> DEFINE u == CHOOSE g : Rec(g)
<1>7. Rec(u)
  BY <1>6
<1>8. BaseFilled(a, t) = u[l]
  BY <1>1 DEF BaseFilled, Inserted
<1>9. u[0] = a /\ \A i \in 1..l : u[i] = Next(u, i)
  <2>1. 0 \in 0..l
    BY <1>1
  <2> HIDE DEF u, Next
  <2> QED BY <1>5, <1>7, <2>1
<1>10. u[l] = f[l]
  <2>1. ASSUME NEW i \in 1..l, u[i - 1] = f[i - 1]
        PROVE  u[i] = f[i]
    <3>1. Next(u, i) = Next(f, i)
      BY <2>1
    <3>2. f[i] = Next(f, i)
      <4> HIDE DEF Next, item, free, hash
      <4> QED BY <1>3, <1>4
    <3> HIDE DEF u, Next
    <3> QED BY <1>9, <3>1, <3>2
  <2>2. u[0] = f[0]
    BY <1>3, <1>9
  <2> HIDE DEF u
  <2> QED BY <1>1, <2>1, <2>2, SameLoop
<1>11. \A i \in 1..l : f[i] = BasePut(n, f[i - 1], BenchHash[t[i]], i)
  <2> HIDE DEF Next, item, free, hash
  <2> QED BY <1>3, <1>4
<1> HIDE DEF u, Rec, Next, item, free, hash
<1> QED BY <1>3, <1>8, <1>10, <1>11 DEF BaseRun

ZeroRun(u, n, a, t, l) ==
    /\ u \in [0..l -> [1..n -> ZeroSlots]] /\ u[0] = a
    /\ \A i \in 1..l : u[i] = ZeroPut(n, u[i - 1], BenchHash[t[i]], i)
    /\ ZeroFilled(a, t) = u[l]

\* build() of the zero layout, likewise.
LEMMA ZeroLoop ==
    ASSUME NEW n \in Nat \ {0}, NEW a \in [1..n -> ZeroSlots], NEW t, NEW l, Fitting(t, l)
    PROVE  \E u : ZeroRun(u, n, a, t, l)
<1> DEFINE hash == [i \in 1..l |-> BenchHash[t[i]]]
           item == [i \in 1..l |-> [hash |-> hash[i], index_plus1 |-> i]]
           free == {s \in ZeroSlots : s.index_plus1 = 0}
           Next(g, i) == LET h == BenchHash[t[i]]
                             d == Steps(n, h, {p \in 1..n : ZeroFree(g[i - 1][p])})
                         IN [g[i - 1] EXCEPT ![Position(n, h, d)] = ZeroSlot(h, i)]
           Rec(g) == g = [i \in 0..l |-> IF i = 0 THEN a ELSE Next(g, i)]
<1>1. l \in Nat /\ Len(t) = l /\ Len(a) = n
  BY FunctionIsSeq DEF Fitting
<1>2. item \in [1..l -> ZeroSlots]
  BY <1>1 DEF Fitting, ZeroSlots
<1>3. PICK f \in [0..l -> [1..n -> ZeroSlots]] :
        f[0] = a /\ \A i \in 1..l : f[i] = Put(n, f[i - 1], hash[i], free, item[i])
  <2> HIDE DEF item, free, hash
  <2>1. l \in Nat
    BY <1>1
  <2>2. \E f : FillingOf(f, n, ZeroSlots, a, l, hash, item, free)
    BY ONLY n \in Nat \ {0}, a \in [1..n -> ZeroSlots], <2>1, <1>2, FillingLoop
  <2> QED BY <2>2 DEF FillingOf
<1>4. ASSUME NEW g \in [0..l -> [1..n -> ZeroSlots]], NEW i \in 1..l
      PROVE  /\ Put(n, g[i - 1], hash[i], free, item[i]) = ZeroPut(n, g[i - 1], BenchHash[t[i]], i)
             /\ Next(g, i) = ZeroPut(n, g[i - 1], BenchHash[t[i]], i)
  <2>1. PICK b \in [1..n -> ZeroSlots] : b = g[i - 1]
    <3>1. i - 1 \in 0..l
      BY <1>1
    <3> QED BY <3>1
  <2>2. \A p \in 1..n : b[p] \in ZeroSlots
    OBVIOUS
  <2>3. {p \in 1..n : b[p] \in free} = {p \in 1..n : b[p].index_plus1 = 0}
    BY <2>2
  <2>4. {p \in 1..n : ZeroFree(b[p])} = {p \in 1..n : b[p].index_plus1 = 0}
    BY DEF ZeroFree
  <2> HIDE DEF free
  <2> QED BY <2>1, <2>3, <2>4 DEF Put, ZeroPut, ZeroSlot
<1>5. \A i \in 1..l : i \in 0..l /\ i # 0
  BY <1>1
<1>6. Rec(f)
  <2>1. \A i \in 1..l : f[i] = Next(f, i)
    <3> HIDE DEF Next, item, free, hash
    <3> QED BY <1>3, <1>4
  <2>2. \A i \in 0..l : i # 0 => i \in 1..l
    BY <1>1
  <2> HIDE DEF Next
  <2> QED BY <1>3, <2>1, <2>2
<1> DEFINE u == CHOOSE g : Rec(g)
<1>7. Rec(u)
  BY <1>6
<1>8. ZeroFilled(a, t) = u[l]
  BY <1>1 DEF ZeroFilled, Inserted
<1>9. u[0] = a /\ \A i \in 1..l : u[i] = Next(u, i)
  <2>1. 0 \in 0..l
    BY <1>1
  <2> HIDE DEF u, Next
  <2> QED BY <1>5, <1>7, <2>1
<1>10. u[l] = f[l]
  <2>1. ASSUME NEW i \in 1..l, u[i - 1] = f[i - 1]
        PROVE  u[i] = f[i]
    <3>1. Next(u, i) = Next(f, i)
      BY <2>1
    <3>2. f[i] = Next(f, i)
      <4> HIDE DEF Next, item, free, hash
      <4> QED BY <1>3, <1>4
    <3> HIDE DEF u, Next
    <3> QED BY <1>9, <3>1, <3>2
  <2>2. u[0] = f[0]
    BY <1>3, <1>9
  <2> HIDE DEF u
  <2> QED BY <1>1, <2>1, <2>2, SameLoop
<1>11. \A i \in 1..l : f[i] = ZeroPut(n, f[i - 1], BenchHash[t[i]], i)
  <2> HIDE DEF Next, item, free, hash
  <2> QED BY <1>3, <1>4
<1> HIDE DEF u, Rec, Next, item, free, hash
<1> QED BY <1>3, <1>8, <1>10, <1>11 DEF ZeroRun

GenRun(u, n, a, now, t, l) ==
    /\ u \in [0..l -> [1..n -> GenSlots]] /\ u[0] = a
    /\ \A i \in 1..l : u[i] = GenPut(n, u[i - 1], now, BenchHash[t[i]], i)
    /\ GenFilled(a, now, t) = u[l]

\* build() of the generation layout, likewise.
LEMMA GenLoop ==
    ASSUME NEW n \in Nat \ {0}, NEW a \in [1..n -> GenSlots], NEW now \in Nat,
           NEW t, NEW l, Fitting(t, l)
    PROVE  \E u : GenRun(u, n, a, now, t, l)
<1> DEFINE hash == [i \in 1..l |-> BenchHash[t[i]]]
           item == [i \in 1..l |-> [hash |-> hash[i], index |-> i - 1, gen |-> now]]
           free == {s \in GenSlots : s.gen # now}
           Next(g, i) == LET h == BenchHash[t[i]]
                             d == Steps(n, h, {p \in 1..n : g[i - 1][p].gen # now})
                         IN [g[i - 1] EXCEPT ![Position(n, h, d)] = [hash |-> h, index |-> i - 1, gen |-> now]]
           Rec(g) == g = [i \in 0..l |-> IF i = 0 THEN a ELSE Next(g, i)]
<1>1. l \in Nat /\ Len(t) = l /\ Len(a) = n
  BY FunctionIsSeq DEF Fitting
<1>2. item \in [1..l -> GenSlots]
  BY <1>1 DEF Fitting, GenSlots
<1>3. PICK f \in [0..l -> [1..n -> GenSlots]] :
        f[0] = a /\ \A i \in 1..l : f[i] = Put(n, f[i - 1], hash[i], free, item[i])
  <2> HIDE DEF item, free, hash
  <2>1. l \in Nat
    BY <1>1
  <2>2. \E f : FillingOf(f, n, GenSlots, a, l, hash, item, free)
    BY ONLY n \in Nat \ {0}, a \in [1..n -> GenSlots], <2>1, <1>2, FillingLoop
  <2> QED BY <2>2 DEF FillingOf
<1>4. ASSUME NEW g \in [0..l -> [1..n -> GenSlots]], NEW i \in 1..l
      PROVE  /\ Put(n, g[i - 1], hash[i], free, item[i]) = GenPut(n, g[i - 1], now, BenchHash[t[i]], i)
             /\ Next(g, i) = GenPut(n, g[i - 1], now, BenchHash[t[i]], i)
  <2>1. PICK b \in [1..n -> GenSlots] : b = g[i - 1]
    <3>1. i - 1 \in 0..l
      BY <1>1
    <3> QED BY <3>1
  <2>2. \A p \in 1..n : b[p] \in GenSlots
    OBVIOUS
  <2>3. {p \in 1..n : b[p] \in free} = {p \in 1..n : b[p].gen # now}
    BY <2>2
  <2> HIDE DEF free
  <2> QED BY <2>1, <2>3 DEF Put, GenPut
<1>5. \A i \in 1..l : i \in 0..l /\ i # 0
  BY <1>1
<1>6. Rec(f)
  <2>1. \A i \in 1..l : f[i] = Next(f, i)
    <3> HIDE DEF Next, item, free, hash
    <3> QED BY <1>3, <1>4
  <2>2. \A i \in 0..l : i # 0 => i \in 1..l
    BY <1>1
  <2> HIDE DEF Next
  <2> QED BY <1>3, <2>1, <2>2
<1> DEFINE u == CHOOSE g : Rec(g)
<1>7. Rec(u)
  BY <1>6
<1>8. GenFilled(a, now, t) = u[l]
  BY <1>1 DEF GenFilled, Inserted
<1>9. u[0] = a /\ \A i \in 1..l : u[i] = Next(u, i)
  <2>1. 0 \in 0..l
    BY <1>1
  <2> HIDE DEF u, Next
  <2> QED BY <1>5, <1>7, <2>1
<1>10. u[l] = f[l]
  <2>1. ASSUME NEW i \in 1..l, u[i - 1] = f[i - 1]
        PROVE  u[i] = f[i]
    <3>1. Next(u, i) = Next(f, i)
      BY <2>1
    <3>2. f[i] = Next(f, i)
      <4> HIDE DEF Next, item, free, hash
      <4> QED BY <1>3, <1>4
    <3> HIDE DEF u, Next
    <3> QED BY <1>9, <3>1, <3>2
  <2>2. u[0] = f[0]
    BY <1>3, <1>9
  <2> HIDE DEF u
  <2> QED BY <1>1, <2>1, <2>2, SameLoop
<1>11. \A i \in 1..l : f[i] = GenPut(n, f[i - 1], now, BenchHash[t[i]], i)
  <2> HIDE DEF Next, item, free, hash
  <2> QED BY <1>3, <1>4
<1> HIDE DEF u, Rec, Next, item, free, hash
<1> QED BY <1>3, <1>8, <1>10, <1>11 DEF GenRun

-----------------------------------------------------------------------------
\* As long as fewer entries than slots are held, a slot is free.
LEMMA BenchSlotFree ==
    ASSUME NEW n \in Nat \ {0}, NEW b, NEW t, NEW k \in Nat, k < n, Holding(n, b, t, k)
    PROVE  \E p \in 1..n : b[p].index = -1
<1> SUFFICES ASSUME \A p \in 1..n : b[p].index # -1
             PROVE  FALSE
  OBVIOUS
<1>1. Occupied(n, b) = 1..n
  BY DEF Occupied
<1>2. Cardinality(1..n) = n
  <2>1. 1 \in Int /\ n \in Int
    OBVIOUS
  <2>2. Cardinality(1..n) = IF 1 > n THEN 0 ELSE n - 1 + 1
    BY <2>1, FS_Interval
  <2> QED BY <2>2
<1> QED BY <1>1, <1>2 DEF Holding

\* Slot q, at distance d from the hash, is the first that is free.
FreeAfter(n, b, h, d, q) ==
    /\ q = Position(n, h, d) /\ b[q].index = -1
    /\ \A e \in 0..(d - 1) : b[Position(n, h, e)].index # -1

\* An entry that is put into the free slot q, at distance d from its hash.
LEMMA HoldingOneMore ==
    ASSUME NEW n \in Nat \ {0}, NEW b \in [1..n -> BaseSlots], NEW t, NEW k \in Nat,
           Holding(n, b, t, k), BenchHash[t[k + 1]] \in Nat,
           \A j \in 1..k : BenchHash[t[j]] \in Nat,
           NEW d \in 0..(n - 1), NEW q \in 1..n, FreeAfter(n, b, BenchHash[t[k + 1]], d, q)
    PROVE  Holding(n, [b EXCEPT ![q] = [hash |-> BenchHash[t[k + 1]], index |-> (k + 1) - 1]], t, k + 1)
<1> DEFINE h == BenchHash[t[k + 1]]
           c == [b EXCEPT ![q] = [hash |-> h, index |-> (k + 1) - 1]]
<1>0. /\ q = Position(n, h, d) /\ b[q].index = -1
      /\ \A e \in 0..(d - 1) : b[Position(n, h, e)].index # -1
  BY DEF FreeAfter
<1>1. c[q].index = k /\ c[q].hash = h /\ \A p \in 1..n : p # q => c[p] = b[p]
  BY DEF BaseSlots
<1> HIDE DEF c
<1>2. Occupied(n, c) = Occupied(n, b) \union {q} /\ q \notin Occupied(n, b)
  BY <1>0, <1>1 DEF Occupied
<1>3. ASSUME NEW p \in Occupied(n, c)
      PROVE  c[p].index + 1 \in 1..(k + 1) /\ c[p].hash = BenchHash[t[c[p].index + 1]]
  <2>1. CASE p = q
    BY <1>1, <2>1
  <2>2. CASE p # q
    <3>1. p \in Occupied(n, b) /\ c[p] = b[p]
      BY <1>1, <1>2, <2>2 DEF Occupied
    <3>2. b[p].index + 1 \in 1..k /\ b[p].hash = BenchHash[t[b[p].index + 1]]
      BY <3>1 DEF Holding
    <3> QED BY <3>1, <3>2
  <2> QED BY <2>1, <2>2
<1>4. ASSUME NEW g \in Nat, NEW e \in Nat, b[Position(n, g, e)].index # -1
      PROVE  c[Position(n, g, e)].index # -1
  <2>1. Position(n, g, e) \in 1..n
    BY PositionInside
  <2> QED BY <1>1, <1>4, <2>1
<1>5. ASSUME NEW j \in 1..(k + 1)
      PROVE  \E e \in 0..(n - 1) : ReachedAt(n, c, BenchHash[t[j]], j, e)
  <2>1. CASE j = k + 1
    <3>1. c[Position(n, h, d)].index = j - 1
      BY <1>0, <1>1, <2>1
    <3>2. \A e \in 0..(d - 1) : c[Position(n, h, e)].index # -1
      <4> HIDE DEF h
      <4>1. \A e \in 0..(d - 1) : e \in Nat
        OBVIOUS
      <4>2. h \in Nat /\ \A e \in 0..(d - 1) : b[Position(n, h, e)].index # -1
        BY <1>0 DEF h
      <4> QED BY <1>4, <4>1, <4>2
    <3> QED BY <2>1, <3>1, <3>2 DEF ReachedAt
  <2>2. CASE j # k + 1
    <3>1. j \in 1..k
      BY <2>2
    <3>2. PICK g \in Nat : g = BenchHash[t[j]]
      BY <3>1
    <3>3. PICK e \in 0..(n - 1) : ReachedAt(n, b, g, j, e)
      BY <3>1, <3>2 DEF Holding
    <3>4. Position(n, g, e) \in 1..n /\ b[Position(n, g, e)].index = j - 1
      <4>1. e \in Nat
        OBVIOUS
      <4>2. Position(n, g, e) \in 1..n
        BY <4>1, PositionInside
      <4> QED BY <3>3, <4>2 DEF ReachedAt
    <3>5. c[Position(n, g, e)].index = j - 1
      <4>1. j - 1 # -1
        BY <3>1
      <4> QED BY <1>0, <1>1, <3>4, <4>1
    <3>6. \A f \in 0..(e - 1) : c[Position(n, g, f)].index # -1
      <4>1. \A f \in 0..(e - 1) : f \in Nat
        OBVIOUS
      <4> QED BY <1>4, <3>3, <4>1 DEF ReachedAt
    <3> QED BY <3>2, <3>5, <3>6 DEF ReachedAt
  <2> QED BY <2>1, <2>2
<1>6. Cardinality(Occupied(n, c)) \in Nat /\ Cardinality(Occupied(n, c)) <= k + 1
  <2>1. IsFiniteSet(Occupied(n, b))
    <3>1. IsFiniteSet(1..n) /\ Occupied(n, b) \subseteq 1..n
      <4>1. 1 \in Int /\ n \in Int
        OBVIOUS
      <4> QED BY <4>1, FS_Interval DEF Occupied
    <3> QED BY <3>1, FS_Subset
  <2>2. Cardinality(Occupied(n, c)) = Cardinality(Occupied(n, b)) + 1
    <3>1. PICK S : S = Occupied(n, b)
      OBVIOUS
    <3>2. Cardinality(S \union {q}) = Cardinality(S) + 1
      BY <1>2, <2>1, <3>1, FS_AddElement
    <3> QED BY <1>2, <3>1, <3>2
  <2>3. PICK m \in Nat : m = Cardinality(Occupied(n, b)) /\ m <= k
    BY DEF Holding
  <2> QED BY <2>2, <2>3
<1>7. Holding(n, c, t, k + 1)
  BY <1>3, <1>5, <1>6 DEF Holding
<1> QED BY <1>7 DEF c

\* The next entry goes to the same slot of the three layouts.
LEMMA PutTogether ==
    ASSUME NEW n \in Nat \ {0}, NEW b \in [1..n -> BaseSlots], NEW z \in [1..n -> ZeroSlots],
           NEW g \in [1..n -> GenSlots], NEW now \in Nat, NEW t, NEW l, Fitting(t, l),
           NEW i \in 1..l, i <= n,
           Matching(n, b, z, g, now), Holding(n, b, t, i - 1)
    PROVE  LET h == BenchHash[t[i]]
           IN  /\ Matching(n, BasePut(n, b, h, i), ZeroPut(n, z, h, i), GenPut(n, g, now, h, i), now)
               /\ Holding(n, BasePut(n, b, h, i), t, i)
<1> DEFINE h == BenchHash[t[i]]
           free == {p \in 1..n : b[p].index = -1}
           d == Steps(n, h, free)
           q == Position(n, h, d)
<1>1. /\ l \in Nat /\ i \in Nat /\ i - 1 \in Nat /\ i - 1 < n /\ (i - 1) + 1 = i
      /\ h \in Nat /\ \A j \in 1..(i - 1) : BenchHash[t[j]] \in Nat
  BY DEF Fitting
<1>2. \A p \in 1..n : b[p].index \in Int /\ z[p].index_plus1 \in Int
  BY DEF BaseSlots, ZeroSlots
<1>3. {p \in 1..n : z[p].index_plus1 = 0} = free
  BY <1>2 DEF Matching
<1>4. {p \in 1..n : g[p].gen # now} = free
  BY DEF Matching
<1>5. /\ d \in 0..(n - 1) /\ q \in free
      /\ \A e \in 0..(d - 1) : Position(n, h, e) \notin free
  <2>1. PICK p \in 1..n : p \in free
    BY <1>1, BenchSlotFree
  <2> HIDE DEF h, free
  <2> QED BY <1>1, <2>1, ProbeStops
<1>6. /\ BasePut(n, b, h, i) = [b EXCEPT ![q] = [hash |-> h, index |-> i - 1]]
      /\ ZeroPut(n, z, h, i) = [z EXCEPT ![q] = [hash |-> h, index_plus1 |-> i]]
      /\ GenPut(n, g, now, h, i) = [g EXCEPT ![q] = [hash |-> h, index |-> i - 1, gen |-> now]]
  BY <1>3, <1>4 DEF BasePut, ZeroPut, GenPut
<1>7. q \in 1..n /\ b[q].index = -1
  BY <1>5
<1>8. Holding(n, [b EXCEPT ![q] = [hash |-> h, index |-> i - 1]], t, i)
  <2>1. \A e \in 0..(d - 1) : b[Position(n, h, e)].index # -1
    <3>1. \A e \in 0..(d - 1) : Position(n, h, e) \in 1..n
      <4>1. \A e \in 0..(d - 1) : e \in Nat
        BY <1>5
      <4> HIDE DEF h, d
      <4> QED BY <1>1, <4>1, PositionInside
    <3> HIDE DEF d, h
    <3> QED BY <1>5, <3>1
  <2>2. PICK k \in Nat : k = i - 1 /\ i = k + 1
    BY <1>1
  <2>3. FreeAfter(n, b, BenchHash[t[k + 1]], d, q)
    BY <1>7, <2>1, <2>2 DEF FreeAfter
  <2>4. /\ Holding(n, b, t, k) /\ BenchHash[t[k + 1]] \in Nat
        /\ \A j \in 1..k : BenchHash[t[j]] \in Nat
    BY <1>1, <2>2
  <2> HIDE DEF q, d, h
  <2>5. Holding(n, [b EXCEPT ![q] = [hash |-> BenchHash[t[k + 1]], index |-> (k + 1) - 1]], t, k + 1)
    BY <1>5, <1>7, <2>3, <2>4, HoldingOneMore
  <2> QED BY <2>2, <2>5 DEF h
<1>9. Matching(n, [b EXCEPT ![q] = [hash |-> h, index |-> i - 1]],
                  [z EXCEPT ![q] = [hash |-> h, index_plus1 |-> i]],
                  [g EXCEPT ![q] = [hash |-> h, index |-> i - 1, gen |-> now]], now)
  <2> HIDE DEF q, h
  <2> QED BY <1>1, <1>7 DEF Matching
<1> QED BY <1>6, <1>8, <1>9

\* The arrays an index of n slots has when now is its stamp.
Layouts(n, b, z, g, now) ==
    /\ b \in [1..n -> BaseSlots] /\ z \in [1..n -> ZeroSlots] /\ g \in [1..n -> GenSlots]
    /\ Matching(n, b, z, g, now)
    /\ \A p \in 1..n : g[p].gen <= now

\* build() of the three layouts.
LEMMA FilledTogether ==
    ASSUME NEW n \in Nat \ {0}, NEW b, NEW z, NEW g, NEW now \in Nat,
           Layouts(n, b, z, g, now), NEW t, NEW l, Fitting(t, l), l < n,
           Holding(n, b, t, 0)
    PROVE  /\ Layouts(n, BaseFilled(b, t), ZeroFilled(z, t), GenFilled(g, now, t), now)
           /\ Holding(n, BaseFilled(b, t), t, l)
<1>1. /\ l \in Nat /\ \A i \in 1..l : BenchHash[t[i]] \in Nat
      /\ b \in [1..n -> BaseSlots] /\ z \in [1..n -> ZeroSlots] /\ g \in [1..n -> GenSlots]
  BY DEF Fitting, Layouts
<1>2. PICK x : BaseRun(x, n, b, t, l)
  BY <1>1, BaseLoop
<1>3. PICK y : ZeroRun(y, n, z, t, l)
  BY <1>1, ZeroLoop
<1>4. PICK w : GenRun(w, n, g, now, t, l)
  BY <1>1, GenLoop
<1>5. /\ x \in [0..l -> [1..n -> BaseSlots]] /\ x[0] = b /\ BaseFilled(b, t) = x[l]
      /\ y \in [0..l -> [1..n -> ZeroSlots]] /\ y[0] = z /\ ZeroFilled(z, t) = y[l]
      /\ w \in [0..l -> [1..n -> GenSlots]] /\ w[0] = g /\ GenFilled(g, now, t) = w[l]
      /\ \A i \in 1..l : /\ x[i] = BasePut(n, x[i - 1], BenchHash[t[i]], i)
                         /\ y[i] = ZeroPut(n, y[i - 1], BenchHash[t[i]], i)
                         /\ w[i] = GenPut(n, w[i - 1], now, BenchHash[t[i]], i)
  BY <1>2, <1>3, <1>4 DEF BaseRun, ZeroRun, GenRun
<1> DEFINE Good(k) == Layouts(n, x[k], y[k], w[k], now) /\ Holding(n, x[k], t, k)
           P == {k \in Nat : k <= l => Good(k)}
<1>6. 0 \in P
  BY <1>5
<1>7. ASSUME NEW k \in Nat, k \in P
      PROVE  k + 1 \in P
  <2>1. SUFFICES ASSUME k + 1 <= l
                 PROVE  Good(k + 1)
    OBVIOUS
  <2>2. PICK i \in 1..l : i = k + 1 /\ i - 1 = k /\ i <= n /\ i \in 0..l /\ k \in 0..l /\ k <= l
    BY <1>1, <2>1
  <2>3. PICK xb \in [1..n -> BaseSlots], yz \in [1..n -> ZeroSlots], wg \in [1..n -> GenSlots] :
          xb = x[k] /\ yz = y[k] /\ wg = w[k]
    BY <1>5, <2>2
  <2>4. Layouts(n, xb, yz, wg, now) /\ Holding(n, xb, t, i - 1)
    BY <1>7, <2>2, <2>3
  <2> DEFINE h == BenchHash[t[i]]
  <2>5. x[i] = BasePut(n, xb, h, i) /\ y[i] = ZeroPut(n, yz, h, i) /\ w[i] = GenPut(n, wg, now, h, i)
    BY <1>5, <2>2, <2>3
  <2>6. /\ Matching(n, BasePut(n, xb, h, i), ZeroPut(n, yz, h, i), GenPut(n, wg, now, h, i), now)
        /\ Holding(n, BasePut(n, xb, h, i), t, i)
    <3>1. Matching(n, xb, yz, wg, now)
      BY <2>4 DEF Layouts
    <3> QED BY <2>2, <2>4, <3>1, PutTogether
  <2>7. x[i] \in [1..n -> BaseSlots] /\ y[i] \in [1..n -> ZeroSlots] /\ w[i] \in [1..n -> GenSlots]
    BY <1>5, <2>2
  <2>8. \A p \in 1..n : w[i][p].gen <= now
    <3>1. \A p \in 1..n : wg[p].gen <= now
      BY <2>4 DEF Layouts
    <3>2. PICK q : GenPut(n, wg, now, h, i) = [wg EXCEPT ![q] = [hash |-> h, index |-> i - 1, gen |-> now]]
      BY DEF GenPut
    <3> QED BY <2>5, <3>1, <3>2
  <2> QED BY <2>2, <2>5, <2>6, <2>7, <2>8 DEF Layouts
<1>8. l \in P
  <2> HIDE DEF P
  <2>1. Nat \subseteq P
    BY <1>6, <1>7, NumbersByInduction
  <2> QED BY <1>1, <2>1
<1> QED BY <1>5, <1>1, <1>8

-----------------------------------------------------------------------------
\* A table fits its capacity, with a slot to spare.
LEMMA BenchTableFits ==
    ASSUME NEW t \in BenchTables
    PROVE  /\ Fitting(t, Len(t)) /\ BenchCapacity(t) \in Nat \ {0} /\ Len(t) < BenchCapacity(t)
           /\ \A j \in 1..Len(t) : t[j] \in DOMAIN BenchHash
<1>1. /\ t \in Seq(DOMAIN BenchHash) /\ 2 * Len(t) <= Pow2[30]
      /\ BenchHash \in [DOMAIN BenchHash -> Nat]
  BY BenchAssumption
<1>2. PICK l \in Nat : l = Len(t)
  BY <1>1, LenProperties
<1>3. 2 * l \in Nat /\ 2 * l <= Pow2[30]
  BY <1>1, <1>2
<1>4. PICK c \in Nat \ {0} : c = next_pow2(2 * l) /\ c >= 2 * l
  BY <1>3, PowerFits
<1>5. l < c
  <2>1. c # 0
    OBVIOUS
  <2> QED BY ONLY <1>4, <2>1, l \in Nat, c \in Nat \ {0}
<1>6. \A j \in 1..l : t[j] \in DOMAIN BenchHash
  BY <1>1, <1>2, ElementOfSeq
<1> QED BY <1>1, <1>2, <1>4, <1>5, <1>6 DEF BenchCapacity, Fitting

\* The stamp that build() fills with is new to the array.
NewStamp(n, g, now) == now \in Nat /\ g \in [1..n -> GenSlots] /\ \A p \in 1..n : g[p].gen < now

\* The stamp is new after a reset, after a wrap, and when it only went on.
LEMMA StampIsNew ==
    ASSUME BenchInv, NEW n \in Nat \ {0}
    PROVE  LET next == IF Len(gen) # n THEN <<StampedSlots(n), 1>> ELSE NextGen(gen)
           IN  NewStamp(n, next[1], next[2])
<1>1. NewStamp(n, StampedSlots(n), 1)
  BY DEF NewStamp, StampedSlots, GenSlots
<1>2. CASE Len(gen) = n
  <2>1. PICK m \in Nat : gen \in [1..m -> GenSlots] /\ \A p \in 1..m : gen[p].gen <= stamp
    <3>1. gen # <<>>
      BY <1>2, EmptySeq
    <3>2. names \in BenchTables
      BY <3>1 DEF BenchInv
    <3>3. BenchCapacity(names) \in Nat
      BY <3>2, BenchTableFits
    <3> QED BY <3>1, <3>3 DEF BenchInv
  <2>2. Len(gen) = m /\ m = n
    BY <1>2, <2>1, FunctionIsSeq
  <2>3. NewStamp(n, gen, stamp + 1)
    <3>1. stamp \in Nat
      BY DEF BenchInv
    <3>2. \A p \in 1..n : gen[p].gen \in Nat /\ gen[p].gen <= stamp
      BY <2>1, <2>2 DEF GenSlots
    <3>3. \A p \in 1..n : gen[p].gen < stamp + 1
      BY <3>1, <3>2
    <3> QED BY <2>1, <2>2, <3>1, <3>3 DEF NewStamp
  <2> QED BY <1>1, <1>2, <2>3 DEF NextGen
<1> QED BY <1>1, <1>2

\* build() of the three layouts, over whatever the generation array holds.
LEMMA BenchBuild ==
    ASSUME BenchInv, NEW table \in BenchTables, BuildIndexes(table)
    PROVE  BenchInv'
<1> DEFINE n == BenchCapacity(table)
           next == IF Len(gen) # n THEN <<StampedSlots(n), 1>> ELSE NextGen(gen)
           b == [k \in 1..n |-> BaseSlot(0, 0)]
           z == [k \in 1..n |-> ZeroSlot(0, 0)]
<1>1. n \in Nat \ {0} /\ Fitting(table, Len(table)) /\ Len(table) < n
  BY BenchTableFits
<1>2. NewStamp(n, next[1], next[2])
  <2> HIDE DEF n
  <2> QED BY <1>1, StampIsNew
<1>3. /\ base' = BaseFilled(b, table) /\ zero' = ZeroFilled(z, table)
      /\ gen' = GenFilled(next[1], next[2], table) /\ stamp' = next[2] /\ names' = table
  BY DEF BuildIndexes
<1>4. PICK now \in Nat : now = next[2]
  BY <1>2 DEF NewStamp
<1> DEFINE g == next[1]
<1> HIDE DEF n, next
<1>5. Layouts(n, b, z, g, now)
  <2>1. b \in [1..n -> BaseSlots] /\ \A p \in 1..n : b[p].index = -1
    BY DEF BaseSlots, BaseSlot
  <2>2. z \in [1..n -> ZeroSlots] /\ \A p \in 1..n : z[p].index_plus1 = 0
    BY DEF ZeroSlots, ZeroSlot
  <2>3. g \in [1..n -> GenSlots] /\ \A p \in 1..n : g[p].gen < now /\ g[p].gen \in Nat
    BY <1>2, <1>4 DEF NewStamp, GenSlots
  <2>4. \A p \in 1..n : g[p].gen <= now /\ g[p].gen # now
    BY <2>3
  <2> HIDE DEF b, z
  <2> QED BY <2>1, <2>2, <2>3, <2>4 DEF Layouts, Matching
<1>6. Holding(n, b, table, 0)
  <2>1. Occupied(n, b) = {}
    BY DEF Occupied, BaseSlot
  <2>2. Cardinality(Occupied(n, b)) = 0
    BY <2>1, FS_EmptySet
  <2> HIDE DEF b
  <2> QED BY <2>1, <2>2 DEF Holding
<1>7. /\ Layouts(n, base', zero', gen', now) /\ Holding(n, base', table, Len(table))
  <2> HIDE DEF b, z
  <2> QED BY <1>1, <1>3, <1>4, <1>5, <1>6, FilledTogether
<1> QED BY <1>3, <1>4, <1>7 DEF BenchInv, Layouts, n

\* Every operation of the three indexes keeps them together.
LEMMA BenchStep == BenchInv /\ [BenchNext]_benchVars => BenchInv'
<1> SUFFICES ASSUME BenchInv, [BenchNext]_benchVars
             PROVE  BenchInv'
  OBVIOUS
<1>1. CASE ClearGen
  BY <1>1 DEF ClearGen, BenchInv
<1>2. ASSUME NEW table \in BenchTables, BuildIndexes(table)
      PROVE  BenchInv'
  BY <1>2, BenchBuild
<1>3. CASE UNCHANGED benchVars
  BY <1>3 DEF benchVars, BenchInv
<1> QED BY <1>1, <1>2, <1>3 DEF BenchNext

\* Where the probe for a name stops, in each of the layouts.
StopsAt(n, b, name) ==
    {p \in 1..n : b[p].index = -1 \/ (b[p].hash = BenchHash[name] /\ names[b[p].index + 1] = name)}

\* The three lookups make the same probe.
LEMMA ProbesAgree ==
    ASSUME NEW n \in Nat \ {0}, Layouts(n, base, zero, gen, stamp), NEW name
    PROVE  LET d == Steps(n, BenchHash[name], StopsAt(n, base, name))
               q == Position(n, BenchHash[name], d)
           IN  q \in 1..n =>
                 /\ LookupBase(name) = <<IF d = n \/ base[q].index = -1 THEN -1 ELSE base[q].index, d + 1>>
                 /\ LookupZero(name) = LookupBase(name)
                 /\ LookupGen(name) = LookupBase(name)
<1> DEFINE h == BenchHash[name]
           S == StopsAt(n, base, name)
           d == Steps(n, h, S)
           q == Position(n, h, d)
<1>1. /\ base \in [1..n -> BaseSlots] /\ zero \in [1..n -> ZeroSlots] /\ gen \in [1..n -> GenSlots]
      /\ Matching(n, base, zero, gen, stamp)
  BY DEF Layouts
<1>2. Len(base) = n /\ Len(zero) = n /\ Len(gen) = n
  BY <1>1, FunctionIsSeq
<1>3. \A p \in 1..n : /\ base[p].index \in Int /\ zero[p].index_plus1 = base[p].index + 1
                      /\ zero[p].index_plus1 - 1 = base[p].index
                      /\ zero[p].index_plus1 = 0 <=> base[p].index = -1
                      /\ gen[p].gen # stamp <=> base[p].index = -1
                      /\ base[p].index # -1 => /\ zero[p].hash = base[p].hash
                                               /\ gen[p].hash = base[p].hash
                                               /\ gen[p].index = base[p].index
  BY <1>1 DEF Matching, BaseSlots
<1>4. S = {p \in 1..n : BaseFree(base[p]) \/ (base[p].hash = h /\ names[base[p].index + 1] = name)}
  BY DEF StopsAt, BaseFree, EMPTY
<1>5. S = {p \in 1..n : ZeroFree(zero[p])
                        \/ (zero[p].hash = h /\ names[(zero[p].index_plus1 - 1) + 1] = name)}
  <2> HIDE DEF h
  <2> QED BY <1>3 DEF StopsAt, ZeroFree, h
<1>6. S = {p \in 1..n : gen[p].gen # stamp \/ (gen[p].hash = h /\ names[gen[p].index + 1] = name)}
  <2> HIDE DEF h
  <2> QED BY <1>3 DEF StopsAt, h
<1> HIDE DEF S
<1>7. LookupBase(name) = <<IF d = n \/ base[q].index = -1 THEN -1 ELSE base[q].index, d + 1>>
  BY <1>2, <1>4 DEF LookupBase, Lookup, BaseFree, EMPTY
<1>8. LookupZero(name) = <<IF d = n \/ zero[q].index_plus1 = 0 THEN -1 ELSE zero[q].index_plus1 - 1, d + 1>>
  BY <1>2, <1>5 DEF LookupZero, Lookup, ZeroFree, EMPTY
<1>9. LookupGen(name) = <<IF d = n \/ gen[q].gen # stamp THEN -1 ELSE gen[q].index, d + 1>>
  BY <1>2, <1>6 DEF LookupGen, Lookup, EMPTY
<1>10. ASSUME q \in 1..n
       PROVE  LookupZero(name) = LookupBase(name) /\ LookupGen(name) = LookupBase(name)
  <2> HIDE DEF q, d
  <2> QED BY <1>3, <1>7, <1>8, <1>9, <1>10
<1> QED BY <1>7, <1>10 DEF S

\* A probe for a name of the table stops at an entry with that name, others at a free slot.
LEMMA StopMeansFound ==
    ASSUME NEW n \in Nat \ {0}, NEW l \in Nat, l < n, NEW b \in [1..n -> BaseSlots],
           Fitting(names, l), Holding(n, b, names, l), NEW name, BenchHash[name] \in Nat
    PROVE  LET d == Steps(n, BenchHash[name], StopsAt(n, b, name))
               q == Position(n, BenchHash[name], d)
           IN  /\ d \in 0..(n - 1) /\ q \in 1..n
               /\ b[q].index = -1 <=> \A i \in 1..l : names[i] # name
<1> DEFINE h == BenchHash[name]
           S == StopsAt(n, b, name)
           d == Steps(n, h, S)
           q == Position(n, h, d)
<1>1. S \subseteq 1..n
  BY DEF StopsAt
<1>2. /\ d \in 0..(n - 1) /\ q \in S
      /\ \A e \in 0..(d - 1) : Position(n, h, e) \notin S
  <2>1. PICK p \in 1..n : b[p].index = -1
    BY BenchSlotFree
  <2>2. p \in S
    BY <2>1 DEF StopsAt
  <2> HIDE DEF S, h
  <2> QED BY <2>2, ProbeStops DEF h
<1>3. q \in 1..n
  BY <1>1, <1>2
<1> HIDE DEF q, d
<1>4. ASSUME b[q].index # -1
      PROVE  \E i \in 1..l : names[i] = name
  <2>1. names[b[q].index + 1] = name
    BY <1>2, <1>4 DEF StopsAt
  <2>2. b[q].index + 1 \in 1..l
    BY <1>3, <1>4 DEF Holding, Occupied
  <2> QED BY <2>1, <2>2
<1>5. ASSUME NEW j \in 1..l, names[j] = name
      PROVE  b[q].index # -1
  <2>1. PICK c \in 0..(n - 1) : ReachedAt(n, b, h, j, c)
    BY <1>5 DEF Holding
  <2>2. c \in Nat /\ Position(n, h, c) \in 1..n
    <3>1. c \in Nat
      OBVIOUS
    <3> QED BY <3>1, PositionInside
  <2>3. PICK p \in 1..n : p = Position(n, h, c) /\ b[p].index = j - 1 /\ b[p].index # -1
    BY <2>1, <2>2 DEF ReachedAt
  <2>4. p \in S
    <3>1. p \in Occupied(n, b) /\ b[p].index + 1 = j
      BY <2>3 DEF Occupied
    <3>2. b[p].hash = h
      BY <1>5, <3>1 DEF Holding
    <3> QED BY <1>5, <3>1, <3>2 DEF StopsAt
  <2>5. d <= c
    <3>1. c \notin 0..(d - 1)
      BY <1>2, <2>3, <2>4
    <3> QED BY <1>2, <2>2, <3>1
  <2>6. CASE d = c
    BY <2>3, <2>6 DEF q
  <2>7. CASE d # c
    <3>1. d \in 0..(c - 1)
      BY <1>2, <2>2, <2>5, <2>7
    <3> QED BY <2>1, <3>1 DEF ReachedAt, q
  <2> QED BY <2>6, <2>7
<1> QED BY <1>2, <1>3, <1>4, <1>5 DEF q, d

\* Arrays that hold the same entries answer alike.
LEMMA BenchAgrees == BenchInv => LayoutsAgree
<1> SUFFICES ASSUME BenchInv, base # <<>>, NEW name \in DOMAIN BenchHash
             PROVE  /\ LookupZero(name) = LookupBase(name)
                    /\ LookupGen(name) = LookupBase(name)
                    /\ LookupBase(name)[1] = EMPTY <=> \A i \in 1..Len(names) : names[i] # name
  BY DEF LayoutsAgree
<1> DEFINE n == BenchCapacity(names)
           l == Len(names)
<1>1. names \in BenchTables /\ Layouts(n, base, zero, gen, stamp) /\ Holding(n, base, names, l)
  BY DEF BenchInv, Layouts
<1>2. n \in Nat \ {0} /\ Fitting(names, l) /\ l \in Nat /\ l < n
  BY <1>1, BenchTableFits DEF Fitting
<1>3. BenchHash[name] \in Nat /\ base \in [1..n -> BaseSlots]
  BY <1>1, BenchAssumption DEF Layouts
<1> DEFINE d == Steps(n, BenchHash[name], StopsAt(n, base, name))
           q == Position(n, BenchHash[name], d)
<1> HIDE DEF n, l
<1>4. /\ d \in 0..(n - 1) /\ q \in 1..n
      /\ base[q].index = -1 <=> \A i \in 1..l : names[i] # name
  BY <1>1, <1>2, <1>3, StopMeansFound
<1>5. /\ LookupBase(name) = <<IF d = n \/ base[q].index = -1 THEN -1 ELSE base[q].index, d + 1>>
      /\ LookupZero(name) = LookupBase(name)
      /\ LookupGen(name) = LookupBase(name)
  BY <1>1, <1>2, <1>4, ProbesAgree
<1> HIDE DEF q, d
<1>6. d # n
  BY <1>2, <1>4
<1> QED BY <1>4, <1>5, <1>6 DEF l, EMPTY

\* The three layouts that hashindex_build_bench.cpp compares find the same entry in
\* the same number of probes, and find one exactly when the table has the name:
\* whatever the tables and the hashes, however often they were rebuilt in place over
\* what an older generation left, and at every wrap of the stamp.
THEOREM LayoutsStayAgreed == BenchSpec => []LayoutsAgree
<1>1. BenchInit => BenchInv
  BY DEF BenchInit, BenchInv
<1> QED BY <1>1, BenchStep, BenchAgrees, PTL DEF BenchSpec
-----------------------------------------------------------------------------
(***************************************************************************)
(* The schedules, thread shares and sweeps of the workloads (Workload).    *)
(***************************************************************************)
\* The places of a share are no more than the share.
LEMMA PlacesFit ==
    ASSUME NEW percent \in 0..100
    PROVE  /\ IsFiniteSet(Places(percent)) /\ Cardinality(Places(percent)) \in Nat
           /\ Cardinality(Places(percent)) <= (percent * ScheduleSize) \div 100
<1> DEFINE n == (percent * ScheduleSize) \div 100
<1>1. ScheduleSize \in Nat \ {0}
  BY WorkAssumption
<1>2. percent * ScheduleSize \in Nat
  BY <1>1
<1>3. n \in Nat
  BY <1>2
<1> HIDE DEF n
<1>4. CASE percent = 0
  <2>1. Places(percent) = {}
    BY <1>4 DEF Places
  <2> QED BY <1>3, <2>1, FS_EmptySet DEF n
<1>5. CASE percent # 0
  <2> DEFINE stride == 100 \div percent
             Op(i) == stride \div 2 + i * stride
             T == {Op(i) : i \in 0..(n - 1)}
  <2>1. Places(percent) = T
    BY <1>5 DEF Places, n
  <2>2. 0 \in Int /\ n - 1 \in Int
    BY <1>3
  <2>3. IsFiniteSet(0..(n - 1)) /\ Cardinality(0..(n - 1)) = IF 0 > n - 1 THEN 0 ELSE (n - 1) - 0 + 1
    BY <2>2, FS_Interval
  <2>4. Cardinality(0..(n - 1)) = n
    BY <1>3, <2>3
  <2>5. IsFiniteSet(T) /\ Cardinality(T) <= Cardinality(0..(n - 1))
    <3> DEFINE f == [i \in 0..(n - 1) |-> Op(i)]
    <3> HIDE DEF Op
    <3>1. f \in [0..(n - 1) -> T] /\ \A t \in T : \E i \in 0..(n - 1) : f[i] = t
      OBVIOUS
    <3> HIDE DEF f, T
    <3>2. f \in Surjection(0..(n - 1), T)
      BY <3>1 DEF Surjection
    <3> QED BY <2>3, <3>2, FS_Surjection
  <2>6. Cardinality(T) \in Nat
    BY <2>5, FS_CardinalityType
  <2> QED BY <2>1, <2>4, <2>5, <2>6 DEF n
<1> QED BY <1>4, <1>5

\* A schedule of the profiles: operations, some of them to read.
Scheduled(s) ==
    /\ s \in [1..ScheduleSize -> {"read", "retire", "sync"}] /\ Len(s) = ScheduleSize
    /\ Count(s, "read") \in Nat \ {0} /\ Count(s, "retire") \in Nat /\ Count(s, "sync") \in Nat
    /\ Count(s, "read") + Count(s, "retire") + Count(s, "sync") = ScheduleSize

\* What there is of each operation adds up.
LEMMA CountsAddUp ==
    ASSUME NEW s \in [1..ScheduleSize -> {"read", "retire", "sync"}]
    PROVE  /\ Count(s, "read") \in Nat /\ Count(s, "retire") \in Nat /\ Count(s, "sync") \in Nat
           /\ Count(s, "read") + Count(s, "retire") + Count(s, "sync") = ScheduleSize
<1> DEFINE U == 1..ScheduleSize
           A == {i \in U : s[i] = "read"}
           B == {i \in U : s[i] = "retire"}
           C == {i \in U : s[i] = "sync"}
<1>1. ScheduleSize \in Nat \ {0}
  BY WorkAssumption
<1>2. DOMAIN s = U
  OBVIOUS
<1>3. Count(s, "read") = Cardinality(A) /\ Count(s, "retire") = Cardinality(B) /\ Count(s, "sync") = Cardinality(C)
  BY <1>2 DEF Count
<1>4. A \subseteq U /\ B \subseteq U /\ C \subseteq U /\ U = (A \union B) \union C
  OBVIOUS
<1>5. A \intersect B = {} /\ (A \union B) \intersect C = {}
  OBVIOUS
<1>6. IsFiniteSet(U) /\ Cardinality(U) = ScheduleSize
  <2>1. IsFiniteSet(U) /\ Cardinality(U) = IF 1 > ScheduleSize THEN 0 ELSE ScheduleSize - 1 + 1
    BY <1>1, FS_Interval
  <2> QED BY <1>1, <2>1
<1> HIDE DEF A, B, C, U
<1>7. IsFiniteSet(A) /\ IsFiniteSet(B) /\ IsFiniteSet(C)
  BY <1>4, <1>6, FS_Subset
<1>8. Cardinality(A) \in Nat /\ Cardinality(B) \in Nat /\ Cardinality(C) \in Nat
  BY <1>7, FS_CardinalityType
<1>9. IsFiniteSet(A \union B) /\ Cardinality(A \union B) = Cardinality(A) + Cardinality(B) - Cardinality(A \intersect B)
  BY <1>7, FS_Union
<1>10. Cardinality((A \union B) \union C)
         = Cardinality(A \union B) + Cardinality(C) - Cardinality((A \union B) \intersect C)
  BY <1>7, <1>9, FS_Union
<1>11. Cardinality({}) = 0
  BY FS_EmptySet
<1>12. Cardinality(A \union B) = Cardinality(A) + Cardinality(B)
  <2>1. Cardinality(A \intersect B) = 0
    BY <1>5, <1>11
  <2> QED BY ONLY <1>8, <1>9, <2>1
<1>13. ScheduleSize = Cardinality(A) + Cardinality(B) + Cardinality(C)
  <2>1. Cardinality((A \union B) \intersect C) = 0
    BY <1>5, <1>11
  <2>2. Cardinality((A \union B) \union C) = ScheduleSize
    BY <1>4, <1>6
  <2> QED BY ONLY <1>8, <1>10, <1>12, <2>1, <2>2
<1> QED BY ONLY <1>3, <1>8, <1>13

\* Two shares that leave something leave something when they are rounded down.
LEMMA SharesLeave ==
    ASSUME NEW a \in Nat, NEW b \in Nat, NEW s \in Nat \ {0}, a + b < 100
    PROVE  (a * s) \div 100 + (b * s) \div 100 < s
<1> DEFINE x == a * s
           y == b * s
<1>1. x \in Nat /\ y \in Nat
  OBVIOUS
<1>2. x + y = (a + b) * s
  OBVIOUS
<1>3. (a + b) * s <= 99 * s
  OBVIOUS
<1>4. x + y < 100 * s
  BY <1>1, <1>2, <1>3
<1> HIDE DEF x, y
<1>5. x \div 100 + y \div 100 < s
  BY <1>1, <1>4
<1> QED BY <1>5 DEF x, y

\* The schedule of a profile is one.
LEMMA PlacedIsScheduled ==
    ASSUME NEW i \in DOMAIN Profiles
    PROVE  Scheduled(Placed(Profiles[i]))
<1> DEFINE p == Profiles[i]
           s == Placed(p)
           U == 1..ScheduleSize
           P == {pos \in U : pos - 1 \in Places(p.sync) \union Places(p.retire)}
           Q == Places(p.sync) \union Places(p.retire)
<1>1. ScheduleSize \in Nat \ {0}
  BY WorkAssumption
<1>2. /\ p \in [name : STRING, reader : 1..100, retire : 0..100, sync : 0..100]
      /\ p.reader + p.retire + p.sync = 100
  <2>1. Profiles \in Seq([name : STRING, reader : 1..100, retire : 0..100, sync : 0..100])
    BY WorkAssumption
  <2>2. DOMAIN Profiles = 1..Len(Profiles)
    BY <2>1, LenProperties
  <2>3. Profiles[i] \in [name : STRING, reader : 1..100, retire : 0..100, sync : 0..100]
    BY <2>1, <2>2, ElementOfSeq
  <2>4. Profiles[i].reader + Profiles[i].retire + Profiles[i].sync = 100
    BY WorkAssumption
  <2> QED BY <2>3, <2>4
<1>3. p.retire \in 0..100 /\ p.sync \in 0..100 /\ p.sync + p.retire < 100
  <2>1. p.reader \in 1..100 /\ p.retire \in 0..100 /\ p.sync \in 0..100
    BY <1>2
  <2>2. p.reader + p.retire + p.sync = 100
    BY <1>2
  <2> HIDE DEF p
  <2>3. PICK a \in 1..100, b \in 0..100, c \in 0..100 : p.reader = a /\ p.retire = b /\ p.sync = c
    BY ONLY <2>1
  <2>5. c + b < 100
    <3>1. a + b + c = 100
      BY ONLY <2>2, <2>3
    <3> QED BY ONLY <3>1
  <2>4. p.sync + p.retire < 100
    BY ONLY <2>3, <2>5
  <2> QED BY ONLY <2>1, <2>4
<1>4. s \in [U -> {"read", "retire", "sync"}]
  BY DEF Placed
<1>5. Len(s) = ScheduleSize
  BY <1>1, <1>4, FunctionIsSeq
<1>6. Cardinality(Q) < ScheduleSize /\ IsFiniteSet(Q) /\ Cardinality(Q) \in Nat
  <2>1. /\ IsFiniteSet(Places(p.sync)) /\ Cardinality(Places(p.sync)) \in Nat
        /\ Cardinality(Places(p.sync)) <= (p.sync * ScheduleSize) \div 100
    BY <1>3, PlacesFit
  <2>2. /\ IsFiniteSet(Places(p.retire)) /\ Cardinality(Places(p.retire)) \in Nat
        /\ Cardinality(Places(p.retire)) <= (p.retire * ScheduleSize) \div 100
    BY <1>3, PlacesFit
  <2>3. /\ IsFiniteSet(Q)
        /\ Cardinality(Q) = Cardinality(Places(p.sync)) + Cardinality(Places(p.retire))
                            - Cardinality(Places(p.sync) \intersect Places(p.retire))
    BY <2>1, <2>2, FS_Union
  <2>4. Cardinality(Places(p.sync) \intersect Places(p.retire)) \in Nat
    BY <2>1, FS_Intersection, FS_CardinalityType
  <2>5. (p.sync * ScheduleSize) \div 100 + (p.retire * ScheduleSize) \div 100 < ScheduleSize
    <3>1. p.sync \in Nat /\ p.retire \in Nat
      BY <1>3
    <3> QED BY ONLY <1>1, <1>3, <3>1, SharesLeave
  <2>6. (p.sync * ScheduleSize) \div 100 \in Nat /\ (p.retire * ScheduleSize) \div 100 \in Nat
    <3>1. p.sync * ScheduleSize \in Nat /\ p.retire * ScheduleSize \in Nat
      BY <1>1, <1>3
    <3> QED BY <3>1
  <2>7. Cardinality(Q) \in Nat
    BY <2>3, FS_CardinalityType
  <2> HIDE DEF Q, p
  <2> QED BY ONLY <1>1, <2>1, <2>2, <2>3, <2>4, <2>5, <2>6, <2>7
<1>7. \E pos \in U : s[pos] = "read"
  <2> SUFFICES ASSUME \A pos \in U : s[pos] # "read"
               PROVE  FALSE
    OBVIOUS
  <2>1. \A pos \in U : pos - 1 \in Q
    BY DEF Placed
  <2>2. 0..(ScheduleSize - 1) \subseteq Q
    <3> SUFFICES ASSUME NEW k \in 0..(ScheduleSize - 1)
                 PROVE  k \in Q
      OBVIOUS
    <3>1. k + 1 \in U /\ (k + 1) - 1 = k
      BY <1>1
    <3> HIDE DEF Q
    <3> QED BY <2>1, <3>1
  <2>3. Cardinality(0..(ScheduleSize - 1)) = ScheduleSize
    <3>1. Cardinality(0..(ScheduleSize - 1)) = IF 0 > ScheduleSize - 1 THEN 0 ELSE (ScheduleSize - 1) - 0 + 1
      BY <1>1, FS_Interval
    <3> QED BY <1>1, <3>1
  <2>4. Cardinality(0..(ScheduleSize - 1)) <= Cardinality(Q)
    BY <1>6, <2>2, FS_Subset
  <2> HIDE DEF Q
  <2> QED BY ONLY <1>1, <1>6, <2>3, <2>4
<1>8. Count(s, "read") # 0
  <2> DEFINE A == {k \in DOMAIN s : s[k] = "read"}
  <2>1. DOMAIN s = U
    BY <1>4
  <2>2. A \subseteq U /\ A # {}
    BY <1>7, <2>1
  <2>3. IsFiniteSet(U)
    BY <1>1, FS_Interval
  <2>4. IsFiniteSet(A)
    BY <2>2, <2>3, FS_Subset
  <2>5. Cardinality(A) # 0
    BY <2>2, <2>4, FS_EmptySet
  <2> QED BY <2>5 DEF Count
<1>9. /\ Count(s, "read") \in Nat /\ Count(s, "retire") \in Nat /\ Count(s, "sync") \in Nat
      /\ Count(s, "read") + Count(s, "retire") + Count(s, "sync") = ScheduleSize
  BY <1>4, CountsAddUp
<1> HIDE DEF s
<1>10. Count(s, "read") \in Nat \ {0}
  BY <1>8, <1>9
<1>11. Scheduled(s)
  BY ONLY <1>4, <1>5, <1>9, <1>10 DEF Scheduled
<1> QED BY <1>11 DEF s

-----------------------------------------------------------------------------
\* Division leaves less than the divisor.
LEMMA Shares ==
    ASSUME NEW a \in Nat, NEW b \in Nat \ {0}
    PROVE  /\ a \div b \in Nat /\ b * (a \div b) \in Nat
           /\ b * (a \div b) <= a /\ a - b * (a \div b) < b
OBVIOUS

\* n equal shares.
LEMMA Multiples ==
    ASSUME NEW n \in Nat, NEW a \in Nat, NEW b \in Nat, a <= b
    PROVE  n * a \in Nat /\ n * b \in Nat /\ n * a <= n * b /\ n * b - n * a = n * (b - a)
OBVIOUS

\* Products of natural numbers.
LEMMA Products ==
    /\ \A a, b \in Nat : a * b \in Nat /\ a * b = b * a
    /\ \A a, b, c \in Nat : (a * b) * c = a * (b * c) /\ a * (b + c) = a * b + a * c
    /\ \A a \in Nat : 1 * a = a /\ 0 * a = 0
<1>1. \A a, b \in Nat : a * b \in Nat /\ a * b = b * a
  OBVIOUS
<1>2. \A a, b, c \in Nat : (a * b) * c = a * (b * c)
  OBVIOUS
<1>3. \A a, b, c \in Nat : a * (b + c) = a * b + a * c
  OBVIOUS
<1>4. \A a \in Nat : 1 * a = a /\ 0 * a = 0
  OBVIOUS
<1> QED BY ONLY <1>1, <1>2, <1>3, <1>4

\* Once more.
LEMMA OneMore ==
    ASSUME NEW a \in Nat, NEW b \in Nat, NEW k \in Nat
    PROVE  a + (k + 1) * b = (a + k * b) + b
OBVIOUS

\* Numbers of operations.
OpCounts == [reads : Nat, retires : Nat, syncs : Nat]

\* What one thread does first and n others after it.
Together(d, e, n) ==
    [reads |-> d.reads + n * e.reads, retires |-> d.retires + n * e.retires, syncs |-> d.syncs + n * e.syncs]

\* The loop over the threads adds up what they do.
LEMMA ThreadsAddUp ==
    ASSUME NEW s, NEW threads \in Nat \ {0}, NEW mixed \in BOOLEAN, NEW d \in OpCounts, NEW e \in OpCounts,
           d = Times(repeats(s, threads, TRUE), execute_schedule(s, TRUE)),
           e = Times(repeats(s, threads, mixed), execute_schedule(s, mixed))
    PROVE  Executed(s, threads, mixed) = Together(d, e, threads - 1)
<1> DEFINE of(t) == mixed \/ t = 0
           did(t) == Times(repeats(s, threads, of(t)), execute_schedule(s, of(t)))
           Upto(g) == g = [n \in 1..threads |-> IF n = 1 THEN did(0) ELSE Plus(g[n - 1], did(n - 1))]
           up == CHOOSE g : Upto(g)
           w == [n \in 1..threads |-> Together(d, e, n - 1)]
<1>1. Executed(s, threads, mixed) = up[threads]
  BY DEF Executed
<1>2. did(0) = d
  <2>1. of(0) = TRUE
    OBVIOUS
  <2> QED BY <2>1
<1>3. ASSUME NEW n \in 2..threads
      PROVE  did(n - 1) = e
  <2>1. n - 1 # 0
    OBVIOUS
  <2>2. of(n - 1) = mixed
    BY <2>1
  <2> QED BY <2>2
<1> HIDE DEF did, of
<1>4. Upto(w)
  <2>1. ASSUME NEW n \in 1..threads
        PROVE  w[n] = IF n = 1 THEN did(0) ELSE Plus(w[n - 1], did(n - 1))
    <3>1. CASE n = 1
      <4>1. w[n] = Together(d, e, 0)
        BY <3>1
      <4>2. Together(d, e, 0) = d
        <5>1. d = [reads |-> d.reads, retires |-> d.retires, syncs |-> d.syncs]
          BY DEF OpCounts
        <5>0. \A a, b \in Nat : a + 0 * b = a
          OBVIOUS
        <5>3. /\ d.reads \in Nat /\ d.retires \in Nat /\ d.syncs \in Nat
              /\ e.reads \in Nat /\ e.retires \in Nat /\ e.syncs \in Nat
          BY DEF OpCounts
        <5>2. /\ d.reads + 0 * e.reads = d.reads /\ d.retires + 0 * e.retires = d.retires
              /\ d.syncs + 0 * e.syncs = d.syncs
          BY ONLY <5>0, <5>3
        <5> QED BY ONLY <5>1, <5>2 DEF Together
      <4> QED BY <1>2, <3>1, <4>1, <4>2
    <3>2. CASE n # 1
      <4>1. n \in 2..threads /\ n - 1 \in 1..threads /\ n - 2 \in Nat /\ (n - 1) - 1 = n - 2
        BY <3>2
      <4>2. w[n] = Together(d, e, n - 1) /\ w[n - 1] = Together(d, e, n - 2)
        BY <4>1
      <4>3. did(n - 1) = e
        BY <1>3, <4>1
      <4>5. /\ d.reads \in Nat /\ d.retires \in Nat /\ d.syncs \in Nat
            /\ e.reads \in Nat /\ e.retires \in Nat /\ e.syncs \in Nat
        BY DEF OpCounts
      <4>6. n - 1 = (n - 2) + 1
        BY <4>1
      <4>7. Together(d, e, n - 1) = Plus(Together(d, e, n - 2), e)
        <5> DEFINE k == n - 2
        <5>1. k \in Nat /\ n - 1 = k + 1
          BY <4>1, <4>6
        <5> HIDE DEF k
        <5>4. d.reads + (k + 1) * e.reads = (d.reads + k * e.reads) + e.reads
          <6>1. PICK a \in Nat, b \in Nat : d.reads = a /\ e.reads = b
            BY ONLY <4>5
          <6>2. a + (k + 1) * b = (a + k * b) + b
            BY ONLY <5>1, OneMore
          <6> QED BY ONLY <6>1, <6>2
        <5>5. d.retires + (k + 1) * e.retires = (d.retires + k * e.retires) + e.retires
          <6>1. PICK a \in Nat, b \in Nat : d.retires = a /\ e.retires = b
            BY ONLY <4>5
          <6>2. a + (k + 1) * b = (a + k * b) + b
            BY ONLY <5>1, OneMore
          <6> QED BY ONLY <6>1, <6>2
        <5>6. d.syncs + (k + 1) * e.syncs = (d.syncs + k * e.syncs) + e.syncs
          <6>1. PICK a \in Nat, b \in Nat : d.syncs = a /\ e.syncs = b
            BY ONLY <4>5
          <6>2. a + (k + 1) * b = (a + k * b) + b
            BY ONLY <5>1, OneMore
          <6> QED BY ONLY <6>1, <6>2
        <5>2. /\ d.reads + (k + 1) * e.reads = (d.reads + k * e.reads) + e.reads
              /\ d.retires + (k + 1) * e.retires = (d.retires + k * e.retires) + e.retires
              /\ d.syncs + (k + 1) * e.syncs = (d.syncs + k * e.syncs) + e.syncs
          BY ONLY <5>4, <5>5, <5>6
        <5>3. Together(d, e, k + 1) = Plus(Together(d, e, k), e)
          BY ONLY <5>2 DEF Together, Plus
        <5> QED BY <5>1, <5>3 DEF k
      <4> QED BY <3>2, <4>2, <4>3, <4>7
    <3> QED BY <3>1, <3>2
  <2> QED BY <2>1
<1>5. Upto(up)
  <2> HIDE DEF Upto
  <2> QED BY <1>4
<1> HIDE DEF up
<1>8. w[threads] = Together(d, e, threads - 1)
  <2>1. threads \in 1..threads
    OBVIOUS
  <2> QED BY ONLY <2>1
<1> HIDE DEF w
<1>6. \A n \in Nat : n \in 1..threads => up[n] = w[n]
  <2> DEFINE P == {n \in Nat : n + 1 \in 1..threads => up[n + 1] = w[n + 1]}
  <2>1. 0 \in P
    <3>1. 1 \in 1..threads => up[1] = did(0) /\ w[1] = did(0)
      BY <1>4, <1>5
    <3> QED BY <3>1
  <2>2. ASSUME NEW i \in Nat, i \in P
        PROVE  i + 1 \in P
    <3> SUFFICES ASSUME (i + 1) + 1 \in 1..threads
                 PROVE  up[(i + 1) + 1] = w[(i + 1) + 1]
      OBVIOUS
    <3>1. i + 1 \in 1..threads /\ (i + 1) + 1 # 1 /\ ((i + 1) + 1) - 1 = i + 1
      OBVIOUS
    <3>2. up[i + 1] = w[i + 1]
      BY <2>2, <3>1
    <3>3. up[(i + 1) + 1] = Plus(up[i + 1], did(i + 1))
      BY <1>5, <3>1
    <3>4. w[(i + 1) + 1] = Plus(w[i + 1], did(i + 1))
      BY <1>4, <3>1
    <3> QED BY ONLY <3>2, <3>3, <3>4
  <2>3. Nat \subseteq P
    <3> HIDE DEF P
    <3> QED BY <2>1, <2>2, NumbersByInduction
  <2> SUFFICES ASSUME NEW n \in Nat, n \in 1..threads
               PROVE  up[n] = w[n]
    OBVIOUS
  <2>4. n - 1 \in P /\ (n - 1) + 1 = n
    BY <2>3
  <2> QED BY <2>4
<1>7. up[threads] = w[threads]
  BY <1>6
<1> QED BY ONLY <1>1, <1>7, <1>8

-----------------------------------------------------------------------------
\* What a thread does for its share: no more than the share, and less than a pass is left over.
ShareDone(d, share) ==
    /\ d \in OpCounts /\ Ops(d) \in Nat /\ Ops(d) <= share /\ share - Ops(d) < ScheduleSize

\* The passes of a thread come to its share.
LEMMA ThreadsShare ==
    ASSUME NEW s, Scheduled(s), NEW threads \in Nat \ {0}, NEW mixed \in BOOLEAN
    PROVE  ShareDone(Times(repeats(s, threads, mixed), execute_schedule(s, mixed)), TotalOps \div threads)
<1> DEFINE share == TotalOps \div threads
           r == Count(s, "read")
           t == Count(s, "retire")
           y == Count(s, "sync")
           k == repeats(s, threads, mixed)
           o == execute_schedule(s, mixed)
<1>1. ScheduleSize \in Nat \ {0} /\ TotalOps \in Nat
  BY WorkAssumption
<1>2. r \in Nat \ {0} /\ t \in Nat /\ y \in Nat /\ r + t + y = ScheduleSize /\ Len(s) = ScheduleSize
  BY DEF Scheduled
<1>3. share \in Nat
  BY <1>1, Shares
<1>4. CASE mixed = TRUE
  <2>1. k = share \div ScheduleSize /\ o = [reads |-> r, retires |-> t, syncs |-> y]
    BY <1>2, <1>4 DEF repeats, execute_schedule
  <2> HIDE DEF share, r, t, y, k, o
  <2>2. /\ k \in Nat /\ ScheduleSize * k \in Nat /\ ScheduleSize * k <= share
        /\ share - ScheduleSize * k < ScheduleSize
    BY ONLY <1>1, <1>3, <2>1, Shares
  <2>3. Times(k, o) = [reads |-> k * r, retires |-> k * t, syncs |-> k * y]
    BY ONLY <2>1 DEF Times
  <2>4. k * r \in Nat /\ k * t \in Nat /\ k * y \in Nat
    BY ONLY <1>2, <2>2, Products
  <2>5. k * r + k * t + k * y = ScheduleSize * k
    <3>1. k * r + k * t + k * y = (r + t + y) * k
      BY ONLY <1>2, <2>2
    <3> QED BY ONLY <1>2, <3>1
  <2>6. Times(k, o) \in OpCounts /\ Ops(Times(k, o)) = k * r + k * t + k * y
    BY ONLY <2>3, <2>4 DEF OpCounts, Ops
  <2> QED BY ONLY <2>2, <2>5, <2>6 DEF ShareDone, share, k, o
<1>5. CASE mixed = FALSE
  <2>1. k = share \div r /\ o = [reads |-> r, retires |-> 0, syncs |-> 0]
    BY <1>2, <1>5 DEF repeats, execute_schedule
  <2> HIDE DEF share, r, t, y, k, o
  <2>2. k \in Nat /\ r * k \in Nat /\ r * k <= share /\ share - r * k < r
    BY ONLY <1>2, <1>3, <2>1, Shares
  <2>3. Times(k, o) = [reads |-> k * r, retires |-> k * 0, syncs |-> k * 0]
    BY ONLY <2>1 DEF Times
  <2>4. k * r \in Nat /\ k * 0 = 0 /\ k * r = r * k
    BY ONLY <1>2, <2>2
  <2>5. r <= ScheduleSize
    BY ONLY <1>2
  <2>6. Times(k, o) \in OpCounts /\ Ops(Times(k, o)) = k * r
    <3>1. Times(k, o) = [reads |-> k * r, retires |-> 0, syncs |-> 0]
      BY ONLY <2>3, <2>4
    <3> QED BY ONLY <2>4, <3>1 DEF OpCounts, Ops
  <2> QED BY ONLY <1>1, <1>2, <1>3, <2>2, <2>4, <2>5, <2>6 DEF ShareDone, share, k, o
<1> QED BY <1>4, <1>5

\* Threads that each do their share leave less than a pass each, and what the division left.
LEMMA TotalsFit ==
    ASSUME NEW threads \in Nat \ {0}, NEW d, NEW e, NEW share \in Nat, share = TotalOps \div threads,
           ShareDone(d, share), ShareDone(e, share)
    PROVE  LET did == Together(d, e, threads - 1)
           IN Ops(did) <= TotalOps /\ TotalOps - Ops(did) <= threads * (ScheduleSize + 1)
<1> DEFINE n == threads - 1
           did == Together(d, e, n)
           a == Ops(d)
           b == Ops(e)
<1>1. ScheduleSize \in Nat \ {0} /\ TotalOps \in Nat /\ n \in Nat /\ threads = n + 1
  BY WorkAssumption
<1>2. /\ a \in Nat /\ a <= share /\ share - a < ScheduleSize
      /\ b \in Nat /\ b <= share /\ share - b < ScheduleSize
  BY DEF ShareDone
<1>3. Ops(did) = a + n * b
  <2>1. /\ d.reads \in Nat /\ d.retires \in Nat /\ d.syncs \in Nat
        /\ e.reads \in Nat /\ e.retires \in Nat /\ e.syncs \in Nat
    BY DEF ShareDone, OpCounts
  <2>2. Ops(did) = (d.reads + n * e.reads) + (d.retires + n * e.retires) + (d.syncs + n * e.syncs)
    BY DEF Ops, Together
  <2>3. n * (e.reads + e.retires + e.syncs) = n * e.reads + n * e.retires + n * e.syncs
    <3>1. PICK u \in Nat, v \in Nat, w \in Nat : e.reads = u /\ e.retires = v /\ e.syncs = w
      BY ONLY <2>1
    <3> HIDE DEF n
    <3>2. n * (u + v + w) = n * u + n * v + n * w
      BY ONLY <1>1
    <3> QED BY ONLY <3>1, <3>2
  <2>4. n * e.reads \in Nat /\ n * e.retires \in Nat /\ n * e.syncs \in Nat
    <3> HIDE DEF n
    <3> QED BY ONLY <1>1, <2>1, Products
  <2>5. a = d.reads + d.retires + d.syncs /\ b = e.reads + e.retires + e.syncs
    BY DEF Ops
  <2> HIDE DEF n, a, b, did
  <2>6. n * b = n * e.reads + n * e.retires + n * e.syncs
    BY ONLY <2>3, <2>5
  <2> QED BY ONLY <2>1, <2>2, <2>4, <2>5, <2>6
<1> HIDE DEF n, a, b, did
<1>4. /\ threads * share \in Nat /\ threads * share <= TotalOps
      /\ TotalOps - threads * share < threads
  BY ONLY <1>1, Shares, threads \in Nat \ {0}, share = TotalOps \div threads
<1>5. n * b \in Nat /\ n * share \in Nat /\ n * b <= n * share /\ n * share - n * b = n * (share - b)
  BY ONLY <1>1, <1>2, share \in Nat, Multiples
<1>6. threads * share = share + n * share
  BY ONLY <1>1, share \in Nat
<1>7. n * (share - b) <= n * ScheduleSize /\ n * (share - b) \in Nat /\ n * ScheduleSize \in Nat
  <2>1. share - b \in Nat /\ share - b <= ScheduleSize
    BY ONLY <1>1, <1>2, share \in Nat
  <2> QED BY ONLY <1>1, <2>1, Multiples
<1>8. threads * (ScheduleSize + 1) = n * ScheduleSize + ScheduleSize + threads
  BY ONLY <1>1
<1>9. Ops(did) <= TotalOps
  BY ONLY <1>1, <1>2, <1>3, <1>4, <1>5, <1>6, share \in Nat
<1>10. TotalOps - Ops(did) <= threads * (ScheduleSize + 1)
  BY ONLY <1>1, <1>2, <1>3, <1>4, <1>5, <1>6, <1>7, <1>8, share \in Nat
<1> QED BY <1>9, <1>10 DEF did, n

\* The rows of the table are those sums.
LEMMA RowsAreTotals ==
    ASSUME NEW s, Scheduled(s), NEW threads \in Nat \ {0}, NEW mixed \in BOOLEAN
    PROVE  Together(Times(repeats(s, threads, TRUE), execute_schedule(s, TRUE)),
                    Times(repeats(s, threads, mixed), execute_schedule(s, mixed)), threads - 1)
           = IF mixed THEN SyntheticRow(s, threads) ELSE RoleRow(s, threads)
<1> DEFINE share == TotalOps \div threads
           r == Count(s, "read")
           t == Count(s, "retire")
           y == Count(s, "sync")
           k == share \div Len(s)
           l == share \div r
           n == threads - 1
           d == Times(repeats(s, threads, TRUE), execute_schedule(s, TRUE))
           e == Times(repeats(s, threads, mixed), execute_schedule(s, mixed))
<1>1. ScheduleSize \in Nat \ {0} /\ TotalOps \in Nat /\ n \in Nat /\ threads = n + 1
  BY WorkAssumption
<1>2. r \in Nat \ {0} /\ t \in Nat /\ y \in Nat /\ Len(s) = ScheduleSize
  BY DEF Scheduled
<1>3. share \in Nat /\ k \in Nat /\ l \in Nat
  <2>1. share \in Nat
    BY <1>1, Shares
  <2> HIDE DEF share
  <2> QED BY <1>1, <1>2, <2>1, Shares
<1>4. d = [reads |-> k * r, retires |-> k * t, syncs |-> k * y]
  BY DEF Times, repeats, execute_schedule
<1>5. CASE mixed = TRUE
  <2>1. e = d
    BY <1>5
  <2>2. SyntheticRow(s, threads) = [reads |-> k * r * threads, retires |-> k * t * threads, syncs |-> k * y * threads]
    BY DEF SyntheticRow
  <2> HIDE DEF k, r, t, y, n, d, e, share
  <2>3. Together(d, e, n) = [reads |-> k * r + n * (k * r), retires |-> k * t + n * (k * t), syncs |-> k * y + n * (k * y)]
    BY ONLY <1>4, <2>1 DEF Together
  <2>4. \A u \in Nat : u + n * u = u * threads
    BY ONLY <1>1
  <2>5. k * r \in Nat /\ k * t \in Nat /\ k * y \in Nat
    BY ONLY <1>2, <1>3
  <2>6. Together(d, e, n) = SyntheticRow(s, threads)
    BY ONLY <2>2, <2>3, <2>4, <2>5
  <2> QED BY <1>5, <2>6 DEF d, e, n
<1>6. CASE mixed = FALSE
  <2>1. e = [reads |-> l * r, retires |-> l * 0, syncs |-> l * 0]
    BY <1>2, <1>6 DEF Times, repeats, execute_schedule
  <2>2. RoleRow(s, threads) = [reads |-> k * r + l * r * n, retires |-> k * t, syncs |-> k * y]
    BY <1>2 DEF RoleRow
  <2> HIDE DEF k, l, r, t, y, n, d, e, share
  <2>3. Together(d, e, n) = [reads |-> k * r + n * (l * r), retires |-> k * t + n * (l * 0), syncs |-> k * y + n * (l * 0)]
    BY ONLY <1>4, <2>1 DEF Together
  <2>4. n * (l * 0) = 0 /\ n * (l * r) = l * r * n
    BY ONLY <1>1, <1>2, <1>3
  <2>5. k * t \in Nat /\ k * y \in Nat
    BY ONLY <1>2, <1>3
  <2>6. k * t + n * (l * 0) = k * t /\ k * y + n * (l * 0) = k * y
    BY ONLY <2>4, <2>5
  <2>7. Together(d, e, n) = RoleRow(s, threads)
    BY ONLY <2>2, <2>3, <2>4, <2>6
  <2> QED BY <1>6, <2>7 DEF d, e, n
<1> QED BY <1>5, <1>6

-----------------------------------------------------------------------------
\* Schedules are operations of a whole iteration, a benchmark has a thread count of its
\* machine, and a sweep counts what it has retired since it last synchronized.
SchedulesInv ==
    /\ storage # <<>> => Scheduled(storage)
    /\ schedules \in Seq([1..ScheduleSize -> {"read", "retire", "sync"}])
    /\ \A i \in DOMAIN schedules : Scheduled(schedules[i])

IsSweep == job # NoJob /\ job.kind = "sweep"

RegisteredInv ==
    IsBench => /\ job.profile \in DOMAIN schedules /\ job.mixed \in BOOLEAN
               /\ job.machine \in Topologies /\ job.threads \in default_thread_counts(job.machine)

SweepInv ==
    IsSweep => /\ job \in [kind : {"sweep"}, profile : Nat, threshold : Nat \ {0}, pos : Nat, pass : Nat,
                           since_sync : Nat, pending : Nat]
               /\ job.pass <= SweepRepeats + 2
               /\ job.pending < job.threshold
               /\ IF job.pass = SweepRepeats + 2 THEN job.pending = 0 ELSE job.since_sync = job.pending

WorkInv == SchedulesInv /\ RegisteredInv /\ SweepInv

\* generate_schedule(): the first profile fills the static vector, the others get a copy.
LEMMA GenerateKeeps ==
    ASSUME WorkInv, Generate
    PROVE  WorkInv'
<1> DEFINE given == generate_schedule(Profiles[Len(schedules) + 1])
           Ops3 == {"read", "retire", "sync"}
<1>1. /\ schedules \in Seq([1..ScheduleSize -> Ops3]) /\ Len(schedules) \in Nat
      /\ DOMAIN schedules = 1..Len(schedules)
  BY LenProperties DEF WorkInv, SchedulesInv
<1>2. Len(schedules) + 1 \in DOMAIN Profiles
  <2>1. Len(Profiles) \in Nat /\ DOMAIN Profiles = 1..Len(Profiles)
    BY WorkAssumption, LenProperties
  <2> QED BY <1>1, <2>1 DEF Generate
<1>3. Scheduled(given)
  BY <1>2, PlacedIsScheduled DEF generate_schedule, WorkInv, SchedulesInv
<1>4. storage' = given /\ schedules' = Append(schedules, given) /\ job' = job
  BY DEF Generate
<1> HIDE DEF given
<1>5. given \in [1..ScheduleSize -> Ops3]
  BY <1>3 DEF Scheduled
<1>6. /\ schedules' \in Seq([1..ScheduleSize -> Ops3]) /\ Len(schedules') = Len(schedules) + 1
      /\ \A i \in 1..Len(schedules) : schedules'[i] = schedules[i]
      /\ schedules'[Len(schedules) + 1] = given
  BY <1>1, <1>4, <1>5, AppendProperties
<1>7. DOMAIN schedules' = 1..(Len(schedules) + 1)
  BY <1>6, LenProperties
<1>8. \A i \in DOMAIN schedules' : Scheduled(schedules'[i])
  <2> SUFFICES ASSUME NEW i \in 1..(Len(schedules) + 1)
               PROVE  Scheduled(schedules'[i])
    BY <1>7
  <2>1. CASE i = Len(schedules) + 1
    BY <1>3, <1>6, <2>1
  <2>2. CASE i # Len(schedules) + 1
    <3>1. i \in 1..Len(schedules)
      BY <1>1, <2>2
    <3> QED BY <1>1, <1>6, <3>1 DEF WorkInv, SchedulesInv
  <2> QED BY <2>1, <2>2
<1>9. SchedulesInv'
  BY <1>3, <1>4, <1>6, <1>8 DEF SchedulesInv
<1>10. RegisteredInv'
  <2>1. DOMAIN schedules \subseteq DOMAIN schedules'
    BY <1>1, <1>7
  <2> QED BY <1>4, <2>1 DEF WorkInv, RegisteredInv, IsBench
<1>11. SweepInv'
  BY <1>4 DEF WorkInv, SweepInv, IsSweep
<1> QED BY <1>9, <1>10, <1>11 DEF WorkInv

\* A benchmark that is registered has a schedule, and as many threads as its machine allows.
LEMMA RegisterKeeps ==
    ASSUME WorkInv, Register
    PROVE  WorkInv'
<1>1. PICK i \in DOMAIN schedules, t \in Topologies, mixed \in BOOLEAN :
          \E threads \in default_thread_counts(t) :
              job' = [kind |-> "bench", profile |-> i, machine |-> t, threads |-> threads, mixed |-> mixed]
  BY DEF Register
<1>2. PICK threads \in default_thread_counts(t) :
          job' = [kind |-> "bench", profile |-> i, machine |-> t, threads |-> threads, mixed |-> mixed]
  BY <1>1
<1>3. storage' = storage /\ schedules' = schedules
  BY DEF Register
<1>4. SchedulesInv'
  BY <1>3 DEF WorkInv, SchedulesInv
<1>5. RegisteredInv'
  BY <1>2, <1>3 DEF RegisteredInv
<1>6. SweepInv'
  BY <1>2 DEF SweepInv, IsSweep
<1> QED BY <1>4, <1>5, <1>6 DEF WorkInv

\* The threshold sweep: what is pending is what was retired since the last synchronize().
LEMMA SweepKeeps ==
    ASSUME WorkInv, StartSweep \/ SweepStep \/ SweepEnds
    PROVE  WorkInv'
<1>0. SweepRepeats \in Nat /\ Thresholds \subseteq Nat \ {0}
  BY WorkAssumption
<1>1. storage' = storage /\ schedules' = schedules
  BY DEF StartSweep, SweepStep, SweepEnds
<1>2. SchedulesInv'
  BY <1>1 DEF WorkInv, SchedulesInv
<1> DEFINE Sweeps == [kind : {"sweep"}, profile : Nat, threshold : Nat \ {0}, pos : Nat, pass : Nat,
                      since_sync : Nat, pending : Nat]
           Kept(j) == /\ j \in Sweeps /\ j.pass <= SweepRepeats + 2 /\ j.pending < j.threshold
                      /\ IF j.pass = SweepRepeats + 2 THEN j.pending = 0 ELSE j.since_sync = j.pending
<1>3. Kept(job')
  <2>1. CASE StartSweep
    <3>1. PICK i \in DOMAIN schedules, threshold \in Thresholds :
              job' = [kind |-> "sweep", profile |-> i, threshold |-> threshold, pos |-> 1, pass |-> 1,
                      since_sync |-> 0, pending |-> 0]
      BY <2>1 DEF StartSweep
    <3>2. i \in Nat
      BY LenProperties DEF WorkInv, SchedulesInv
    <3> QED BY <1>0, <3>1, <3>2
  <2>2. CASE SweepStep
    <3>1. Kept(job) /\ job.pass <= SweepRepeats
      BY <2>2 DEF SweepStep, Sweeping, WorkInv, SweepInv, IsSweep
    <3>2. job.since_sync = job.pending
      BY <1>0, <3>1
    <3>3. ASSUME NEW j \in Sweeps, j.pass <= SweepRepeats, j.since_sync = j.pending, j.pending < j.threshold
          PROVE  Kept(Advanced(j))
      <4>1. CASE j.pos < ScheduleSize
        <5>1. Advanced(j) = [j EXCEPT !.pos = @ + 1]
          BY <4>1 DEF Advanced
        <5> QED BY <1>0, <3>3, <5>1
      <4>2. CASE ~(j.pos < ScheduleSize)
        <5>1. Advanced(j) = [j EXCEPT !.pos = 1, !.pass = @ + 1]
          BY <4>2 DEF Advanced
        <5> DEFINE q == j.pass + 1
                   one == 1
        <5>2. /\ j.pass \in Nat /\ q \in Nat /\ q <= SweepRepeats + 1 /\ q # SweepRepeats + 2
              /\ q <= SweepRepeats + 2
          BY <1>0, <3>3
        <5>3. Advanced(j) = [j EXCEPT !.pos = one, !.pass = q] /\ one \in Nat
          BY <5>1
        <5> HIDE DEF q, one, Kept
        <5>4. /\ Advanced(j) \in Sweeps /\ Advanced(j).pass = q /\ Advanced(j).pending = j.pending
              /\ Advanced(j).threshold = j.threshold /\ Advanced(j).since_sync = j.since_sync
          BY ONLY <3>3, <5>2, <5>3
        <5> QED BY ONLY <3>3, <5>2, <5>4 DEF Kept
      <4> QED BY <4>1, <4>2
    <3> DEFINE op == schedules[job.profile][job.pos]
               count == job.since_sync + 1
               u == [job EXCEPT !.since_sync = 0, !.pending = 0]
               v == [job EXCEPT !.since_sync = count, !.pending = @ + 1]
    <3>4. \/ job' = Advanced(job)
          \/ job' = Advanced(u)
          \/ job' = Advanced(v) /\ ~(count >= job.threshold)
      BY <2>2 DEF SweepStep, Due
    <3>5. CASE job' = Advanced(job)
      <4> HIDE DEF Sweeps
      <4> QED BY <3>1, <3>2, <3>3, <3>5
    <3>6. CASE job' = Advanced(u)
      <4>1. /\ u \in Sweeps /\ u.pass = job.pass /\ u.since_sync = 0 /\ u.pending = 0 /\ u.threshold = job.threshold
            /\ job.threshold \in Nat \ {0}
        BY <3>1
      <4> HIDE DEF Sweeps, u, Kept
      <4>2. u.pending < u.threshold /\ u.pass <= SweepRepeats /\ u.since_sync = u.pending
        <5>1. job.pass <= SweepRepeats
          BY <3>1
        <5> QED BY <4>1, <5>1
      <4> QED BY <3>3, <3>6, <4>1, <4>2
    <3>7. CASE job' = Advanced(v) /\ ~(count >= job.threshold)
      <4>1. /\ v \in Sweeps /\ v.pass = job.pass /\ v.since_sync = count /\ v.pending = job.pending + 1
            /\ v.threshold = job.threshold /\ job.threshold \in Nat \ {0} /\ job.pending \in Nat
        <5> DEFINE q == job.pending + 1
        <5>1. count \in Nat /\ q \in Nat /\ job \in Sweeps
          BY <3>1
        <5> HIDE DEF count, q
        <5>2. v = [job EXCEPT !.since_sync = count, !.pending = q]
          BY DEF q
        <5> HIDE DEF v
        <5>3. /\ v \in Sweeps /\ v.pass = job.pass /\ v.since_sync = count /\ v.pending = q
              /\ v.threshold = job.threshold /\ job.threshold \in Nat \ {0} /\ job.pending \in Nat
          BY ONLY <5>1, <5>2
        <5> QED BY ONLY <5>3 DEF q
      <4>2. v.pending < v.threshold /\ v.since_sync = v.pending
        BY <3>2, <3>7, <4>1
      <4> HIDE DEF Sweeps, v, Kept
      <4>3. v.pass <= SweepRepeats
        BY <3>1, <4>1
      <4> QED BY <3>3, <3>7, <4>1, <4>2, <4>3
    <3> QED BY <3>4, <3>5, <3>6, <3>7
  <2>3. CASE SweepEnds
    <3>1. Kept(job) /\ job.pass = SweepRepeats + 1
      BY <2>3 DEF SweepEnds, WorkInv, SweepInv, IsSweep
    <3> DEFINE p == IF job.since_sync > 0 THEN 0 ELSE job.pending
    <3>2. job' = [job EXCEPT !.pass = @ + 1, !.pending = p]
      BY <2>3 DEF SweepEnds
    <3>3. p = 0
      BY <1>0, <3>1
    <3>4. job' \in Sweeps /\ job'.pass = SweepRepeats + 2 /\ job'.pending = 0 /\ job'.threshold \in Nat \ {0}
      <4> DEFINE q == job.pass + 1
      <4>1. q \in Nat /\ q = SweepRepeats + 2 /\ job \in Sweeps
        BY <1>0, <3>1
      <4> HIDE DEF p
      <4>2. job' = [job EXCEPT !.pass = q, !.pending = p]
        BY <3>2
      <4> HIDE DEF q
      <4>3. job' \in Sweeps /\ job'.pass = q /\ job'.pending = p /\ job'.threshold \in Nat \ {0}
        BY ONLY <3>3, <4>1, <4>2
      <4> QED BY ONLY <3>3, <4>1, <4>3
    <3> QED BY <1>0, <3>4
  <2> QED BY <2>1, <2>2, <2>3
<1>4. job'.kind = "sweep"
  BY <1>3
<1>5. RegisteredInv'
  BY <1>4 DEF RegisteredInv, IsBench
<1>6. SweepInv'
  BY <1>3 DEF SweepInv
<1> QED BY <1>2, <1>5, <1>6 DEF WorkInv

\* What the table of the workload benchmarks announces is what the threads do, on thread
\* counts the machine has, and a sweep stays below its threshold (workload_runner.cpp),
\* whatever the profiles, machines, thresholds and totals are.
THEOREM WorkIsSound == WorkSpec => []WorkSound
<1>1. WorkInit => WorkInv
  BY DEF WorkInit, WorkInv, SchedulesInv, RegisteredInv, SweepInv, IsBench, IsSweep
<1>2. WorkInv /\ [WorkNext]_workVars => WorkInv'
  <2> SUFFICES ASSUME WorkInv, [WorkNext]_workVars
               PROVE  WorkInv'
    OBVIOUS
  <2>1. CASE UNCHANGED workVars
    BY <2>1 DEF workVars, WorkInv, SchedulesInv, RegisteredInv, SweepInv, IsBench, IsSweep
  <2> QED BY <2>1, GenerateKeeps, RegisterKeeps, SweepKeeps DEF WorkNext
<1>3. WorkInv => WorkSound
  <2> SUFFICES ASSUME WorkInv
               PROVE  WorkSound
    OBVIOUS
  <2>1. IsBench => /\ Scheduled(schedules[job.profile]) /\ job.threads \in Nat \ {0} /\ job.mixed \in BOOLEAN
                   /\ job.machine.logical \in Nat \ {0} /\ job.threads \in default_thread_counts(job.machine)
    <3> SUFFICES ASSUME IsBench
                 PROVE  /\ Scheduled(schedules[job.profile]) /\ job.threads \in Nat \ {0} /\ job.mixed \in BOOLEAN
                        /\ job.machine.logical \in Nat \ {0} /\ job.threads \in default_thread_counts(job.machine)
      OBVIOUS
    <3>1. /\ job.profile \in DOMAIN schedules /\ job.mixed \in BOOLEAN
          /\ job.machine \in Topologies /\ job.threads \in default_thread_counts(job.machine)
      BY DEF WorkInv, RegisteredInv
    <3>2. job.machine.logical \in Nat \ {0}
      BY <3>1, WorkAssumption
    <3>3. job.threads \in 1..job.machine.logical
      BY <3>1 DEF default_thread_counts
    <3>4. Scheduled(schedules[job.profile])
      BY <3>1 DEF WorkInv, SchedulesInv
    <3> QED BY <3>1, <3>2, <3>3, <3>4
  <2>2. TableTellsTheWork
    <3> SUFFICES ASSUME IsBench
                 PROVE  LET s == schedules[job.profile]
                            did == Executed(s, job.threads, job.mixed)
                        IN /\ did = IF job.mixed THEN SyntheticRow(s, job.threads) ELSE RoleRow(s, job.threads)
                           /\ Ops(did) <= TotalOps
                           /\ TotalOps - Ops(did) <= job.threads * (ScheduleSize + 1)
      BY DEF TableTellsTheWork
    <3> DEFINE s == schedules[job.profile]
               n == job.threads
               share == TotalOps \div n
               d == Times(repeats(s, n, TRUE), execute_schedule(s, TRUE))
               e == Times(repeats(s, n, job.mixed), execute_schedule(s, job.mixed))
               did == Together(d, e, n - 1)
    <3>1. Scheduled(s) /\ n \in Nat \ {0} /\ job.mixed \in BOOLEAN /\ TRUE \in BOOLEAN
      BY <2>1
    <3>2. TotalOps \in Nat /\ share \in Nat
      BY <3>1, WorkAssumption, Shares
    <3> HIDE DEF s, n
    <3>3. ShareDone(d, share) /\ ShareDone(e, share)
      BY <3>1, ThreadsShare
    <3>4. Executed(s, n, job.mixed) = did
      <4>1. d \in OpCounts /\ e \in OpCounts
        BY <3>3 DEF ShareDone
      <4> QED BY <3>1, <4>1, ThreadsAddUp
    <3>5. did = IF job.mixed THEN SyntheticRow(s, n) ELSE RoleRow(s, n)
      BY <3>1, RowsAreTotals
    <3>6. Ops(did) <= TotalOps /\ TotalOps - Ops(did) <= n * (ScheduleSize + 1)
      <4> HIDE DEF d, e
      <4>1. share = TotalOps \div n
        OBVIOUS
      <4> HIDE DEF share
      <4> QED BY <3>1, <3>2, <3>3, <4>1, TotalsFit
    <3> HIDE DEF did
    <3> QED BY ONLY <3>4, <3>5, <3>6 DEF s, n
  <2>3. ThreadCountsFit
    BY <2>1 DEF ThreadCountsFit, default_thread_counts
  <2>4. SweepKeepsThreshold
    BY DEF WorkInv, SweepInv, IsSweep, SweepKeepsThreshold
  <2> QED BY <2>2, <2>3, <2>4 DEF WorkSound
<1> QED BY <1>1, <1>2, <1>3, PTL DEF WorkSpec
=============================================================================
