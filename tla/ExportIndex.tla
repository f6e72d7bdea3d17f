---------------------------- MODULE ExportIndex ----------------------------
(***************************************************************************)
(* The export table lookup of Runtime/Search.h: the linear scan, the       *)
(* open-addressing HashIndex, and the process-wide SlotPool that recycles  *)
(* one slot array between indexes that are built and destroyed on any      *)
(* thread.  A critical section of the pool's spin lock is one step.        *)
(***************************************************************************)
EXTENDS NextPow2, Sequences, FiniteSets

CONSTANTS
    Builders,     \* threads that build or destroy indexes
    Indexes,      \* HashIndex objects
    Buffers, NoBuffer,
    ExportTables, \* sequences of [name, sig, version]
    NameHash,     \* the hash of every name, those that are exported nowhere too
    Queries,      \* the [name, sig, version] that are looked up
    PoolMin, PoolMax

ASSUME BuffersAssumption == NoBuffer \notin Buffers \union Indexes

VARIABLES
    pool,   \* SlotPool: the parked buffer
    buffer, \* buffer[b]: [allocated, slots], slots a sequence, also when freed
    index,  \* index[i]: [slots (a buffer), table]
    task    \* task[w]: [at, index, table, slots] of a build() or destroy()

exportVars == <<pool, buffer, index, task>>

Resting == [at |-> "idle", index |-> NoBuffer, table |-> <<>>, slots |-> NoBuffer]
Unbuilt == [slots |-> NoBuffer, table |-> <<>>]
EmptySlot == [hash |-> 0, index_plus1 |-> 0]

ExportInit ==
    /\ pool = NoBuffer
    /\ buffer = [b \in Buffers |-> [allocated |-> FALSE, slots |-> <<>>]]
    /\ index = [i \in Indexes |-> Unbuilt]
    /\ task = [w \in Builders |-> Resting]

\* Tables in the range where count * 2 and next_pow2 do not wrap around.
ASSUME TablesAssumption ==
    /\ NameHash \in [DOMAIN NameHash -> Nat]
    /\ \A t \in ExportTables :
        /\ t \in Seq([name : DOMAIN NameHash, sig : Nat, version : Nat])
        /\ 2 * Len(t) <= Pow2[30]
    /\ \A q \in Queries : q.name \in DOMAIN NameHash

Capacity(table) == next_pow2(2 * Len(table))

in_slot_pool_window(capacity) == capacity >= PoolMin /\ capacity <= PoolMax

\* Position pos of an array whose capacity is a power of two, and the next.
At(slots, pos) == slots[(pos % Len(slots)) + 1]

\* The loop of build(): each entry goes to the first free slot from its hash on.
Insert(slots, hash, i) ==
    LET free == CHOOSE d \in 0..(Len(slots) - 1) :
                    /\ At(slots, hash + d).index_plus1 = 0
                    /\ \A e \in 0..(d - 1) : At(slots, hash + e).index_plus1 # 0
    IN [slots EXCEPT ![((hash + free) % Len(slots)) + 1] = [hash |-> hash, index_plus1 |-> i]]

Filled(slots, table) ==
    LET upto[i \in 0..Len(table)] ==
            IF i = 0 THEN slots ELSE Insert(upto[i - 1], NameHash[table[i].name], i)
    IN upto[Len(table)]
-----------------------------------------------------------------------------
(***************************************************************************)
(* build() and destroy().                                                  *)
(***************************************************************************)
Go(w, at, slots) == task' = [task EXCEPT ![w].at = at, ![w].slots = slots]

\* An index is worked on by one thread at a time.
BeginTask(w, i, table, at) ==
    /\ task[w] = Resting
    /\ \A u \in Builders : task[u].index # i
    /\ task' = [task EXCEPT ![w] = [at |-> at, index |-> i, table |-> table,
                                    slots |-> index[i].slots]]
    /\ index' = [index EXCEPT ![i] = Unbuilt]
    /\ UNCHANGED <<pool, buffer>>

Build(w, i, table) == BeginTask(w, i, table, "offer_old")
Destroy(w, i) == index[i] # Unbuilt /\ BeginTask(w, i, <<>>, "offer_last")

AfterRelease(w) == IF task[w].at \in {"offer_old", "delete_old"} THEN "take" ELSE "done"
Deleting(w) == IF task[w].at = "offer_old" THEN "delete_old" ELSE "delete_last"

\* Mutation of Offer: the parked buffer is replaced and forgotten.
OfferForgets(w) ==
    /\ task[w].at \in {"offer_old", "offer_last"}
    /\ pool' = IF task[w].slots = NoBuffer THEN pool ELSE task[w].slots
    /\ Go(w, AfterRelease(w), NoBuffer)
    /\ UNCHANGED <<buffer, index>>

\* release(): into the pool when the window and the parked capacity say so, in
\* exchange for what was parked; outside the window, straight to delete[].
Offer(w) ==
    /\ task[w].at \in {"offer_old", "offer_last"}
    /\ LET mine == task[w].slots
           cap == Len(buffer[mine].slots)
       IN IF mine = NoBuffer
          THEN UNCHANGED pool /\ Go(w, AfterRelease(w), NoBuffer)
          ELSE IF in_slot_pool_window(cap)
                  /\ (pool = NoBuffer \/ Len(buffer[pool].slots) # cap)
               THEN pool' = mine /\ Go(w, Deleting(w), pool)
               ELSE UNCHANGED pool /\ Go(w, Deleting(w), mine)
    /\ UNCHANGED <<buffer, index>>

\* delete[], after the lock was released.
Delete(w) ==
    /\ task[w].at \in {"delete_old", "delete_last"}
    /\ buffer' = IF task[w].slots = NoBuffer THEN buffer
                 ELSE [buffer EXCEPT ![task[w].slots].allocated = FALSE]
    /\ Go(w, AfterRelease(w), NoBuffer)
    /\ UNCHANGED <<pool, index>>

\* take(): an exact match only.
CanTake(want) ==
    /\ in_slot_pool_window(want)
    /\ pool # NoBuffer /\ Len(buffer[pool].slots) = want

Take(w) ==
    /\ task[w].at = "take"
    /\ LET want == Capacity(task[w].table)
       IN IF CanTake(want)
          THEN /\ Go(w, "fill", pool)
               /\ pool' = NoBuffer
               /\ UNCHANGED buffer
          ELSE \/ \E b \in Buffers :   \* fresh memory, whatever is in it
                    /\ ~buffer[b].allocated
                    /\ buffer' = [buffer EXCEPT ![b] = [allocated |-> TRUE,
                           slots |-> [k \in 1..want |-> [hash |-> 1, index_plus1 |-> 1]]]]
                    /\ Go(w, "fill", b)
                    /\ UNCHANGED pool
               \/ Go(w, "done", NoBuffer) /\ UNCHANGED <<pool, buffer>>   \* no memory
    /\ UNCHANGED index

\* Mutation of Fill: a recycled array is not cleared.
FillDirty(w) ==
    /\ task[w].at = "fill"
    /\ LET b == task[w].slots
           free == {k \in 1..Len(buffer[b].slots) : buffer[b].slots[k].index_plus1 = 0}
       IN /\ index' = [index EXCEPT ![task[w].index] = [slots |-> b, table |-> task[w].table]]
          /\ buffer' = IF Cardinality(free) < Len(task[w].table) THEN buffer
                       ELSE [buffer EXCEPT ![b].slots = Filled(@, task[w].table)]
    /\ task' = [task EXCEPT ![w] = Resting]
    /\ UNCHANGED pool

\* memset() and the insertions; the index is valid.
Fill(w) ==
    /\ task[w].at = "fill"
    /\ LET b == task[w].slots
           cleared == [k \in 1..Len(buffer[b].slots) |-> EmptySlot]
       IN /\ index' = [index EXCEPT ![task[w].index] = [slots |-> b, table |-> task[w].table]]
          /\ buffer' = [buffer EXCEPT ![b].slots = Filled(cleared, task[w].table)]
    /\ task' = [task EXCEPT ![w] = Resting]
    /\ UNCHANGED pool

Finish(w) ==
    /\ task[w].at = "done"
    /\ task' = [task EXCEPT ![w] = Resting]
    /\ UNCHANGED <<pool, buffer, index>>

ExportNext ==
    \E w \in Builders :
        \/ \E i \in Indexes : Destroy(w, i) \/ \E t \in ExportTables : Build(w, i, t)
        \/ Offer(w) \/ Delete(w) \/ Take(w) \/ Fill(w) \/ Finish(w)

ExportSpec == ExportInit /\ [][ExportNext]_exportVars
-----------------------------------------------------------------------------
(***************************************************************************)
(* Lookups: <<result, the entry's number or 0>>.                           *)
(***************************************************************************)
Least(S) == CHOOSE i \in S : \A j \in S : i <= j

OtherVersion(e, q) == q.version # 0 /\ e.version # 0 /\ e.version # q.version

\* What find_linear and find_hash say of an entry that bears the name.
Verdict(e, q, i) == IF e.sig # q.sig THEN <<"sig_mismatch", i>> ELSE <<"ok", i>>

find_linear(table, q) ==
    LET named == {i \in 1..Len(table) : table[i].name = q.name /\ ~OtherVersion(table[i], q)}
    IN IF named = {} THEN <<"not_found", 0>> ELSE Verdict(table[Least(named)], q, Least(named))

lookup_linear(table, q) ==
    LET named == {i \in 1..Len(table) : table[i].name = q.name /\ table[i].sig = q.sig}
    IN IF named = {} THEN 0 ELSE Least(named)

\* Every probe sequence ends at an empty slot.
Terminates(slots) == \E k \in 1..Len(slots) : slots[k].index_plus1 = 0

\* How far a probe gets: no empty slot up to there.
Probed(slots, hash) ==
    {d \in 0..(Len(slots) - 1) : \A e \in 0..d : At(slots, hash + e).index_plus1 # 0}

\* The loop of the two searches below: the first slot that bears the hash and has
\* one of the entries they accept, or 0.
FirstHit(slots, hash, accepted) ==
    LET hits == {d \in Probed(slots, hash) :
                    /\ At(slots, hash + d).hash = hash
                    /\ At(slots, hash + d).index_plus1 \in accepted}
    IN IF hits = {} THEN 0 ELSE At(slots, hash + Least(hits)).index_plus1

find_hash(table, slots, q) ==
    LET named == {k \in 1..Len(table) : table[k].name = q.name}
        i == FirstHit(slots, NameHash[q.name], named)
    IN IF i = 0 THEN <<"not_found", 0>>
       ELSE IF OtherVersion(table[i], q) THEN <<"version_mismatch", i>>
       ELSE Verdict(table[i], q, i)

lookup_hash(table, slots, q) ==
    LET named == {k \in 1..Len(table) : table[k].name = q.name /\ table[k].sig = q.sig}
    IN FirstHit(slots, NameHash[q.name], named)

\* find_index: an index that could not be built is simply not used.
find_index(i, table, q) ==
    IF index[i].slots = NoBuffer THEN find_linear(table, q)
    ELSE find_hash(table, buffer[index[i].slots].slots, q)
-----------------------------------------------------------------------------
(***************************************************************************)
(* Properties.                                                             *)
(***************************************************************************)

\* Whatever buffer an index was given, and whatever that buffer held before, its
\* probes end and its answers are those of the linear scan, except that a name
\* whose first entry has another version is reported as version_mismatch.
IndexAnswersAsScan ==
    \A i \in Indexes : index[i].slots # NoBuffer =>
        LET slots == buffer[index[i].slots].slots
            table == index[i].table
        IN /\ Terminates(slots)
           /\ Len(slots) = Capacity(table)
           /\ \A q \in Queries :
                /\ lookup_hash(table, slots, q) = lookup_linear(table, q)
                /\ \/ find_index(i, table, q) = find_linear(table, q)
                   \/ find_index(i, table, q)[1] = "version_mismatch"

\* A slot array is owned by the pool, by one index or by one call in progress,
\* never by two, and none is lost however releases and builds interleave.
BuffersOwnedOnce ==
    \A b \in Buffers :
        (IF pool = b THEN 1 ELSE 0) + Cardinality({i \in Indexes : index[i].slots = b})
        + Cardinality({w \in Builders : task[w].slots = b})
          = IF buffer[b].allocated THEN 1 ELSE 0

\* The inductive invariant.  The contents of slot arrays and tables play no part.
TaskSteps == {"idle", "offer_old", "offer_last", "delete_old", "delete_last", "take", "fill",
              "done"}

ExportTypes ==
    /\ pool \in Buffers \union {NoBuffer}
    /\ DOMAIN buffer = Buffers /\ DOMAIN index = Indexes /\ DOMAIN task = Builders
    /\ \A b \in Buffers :
        DOMAIN buffer[b] = {"allocated", "slots"} /\ buffer[b].allocated \in BOOLEAN
    /\ \A i \in Indexes :
        DOMAIN index[i] = {"slots", "table"} /\ index[i].slots \in Buffers \union {NoBuffer}
    /\ \A w \in Builders :
        /\ DOMAIN task[w] = {"at", "index", "table", "slots"}
        /\ task[w].at \in TaskSteps
        /\ task[w].slots \in Buffers \union {NoBuffer}

\* A task works on an index of its own, which has no array meanwhile, and owns
\* one itself only on the way to the pool, to delete[] or to the index.
TasksApart ==
    \A w \in Builders :
        /\ task[w].at # "idle" =>
            /\ task[w].index \in Indexes /\ index[task[w].index].slots = NoBuffer
            /\ \A u \in Builders : task[u].index = task[w].index => u = w
        /\ task[w].at \in {"idle", "take", "done"} => task[w].slots = NoBuffer
        /\ task[w].at = "fill" => task[w].slots # NoBuffer

\* An array has an owner exactly while it is allocated, and one owner at most.
OneArrayOwner ==
    /\ \A w \in Builders : task[w].slots # NoBuffer =>
        /\ task[w].slots # pool
        /\ \A u \in Builders : task[u].slots = task[w].slots => u = w
        /\ \A i \in Indexes : index[i].slots # task[w].slots
    /\ \A i \in Indexes : index[i].slots # NoBuffer =>
        /\ index[i].slots # pool
        /\ \A j \in Indexes : index[j].slots = index[i].slots => j = i
    /\ \A b \in Buffers : buffer[b].allocated <=>
        \/ pool = b
        \/ \E i \in Indexes : index[i].slots = b
        \/ \E w \in Builders : task[w].slots = b

ExportInv == ExportTypes /\ TasksApart /\ OneArrayOwner

\* The inductive invariant of the contents.  After k entries: the array holds these
\* and nothing else, in k slots; each can be reached from its hash; those of one
\* hash are met in the order of the table.
Hash(table, i) == NameHash[table[i].name]

InPlace(slots, table, k) ==
    /\ \A p \in 1..Len(slots) : slots[p].index_plus1 # 0 =>
        /\ slots[p].index_plus1 \in 1..k
        /\ slots[p].hash = Hash(table, slots[p].index_plus1)
    /\ \A i \in 1..k : \E d \in Probed(slots, Hash(table, i)) :
        At(slots, Hash(table, i) + d).index_plus1 = i
    /\ \A i, j \in 1..k, d \in 0..(Len(slots) - 1) :
        i < j /\ Hash(table, i) = Hash(table, j) /\ At(slots, Hash(table, j) + d).index_plus1 = j =>
            \E e \in 0..(d - 1) : At(slots, Hash(table, j) + e).index_plus1 = i
    /\ Cardinality({p \in 1..Len(slots) : slots[p].index_plus1 # 0}) = k

SlotType == [hash : Nat, index_plus1 : Nat]

IndexBuilt(i) ==
    LET slots == buffer[index[i].slots].slots
        table == index[i].table
    IN  /\ table \in ExportTables
        /\ slots \in Seq(SlotType) /\ Len(slots) = Capacity(table)
        /\ InPlace(slots, table, Len(table))

TaskSized(w) ==
    task[w].at \in {"offer_old", "delete_old", "take", "fill"} =>
        /\ task[w].table \in ExportTables
        /\ task[w].at = "fill" =>
               Len(buffer[task[w].slots].slots) = Capacity(task[w].table)

ArraysInv ==
    /\ \A b \in Buffers : buffer[b].slots \in Seq(SlotType)
    /\ \A i \in Indexes : index[i].slots # NoBuffer => IndexBuilt(i)
    /\ \A w \in Builders : TaskSized(w)

\* "not_found: No entry with the given name" (docs/abix/api.md), whichever of the
\* two searches ran.
NotFoundMeansAbsent ==
    \A i \in Indexes, q \in Queries :
        \A table \in IF index[i].slots = NoBuffer THEN ExportTables ELSE {index[i].table} :
            find_index(i, table, q)[1] = "not_found" =>
                \A k \in 1..Len(table) : table[k].name # q.name
=============================================================================
