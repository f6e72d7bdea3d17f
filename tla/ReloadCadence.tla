--------------------------- MODULE ReloadCadence ---------------------------
(***************************************************************************)
(* The replay of Object::reload() in bench/ABIX/hashindex_build_bench.cpp: *)
(* a single thread that builds one index after another, retires the old    *)
(* index and an image, and synchronizes, in the batched and in the eager   *)
(* variant, and the loops that count how often synchronize() reclaims.     *)
(*                                                                         *)
(* No reader is in a section while they run, so a call of the domain is a  *)
(* function from its state to its next state.                              *)
(***************************************************************************)
EXTENDS Integers, Sequences, FiniteSets

CONSTANTS
    EpochBatch,          \* SKL_ABIX_RCU_EPOCH_BATCH
    MaxSteps, MaxRounds  \* bounds on the arguments of the modes

ASSUME CadenceAssumption == EpochBatch \in Nat \ {0}

VARIABLES
    run,       \* [mode, steps, rounds]: the arguments of the process
    turn, round,
    live,      \* the index of the last turn, 0 for none
    buffers,   \* per index built: [owned, freed], whether slots is set and how often it was freed
    domain     \* [epoch, syncs, completed], the nodes retired and the nodes collected,
               \* and calls, the number of calls of synchronize()

cadenceVars == <<run, turn, round, live, buffers, domain>>

CadenceInit ==
    /\ run = [mode |-> "none", steps |-> 0, rounds |-> 0]
    /\ turn = 0 /\ round = 1 /\ live = 0
    /\ buffers = <<>>
    /\ domain = [epoch |-> 1, syncs |-> 0, retired |-> {}, collected |-> {}, calls |-> 0,
                 completed |-> [eager |-> 0, batched |-> 0]]

-----------------------------------------------------------------------------
(***************************************************************************)
(* The domain.                                                             *)
(***************************************************************************)

\* retire() and retire_eager(): a node of the current epoch.  `at`
\* records when, for the properties.
retire(d, what, cls) ==
    [d EXCEPT !.retired = @ \union
        {[what |-> what, cls |-> cls, epoch |-> d.epoch, at |-> d.calls]}]

collect(d, safe_epoch, cls) ==
    IF safe_epoch <= d.completed[cls] THEN d
    ELSE LET passed == {n \in d.retired : n.cls = cls /\ n.epoch <= safe_epoch} IN
         [d EXCEPT !.completed[cls] = safe_epoch,
                   !.retired = @ \ passed,
                   !.collected = @ \union passed]

\* synchronize() returns early unless this call completes a batch.
Gated(d, eager) == ~eager /\ d.syncs + 1 < EpochBatch

synchronize_impl(d, eager) ==
    LET called == IF eager THEN d ELSE [d EXCEPT !.calls = @ + 1] IN
    IF Gated(d, eager) THEN [called EXCEPT !.syncs = @ + 1]
    ELSE collect([called EXCEPT !.epoch = @ + 1, !.syncs = IF eager THEN @ ELSE 0],
                 d.epoch, IF eager THEN "eager" ELSE "batched")

\* Mutation of Oldest: the epoch of the nodes retired a moment ago.
OldestCurrent(d) == d.epoch

\* The epoch try_collect() collects through: below every reader, and below the
\* global epoch when there is none.
Oldest(d) == d.epoch - 1

try_collect(d) ==
    IF Oldest(d) < 1 THEN d ELSE collect(collect(d, Oldest(d), "eager"), Oldest(d), "batched")

\* HashIndex::destroy(): a second call finds no slots.
destroyed(buffer) ==
    IF buffer.owned THEN [owned |-> FALSE, freed |-> buffer.freed + 1] ELSE buffer

-----------------------------------------------------------------------------
(***************************************************************************)
(* reload_loop() and reclaim_cadence().                                    *)
(***************************************************************************)

\* The indexes after the callbacks that the domain's calls have run:
\* destroy_index_only() frees an index's slots and keeps the index.
AfterCallbacks(d) ==
    [i \in DOMAIN buffers |->
        IF \E n \in d.collected \ domain.collected : n.what = i
          THEN destroyed(buffers[i]) ELSE buffers[i]]

FreshIndex == [owned |-> TRUE, freed |-> 0]
TOKEN == 0

\* What a reload does to the index it replaces and to its image.
retire_batched(d) == retire(retire(d, live, "batched"), TOKEN, "batched")

retire_split(d) ==
    retire(synchronize_impl(retire(d, live, "eager"), TRUE), TOKEN, "batched")

\* main() runs one mode of a process; reclaim_cadence() has three loops.
Start(mode, steps, rounds) ==
    /\ run.mode = "none"
    /\ mode = "reclaim" => rounds = 3
    /\ run' = [mode |-> mode, steps |-> steps, rounds |-> rounds]
    /\ UNCHANGED <<turn, round, live, buffers, domain>>

\* One build of the inner loop, and the synchronize() at its end.
ReloadStep ==
    /\ run.mode \in {"batched", "eager"}
    /\ round <= run.rounds /\ turn < run.steps
    /\ domain' = synchronize_impl(
           CASE live = 0 -> domain
             [] live # 0 /\ run.mode = "eager" -> retire_split(domain)
             [] live # 0 /\ run.mode = "batched" -> retire_batched(domain), FALSE)
    /\ buffers' = Append(AfterCallbacks(domain'), FreshIndex)
    /\ live' = Len(buffers')
    /\ turn' = turn + 1
    /\ UNCHANGED <<run, round>>

\* The next round starts with no live index: the last one of this round is
\* freed at the end.
NextRound ==
    /\ run.mode \in {"batched", "eager"}
    /\ round < run.rounds /\ turn = run.steps
    /\ round' = round + 1 /\ turn' = 0 /\ live' = 0
    /\ UNCHANGED <<run, buffers, domain>>

\* Every index of every round is destroyed and deleted, and the process ends.
FreeAll ==
    /\ run.mode \in {"batched", "eager"}
    /\ round = run.rounds /\ turn = run.steps
    /\ buffers' = [i \in DOMAIN buffers |-> destroyed(buffers[i])]
    /\ round' = round + 1
    /\ UNCHANGED <<run, turn, live, domain>>

\* The loops of reclaim_cadence(): the second of them also calls try_collect().
ReclaimStep ==
    /\ run.mode = "reclaim"
    /\ round <= run.rounds
    /\ LET synced == synchronize_impl(retire(domain, TOKEN, "batched"), FALSE) IN
       domain' = IF round = 2 THEN try_collect(synced) ELSE synced
    /\ IF turn + 1 < run.steps THEN turn' = turn + 1 /\ round' = round
       ELSE turn' = 0 /\ round' = round + 1
    /\ UNCHANGED <<run, live, buffers>>

CadenceNext ==
    \/ \E mode \in {"batched", "eager", "reclaim"}, steps \in 1..MaxSteps, rounds \in 1..MaxRounds :
           Start(mode, steps, rounds)
    \/ ReloadStep \/ NextRound \/ FreeAll \/ ReclaimStep

CadenceSpec == CadenceInit /\ [][CadenceNext]_cadenceVars
-----------------------------------------------------------------------------
(***************************************************************************)
(* Properties.                                                             *)
(***************************************************************************)

\* What is retired to the batched class waits for the synchronize() that
\* completes its batch, not less and not more: neither the eager advances in
\* between nor try_collect() shorten the deferral, and no watermark makes it
\* longer ("the image keeps the batched deferral"; "the same 0,0,..,8 shape").
DeferralIsOneBatch ==
    \A n \in domain.retired \union domain.collected :
        n.cls = "batched" =>
            (n \in domain.retired <=> n.at \div EpochBatch = domain.calls \div EpochBatch)

\* In the eager variant a replaced index is reclaimed by the reload that
\* replaces it, so at most the live index of each round holds a buffer ("the
\* index is reclaimed by the next reload").
EagerIndexReturns ==
    run.mode = "eager" =>
        /\ \A n \in domain.retired : n.cls # "eager"
        /\ Cardinality({i \in DOMAIN buffers : buffers[i].owned}) <= round

\* No buffer is freed twice, whichever of the reclaim callback and the final
\* loop comes first, and none is left when the process ends.
BuffersFreedOnce ==
    \A i \in DOMAIN buffers :
        /\ buffers[i].freed <= 1
        /\ round > run.rounds => buffers[i].freed = 1

\* A retired image waits for exactly one batch, a retired index for the next
\* reload, and every buffer is freed once.
CadenceKept ==
    /\ DeferralIsOneBatch
    /\ EagerIndexReturns
    /\ BuffersFreedOnce
-----------------------------------------------------------------------------
(***************************************************************************)
(* The inductive invariant behind it.                                      *)
(***************************************************************************)
RetiredNodes == [what : Nat, cls : {"eager", "batched"}, epoch : Nat, at : Nat]
CadenceDomains ==
    [epoch : Nat, syncs : Nat, calls : Nat, completed : [eager : Nat, batched : Nat],
     retired : SUBSET RetiredNodes, collected : SUBSET RetiredNodes]
IndexBuffers == [owned : BOOLEAN, freed : Nat]

CadenceTypes ==
    /\ run \in [mode : {"none", "batched", "eager", "reclaim"}, steps : Nat, rounds : Nat]
    /\ turn \in Nat /\ round \in Nat \ {0} /\ live \in 0..Len(buffers)
    /\ buffers \in Seq(IndexBuffers)
    /\ domain \in CadenceDomains

\* Where the batch is, by the calls so far: what it waits for is of this batch, what it
\* has collected of an earlier one, and no watermark has come to the present epoch.
BatchKept(d) ==
    /\ d.syncs = d.calls % EpochBatch
    /\ d.completed.eager < d.epoch /\ d.completed.batched < d.epoch
    /\ \A n \in d.retired :
          /\ n.epoch <= d.epoch
          /\ n.cls = "batched" => n.at \div EpochBatch = d.calls \div EpochBatch
    /\ \A n \in d.collected :
          n.cls = "batched" => n.at \div EpochBatch < d.calls \div EpochBatch

\* In the loops that call try_collect(), nothing is left from an earlier epoch for it.
ModesKept ==
    /\ run.mode = "eager" => \A n \in domain.retired : n.cls # "eager"
    /\ run.mode = "reclaim" => \A n \in domain.retired : n.cls = "batched" /\ n.epoch = domain.epoch
    /\ run.mode \in {"none", "reclaim"} => buffers = <<>> /\ live = 0
    /\ run.mode = "none" => domain.retired = {}

\* The live index is not retired yet, and owns its buffer until the end.
OwnedIndexes == {i \in DOMAIN buffers : buffers[i].owned}
IndexesKept ==
    /\ \A i \in DOMAIN buffers : buffers[i].freed = IF buffers[i].owned THEN 0 ELSE 1
    /\ round > run.rounds => OwnedIndexes = {}
    /\ \A n \in domain.retired \union domain.collected : n.what <= Len(buffers)
    /\ live # 0 /\ round <= run.rounds =>
          live \in OwnedIndexes /\ \A n \in domain.retired \union domain.collected : n.what # live
    /\ run.mode = "eager" => Cardinality(OwnedIndexes) <= round - IF live = 0 THEN 1 ELSE 0

CadenceInv == CadenceTypes /\ BatchKept(domain) /\ ModesKept /\ IndexesKept
=============================================================================
