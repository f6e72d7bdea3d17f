------------------------------ MODULE MapPlan ------------------------------
(***************************************************************************)
(* model::MapPlan::apply() (Model/Map.h): the operations of a plan copy    *)
(* fields of a source object to a target object, one after the other.      *)
(* A converter is the host's: it may fail, and it is given two addresses.  *)
(***************************************************************************)
EXTENDS Naturals, Sequences

CONSTANTS
    Plans,       \* sequences of [opcode, source, target, bytes]
    PlanLayouts, \* [size, good, offsets]: the offsets of the fields; good stands for a
                 \* power-of-two alignment and a field array if there are fields
    PlanCapacity

Opcodes == {"copy_field", "rename_field", "default_field", "add_default", "skip_field",
            "convert_int", "convert_float", "call_converter", "unknown"}

ASSUME PlansAssumption ==
    /\ Plans \subseteq Seq([opcode : Opcodes, source : Nat, target : Nat, bytes : Nat])
    /\ PlanLayouts \subseteq [size : Nat, good : BOOLEAN, offsets : Seq(Nat)]
    /\ PlanLayouts # {} /\ PlanCapacity \in Nat

VARIABLES
    plan,    \* [ops, source, target, converter]
    at,      \* operations done
    status,  \* what apply() returned, "idle" before and "running" during it
    readBytes, wroteBytes \* bytes of the source and of the target that were touched

mapVars == <<plan, at, status, readBytes, wroteBytes>>

MapInit ==
    /\ plan = [ops |-> <<>>, source |-> CHOOSE l \in PlanLayouts : TRUE,
               target |-> CHOOSE l \in PlanLayouts : TRUE, converter |-> FALSE]
    /\ at = 0 /\ status = "idle" /\ readBytes = {} /\ wroteBytes = {}

valid_layout(l) == l.size # 0 /\ l.good
valid_field(index, l) == index \in 1..Len(l.offsets) /\ l.offsets[index] < l.size

valid_range(index, l, bytes) ==
    valid_field(index, l) /\ bytes <= l.size /\ l.offsets[index] <= l.size - bytes

Extent(l, index, bytes) == l.offsets[index]..(l.offsets[index] + bytes - 1)

StartPlan ==
    /\ status = "idle"
    /\ plan' \in [ops : Plans, source : PlanLayouts, target : PlanLayouts, converter : BOOLEAN]
    /\ status' = IF Len(plan'.ops) > PlanCapacity THEN "invalid_plan"
                 ELSE IF ~(valid_layout(plan'.source) /\ valid_layout(plan'.target)) THEN "invalid_layout"
                 ELSE IF plan'.ops = <<>> THEN "ok" ELSE "running"
    /\ UNCHANGED <<at, readBytes, wroteBytes>>

Operation == plan.ops[at + 1]
NextOperation ==
    /\ at' = at + 1
    /\ status' = IF at + 1 = Len(plan.ops) THEN "ok" ELSE status
    /\ UNCHANGED plan
FailPlan(why) == status' = why /\ UNCHANGED <<plan, at, readBytes, wroteBytes>>

CopyField ==
    /\ status = "running" /\ Operation.opcode \in {"copy_field", "rename_field"}
    /\ IF /\ valid_range(Operation.source, plan.source, Operation.bytes)
          /\ valid_range(Operation.target, plan.target, Operation.bytes) /\ Operation.bytes # 0
       THEN /\ readBytes' = readBytes \union Extent(plan.source, Operation.source, Operation.bytes)
            /\ wroteBytes' = wroteBytes \union Extent(plan.target, Operation.target, Operation.bytes)
            /\ NextOperation
       ELSE FailPlan("invalid_operation")

DefaultField ==
    /\ status = "running" /\ Operation.opcode \in {"default_field", "add_default"}
    /\ IF valid_range(Operation.target, plan.target, Operation.bytes) /\ Operation.bytes # 0
       THEN /\ wroteBytes' = wroteBytes \union Extent(plan.target, Operation.target, Operation.bytes)
            /\ NextOperation /\ UNCHANGED readBytes
       ELSE FailPlan("invalid_operation")

SkipField ==
    /\ status = "running" /\ Operation.opcode = "skip_field"
    /\ IF valid_field(Operation.source, plan.source)
       THEN NextOperation /\ UNCHANGED <<readBytes, wroteBytes>>
       ELSE FailPlan("invalid_operation")

\* Mutation of ConvertField: a converter that fails is not noticed.
ConvertFieldAnyway ==
    /\ status = "running" /\ Operation.opcode \in {"convert_int", "convert_float", "call_converter"}
    /\ NextOperation /\ UNCHANGED <<readBytes, wroteBytes>>

\* A converter touches at least the first byte of each field.
ConvertField ==
    /\ status = "running" /\ Operation.opcode \in {"convert_int", "convert_float", "call_converter"}
    /\ IF plan.converter /\ valid_field(Operation.source, plan.source) /\ valid_field(Operation.target, plan.target)
       THEN \/ /\ readBytes' = readBytes \union Extent(plan.source, Operation.source, 1)
               /\ wroteBytes' = wroteBytes \union Extent(plan.target, Operation.target, 1)
               /\ NextOperation
            \/ FailPlan("conversion_failed")
       ELSE FailPlan(IF plan.converter THEN "conversion_failed" ELSE "invalid_operation")

UnknownField ==
    /\ status = "running" /\ Operation.opcode = "unknown"
    /\ FailPlan("invalid_operation")

MapNext == StartPlan \/ CopyField \/ DefaultField \/ SkipField \/ ConvertField \/ UnknownField

MapSpec == MapInit /\ [][MapNext]_mapVars
-----------------------------------------------------------------------------
\* No operation of an arbitrary plan over arbitrary layouts reads a byte outside the
\* source object or writes one outside the target object, also when it fails half-way.
MapStaysInside ==
    /\ \A b \in readBytes : b < plan.source.size
    /\ \A b \in wroteBytes : b < plan.target.size

\* What the n-th operation of the plan sets in the target.
SetBy(n) ==
    CASE plan.ops[n].opcode \in {"copy_field", "rename_field", "default_field", "add_default"}
             -> Extent(plan.target, plan.ops[n].target, plan.ops[n].bytes)
      [] plan.ops[n].opcode \in {"convert_int", "convert_float", "call_converter"}
             -> Extent(plan.target, plan.ops[n].target, 1)
      [] OTHER -> {}

\* apply() says ok only when every field that the plan sets has been set; otherwise
\* exactly the operations before the failing one have been applied.
OkMeansApplied ==
    /\ status = "ok" => at = Len(plan.ops)
    /\ wroteBytes = UNION {SetBy(n) : n \in 1..at}

\* A plan stays inside both objects, and ok means that all of it was applied.
MapSound ==
    /\ MapStaysInside
    /\ OkMeansApplied
-----------------------------------------------------------------------------
\* The inductive invariant behind it: an operation runs only while one is left.
MapTypes ==
    /\ plan.ops \in Seq([opcode : Opcodes, source : Nat, target : Nat, bytes : Nat])
    /\ plan \in [ops : Plans \union {<<>>}, source : PlanLayouts, target : PlanLayouts, converter : BOOLEAN]
    /\ at \in Nat
    /\ status = "running" => at < Len(plan.ops)
    /\ status = "idle" => at = 0 /\ readBytes = {}

MapInv == MapTypes /\ MapSound
=============================================================================
