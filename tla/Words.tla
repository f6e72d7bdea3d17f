------------------------------- MODULE Words -------------------------------
(***************************************************************************)
(* Fixed-width arithmetic: deadlines (RCU/Deadline.h), the allocation of   *)
(* arrays (Util/Mem.h), error codes and domains (Error/Domain.h,           *)
(* ErrorCode.h, Mapping.h), packed versions (Interface/Declaration.h), and *)
(* the two backends of the atomic operations (Util/AtomicGCCClang.h,       *)
(* Util/AtomicMSVC.h).  Widths are scaled down to Word and Byte.           *)
(***************************************************************************)
EXTENDS Integers

CONSTANTS
    Word,       \* the modulus of a uint64_t or a size_t
    Byte,       \* the modulus of an atomic integer, and of an enum's value
    UnitsPerMs, \* clock units in a millisecond on a POSIX system
    Giga,       \* nanoseconds in a second
    Frequencies,\* of the performance counter
    ModuleMax, LocalMax, \* the moduli of the parts of a domain id
    Versions,   \* [major, minor, patch]
    NoWord

\* The widths have room for the ids in use; a performance counter is as fast as its
\* remainder in nanoseconds fits; the parts of a version are its decimal places.
ASSUME WordsAssumption ==
    /\ Word \in Nat \ {0, 1} /\ Byte \in Nat \ {0, 1}
    /\ UnitsPerMs \in Nat \ {0} /\ Giga \in Nat \ {0}
    /\ Frequencies \subseteq {f \in 1..Word : (f - 1) * Giga < Word}
    /\ ModuleMax \in Nat /\ ModuleMax > 2 /\ LocalMax \in Nat /\ LocalMax > 5
ASSUME VersionsAssumption ==
    \A v \in Versions :
        /\ v = [major |-> v.major, minor |-> v.minor, patch |-> v.patch]
        /\ v.major \in Nat /\ v.major < 100 /\ v.minor \in Nat /\ v.minor < 100
        /\ v.patch \in Nat /\ v.patch < 100000

VARIABLES
    word,      \* what is being computed with, or NoWord
    memory,    \* memory[backend]: the value of one atomic variable
    returned   \* returned[backend]: what the last operation said

wordVars == <<word, memory, returned>>

Backends == {"gcc", "msvc"}

WordsInit ==
    /\ word = NoWord
    /\ memory = [b \in Backends |-> 0]
    /\ returned = [b \in Backends |-> 0]

Kind(kind) == word # NoWord /\ word.kind = kind
-----------------------------------------------------------------------------
(* RCU/Deadline.h: the POSIX clock and the performance counter.            *)
duration_units(ms) == (ms * UnitsPerMs) % Word
counter_units(ms, frequency) ==
    (ms * IF frequency \div 1000 # 0 THEN frequency \div 1000 ELSE 1) % Word

\* Mutation of after_ms: a probe gets the sentinel of never().
after_msSentinel(now, ms) == IF ms = 0 THEN 0 ELSE (now + duration_units(ms)) % Word

\* 0 is never().
after_ms(now, ms) == IF ms = 0 THEN 1 ELSE (now + duration_units(ms)) % Word

bounded(at) == at # 0
expired(at, now) == at # 0 /\ now >= at

\* The division is split so that its intermediates fit.
monotonic_now_ns(ticks, frequency) ==
    ((((ticks \div frequency) * Giga) % Word) + ((((ticks % frequency) * Giga) % Word) \div frequency)) % Word
-----------------------------------------------------------------------------
(* Util/Mem.h                                                              *)
\* The bytes that are asked of alloc(), or nothing.
alloc_array(count, elem) ==
    IF elem # 0 /\ count > (Word - 1) \div elem THEN {} ELSE {(count * elem) % Word}
-----------------------------------------------------------------------------
(* Error/: a status is [of, value]; 0 is ok in every enumeration.          *)
make_skl_domain(module, local) ==
    ModuleMax * LocalMax + (module % ModuleMax) * LocalMax + (local % LocalMax)
domain_owner(id) == id \div (ModuleMax * LocalMax)
domain_module(id) == (id \div LocalMax) % ModuleMax
domain_local(id) == id % LocalMax

Subsystems == 1..5 \* call, interface, module, manifest, lifecycle: module id 2
DomainOf(subsystem) == make_skl_domain(2, subsystem)

as_error_value(value) == IF value < Byte \div 2 THEN value ELSE -((Byte - 1) - value) - 1

success == [domain |-> 0, value |-> 0, reserved |-> 0]
is_success(code) == code.value = 0
is_canonical(code) ==
    code.reserved = 0 /\ IF code.value = 0 THEN code.domain = 0 ELSE code.domain # 0
to_error_code(status) ==
    IF status.value = 0 THEN success
    ELSE [domain |-> DomainOf(status.of), value |-> as_error_value(status.value), reserved |-> 0]
Statuses == [of : Subsystems, value : 0..(Byte - 1)]
-----------------------------------------------------------------------------
(* Interface/Declaration.h                                                 *)
VERSION_NUMBER(v) == (v.major % 100) * 10000000 + (v.minor % 100) * 100000 + (v.patch % 100000)

VERSION_EXTRACT(n) == [major |-> n \div 10000000, minor |-> (n \div 100000) % 100, patch |-> n % 100000]

Older(v, w) == \/ v.major < w.major
               \/ v.major = w.major /\ v.minor < w.minor
               \/ v.major = w.major /\ v.minor = w.minor /\ v.patch < w.patch
-----------------------------------------------------------------------------
(* The atomic operations: [memory, returned] after one on the value m.     *)
After(value, result) == [memory |-> value % Byte, returned |-> result]

\* _InterlockedExchangeAdd plus the delta, cast back to the type.
add_fetch(m, delta) == After(m + delta, (m + delta) % Byte)

compare_exchange_value(m, exchange, comparand) == After(IF m = comparand THEN exchange ELSE m, m)
exchange_value(m, value) == After(value, m)

msvc(op, m) ==
    CASE op.name = "load" -> compare_exchange_value(m, 0, 0)
      [] op.name = "store" -> [exchange_value(m, op.value) EXCEPT !.returned = 0]
      [] op.name = "inc" -> add_fetch(m, 1)
      [] op.name = "dec" -> add_fetch(m, Byte - 1)
      [] op.name = "exchange" -> exchange_value(m, op.value)
      \* cas: whether it succeeded, or else the value that `expected` is given
      [] OTHER -> LET r == compare_exchange_value(m, op.value, op.expected)
                  IN [r EXCEPT !.returned = IF @ = op.expected THEN Byte ELSE @]

gcc(op, m) ==
    CASE op.name = "load" -> After(m, m)
      [] op.name = "store" -> After(op.value, 0)
      [] op.name = "inc" -> After(m + 1, (m + 1) % Byte)
      [] op.name = "dec" -> After(m + Byte - 1, (m + Byte - 1) % Byte)
      [] op.name = "exchange" -> After(op.value, m)
      [] OTHER -> IF m = op.expected THEN After(op.value, Byte) ELSE After(m, m)

Operations ==
    [name : {"load", "store", "inc", "dec", "exchange", "cas"},
     value : {0, 1, Byte - 1}, expected : {0, 1, Byte - 1}]
-----------------------------------------------------------------------------
Computations ==
    [kind : {"deadline"}, now : 1..(Word - 1), ms : 0..(Word \div UnitsPerMs)]
    \union [kind : {"ticks"}, ticks : 0..(Word - 1), frequency : Frequencies]
    \union [kind : {"array"}, count : 0..(Word - 1), elem : 0..(Word \div 2)]
    \union [kind : {"status"}, of : Subsystems, value : 0..(Byte - 1)]
    \union [kind : {"version"}, of : Versions]

Compute ==
    /\ word = NoWord
    /\ word' \in Computations
    /\ UNCHANGED <<memory, returned>>

Operate ==
    /\ \E op \in Operations :
          LET g == gcc(op, memory["gcc"])
              m == msvc(op, memory["msvc"])
          IN /\ memory' = [b \in Backends |-> IF b = "gcc" THEN g.memory ELSE m.memory]
             /\ returned' = [b \in Backends |-> IF b = "gcc" THEN g.returned ELSE m.returned]
    /\ UNCHANGED word

WordsNext == Compute \/ Operate
WordsSpec == WordsInit /\ [][WordsNext]_wordVars
-----------------------------------------------------------------------------
\* after_ms() is bounded, a probe has expired at once, and otherwise it expires ms
\* milliseconds from now and not before, as long as that moment is within the clock:
\* a deadline beyond it wraps.
DeadlineOnTime ==
    Kind("deadline") =>
        LET at == after_ms(word.now, word.ms)
            moment == word.now + word.ms * UnitsPerMs
        IN moment < Word =>
               /\ bounded(at)
               /\ \A later \in word.now..(Word - 1) : expired(at, later) <=> later >= moment

\* monotonic_now_ns() is exact whenever the result fits, although ticks * 10^9 does
\* not (Deadline.h:72), and a counter slower than 1 kHz still has one unit per ms.
NanosecondsExact ==
    Kind("ticks") =>
        /\ (word.ticks * Giga) \div word.frequency < Word
              => monotonic_now_ns(word.ticks, word.frequency) = (word.ticks * Giga) \div word.frequency
        /\ counter_units(1, word.frequency) > 0

\* A successful alloc_array() has room for every element.
ArrayHasRoom ==
    Kind("array") => \A bytes \in alloc_array(word.count, word.elem) : bytes = word.count * word.elem

\* "Unknown values keep their numeric identity" (Mapping.h:30): whatever the status
\* of whichever subsystem, its code is canonical, is a success only for ok, and no
\* other status has it; a domain id gives back its module and its local id.
ErrorsKeepIdentity ==
    Kind("status") =>
        LET status == [of |-> word.of, value |-> word.value]
            code == to_error_code(status)
        IN /\ is_canonical(code) /\ (is_success(code) <=> status.value = 0)
           /\ \A other \in Statuses : (to_error_code(other) = code /\ status.value # 0) => other = status
           /\ domain_module(DomainOf(word.of)) = 2 /\ domain_local(DomainOf(word.of)) = word.of
           /\ domain_owner(DomainOf(word.of)) = 1

\* A packed version unpacks to itself, and versions compare as their numbers do.
VersionsOrdered ==
    Kind("version") =>
        /\ VERSION_EXTRACT(VERSION_NUMBER(word.of)) = word.of
        /\ \A w \in Versions : Older(word.of, w) <=> VERSION_NUMBER(word.of) < VERSION_NUMBER(w)

\* After any sequence of operations the two backends hold the same value and said
\* the same: inc and dec the value after the update, a failed exchange the value seen.
BackendsAgree == memory["gcc"] = memory["msvc"] /\ returned["gcc"] = returned["msvc"]

\* The fixed-width computations give what they stand for up to the width of the
\* word, and the two atomic backends cannot be told apart.
WordsExact ==
    /\ DeadlineOnTime
    /\ NanosecondsExact
    /\ ArrayHasRoom
    /\ ErrorsKeepIdentity
    /\ VersionsOrdered
    /\ BackendsAgree
=============================================================================
