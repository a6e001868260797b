------------------------------ MODULE Arguments ------------------------------
(***************************************************************************)
(* How a number gets from JavaScript to Ceph: the checks of uint64_arg and *)
(* int64_arg and what the methods make of their result before the call,    *)
(* which is cut to the width of the parameter in several places.           *)
(*                                                                         *)
(* The widths are constants: nothing below depends on their being 64, 53,  *)
(* 32 and 8 bits, and TLC can only count with small ones.  What a client   *)
(* writes is a literal: a bigint, a number, which JavaScript first rounds  *)
(* to a double, or anything else.  A conversion returns a set: of the one  *)
(* value it passes on, or empty when it throws.                            *)
(***************************************************************************)
EXTENDS Integers

CONSTANTS Wide,     \* 2^64: the values of uint64_t
          Safe,     \* 2^53: from here on doubles skip integers
          Narrow,   \* 2^32: the values of uint32_t and of int
          Byte,     \* 2^8: the values of uint8_t
          Written   \* the integers that clients write

ASSUME WidthsAssumption ==
  /\ {Wide, Safe, Narrow, Byte} \subseteq Nat
  /\ 1 < Byte /\ Byte < Narrow /\ Narrow < Safe /\ 2 * Safe < Wide
  /\ Narrow % 2 = 0 /\ Wide % 2 = 0

ASSUME WrittenAssumption == Written \subseteq Int

VARIABLES wrote,    \* the literal of the last call
          param,    \* the parameter it was written for
          ceph      \* what Ceph gets for it: empty if the call threw

vars == <<wrote, param, ceph>>

Params == {"offset", "id", "snapshot", "queueSize", "seconds", "order",
           "lockFlags", "duration", "ioFlags", "lockMode", "advanced"}

\* A fraction is a number halfway to the next integer, as far as doubles hold
\* halves; "nan" stands for NaN, "other" for a value of another type.
Literal ==
  {l \in [form : {"bigint", "number", "fraction", "nan", "other"}, n : Written] :
     l.form = "fraction" => 2 * l.n > -Safe /\ 2 * l.n + 1 < Safe}

\* The double that JavaScript makes of an integer: from Safe on every second
\* one only, ties to the multiple of four.  (Larger steps beyond 2 * Safe make
\* no difference: all of these are refused.)
Rounded(n) ==
  IF (-Safe <= n /\ n <= Safe) \/ n % 2 = 0 THEN n
  ELSE IF (n - 1) % 4 = 0 THEN n - 1 ELSE n + 1

\* Twice the value of a number, an integer for fractions too.
Twice(l) == IF l.form = "fraction" THEN 2 * l.n + 1 ELSE 2 * Rounded(l.n)

IsNumber(l) == l.form \in {"number", "fraction"}

\* Mutant: the bound is one too high, 2^53, which is also 2^53 + 1 rounded.
Uint64UpToSafe(l) ==
  {n \in {l.n} : l.form = "bigint" /\ 0 <= n /\ n < Wide}
    \cup
  {n \in {Twice(l) \div 2} :
     IsNumber(l) /\ 0 <= Twice(l) /\ Twice(l) <= 2 * Safe /\ Twice(l) = 2 * n}

\* uint64_arg.  NaN is refused whatever its cast to uint64_t gives: it differs
\* from every value.
Uint64(l) ==
  {n \in {l.n} : l.form = "bigint" /\ 0 <= n /\ n < Wide}
    \cup
  {n \in {Twice(l) \div 2} :
     IsNumber(l) /\ 0 <= Twice(l) /\ Twice(l) <= 2 * (Safe - 1) /\ Twice(l) = 2 * n}

\* int64_arg.
Int64(l) ==
  {n \in {l.n} : l.form = "bigint" /\ -Wide <= 2 * n /\ 2 * n < Wide}
    \cup
  {n \in {Twice(l) \div 2} :
     /\ IsNumber(l)
     /\ -2 * (Safe - 1) <= Twice(l) /\ Twice(l) <= 2 * (Safe - 1)
     /\ Twice(l) = 2 * n}

\* static_cast<int>: the lower bits, with a sign.
ToInt(n) == IF 2 * (n % Narrow) < Narrow THEN n % Narrow ELSE (n % Narrow) - Narrow

\* Mutant: the milliseconds that make no full second are lost.
TimevalSeconds(n) == [sec |-> n \div 1000, usec |-> 0]

\* The timeval of a lock.
Timeval(n) == [sec |-> n \div 1000, usec |-> (n % 1000) * 1000]

-----------------------------------------------------------------------------

Init == wrote = [form |-> "other", n |-> 0] /\ param = "offset" /\ ceph = {}

\* The call of a method that has one of the parameters below.
Pass(name, l, values) == wrote' = l /\ param' = name /\ ceph' = values

\* Offsets, lengths, sizes, features, delays, notify timeouts, omap and
\* metadata limits, and of the advanced operations the stripe of sparsify and the
\* features to update: as they are.
PassOffset(l) == Pass("offset", l, Uint64(l))

\* The id of a pool.
PassId(l) == Pass("id", l, Int64(l))

\* setReadSnapshot.
PassSnapshot(l) == Pass("snapshot", l, Uint64(l))

\* Mutant: the queue is compared with zero before it is cut.
PassQueueUncut(l) ==
  Pass("queueSize", l, {n % Narrow : n \in Uint64(l) \ {0}})

\* The queue of a subscription: cut to 32 bits by the method, and only then
\* compared with zero by the Create of the subscription.
PassQueueSize(l) ==
  Pass("queueSize", l, {q \in {n % Narrow : n \in Uint64(l)} : q # 0})

\* The timeout of a watch and the expiry of a blocklist entry.
PassSeconds(l) == Pass("seconds", l, {n % Narrow : n \in Uint64(l)})

\* The order of a new image or clone.
PassOrder(l) == Pass("order", l, {ToInt(n) : n \in Uint64(l)})

\* The flags of an advisory lock.
PassLockFlags(l) == Pass("lockFlags", l, {n % Byte : n \in Uint64(l)})

\* The duration of an advisory lock, in milliseconds.
PassDuration(l) == Pass("duration", l, {Timeval(n) : n \in Uint64(l)})

\* The flags of a read or write of an image.
PassIoFlags(l) == Pass("ioFlags", l, {ToInt(n) : n \in Int64(l)})

\* The mode of an image lock, an enum of C: the cast keeps the lower 32 bits, as
\* compilers do with what the enum does not name.
PassLockMode(l) == Pass("lockMode", l, {n % Narrow : n \in Int64(l)})

\* The modes, formats and algorithms of the advanced operations, enums too.
PassAdvanced(l) == Pass("advanced", l, {n % Narrow : n \in Uint64(l)})

Next ==
  \E l \in Literal :
    \/ PassOffset(l) \/ PassId(l) \/ PassSnapshot(l) \/ PassQueueSize(l)
    \/ PassSeconds(l) \/ PassOrder(l) \/ PassLockFlags(l) \/ PassDuration(l)
    \/ PassIoFlags(l) \/ PassLockMode(l) \/ PassAdvanced(l)

Spec == Init /\ [][Next]_vars

-----------------------------------------------------------------------------

Int32 == {n \in Int : -Narrow <= 2 * n /\ 2 * n < Narrow}

\* Each parameter reaches Ceph within the C type it is declared with.
TypeOK ==
  /\ wrote \in [form : {"bigint", "number", "fraction", "nan", "other"}, n : Int]
  /\ param \in Params
  /\ ceph \subseteq
       CASE param \in {"offset", "snapshot"} -> 0..(Wide - 1)
         [] param = "id" -> {n \in Int : -Wide <= 2 * n /\ 2 * n < Wide}
         [] param \in {"queueSize", "seconds", "lockMode", "advanced"} ->
              0..(Narrow - 1)
         [] param \in {"order", "ioFlags"} -> Int32
         [] param = "lockFlags" -> 0..(Byte - 1)
         [] param = "duration" -> [sec : Nat, usec : {1000 * k : k \in 0..999}]

\* An offset, size or id that is not cut reaches Ceph as the client wrote it or
\* not at all: uint64_arg and int64_arg refuse not only fractions, NaN and what
\* does not fit, but every double that may be another integer rounded.
ExactOrRefused ==
  param \in {"offset", "id", "snapshot"} =>
    ceph \subseteq {n \in {wrote.n} : wrote.form \in {"bigint", "number"}}

\* The queue of a subscription is bounded, and by no more than was asked for:
\* Node-API takes 0 for a queue without a limit, and 2^32 is cut to it.
QueueIsBounded ==
  param = "queueSize" => \A q \in ceph : 0 < q /\ q < Narrow /\ q <= wrote.n

\* A lock lasts exactly the milliseconds that were asked for; in particular none
\* but 0 becomes the pair of zeros that Ceph takes for a lock without an end.
LockLastsAsAsked ==
  param = "duration" =>
    \A tv \in ceph : 1000 * tv.sec + tv.usec \div 1000 = wrote.n
=============================================================================
