--------------------------- MODULE ArgumentsProofs ---------------------------
(***************************************************************************)
(* The properties of Arguments for any widths and any literals.            *)
(***************************************************************************)
EXTENDS Arguments, TLAPS

\* The remainder of a natural number is a natural number below the modulus and
\* no greater than the number itself.
LEMMA Remainder ==
  ASSUME NEW n \in Nat, NEW m \in Nat, m > 0
  PROVE  n % m \in 0..(m - 1) /\ n % m <= n
<1>1. n % m \in 0..(m - 1)
  OBVIOUS
<1>2. n \div m \in Nat /\ n = m * (n \div m) + (n % m)
  OBVIOUS
<1>3. m * (n \div m) >= 0
  BY <1>2
<1> QED  BY <1>1, <1>2, <1>3

\* The lower bits of an integer are within their width, signed or not.
LEMMA Cut ==
  ASSUME NEW n \in Int
  PROVE  n % Narrow \in 0..(Narrow - 1) /\ ToInt(n) \in Int32
<1>1. n % Narrow \in 0..(Narrow - 1)
  BY WidthsAssumption
<1> QED  BY <1>1, WidthsAssumption DEF ToInt, Int32

\* A number up to Safe is the double it is rounded to, and one beyond is not
\* rounded to a number below.
LEMMA RoundedFacts ==
  ASSUME NEW n \in Int
  PROVE  /\ Rounded(n) \in Int
         /\ -Safe < Rounded(n) /\ Rounded(n) < Safe => Rounded(n) = n
BY WidthsAssumption DEF Rounded

\* uint64_arg returns what was written, if that is an integer of 64 bits, or
\* throws.
LEMMA Uint64Facts ==
  ASSUME NEW l \in Literal, NEW n \in Uint64(l)
  PROVE  n \in 0..(Wide - 1) /\ n = l.n /\ l.form \in {"bigint", "number"}
<1>1. l.n \in Int /\ l.form \in {"bigint", "number", "fraction", "nan", "other"}
  BY WrittenAssumption DEF Literal
<1>2. CASE l.form = "bigint"
  BY <1>1, <1>2, WidthsAssumption DEF Uint64, IsNumber
<1>3. CASE l.form = "fraction"
  <2>1. Twice(l) = 2 * l.n + 1
    BY <1>3 DEF Twice
  <2>2. Twice(l) = 2 * n /\ n = Twice(l) \div 2
    BY <1>3 DEF Uint64
  <2> QED  BY <1>1, <2>1, <2>2
<1>4. CASE l.form \notin {"bigint", "fraction"}
  <2>1. l.form = "number" /\ n = Twice(l) \div 2 /\ Twice(l) = 2 * n
          /\ 0 <= Twice(l) /\ Twice(l) <= 2 * (Safe - 1)
    BY <1>4 DEF Uint64, IsNumber
  <2>2. Twice(l) = 2 * Rounded(l.n)
    BY <1>4 DEF Twice
  <2>3. Rounded(l.n) \in Int /\ n = Rounded(l.n)
    BY <2>1, <2>2, <1>1, RoundedFacts
  <2> QED  BY <2>1, <2>2, <2>3, <1>1, RoundedFacts, WidthsAssumption
<1> QED  BY <1>1, <1>2, <1>3, <1>4

\* int64_arg does the same for signed integers.
LEMMA Int64Facts ==
  ASSUME NEW l \in Literal, NEW n \in Int64(l)
  PROVE  n \in Int /\ -Wide <= 2 * n /\ 2 * n < Wide
           /\ n = l.n /\ l.form \in {"bigint", "number"}
<1>1. l.n \in Int /\ l.form \in {"bigint", "number", "fraction", "nan", "other"}
  BY WrittenAssumption DEF Literal
<1>2. CASE l.form = "bigint"
  BY <1>1, <1>2, WidthsAssumption DEF Int64, IsNumber
<1>3. CASE l.form = "fraction"
  <2>1. Twice(l) = 2 * l.n + 1
    BY <1>3 DEF Twice
  <2>2. Twice(l) = 2 * n /\ n = Twice(l) \div 2
    BY <1>3 DEF Int64
  <2> QED  BY <1>1, <2>1, <2>2
<1>4. CASE l.form \notin {"bigint", "fraction"}
  <2>1. l.form = "number" /\ n = Twice(l) \div 2 /\ Twice(l) = 2 * n
          /\ -2 * (Safe - 1) <= Twice(l) /\ Twice(l) <= 2 * (Safe - 1)
    BY <1>4 DEF Int64, IsNumber
  <2>2. Twice(l) = 2 * Rounded(l.n)
    BY <1>4 DEF Twice
  <2>3. Rounded(l.n) \in Int /\ n = Rounded(l.n)
    BY <2>1, <2>2, <1>1, RoundedFacts
  <2> QED  BY <2>1, <2>2, <2>3, <1>1, RoundedFacts, WidthsAssumption
<1> QED  BY <1>1, <1>2, <1>3, <1>4

\* The time of a lock keeps its milliseconds.
LEMMA TimevalFacts ==
  ASSUME NEW n \in Nat
  PROVE  /\ Timeval(n) \in [sec : Nat, usec : {1000 * k : k \in 0..999}]
         /\ 1000 * Timeval(n).sec + Timeval(n).usec \div 1000 = n
<1>1. /\ n \div 1000 \in Nat /\ n % 1000 \in 0..999
      /\ n = 1000 * (n \div 1000) + (n % 1000)
  OBVIOUS
<1>2. ((n % 1000) * 1000) \div 1000 = n % 1000
  BY <1>1
<1> QED  BY <1>1, <1>2 DEF Timeval

Invariant == TypeOK /\ ExactOrRefused /\ QueueIsBounded /\ LockLastsAsAsked

\* The four invariants of Arguments hold for any widths and literals.
THEOREM Converts == Spec => []Invariant
<1>1. Init => Invariant
  BY DEF Init, Invariant, TypeOK, Params, ExactOrRefused, QueueIsBounded,
         LockLastsAsAsked
<1>2. Invariant /\ [Next]_vars => Invariant'
  <2> SUFFICES ASSUME Invariant, [Next]_vars PROVE Invariant'
    OBVIOUS
  <2> USE DEF Invariant, TypeOK, Params, ExactOrRefused, QueueIsBounded,
              LockLastsAsAsked
  <2>1. CASE UNCHANGED vars
    BY <2>1 DEF vars
  <2>2. ASSUME NEW l \in Literal,
               PassOffset(l) \/ PassId(l) \/ PassSnapshot(l) \/ PassQueueSize(l)
                 \/ PassSeconds(l) \/ PassOrder(l) \/ PassLockFlags(l)
                 \/ PassDuration(l) \/ PassIoFlags(l) \/ PassLockMode(l)
                 \/ PassAdvanced(l)
        PROVE  Invariant'
    <3>1. wrote' = l
      BY <2>2 DEF PassOffset, PassId, PassSnapshot, PassQueueSize, PassSeconds,
                  PassOrder, PassLockFlags, PassDuration,
                  PassIoFlags, PassLockMode, PassAdvanced, Pass
    <3>2. wrote' \in [form : {"bigint", "number", "fraction", "nan", "other"}, n : Int]
      BY <3>1, WrittenAssumption DEF Literal
    <3>3. CASE PassOffset(l)
      BY <3>1, <3>2, <3>3, Uint64Facts DEF PassOffset, Pass
    <3>4. CASE PassId(l)
      BY <3>1, <3>2, <3>4, Int64Facts DEF PassId, Pass
    <3>5. CASE PassSnapshot(l)
      BY <3>1, <3>2, <3>5, Uint64Facts DEF PassSnapshot, Pass
    <3>6. CASE PassQueueSize(l)
      <4>1. ASSUME NEW n \in Uint64(l)
            PROVE  n % Narrow \in 0..(Narrow - 1) /\ n % Narrow <= l.n
        BY Uint64Facts, Remainder, WidthsAssumption
      <4> QED  BY <3>1, <3>2, <3>6, <4>1, WidthsAssumption DEF PassQueueSize, Pass
    <3>7. CASE PassSeconds(l)
      <4>1. ASSUME NEW n \in Uint64(l) PROVE n % Narrow \in 0..(Narrow - 1)
        BY Uint64Facts, Cut
      <4> QED  BY <3>1, <3>2, <3>7, <4>1 DEF PassSeconds, Pass
    <3>8. CASE PassOrder(l)
      <4>1. ASSUME NEW n \in Uint64(l) PROVE ToInt(n) \in Int32
        BY Uint64Facts, Cut
      <4> QED  BY <3>1, <3>2, <3>8, <4>1 DEF PassOrder, Pass
    <3>9. CASE PassLockFlags(l)
      <4>1. ASSUME NEW n \in Uint64(l) PROVE n % Byte \in 0..(Byte - 1)
        BY Uint64Facts, Remainder, WidthsAssumption
      <4> QED  BY <3>1, <3>2, <3>9, <4>1 DEF PassLockFlags, Pass
    <3>10. CASE PassDuration(l)
      <4>1. ASSUME NEW n \in Uint64(l)
            PROVE  /\ Timeval(n) \in [sec : Nat, usec : {1000 * k : k \in 0..999}]
                   /\ 1000 * Timeval(n).sec + Timeval(n).usec \div 1000 = l.n
        <5>1. n \in Nat /\ n = l.n
          BY Uint64Facts
        <5> QED  BY <5>1, TimevalFacts
      <4> QED  BY <3>1, <3>2, <3>10, <4>1 DEF PassDuration, Pass
    <3>11. CASE PassIoFlags(l)
      <4>1. ASSUME NEW n \in Int64(l) PROVE ToInt(n) \in Int32
        BY Int64Facts, Cut
      <4> QED  BY <3>1, <3>2, <3>11, <4>1 DEF PassIoFlags, Pass
    <3>12. CASE PassLockMode(l)
      <4>1. ASSUME NEW n \in Int64(l) PROVE n % Narrow \in 0..(Narrow - 1)
        BY Int64Facts, Cut
      <4> QED  BY <3>1, <3>2, <3>12, <4>1 DEF PassLockMode, Pass
    <3>13. CASE PassAdvanced(l)
      <4>1. ASSUME NEW n \in Uint64(l) PROVE n % Narrow \in 0..(Narrow - 1)
        BY Uint64Facts, Cut
      <4> QED  BY <3>1, <3>2, <3>13, <4>1 DEF PassAdvanced, Pass
    <3> QED
      BY <2>2, <3>3, <3>4, <3>5, <3>6, <3>7, <3>8, <3>9, <3>10, <3>11, <3>12, <3>13
  <2> QED  BY <2>1, <2>2 DEF Next
<1> QED  BY <1>1, <1>2, PTL DEF Spec

\* Every parameter reaches Ceph within its C type.
THEOREM TypeCorrect == Spec => []TypeOK
BY Converts, PTL DEF Invariant

\* What is not cut reaches Ceph as it was written or not at all, for any width.
THEOREM Exact == Spec => []ExactOrRefused
BY Converts, PTL DEF Invariant

\* No client makes a subscription without a limit to its queue.
THEOREM QueuesBounded == Spec => []QueueIsBounded
BY Converts, PTL DEF Invariant

\* A lock lasts the milliseconds that were asked for.
THEOREM LocksLast == Spec => []LockLastsAsAsked
BY Converts, PTL DEF Invariant

=============================================================================
