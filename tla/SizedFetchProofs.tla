-------------------------- MODULE SizedFetchProofs ---------------------------
(***************************************************************************)
(* The safety of SizedFetch for any sizes, buffers and replacements.       *)
(***************************************************************************)
EXTENDS SizedFetch, TLAPS

\* The buffers that getXattr tries.
Tries ==
  CHOOSE tries \in SUBSET (First..Limit) :
    First \in tries /\ \A b \in tries : b = Limit \/ 2 * b \in tries

LEMMA TriesFacts ==
  /\ Tries \subseteq First..Limit /\ First \in Tries
  /\ \A b \in Tries : b = Limit \/ 2 * b \in Tries
BY LimitAssumption DEF Tries

\* What the buffer is made for while the fetch is on its way, and what it was
\* made for when the fetch ended with an error.
Buffers ==
  /\ kind \in Listings /\ at = "fill" =>
       buffer = IF kind = "snaps" THEN asked.size + 1 ELSE asked.size
  /\ kind = "fixed" => buffer = First
  /\ kind = "xattr" => buffer \in Tries
  /\ at = "ask" => kind \in Listings

\* A value of the same version is the same.
Versions ==
  /\ asked.version <= value.version
  /\ asked.version = value.version => asked = value

\* The history keeps up with the value.
Longest == value.size <= longest

IInv ==
  /\ TypeOK /\ Buffers /\ Versions /\ Longest
  /\ WholeOrError /\ RefusesOnlyTooLong /\ BufferInProportion

\* The three kinds of answers.
LEMMA Answers ==
  ASSUME TypeOK
  PROVE  /\ None.result = "none"
         /\ \A n : /\ Read(n).result = "read" /\ Read(n).of = value
                   /\ Read(n).decoded = n /\ Read(n) # None
                   /\ n \in Nat => Read(n) \in [result : {"read"}, of : Value, decoded : Nat]
         /\ \A e \in {"ERANGE", "closed"} :
              /\ Error(e).result = e /\ Error(e).of = value /\ Error(e) # None
              /\ Error(e) \in [result : {"ERANGE", "closed"}, of : Value]
BY DEF TypeOK, None, Read, Error

LEMMA Starts == Init => IInv
<1> SUFFICES ASSUME Init PROVE IInv
  OBVIOUS
<1>1. kind \in Kinds /\ kind \in AllKinds /\ value \in Value /\ value.version = 0
        /\ asked = value /\ answer = None /\ answer.result = "none"
        /\ longest = value.size /\ longest \in Sizes /\ longest \in Nat
  BY FetchAssumption DEF Init, Value, None
<1>2. TypeOK
  BY <1>1, FetchAssumption DEF Init, TypeOK
<1>3. Buffers
  BY <1>1, TriesFacts DEF Init, Buffers, AllKinds, Listings
<1>4. Versions /\ Longest
  BY <1>1 DEF Versions, Longest, Value
<1>5. WholeOrError /\ RefusesOnlyTooLong
  BY <1>1 DEF WholeOrError, RefusesOnlyTooLong
<1>6. BufferInProportion
  <2>1. buffer <= First
    BY FetchAssumption DEF Init
  <2>2. kind = "xattr" => buffer \in First..Limit
    BY <1>3, TriesFacts DEF Buffers
  <2> QED  BY <2>1, <2>2, FetchAssumption DEF BufferInProportion
<1> QED  BY <1>2, <1>3, <1>4, <1>5, <1>6 DEF IInv

\* A step that answers keeps the invariant if its answer is as promised.
LEMMA AnswerKeeps ==
  ASSUME IInv, NEW result, Answer(result), at # "done",
         result # None,
         result \in [result : {"read"}, of : Value, decoded : Nat]
                      \cup [result : {"ERANGE", "closed"}, of : Value],
         result.result = "read" /\ result.decoded # result.of.size =>
           \/ /\ kind = "pools"
              /\ result.of.version > asked.version /\ result.of.size > asked.size
           \/ /\ kind = "snaps"
              /\ result.decoded = asked.size + 1 /\ result.of.size <= asked.size,
         result.result = "ERANGE" =>
           CASE kind \in Listings \ {"pools"} -> result.of.version > asked.version
                                                  /\ result.of.size > asked.size
             [] kind = "xattr" -> result.of.size > Limit
             [] kind = "fixed" -> result.of.size > First
             [] OTHER          -> FALSE
  PROVE  IInv'
<1>1. TypeOK'
  BY DEF IInv, TypeOK, Answer
<1>2. Buffers' /\ Versions' /\ Longest' /\ BufferInProportion'
  BY DEF IInv, Buffers, Versions, Longest, BufferInProportion, Answer
<1>3. WholeOrError'
  BY DEF WholeOrError, Answer
<1>4. RefusesOnlyTooLong'
  BY DEF RefusesOnlyTooLong, Answer
<1> QED  BY <1>1, <1>2, <1>3, <1>4 DEF IInv

\* A list that does not fit the room that was asked for is of a later version, and one
\* that fits is no longer than it was.
LEMMA LongerIsLater ==
  ASSUME IInv, Fill, kind \in Listings
  PROVE  /\ ~Fits => value.version > asked.version /\ value.size > asked.size
         /\ Fits => value.size <= asked.size
<1>1. /\ buffer = IF kind = "snaps" THEN asked.size + 1 ELSE asked.size
      /\ asked \in Value /\ value \in Value
  BY DEF IInv, TypeOK, Buffers, Fill
<1>2. /\ asked.size \in Nat /\ value.size \in Nat
      /\ asked.version \in Nat /\ value.version \in Nat
  BY <1>1, FetchAssumption DEF Value
<1>3. Fits <=> value.size <= asked.size
  BY <1>1, <1>2 DEF Fits, Needed
<1>4. value.size # asked.size => asked # value
  OBVIOUS
<1> QED  BY <1>2, <1>3, <1>4 DEF IInv, Versions

\* Another buffer keeps the invariant if it may be made for the kind and is in
\* proportion to the value.
LEMMA RetryKeeps ==
  ASSUME IInv, NEW size \in Nat, Retry(size), at = "fill",
         kind \notin Listings \cup {"fixed"}, kind = "xattr" => size \in Tries,
         size <= 2 * value.size
  PROVE  IInv'
<1>1. TypeOK' /\ Buffers' /\ Versions' /\ Longest'
  BY DEF IInv, TypeOK, Buffers, Versions, Longest, Retry
<1>2. WholeOrError' /\ RefusesOnlyTooLong'
  BY DEF IInv, WholeOrError, RefusesOnlyTooLong, Retry
<1>3. BufferInProportion'
  <2>1. value.size \in Nat /\ longest \in Nat /\ value.size <= longest
    BY FetchAssumption DEF IInv, TypeOK, Longest, Value
  <2>2. size <= 2 * longest
    BY <2>1
  <2>3. kind = "xattr" => size <= Limit
    BY TriesFacts, FetchAssumption
  <2> QED  BY <2>2, <2>3 DEF BufferInProportion, Retry
<1> QED  BY <1>1, <1>2, <1>3 DEF IInv

\* Proportions of a shorter value are proportions of a longer one.
LEMMA InProportion ==
  ASSUME NEW b \in Nat, NEW m \in Nat, NEW n \in Nat, m <= n, b <= 2 * m
  PROVE  b <= 2 * n
OBVIOUS

LEMMA Preserves == IInv /\ [Next]_vars => IInv'
<1> SUFFICES ASSUME IInv, [Next]_vars PROVE IInv'
  OBVIOUS
<1>0. /\ TypeOK /\ value \in Value /\ value.size \in Nat /\ buffer \in Nat
      /\ longest \in Sizes /\ longest \in Nat /\ asked.size \in Nat
  BY FetchAssumption DEF IInv, TypeOK, Value
<1>1. CASE UNCHANGED vars
  BY <1>1 DEF vars, IInv, TypeOK, Buffers, Versions, Longest, WholeOrError,
              RefusesOnlyTooLong, BufferInProportion
<1>2. CASE FindClosed
  BY <1>0, <1>2, Answers, AnswerKeeps DEF FindClosed
<1>3. CASE Ask
  <2>1. kind \in Listings /\ answer = None /\ answer' = None
    BY <1>3 DEF Ask, IInv, Buffers, TypeOK
  <2>2. TypeOK' /\ Longest'
    BY <1>0, <1>3, <2>1 DEF Ask, Needed, IInv, TypeOK, Longest
  <2>3. Buffers' /\ Versions'
    BY <1>0, <1>3, <2>1 DEF Ask, Needed, Buffers, Versions, Value, Listings
  <2>4. WholeOrError' /\ RefusesOnlyTooLong'
    BY <2>1 DEF WholeOrError, RefusesOnlyTooLong, None
  <2>5. BufferInProportion'
    <3>1. kind' # "xattr" /\ buffer' <= value.size + 1 /\ buffer' \in Nat
            /\ longest' = longest
      BY <1>0, <1>3, <2>1 DEF Ask, Needed, Listings
    <3>2. value.size <= longest
      BY DEF IInv, Longest
    <3> QED  BY <1>0, <3>1, <3>2, FetchAssumption DEF BufferInProportion
  <2> QED  BY <2>2, <2>3, <2>4, <2>5 DEF IInv
<1>4. CASE Fit
  <2>1. at # "done" /\ Answer(Read(value.size))
    BY <1>4 DEF Fit, Fill
  <2> QED  BY <1>0, <2>1, Answers, AnswerKeeps
<1>5. CASE AskNone
  <2>1. at # "done" /\ Answer(Read(0)) /\ value.size = 0
    BY <1>5 DEF AskNone
  <2> QED  BY <1>0, <2>1, Answers, AnswerKeeps
<1>6. CASE FitSnaps
  <2>1. at # "done" /\ Answer(Read(buffer)) /\ kind = "snaps" /\ kind \in Listings
    BY <1>6 DEF FitSnaps, Fill, Listings
  <2>2. value.size <= asked.size
    BY <1>6, <2>1, LongerIsLater DEF FitSnaps
  <2>3. buffer = asked.size + 1
    BY <1>6, <2>1 DEF FitSnaps, Fill, IInv, Buffers
  <2> QED  BY <1>0, <2>1, <2>2, <2>3, Answers, AnswerKeeps
<1>7. ASSUME NEW n \in 0..(buffer + 1), Outgrown(n) PROVE IInv'
  <2>1. at # "done" /\ Answer(Read(n)) /\ kind = "pools" /\ n \in Nat
    BY <1>0, <1>7 DEF Outgrown, Fill
  <2>2. value.version > asked.version /\ value.size > asked.size
    BY <1>7, LongerIsLater DEF Outgrown, Listings
  <2> QED  BY <1>0, <2>1, <2>2, Answers, AnswerKeeps
<1>8. CASE Refuse
  <2>1. /\ at # "done" /\ Answer(Error("ERANGE"))
        /\ kind \in (Listings \ {"pools"}) \cup {"fixed"}
    BY <1>8 DEF Refuse, Fill
  <2>2. kind \in Listings => value.version > asked.version /\ value.size > asked.size
    BY <1>8, LongerIsLater DEF Refuse
  <2>3. kind = "fixed" => value.size > First
    BY <1>0, <1>8 DEF Refuse, Fits, Needed, IInv, Buffers
  <2>4. "fixed" \notin Listings /\ "xattr" \notin Listings
    BY DEF Listings
  <2> QED  BY <1>0, <2>1, <2>2, <2>3, <2>4, Answers, AnswerKeeps
<1>9. CASE GiveUp
  <2>1. at # "done" /\ Answer(Error("ERANGE")) /\ kind = "xattr"
    BY <1>9 DEF GiveUp, Fill
  <2>2. value.size > Limit
    <3>1. buffer \in Tries /\ 2 * buffer > Limit
      BY <1>9 DEF GiveUp, IInv, Buffers
    <3>2. buffer = Limit
      BY <3>1, TriesFacts, FetchAssumption
    <3> QED  BY <1>0, <1>9, <3>2 DEF GiveUp, Fits, Needed
  <2>3. "xattr" \notin Listings
    BY DEF Listings
  <2> QED  BY <1>0, <2>1, <2>2, <2>3, Answers, AnswerKeeps
<1>10. CASE DoubleConfig
  BY <1>0, <1>10, RetryKeeps DEF DoubleConfig, Fill, Fits, Needed, Listings
<1>11. CASE DoubleXattr
  <2>1. buffer \in Tries /\ 2 * buffer <= Limit
    BY <1>11 DEF DoubleXattr, IInv, Buffers
  <2>2. 2 * buffer \in Tries
    BY <2>1, <1>0, TriesFacts, FetchAssumption
  <2> QED  BY <1>0, <1>11, <2>2, RetryKeeps DEF DoubleXattr, Fill, Fits, Needed, Listings
<1>12. ASSUME NEW actual \in {buffer, value.size}, GrowMetadata(actual) PROVE IInv'
  BY <1>0, <1>12, RetryKeeps DEF GrowMetadata, Fill, Fits, Needed, Listings
<1>13. CASE Close
  BY <1>13 DEF Close, IInv, TypeOK, Buffers, Versions, Longest, WholeOrError,
               RefusesOnlyTooLong, BufferInProportion
<1>14. ASSUME NEW size \in Sizes, Replace(size) PROVE IInv'
  <2>1. TypeOK'
    BY <1>0, <1>14 DEF Replace, IInv, TypeOK, Value
  <2>2. Versions'
    BY <1>0, <1>14 DEF Replace, IInv, Versions, TypeOK, Value
  <2>3. Buffers' /\ WholeOrError' /\ RefusesOnlyTooLong'
    BY <1>14 DEF Replace, IInv, Buffers, WholeOrError, RefusesOnlyTooLong
  <2>4. /\ longest' \in Nat /\ longest <= longest' /\ value'.size <= longest'
        /\ buffer' = buffer /\ kind' = kind
    BY <1>0, <1>14, FetchAssumption DEF Replace
  <2>5. BufferInProportion'
    <3>1. longest \in Nat /\ longest' \in Nat /\ longest <= longest' /\ buffer \in Nat
      BY <1>0, <2>4
    <3>2. buffer <= 2 * longest => buffer <= 2 * longest'
      BY <3>1, InProportion
    <3>3. kind = "xattr" => buffer <= Limit
      BY DEF IInv, BufferInProportion
    <3>4. buffer <= First \/ buffer <= 2 * longest
      BY DEF IInv, BufferInProportion
    <3> QED  BY <2>4, <3>2, <3>3, <3>4 DEF BufferInProportion
  <2>6. Longest'
    BY <2>4 DEF Longest
  <2> QED  BY <2>1, <2>2, <2>3, <2>5, <2>6 DEF IInv
<1> QED
  BY <1>1, <1>2, <1>3, <1>4, <1>5, <1>6, <1>7, <1>8, <1>9, <1>10,
     <1>11, <1>12, <1>13, <1>14
     DEF Next, Step

\* The inductive invariant: what each buffer was made for, and that a value of
\* the same version is the same.
THEOREM Invariant == Spec => []IInv
BY Starts, Preserves, PTL DEF Spec

\* Every variable of a fetch keeps its type.
THEOREM TypeCorrect == Spec => []TypeOK
BY Invariant, PTL DEF IInv

\* cluster.cpp:176, rbd.cpp:71, 89, 157, 167.  What a fetch resolves with is whole, for
\* any sizes and replacements, but for a list of pools that grew; a list of snapshots is
\* followed by the end of its buffer.
THEOREM ResolvesWhole == Spec => []WholeOrError
BY Invariant, PTL DEF IInv

\* What a fetch refuses for its size is too long.
THEOREM RefusalsAreJust == Spec => []RefusesOnlyTooLong
BY Invariant, PTL DEF IInv

\* cluster.cpp:112, rbd.cpp:164, io_context.cpp:148.  However the value is replaced and
\* whatever size librbd reports, no buffer is out of proportion to the value or, for an
\* xattr, above the limit.
THEOREM BuffersInProportion == Spec => []BufferInProportion
BY Invariant, PTL DEF IInv

=============================================================================
