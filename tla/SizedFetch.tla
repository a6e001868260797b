------------------------------ MODULE SizedFetch -----------------------------
(***************************************************************************)
(* Reads of values whose size is not known before: the client may ask for  *)
(* the size first, try with larger and larger buffers, or trust in a fixed *)
(* one, while others replace the value between its native calls and this   *)
(* client may close the handle where it is not locked.                     *)
(*                                                                         *)
(*   pools     asks, releases the lock, reads          cluster.cpp:172     *)
(*   list      asks and reads under one lock: namespaces and metadata of   *)
(*             RBD                                     rbd.cpp:89          *)
(*   images    likewise, but does not read if there are none               *)
(*                                                     rbd.cpp:71          *)
(*   snaps     likewise, with an entry that is no snapshot at the end      *)
(*                                                     rbd.cpp:157         *)
(*   config    doubles its buffer until it fits        cluster.cpp:108     *)
(*   metadata  takes the size it is told, or doubles   rbd.cpp:164         *)
(*   xattr     doubles its buffer up to Limit          io_context.cpp:146  *)
(*   fixed     has one buffer: fsid and pool names     cluster.cpp:142     *)
(*                                                                         *)
(* A size stands for bytes or entries, whichever the call counts.          *)
(***************************************************************************)
EXTENDS Naturals

CONSTANTS Kinds,        \* a subset of the kinds above
          Sizes,        \* the sizes of values
          First,        \* the first buffer: 256 bytes, 4096 of an xattr
          Limit,        \* the largest buffer for an xattr, 64 MiB
          MaxChanges    \* bound: how often the value is replaced

\* The kinds that ask for the size first.
Listings == {"pools", "list", "images", "snaps"}

AllKinds == Listings \cup {"config", "metadata", "xattr", "fixed"}

ASSUME FetchAssumption ==
  /\ Kinds \subseteq AllKinds
  /\ Sizes \subseteq Nat /\ MaxChanges \in Nat
  /\ First \in Nat \ {0} /\ Limit \in Nat

\* Doubling the first buffer reaches the limit exactly, as 4096 does 64 MiB.
ASSUME LimitAssumption ==
  \E tries \in SUBSET (First..Limit) :
    First \in tries /\ \A b \in tries : b = Limit \/ 2 * b \in tries

VARIABLES kind,     \* of the fetch
          value,    \* what is read: how often it was replaced, and its size
          closed,   \* the handle is closed
          at,       \* the next step: "ask" or "fill", or "done"
          asked,    \* the value when the first native call was made
          buffer,   \* the size of the buffer
          answer,   \* what the client gets: the value read and how much of it
                    \* was decoded, or an error and the value that caused it
          longest   \* history: the longest the value ever was

vars == <<kind, value, closed, at, asked, buffer, answer, longest>>

Value == [version : Nat, size : Sizes]
None == [result |-> "none"]
Read(n) == [result |-> "read", of |-> value, decoded |-> n]
Error(e) == [result |-> e, of |-> value]

Init ==
  /\ kind \in Kinds
  /\ value \in [version : {0}, size : Sizes]
  /\ closed = FALSE
  /\ at = IF kind \in Listings THEN "ask" ELSE "fill"
  /\ asked = value
  /\ buffer = IF kind \in Listings THEN 0 ELSE First
  /\ answer = None
  /\ longest = value.size

-----------------------------------------------------------------------------

\* Anyone replaces the value.
Replace(size) ==
  /\ value.version < MaxChanges
  /\ value' = [version |-> value.version + 1, size |-> size]
  /\ longest' = IF size > longest THEN size ELSE longest
  /\ UNCHANGED <<kind, closed, at, asked, buffer, answer>>

\* A list of RBD is read under the lock with which its size was asked for.
Locked == kind \in Listings \ {"pools"} /\ at = "fill"

\* close() of the handle, between the native calls of the fetch.
Close ==
  /\ ~closed /\ ~Locked
  /\ closed' = TRUE
  /\ UNCHANGED <<kind, value, at, asked, buffer, answer, longest>>

Answer(result) ==
  /\ at' = "done"
  /\ answer' = result
  /\ UNCHANGED <<kind, value, closed, asked, buffer, longest>>

Retry(size) ==
  /\ buffer' = size
  /\ UNCHANGED <<kind, value, closed, at, asked, answer, longest>>

\* use() throws on a closed handle.
FindClosed == at # "done" /\ closed /\ Answer(Error("closed"))

\* No images: the list is not read.
AskNone ==
  /\ at = "ask" /\ ~closed
  /\ kind = "images" /\ value.size = 0
  /\ Answer(Read(0))

\* The room that Ceph asks for: rbd_snap_list wants one entry more than there are
\* snapshots, for its end.
Needed == IF kind = "snaps" THEN value.size + 1 ELSE value.size

\* The call for the size: the buffer is made to measure.
Ask ==
  /\ at = "ask" /\ ~closed
  /\ kind = "images" => value.size # 0
  /\ at' = "fill"
  /\ asked' = value
  /\ buffer' = Needed
  /\ UNCHANGED <<kind, value, closed, answer, longest>>

Fits == Needed <= buffer
Fill == at = "fill" /\ ~closed

\* Mutant: as many entries are decoded as were asked for, not as came.
FitBuffer == Fill /\ Fits /\ kind # "snaps" /\ Answer(Read(buffer))

\* The value fits: Ceph returns its size, and this much is decoded.
Fit == Fill /\ Fits /\ kind # "snaps" /\ Answer(Read(value.size))

\* The snapshots fit.  snapList does not look at the number that is returned: it
\* decodes as many entries as it had room for, the end and what is unused with them.
FitSnaps == Fill /\ Fits /\ kind = "snaps" /\ Answer(Read(buffer))

\* The list of pools has outgrown its buffer: rados_pool_list fills it with the
\* names that fit and returns the size of all, and the decoding loop takes that
\* for its end.  It stops at the zero behind the last name, if there is room
\* for one, and reads on past the buffer otherwise.
Outgrown(n) ==
  /\ Fill /\ ~Fits /\ kind = "pools"
  /\ n <= buffer + 1
  /\ Answer(Read(n))

\* Any other list that has grown, and what is longer than a fixed buffer.
Refuse ==
  /\ Fill /\ ~Fits
  /\ kind \in (Listings \ {"pools"}) \cup {"fixed"}
  /\ Answer(Error("ERANGE"))

\* Mutant: the loop starts from the first buffer again and again.
DoubleOnce == Fill /\ ~Fits /\ kind = "config" /\ Retry(2 * First)

\* Mutant: the buffer is resized twice.
Quadruple == Fill /\ ~Fits /\ kind = "config" /\ Retry(4 * buffer)

\* configGet tries again with twice the buffer, without end.
DoubleConfig == Fill /\ ~Fits /\ kind = "config" /\ Retry(2 * buffer)

\* metadataGet takes the size that librbd reports, if it is larger.
GrowMetadata(actual) ==
  /\ Fill /\ ~Fits /\ kind = "metadata"
  /\ actual \in {buffer, value.size}
  /\ Retry(IF actual > buffer THEN actual ELSE 2 * buffer)

\* getXattr doubles its buffer while it is not above the limit,
DoubleXattr ==
  Fill /\ ~Fits /\ kind = "xattr" /\ 2 * buffer <= Limit /\ Retry(2 * buffer)

\* Mutant: the limit itself is not tried.
GiveUpEarly ==
  Fill /\ ~Fits /\ kind = "xattr" /\ 2 * buffer >= Limit /\ Answer(Error("ERANGE"))

\* and then passes the error on.
GiveUp ==
  Fill /\ ~Fits /\ kind = "xattr" /\ 2 * buffer > Limit /\ Answer(Error("ERANGE"))

Step ==
  \/ FindClosed \/ Ask \/ AskNone \/ Fit \/ FitSnaps \/ Refuse
  \/ DoubleConfig \/ DoubleXattr \/ GiveUp
  \/ \E n \in 0..(buffer + 1) : Outgrown(n)
  \/ \E actual \in {buffer, value.size} : GrowMetadata(actual)

Next == Step \/ Close \/ \E size \in Sizes : Replace(size)

Spec == Init /\ [][Next]_vars

\* The thread that fetches is scheduled, be it a worker or the JavaScript one.
FairSpec == Spec /\ WF_vars(Step)

-----------------------------------------------------------------------------

TypeOK ==
  /\ kind \in Kinds
  /\ value \in Value /\ asked \in Value
  /\ closed \in BOOLEAN
  /\ at \in {"ask", "fill", "done"}
  /\ buffer \in Nat /\ longest \in Sizes
  /\ answer \in {None} \cup [result : {"read"}, of : Value, decoded : Nat]
                  \cup [result : {"ERANGE", "closed"}, of : Value]
  /\ at = "done" <=> answer # None

\* What a fetch resolves with is one value and the whole of it, though the value may
\* be replaced by a longer or a shorter one between any two native calls.  Two kinds
\* fall short of it.  The list of pools may be cut, or run on, but only if it grew
\* after its size was asked for (cluster.cpp:176).  The list of snapshots is never
\* cut, but ends in an entry that is none, and in one more for each that went after
\* their number was asked for (rbd.cpp:157).
WholeOrError ==
  answer.result = "read" /\ answer.decoded # answer.of.size =>
    \/ /\ kind = "pools"
       /\ answer.of.version > asked.version /\ answer.of.size > asked.size
    \/ /\ kind = "snaps"
       /\ answer.decoded = asked.size + 1 /\ answer.of.size <= asked.size

\* A fetch fails for the size of a value only when it must: a list that grew after
\* it was asked for, an xattr of more than the limit, a name that is longer than
\* the fixed buffer.  The settings and the metadata have no limit.
RefusesOnlyTooLong ==
  answer.result = "ERANGE" =>
    CASE kind \in Listings \ {"pools"} -> answer.of.version > asked.version
                                           /\ answer.of.size > asked.size
      [] kind = "xattr" -> answer.of.size > Limit
      [] kind = "fixed" -> answer.of.size > First
      [] OTHER          -> FALSE

\* cluster.cpp:112, rbd.cpp:164, io_context.cpp:148.  The memory of a fetch is in
\* proportion to what it reads: no loop of retries runs ahead of the value, so that
\* beyond the first buffer none has more than twice the room of the longest value
\* there has been, and none for an xattr more than the limit.
BufferInProportion ==
  /\ buffer <= First \/ buffer <= 2 * longest
  /\ kind = "xattr" => buffer <= Limit

\* Once the value is not replaced any more a fetch ends, whatever size librbd
\* reports.
FetchEnds == <>(at = "done")

=============================================================================
