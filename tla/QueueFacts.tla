----------------------------- MODULE QueueFacts ------------------------------
(***************************************************************************)
(* What putting an entry at the end of a queue, and taking the first one,  *)
(* do to the entries of the queue.                                         *)
(***************************************************************************)
EXTENDS Integers, Sequences, TLAPS

Entries(q) == {q[i] : i \in DOMAIN q}

\* An entry at the end leaves the others where they are.
LEMMA AppendFacts ==
  ASSUME NEW S, NEW q \in Seq(S), NEW e \in S
  PROVE  /\ Append(q, e) \in Seq(S) /\ Append(q, e) # <<>>
         /\ Len(Append(q, e)) = Len(q) + 1
         /\ \A i \in DOMAIN Append(q, e) :
              \/ i \in DOMAIN q /\ Append(q, e)[i] = q[i]
              \/ i = Len(q) + 1 /\ Append(q, e)[i] = e
         /\ \A i \in DOMAIN q : i \in DOMAIN Append(q, e) /\ Append(q, e)[i] = q[i]
         /\ Len(q) + 1 \in DOMAIN Append(q, e) /\ Append(q, e)[Len(q) + 1] = e
         /\ Len(q) + 1 \notin DOMAIN q
BY SMT

\* Taking the first entry moves up the others.
LEMMA TailFacts ==
  ASSUME NEW S, NEW q \in Seq(S), q # <<>>
  PROVE  /\ Tail(q) \in Seq(S) /\ Len(Tail(q)) = Len(q) - 1
         /\ 1 \in DOMAIN q /\ Head(q) = q[1] /\ Head(q) \in S
         /\ \A i \in DOMAIN Tail(q) :
              i \in Nat /\ i + 1 \in DOMAIN q /\ i + 1 # 1 /\ Tail(q)[i] = q[i + 1]
         /\ \A i \in DOMAIN q : i # 1 => i - 1 \in DOMAIN Tail(q) /\ Tail(q)[i - 1] = q[i]
BY SMT

\* The same as sets of entries.
LEMMA AppendEntries ==
  ASSUME NEW S, NEW q \in Seq(S), NEW e \in S
  PROVE  Append(q, e) \in Seq(S) /\ Entries(Append(q, e)) = Entries(q) \cup {e}
<1>1. ASSUME NEW i \in DOMAIN Append(q, e) PROVE Append(q, e)[i] \in Entries(q) \cup {e}
  BY <1>1, AppendFacts DEF Entries
<1>2. ASSUME NEW i \in DOMAIN q PROVE q[i] \in Entries(Append(q, e))
  BY <1>2, AppendFacts DEF Entries
<1>3. e \in Entries(Append(q, e))
  BY AppendFacts DEF Entries
<1>4. Entries(Append(q, e)) \subseteq Entries(q) \cup {e}
  BY <1>1, Zenon DEF Entries
<1>5. Entries(q) \cup {e} \subseteq Entries(Append(q, e))
  BY <1>2, <1>3, Zenon DEF Entries
<1> QED
  BY <1>4, <1>5, AppendFacts, Zenon

LEMMA TailEntries ==
  ASSUME NEW S, NEW q \in Seq(S), q # <<>>
  PROVE  /\ Tail(q) \in Seq(S) /\ Head(q) \in S
         /\ Entries(q) = Entries(Tail(q)) \cup {Head(q)}
<1>1. ASSUME NEW i \in DOMAIN q PROVE q[i] \in Entries(Tail(q)) \cup {Head(q)}
  BY TailFacts DEF Entries
<1>2. Entries(q) \subseteq Entries(Tail(q)) \cup {Head(q)}
  BY <1>1, Zenon DEF Entries
<1>3. ASSUME NEW i \in DOMAIN Tail(q) PROVE Tail(q)[i] \in Entries(q)
  BY <1>3, TailFacts DEF Entries
<1>4. Head(q) \in Entries(q)
  BY TailFacts DEF Entries
<1>5. Entries(Tail(q)) \cup {Head(q)} \subseteq Entries(q)
  BY <1>3, <1>4, Zenon DEF Entries
<1> QED
  BY <1>2, <1>5, TailFacts, Zenon

LEMMA NoEntries == Entries(<<>>) = {}
BY DEF Entries
=============================================================================
