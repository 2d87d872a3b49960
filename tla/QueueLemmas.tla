---------------------------- MODULE QueueLemmas ----------------------------
(***************************************************************************)
(* Facts about the queues of the strands, which hold each task once, and   *)
(* about the finite sets that count what is done.                          *)
(***************************************************************************)
EXTENDS Integers, Sequences, FiniteSetTheorems, TLAPS

(* What is in a queue after a task has been appended or taken.             *)
Elements(q) == {q[i] : i \in 1 .. Len(q)}
Distinct(q) == \A i, j \in 1 .. Len(q) : q[i] = q[j] => i = j

LEMMA AppendedQueue ==
  ASSUME NEW T, NEW q \in Seq(T), NEW x \in T, NEW p, p = Append(q, x)
  PROVE  /\ p \in Seq(T)
         /\ \A y : y \in Elements(p) <=> y \in Elements(q) \/ y = x
         /\ Distinct(q) /\ x \notin Elements(q) => Distinct(p)
<1>1. /\ p \in Seq(T)
      /\ Len(p) = Len(q) + 1
      /\ \A i \in 1 .. Len(q) : p[i] = q[i]
      /\ p[Len(q) + 1] = x
  OBVIOUS
<1>2. Len(q) \in Nat /\ 1 .. Len(p) = (1 .. Len(q)) \cup {Len(q) + 1}
  BY <1>1
<1> QED BY <1>1, <1>2 DEF Elements, Distinct

LEMMA TakenQueue ==
  ASSUME NEW T, NEW q \in Seq(T), q # <<>>, Distinct(q),
         NEW p, p = Tail(q)
  PROVE  /\ p \in Seq(T)
         /\ Head(q) \in T
         /\ Elements(q) = Elements(p) \cup {Head(q)}
         /\ Head(q) \notin Elements(p)
         /\ Distinct(p)
<1>1. /\ p \in Seq(T)
      /\ Len(q) \in Nat \ {0}
      /\ Len(p) = Len(q) - 1
      /\ \A i \in 1 .. Len(p) : p[i] = q[i + 1]
      /\ Head(q) = q[1]
      /\ q[1] \in T
  OBVIOUS
<1>2. \A i \in 1 .. Len(q) : i = 1 \/ (i - 1 \in 1 .. Len(p) /\ p[i - 1] = q[i])
  BY <1>1
<1>3. Elements(q) \subseteq Elements(p) \cup {q[1]}
  <2>1. ASSUME NEW i \in 1 .. Len(q)
        PROVE  q[i] \in {p[k] : k \in 1 .. Len(p)} \cup {q[1]}
    <3>1. CASE i = 1
      BY <3>1
    <3>2. CASE i - 1 \in 1 .. Len(p) /\ p[i - 1] = q[i]
      BY <3>2, Zenon
    <3> QED BY <1>2, <2>1, <3>1, <3>2
  <2> QED BY <2>1, Zenon DEF Elements
<1>4. Elements(p) \cup {q[1]} \subseteq Elements(q)
  BY <1>1 DEF Elements
<1>5. q[1] \notin Elements(p)
  BY <1>1 DEF Elements, Distinct
<1>6. Distinct(p)
  BY <1>1 DEF Distinct
<1> QED BY <1>1, <1>3, <1>4, <1>5, <1>6

-----------------------------------------------------------------------------
LEMMA FirstNaturals ==
  ASSUME NEW n \in Nat PROVE IsFiniteSet(1 .. n) /\ Cardinality(1 .. n) = n
BY FS_Interval

LEMMA GrowingSet ==
  ASSUME NEW S, NEW T, IsFiniteSet(S), IsFiniteSet(T), T \subseteq S
  PROVE  /\ Cardinality(S) \in Nat /\ Cardinality(T) \in Nat
         /\ Cardinality(T) <= Cardinality(S)
         /\ S # T => Cardinality(T) < Cardinality(S)
BY FS_Subset, FS_CardinalityType
=============================================================================
