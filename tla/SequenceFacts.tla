--------------------------- MODULE SequenceFacts ---------------------------
(***************************************************************************)
(* Facts about sequences that the proofs about both serializers use.       *)
(***************************************************************************)
EXTENDS Naturals, Integers, Sequences, TLAPS, SequenceTheorems, WellFoundedInduction

(* The well-ordering of Nat, in the form that needs no induction operator. *)
LEMMA LeastElement ==
  ASSUME NEW T \in SUBSET Nat, T # {}
  PROVE  \E x \in T : \A y \in T : x <= y
<1>1. IsWellFoundedOn(OpToRel(<, Nat), Nat)
  BY NatLessThanWellFounded
<1>2. \A x, y \in Nat : y < x => <<y, x>> \in OpToRel(<, Nat)
  BY DEF OpToRel
<1> DEFINE R == OpToRel(<, Nat)
<1> HIDE DEF R
<1>3. PICK x \in T : \A y \in T : ~ (<<y, x>> \in R)
  BY <1>1, WFMin DEF R
<1>4. \A y \in T : ~ (y < x)
  BY <1>2, <1>3 DEF R
<1>. QED
  BY <1>4

(* Every nonempty set of positions of a queue has a last one: a packet     *)
(* takes a field from it when several edits name the field.                *)
LEMMA LastPosition ==
  ASSUME NEW n \in Nat, NEW W \in SUBSET (1..n), W # {}
  PROVE  \E i \in W : \A j \in W : j <= i
<1> DEFINE T == {n - i : i \in W}
<1>1. T \subseteq Nat
  OBVIOUS
<1>. T # {}
  OBVIOUS
<1>2. PICK x \in T : \A y \in T : x <= y
  <2> HIDE DEF T
  <2> QED BY <1>1, LeastElement
<1>3. PICK i \in W : x = n - i
  OBVIOUS
<1>4. \A j \in W : n - j \in T
  OBVIOUS
<1> HIDE DEF T
<1>5. \A j \in W : n - i <= n - j
  BY <1>2, <1>3, <1>4
<1>6. \A j \in W : j \in Int /\ j <= i
  BY <1>5
<1>. QED
  BY <1>6

LEMMA TupleSeq ==
  ASSUME NEW S, NEW n \in Nat, NEW f \in [1..n -> S]
  PROVE  f \in Seq(S) /\ Len(f) = n /\ DOMAIN f = 1..n
  BY SeqDef

(* What is left of a queue when its first n entries are popped. *)
LEMMA SuffixProperties ==
  ASSUME NEW S, NEW q \in Seq(S), NEW n \in 0..Len(q)
  PROVE  /\ SubSeq(q, n + 1, Len(q)) \in Seq(S)
         /\ Len(SubSeq(q, n + 1, Len(q))) = Len(q) - n
         /\ \A i \in 1..(Len(q) - n) : SubSeq(q, n + 1, Len(q))[i] = q[i + n]
<1>1. \A i \in (n + 1)..Len(q) : q[i] \in S
  BY ElementOfSeq
<1>. QED
  BY <1>1, SubSeqProperties

LEMMA TailIsSuffix ==
  ASSUME NEW S, NEW q \in Seq(S), q # <<>>
  PROVE  /\ Tail(q) = SubSeq(q, 1 + 1, Len(q))
         /\ Head(q) = q[1]
         /\ Len(q) \in Nat \ {0}
  BY TailIsSubSeq, EmptySeq

(* What is true of every element of two sequences is true of their         *)
(* concatenation.                                                          *)
LEMMA ConcatTyped ==
  ASSUME NEW S, NEW s \in Seq(S), NEW n \in Nat, NEW t \in [1..n -> S]
  PROVE  /\ s \o t \in Seq(S)
         /\ Len(s) \in Nat /\ Len(s \o t) = Len(s) + n
         /\ \A i \in 1..Len(s) : (s \o t)[i] = s[i]
         /\ \A i \in 1..n : (s \o t)[Len(s) + i] = t[i]
         /\ \A i \in 1..(Len(s) + n) :
              i <= Len(s) \/ (i - Len(s) \in 1..n /\ (s \o t)[i] = t[i - Len(s)])
<1>1. t \in Seq(S) /\ Len(t) = n
  BY TupleSeq
<1>2. /\ s \o t \in Seq(S)
      /\ Len(s \o t) = Len(s) + n
      /\ \A i \in 1..(Len(s) + n) : (s \o t)[i] =
           IF i <= Len(s) THEN s[i] ELSE t[i - Len(s)]
  BY <1>1, ConcatProperties
<1>3. Len(s) \in Nat
  BY LenProperties
<1>. QED
  BY <1>2, <1>3

=============================================================================
