--------------------- MODULE SharedConfigSequence_proofs ---------------------
(***************************************************************************)
(* Proofs about the shared-config serializer, for every set of settings,   *)
(* markets, values and edits, every retry budget and every bound.          *)
(***************************************************************************)
EXTENDS SharedConfigSequence, SequenceFacts

-----------------------------------------------------------------------------
(* The operators of the serializer. *)

LEMMA PartialFields ==
  ASSUME NEW s \in Partial
  PROVE  DOMAIN s \subseteq Fields /\ \A f \in DOMAIN s : s[f] \in Values
  BY DEF Partial

LEMMA PartialFunction ==
  ASSUME NEW D \in SUBSET Fields, NEW g \in [D -> Values]
  PROVE  g \in Partial
  BY DEF Partial

(* A verdict names no field. *)
LEMMA EmptyPartial == <<>> \in Partial
<1>1. <<>> \in Seq(Values) /\ Len(<<>>) = 0
  BY EmptySeq
<1>2. <<>> \in [1..0 -> Values]
  BY <1>1, LenProperties
<1>. QED
  BY <1>2 DEF Partial

LEMMA PageIsPartial == Pages \subseteq Partial
  BY DEF Pages, Partial

(* A packet is a page: every field has the value of the last edit that     *)
(* names it, or the one of the page it was built on.                       *)
LEMMA FoldProperties ==
  ASSUME NEW p \in Pages, NEW q, NEW n \in Nat, DOMAIN q = 1..n,
         \A i \in 1..n : q[i].set \in Partial
  PROVE  /\ Fold(p, q) \in Pages
         /\ \A f \in Fields : (\E i \in 1..n : f \in DOMAIN q[i].set) =>
              \E i \in 1..n : /\ f \in DOMAIN q[i].set
                              /\ Fold(p, q)[f] = q[i].set[f]
                              /\ \A j \in (i + 1)..n : f \notin DOMAIN q[j].set
<1> DEFINE W(f) == {i \in 1..n : f \in DOMAIN q[i].set}
           last(f) == CHOOSE i \in W(f) : \A j \in W(f) : j <= i
<1>1. \A f : W(f) # {} => last(f) \in W(f) /\ \A j \in W(f) : j <= last(f)
  <2> TAKE f
  <2> HAVE W(f) # {}
  <2>1. W(f) \in SUBSET (1..n)
    OBVIOUS
  <2>2. \E i \in W(f) : \A j \in W(f) : j <= i
    <3> HIDE DEF W
    <3> QED BY <2>1, LastPosition
  <2> QED BY <2>2
<1>2. Fold(p, q) =
        [f \in Fields |-> IF W(f) = {} THEN p[f] ELSE q[last(f)].set[f]]
  BY DEF Fold
<1>3. \A f : \A i \in W(f) : i \in 1..n /\ f \in DOMAIN q[i].set
  OBVIOUS
<1>4. \A f : \A i \in 1..n : f \in DOMAIN q[i].set => i \in W(f)
  OBVIOUS
<1> HIDE DEF W, last
<1>5. \A f \in Fields : W(f) # {} => q[last(f)].set[f] \in Values
  BY <1>1, <1>3, PartialFields
<1>6. Fold(p, q) \in Pages
  BY <1>2, <1>5 DEF Pages
<1>7. ASSUME NEW f \in Fields, NEW k \in 1..n, f \in DOMAIN q[k].set
      PROVE  \E i \in 1..n : /\ f \in DOMAIN q[i].set
                             /\ Fold(p, q)[f] = q[i].set[f]
                             /\ \A j \in (i + 1)..n : f \notin DOMAIN q[j].set
  <2>1. last(f) \in 1..n /\ f \in DOMAIN q[last(f)].set /\ \A j \in W(f) : j <= last(f)
    BY <1>1, <1>3, <1>4, <1>7
  <2>2. Fold(p, q)[f] = q[last(f)].set[f]
    BY <1>2, <1>4, <1>7
  <2>3. \A j \in (last(f) + 1)..n : f \notin DOMAIN q[j].set
    <3> TAKE j \in (last(f) + 1)..n
    <3>1. j \in 1..n /\ ~(j <= last(f))
      BY <2>1
    <3> QED BY <1>4, <2>1, <3>1
  <2> QED BY <2>1, <2>2, <2>3
<1>. QED
  BY <1>6, <1>7

LEMMA NamedProperties ==
  ASSUME NEW q \in Seq(Entries)
  PROVE  /\ Named(q) \subseteq Fields
         /\ \A f : f \in Named(q) <=> \E i \in 1..Len(q) : f \in DOMAIN q[i].set
         /\ \A i \in 1..Len(q) : q[i].set \in Partial
<1>1. DOMAIN q = 1..Len(q)
  BY LenProperties
<1>2. \A i \in 1..Len(q) : q[i].set \in Partial
  <2>1. \A i \in 1..Len(q) : q[i] \in Entries
    BY ElementOfSeq
  <2> QED BY <2>1 DEF Entries
<1>3. \A f : f \in Named(q) <=> \E i \in 1..Len(q) : f \in DOMAIN q[i].set
  BY <1>1 DEF Named
<1>. QED
  BY <1>2, <1>3, PartialFields

LEMMA QueueFold ==
  ASSUME NEW p \in Pages, NEW q \in Seq(Entries)
  PROVE  /\ Fold(p, q) \in Pages
         /\ \A f \in Named(q) :
              \E i \in 1..Len(q) : /\ f \in DOMAIN q[i].set
                                   /\ Fold(p, q)[f] = q[i].set[f]
                                   /\ \A j \in (i + 1)..Len(q) : f \notin DOMAIN q[j].set
<1>1. Len(q) \in Nat /\ DOMAIN q = 1..Len(q)
  BY LenProperties
<1>. QED
  BY <1>1, NamedProperties, FoldProperties

(* PendingCoversQueue without SubSeq: a request covers the first entries   *)
(* of a queue.                                                             *)
Covers(a, q) ==
  /\ a.count \in 1..Len(q)
  /\ \A f : f \in DOMAIN a.want <=> \E i \in 1..a.count : f \in DOMAIN q[i].set
  /\ \A f \in DOMAIN a.want :
       \E i \in 1..a.count : /\ f \in DOMAIN q[i].set
                             /\ a.want[f] = q[i].set[f]
                             /\ \A j \in (i + 1)..a.count : f \notin DOMAIN q[j].set

(* What a packet asks for covers the queue it was folded from. *)
LEMMA CoversFold ==
  ASSUME NEW p \in Pages, NEW q \in Seq(Entries), NEW a,
         a.count = Len(q), Len(q) \in 1..Len(q), DOMAIN a.want = Named(q),
         \A f \in Named(q) : a.want[f] = Fold(p, q)[f]
  PROVE  Covers(a, q)
<1>1. \A f : f \in DOMAIN a.want <=> \E i \in 1..a.count : f \in DOMAIN q[i].set
  BY NamedProperties
<1>2. ASSUME NEW f \in DOMAIN a.want
      PROVE  \E i \in 1..a.count : /\ f \in DOMAIN q[i].set
                                   /\ a.want[f] = q[i].set[f]
                                   /\ \A j \in (i + 1)..a.count : f \notin DOMAIN q[j].set
  <2>1. f \in Named(q) /\ a.want[f] = Fold(p, q)[f]
    OBVIOUS
  <2>2. \E i \in 1..Len(q) : /\ f \in DOMAIN q[i].set
                             /\ Fold(p, q)[f] = q[i].set[f]
                             /\ \A j \in (i + 1)..Len(q) : f \notin DOMAIN q[j].set
    BY <2>1, QueueFold
  <2> QED BY <2>1, <2>2
<1>. QED
  BY <1>1, <1>2 DEF Covers

LEMMA CoversSame ==
  ASSUME NEW a, NEW q, NEW r, Covers(a, q), a.count \in 1..Len(r),
         \A i \in 1..a.count : r[i].set = q[i].set
  PROVE  Covers(a, r)
<1>1. \A f : \A i \in 1..a.count : f \in DOMAIN r[i].set <=> f \in DOMAIN q[i].set
  OBVIOUS
<1>2. \A f : f \in DOMAIN a.want <=> \E i \in 1..a.count : f \in DOMAIN r[i].set
  BY <1>1 DEF Covers
<1>3. ASSUME NEW f \in DOMAIN a.want
      PROVE  \E i \in 1..a.count : /\ f \in DOMAIN r[i].set
                                   /\ a.want[f] = r[i].set[f]
                                   /\ \A j \in (i + 1)..a.count : f \notin DOMAIN r[j].set
  <2>1. PICK i \in 1..a.count : /\ f \in DOMAIN q[i].set
                                /\ a.want[f] = q[i].set[f]
                                /\ \A j \in (i + 1)..a.count : f \notin DOMAIN q[j].set
    BY DEF Covers
  <2>2. \A j \in (i + 1)..a.count : j \in 1..a.count
    BY DEF Covers
  <2> QED BY <1>1, <2>1, <2>2
<1>. QED
  BY <1>2, <1>3 DEF Covers

LEMMA CoversIsPending ==
  ASSUME queue \in Seq(Entries)
  PROVE  PendingCoversQueue <=> (pending # NoPending => Covers(pending, queue))
<1>. SUFFICES ASSUME pending.count \in 1..Len(queue)
     PROVE  LET carried == SubSeq(queue, 1, pending.count) IN
             (/\ DOMAIN pending.want = Named(carried)
              /\ \A f \in Named(carried) : \E i \in 1..pending.count :
                   /\ f \in DOMAIN queue[i].set
                   /\ pending.want[f] = queue[i].set[f]
                   /\ \A j \in (i + 1)..pending.count : f \notin DOMAIN queue[j].set)
             <=> Covers(pending, queue)
  BY DEF PendingCoversQueue, Covers
<1> DEFINE carried == SubSeq(queue, 1, pending.count)
<1>1. Len(queue) \in Nat /\ pending.count \in Nat
  BY LenProperties
<1>2. \A i \in 1..pending.count : queue[i] \in Entries
  BY <1>1, ElementOfSeq
<1>3. /\ carried \in Seq(Entries) /\ Len(carried) = pending.count
      /\ \A i \in 1..pending.count : carried[i] = queue[i]
  BY <1>1, <1>2, SubSeqProperties
<1>4. \A f : f \in Named(carried) <=> \E i \in 1..pending.count : f \in DOMAIN queue[i].set
  BY <1>3, NamedProperties
<1> HIDE DEF carried
<1>. QED
  BY <1>4 DEF Covers, carried

-----------------------------------------------------------------------------
(* The queue and its budget. *)

(* Every packet charges the whole queue: an edit is never charged more     *)
(* than one ahead of it.                                                   *)
Ordered(q) == \A i, j \in 1..Len(q) : i < j => q[i].attempts >= q[j].attempts

(* An attempt is a packet that carried the edit. *)
Paid(q) == \A i \in 1..Len(q) : q[i].attempts <= q[i].sends

Unsent(q) == \A i \in 1..Len(q) : q[i].attempts = 0

QueueOK(q) == q \in Seq(Entries) /\ Ordered(q) /\ Paid(q)

LEMMA EntryTyped ==
  ASSUME NEW e \in Entries
  PROVE  /\ e.attempts \in 0..MaxAttempts /\ e.attempts \in Nat /\ e.sends \in Nat
         /\ e.set \in Partial /\ MaxAttempts \in Nat
  BY AttemptsAssumption DEF Entries

LEMMA NewEntry ==
  ASSUME NEW cmd \in Cmd
  PROVE  /\ Entry(cmd) \in Entries
         /\ Entry(cmd).attempts = 0 /\ Entry(cmd).sends = 0
  BY AttemptsAssumption DEF Cmd, Entry, Entries

LEMMA ChargedEntry ==
  ASSUME NEW e \in Entries, e.attempts < MaxAttempts
  PROVE  /\ Charged(e) \in Entries
         /\ Charged(e).attempts = e.attempts + 1
         /\ Charged(e).sends = e.sends + 1
         /\ Charged(e).set = e.set
<1>1. e.attempts + 1 \in 0..MaxAttempts /\ e.sends + 1 \in Nat
  BY EntryTyped
<1>. QED
  BY <1>1 DEF Charged, Entries

LEMMA FreshEntry ==
  ASSUME NEW e \in Entries
  PROVE  /\ [e EXCEPT !.attempts = 0] \in Entries
         /\ [e EXCEPT !.attempts = 0].attempts = 0
         /\ [e EXCEPT !.attempts = 0].sends = e.sends
  BY AttemptsAssumption DEF Entries

LEMMA EmptyQueueOK == QueueOK(<<>>) /\ Unsent(<<>>) /\ Len(<<>>) = 0
  BY EmptySeq DEF QueueOK, Ordered, Paid, Unsent

LEMMA AppendOK ==
  ASSUME NEW q, QueueOK(q), NEW e \in Entries, e.attempts = 0
  PROVE  /\ QueueOK(Append(q, e)) /\ (Unsent(q) => Unsent(Append(q, e)))
         /\ \A a : Covers(a, q) => Covers(a, Append(q, e))
<1> DEFINE r == Append(q, e)
<1>1. /\ r \in Seq(Entries) /\ Len(r) = Len(q) + 1
      /\ \A i \in 1..Len(q) : r[i] = q[i]
      /\ r[Len(q) + 1] = e
  BY AppendProperties DEF QueueOK
<1>2. Len(q) \in Nat /\ e.sends \in Nat
  BY LenProperties, EntryTyped DEF QueueOK
<1>3. \A i \in 1..Len(q) : q[i].attempts \in Nat
  <2>1. \A i \in 1..Len(q) : q[i] \in Entries
    BY ElementOfSeq DEF QueueOK
  <2> QED BY <2>1, EntryTyped
<1> HIDE DEF r
<1>4. \A i \in 1..Len(r) : (i \in 1..Len(q) /\ r[i] = q[i]) \/ (i = Len(q) + 1 /\ r[i] = e)
  BY <1>1, <1>2
<1>5. Ordered(r)
  <2> SUFFICES ASSUME NEW i \in 1..Len(r), NEW j \in 1..Len(r), i < j
               PROVE  r[i].attempts >= r[j].attempts
    BY DEF Ordered
  <2>1. i \in 1..Len(q) /\ r[i] = q[i]
    BY <1>1, <1>2
  <2>2. CASE j \in 1..Len(q) /\ r[j] = q[j]
    BY <2>1, <2>2 DEF QueueOK, Ordered
  <2>3. CASE r[j] = e
    BY <1>3, <2>1, <2>3
  <2> QED BY <1>4, <2>2, <2>3
<1>6. Paid(r)
  BY <1>2, <1>4 DEF Paid, QueueOK
<1>7. Unsent(q) => Unsent(r)
  BY <1>4 DEF Unsent
<1>8. ASSUME NEW a, Covers(a, q)
      PROVE  Covers(a, r)
  <2>1. a.count \in 1..Len(q) /\ a.count \in 1..Len(r)
    BY <1>1, <1>2, <1>8 DEF Covers
  <2>2. \A i \in 1..a.count : r[i].set = q[i].set
    BY <1>1, <1>2, <2>1
  <2> QED BY <1>8, <2>1, <2>2, CoversSame
<1>. QED
  BY <1>1, <1>5, <1>6, <1>7, <1>8 DEF QueueOK, r

LEMMA DropOK ==
  ASSUME NEW q, QueueOK(q), NEW n \in 0..Len(q)
  PROVE  QueueOK(Drop(q, n))
<1>1. /\ Drop(q, n) \in Seq(Entries)
      /\ Len(Drop(q, n)) = Len(q) - n
      /\ \A i \in 1..(Len(q) - n) : Drop(q, n)[i] = q[i + n]
  BY SuffixProperties DEF QueueOK, Drop
<1>2. Len(q) \in Nat
  BY LenProperties DEF QueueOK
<1>3. \A i \in 1..(Len(q) - n) : i + n \in 1..Len(q)
  BY <1>2
<1>4. Ordered(Drop(q, n))
  <2> SUFFICES ASSUME NEW i \in 1..(Len(q) - n), NEW j \in 1..(Len(q) - n), i < j
               PROVE  q[i + n].attempts >= q[j + n].attempts
    BY <1>1 DEF Ordered
  <2>1. i + n \in 1..Len(q) /\ j + n \in 1..Len(q) /\ i + n < j + n
    BY <1>2
  <2> QED BY <2>1 DEF QueueOK, Ordered
<1>. QED
  BY <1>1, <1>3, <1>4 DEF QueueOK, Paid

LEMMA TailOK ==
  ASSUME NEW q, QueueOK(q), q # <<>>
  PROVE  QueueOK(Tail(q)) /\ Head(q) = q[1] /\ q[1] \in Entries /\ Len(q) \in Nat \ {0}
<1>1. Tail(q) = Drop(q, 1) /\ Head(q) = q[1] /\ Len(q) \in Nat \ {0}
  BY TailIsSuffix DEF QueueOK, Drop
<1>2. q[1] \in Entries
  BY <1>1, ElementOfSeq DEF QueueOK
<1>3. QueueOK(Drop(q, 1))
  <2>1. 1 \in 0..Len(q)
    BY <1>1
  <2> QED BY <2>1, DropOK
<1>. QED
  BY <1>1, <1>2, <1>3

LEMMA ChargeOK ==
  ASSUME NEW q, QueueOK(q), q # <<>>, Head(q).attempts < MaxAttempts,
         NEW r, r = [i \in DOMAIN q |-> Charged(q[i])]
  PROVE  /\ QueueOK(r) /\ Len(r) = Len(q)
         /\ \A i \in 1..Len(q) : r[i].set = q[i].set
<1>1. Len(q) \in Nat \ {0} /\ DOMAIN q = 1..Len(q) /\ Head(q) = q[1]
  BY TailOK, LenProperties DEF QueueOK
<1>2. \A i \in 1..Len(q) : q[i] \in Entries
  BY ElementOfSeq DEF QueueOK
<1>3. \A i \in 1..Len(q) : q[i].attempts \in Nat /\ q[i].sends \in Nat /\ MaxAttempts \in Nat
  BY <1>2, EntryTyped
<1>4. \A i \in 1..Len(q) : q[i].attempts < MaxAttempts
  <2> TAKE i \in 1..Len(q)
  <2>1. 1 \in 1..Len(q) /\ (i = 1 \/ 1 < i)
    BY <1>1
  <2>2. q[1].attempts >= q[i].attempts
    BY <1>3, <2>1 DEF QueueOK, Ordered
  <2> QED BY <1>1, <1>3, <2>1, <2>2
<1>5. \A i \in 1..Len(q) : r[i] = Charged(q[i])
  BY <1>1
<1>6. \A i \in 1..Len(q) :
        /\ r[i] \in Entries /\ r[i].set = q[i].set
        /\ r[i].attempts = q[i].attempts + 1 /\ r[i].sends = q[i].sends + 1
  BY <1>2, <1>4, <1>5, ChargedEntry
<1>7. r \in [1..Len(q) -> Entries]
  BY <1>1, <1>5, <1>6
<1>8. r \in Seq(Entries) /\ Len(r) = Len(q)
  BY <1>1, <1>7, TupleSeq
<1>9. Ordered(r)
  <2> SUFFICES ASSUME NEW i \in 1..Len(q), NEW j \in 1..Len(q), i < j
               PROVE  r[i].attempts >= r[j].attempts
    BY <1>8 DEF Ordered
  <2>1. q[i].attempts >= q[j].attempts
    BY DEF QueueOK, Ordered
  <2>2. r[i].attempts = q[i].attempts + 1 /\ r[j].attempts = q[j].attempts + 1
    BY <1>6
  <2>3. q[i].attempts \in Nat /\ q[j].attempts \in Nat
    BY <1>3
  <2> QED BY <2>1, <2>2, <2>3
<1>10. Paid(r)
  <2> SUFFICES ASSUME NEW i \in 1..Len(q)
               PROVE  r[i].attempts <= r[i].sends
    BY <1>8 DEF Paid
  <2>1. q[i].attempts <= q[i].sends
    BY DEF QueueOK, Paid
  <2>2. r[i].attempts = q[i].attempts + 1 /\ r[i].sends = q[i].sends + 1
    BY <1>6
  <2>3. q[i].attempts \in Nat /\ q[i].sends \in Nat
    BY <1>3
  <2> QED BY <2>1, <2>2, <2>3
<1>. QED
  BY <1>6, <1>8, <1>9, <1>10 DEF QueueOK

LEMMA FreshOK ==
  ASSUME QueueOK(queue), NEW r, r = [i \in DOMAIN queue |-> FreshBudget(i)]
  PROVE  QueueOK(r) /\ Unsent(r)
<1>1. Len(queue) \in Nat /\ DOMAIN queue = 1..Len(queue)
  BY LenProperties DEF QueueOK
<1>2. \A i \in 1..Len(queue) : queue[i] \in Entries
  BY ElementOfSeq DEF QueueOK
<1>3. \A i \in 1..Len(queue) : r[i] = [queue[i] EXCEPT !.attempts = 0]
  BY <1>1 DEF FreshBudget
<1>4. \A i \in 1..Len(queue) :
        r[i] \in Entries /\ r[i].attempts = 0 /\ r[i].sends \in Nat
  <2> TAKE i \in 1..Len(queue)
  <2>1. queue[i] \in Entries /\ r[i] = [queue[i] EXCEPT !.attempts = 0]
    BY <1>2, <1>3
  <2>2. r[i] \in Entries /\ r[i].attempts = 0
    BY <2>1, FreshEntry
  <2> QED BY <2>2, EntryTyped
<1>5. r \in [1..Len(queue) -> Entries]
  BY <1>1, <1>3, <1>4
<1>6. r \in Seq(Entries) /\ Len(r) = Len(queue)
  BY <1>1, <1>5, TupleSeq
<1>7. Ordered(r)
  <2>1. \A i, j \in 1..Len(r) : r[i].attempts = 0 /\ r[j].attempts = 0
    BY <1>4, <1>6
  <2> QED BY <2>1 DEF Ordered
<1>8. Paid(r)
  BY <1>4, <1>6 DEF Paid
<1>. QED
  BY <1>4, <1>6, <1>7, <1>8 DEF QueueOK, Unsent

-----------------------------------------------------------------------------
(* The edits that left, and what is said of them. *)

Hows == {"confirmed", "satisfied", "gaveup", "forgotten"}
DoneEntries == [entry : Entries, how : Hows]

(* An edit is given up only after its budget of packets. *)
GivenUpPaid(d) == \A i \in 1..Len(d) : d[i].how = "gaveup" => d[i].entry.sends >= MaxAttempts

DoneOK(d) == d \in Seq(DoneEntries) /\ GivenUpPaid(d)

LEMMA LeaveOK ==
  ASSUME NEW d, DoneOK(d), NEW q, QueueOK(q), NEW n \in 0..Len(q), NEW how \in Hows,
         how = "gaveup" => \A i \in 1..n : q[i].sends >= MaxAttempts
  PROVE  DoneOK(d \o [i \in 1..n |-> Gone(q[i], how)])
<1> DEFINE out == [i \in 1..n |-> Gone(q[i], how)]
<1>1. n \in Nat
  OBVIOUS
<1>2. \A i \in 1..n : q[i] \in Entries
  BY ElementOfSeq, LenProperties DEF QueueOK
<1>3. \A i \in 1..n : out[i] = [entry |-> q[i], how |-> how]
  BY DEF Gone
<1>4. out \in [1..n -> DoneEntries]
  BY <1>2, <1>3 DEF DoneEntries, Gone
<1>5. \A i \in 1..n : out[i].how = "gaveup" => out[i].entry.sends >= MaxAttempts
  <2> TAKE i \in 1..n
  <2>1. out[i] = [entry |-> q[i], how |-> how]
    BY <1>3
  <2> HIDE DEF out
  <2>2. out[i].how = how /\ out[i].entry = q[i]
    BY <2>1
  <2> QED BY <2>2
<1> HIDE DEF out
<1>6. /\ d \o out \in Seq(DoneEntries)
      /\ Len(d) \in Nat /\ Len(d \o out) = Len(d) + n
      /\ \A i \in 1..Len(d) : (d \o out)[i] = d[i]
      /\ \A i \in 1..(Len(d) + n) :
           i <= Len(d) \/ (i - Len(d) \in 1..n /\ (d \o out)[i] = out[i - Len(d)])
  BY <1>1, <1>4, ConcatTyped DEF DoneOK
<1>7. GivenUpPaid(d \o out)
  <2> SUFFICES ASSUME NEW i \in 1..(Len(d) + n)
               PROVE  (d \o out)[i].how = "gaveup" => (d \o out)[i].entry.sends >= MaxAttempts
    BY <1>6 DEF GivenUpPaid
  <2>1. CASE i <= Len(d)
    <3>1. i \in 1..Len(d)
      BY <1>6, <2>1
    <3>2. (d \o out)[i] = d[i]
      BY <1>6, <3>1
    <3> QED BY <3>1, <3>2 DEF DoneOK, GivenUpPaid
  <2>2. CASE i - Len(d) \in 1..n /\ (d \o out)[i] = out[i - Len(d)]
    BY <1>5, <2>2
  <2> QED BY <1>6, <2>1, <2>2
<1>. QED
  BY <1>6, <1>7 DEF DoneOK, out

LEMMA LeaveHeadOK ==
  ASSUME NEW d, DoneOK(d), NEW q, QueueOK(q), q # <<>>, NEW how \in Hows,
         how = "gaveup" => Head(q).attempts >= MaxAttempts
  PROVE  DoneOK(Append(d, Gone(Head(q), how)))
<1>1. Head(q) = q[1] /\ q[1] \in Entries /\ Len(q) \in Nat \ {0} /\ 1 \in 1..Len(q)
  BY TailOK
<1>2. q[1].attempts <= q[1].sends
  BY <1>1 DEF QueueOK, Paid
<1>3. how = "gaveup" => q[1].sends >= MaxAttempts
  BY <1>1, <1>2, EntryTyped
<1> DEFINE e == Gone(Head(q), how)
<1>4. e \in DoneEntries /\ (e.how = "gaveup" => e.entry.sends >= MaxAttempts)
  BY <1>1, <1>3 DEF Gone, DoneEntries
<1> HIDE DEF e
<1>5. /\ Append(d, e) \in Seq(DoneEntries) /\ Len(Append(d, e)) = Len(d) + 1
      /\ \A i \in 1..Len(d) : Append(d, e)[i] = d[i]
      /\ Append(d, e)[Len(d) + 1] = e /\ Len(d) \in Nat
  BY <1>4, AppendProperties, LenProperties DEF DoneOK
<1>6. \A i \in 1..(Len(d) + 1) : i \in 1..Len(d) \/ i = Len(d) + 1
  BY <1>5
<1>7. GivenUpPaid(Append(d, e))
  <2> SUFFICES ASSUME NEW i \in 1..(Len(d) + 1)
               PROVE  Append(d, e)[i].how = "gaveup" => Append(d, e)[i].entry.sends >= MaxAttempts
    BY <1>5 DEF GivenUpPaid
  <2>1. CASE i \in 1..Len(d)
    BY <1>5, <2>1 DEF DoneOK, GivenUpPaid
  <2>2. CASE i = Len(d) + 1
    BY <1>4, <1>5, <2>2
  <2> QED BY <1>6, <2>1, <2>2
<1>. QED
  BY <1>5, <1>7 DEF DoneOK, e

(* Messages. *)

Kinds == {"submitted", "confirmed", "notapplied", "gaveup", "drained",
          "up", "down", "page", "overlay", "forgotten"}

LEMMA VerdictTyped ==
  ASSUME NEW kind \in Kinds
  PROVE  Verdict(kind) \in Messages
  BY EmptyPartial DEF Verdict, Messages, Kinds

LEMMA PostTyped ==
  ASSUME wire \in Seq(Messages), NEW messages \in Seq(Messages), Post(messages)
  PROVE  wire' \in Seq(Messages)
  BY ConcatProperties DEF Post

LEMMA TellTyped ==
  ASSUME wire \in Seq(Messages), NEW kinds \in Seq(Kinds), Tell(kinds)
  PROVE  wire' \in Seq(Messages)
<1>1. Len(kinds) \in Nat /\ DOMAIN kinds = 1..Len(kinds)
  BY LenProperties
<1>2. \A i \in 1..Len(kinds) : kinds[i] \in Kinds
  BY ElementOfSeq
<1>3. [i \in DOMAIN kinds |-> Verdict(kinds[i])] \in [1..Len(kinds) -> Messages]
  BY <1>1, <1>2, VerdictTyped
<1>4. [i \in DOMAIN kinds |-> Verdict(kinds[i])] \in Seq(Messages)
  BY <1>1, <1>3, TupleSeq
<1>. QED
  BY <1>4, PostTyped DEF Tell

-----------------------------------------------------------------------------
(* The inductive invariant.  While next_action() loops nothing is awaited  *)
(* and no import is observed: the loop pops and charges entries, which     *)
(* would pull them from under a packet that counts them.                   *)

SettleClean == settling => ~waiting /\ pending = NoPending /\ auto = NoPatch

WriterInv == auto # NoPatch => ~waiting /\ pending = NoPending /\ Unsent(queue)

SeqInv ==
  /\ TypeOK
  /\ SettleClean
  /\ QueueOK(queue)
  /\ pending # NoPending => Covers(pending, queue)
  /\ DoneOK(done)
  /\ WriterInv

LEMMA SeqUntouched ==
  ASSUME SeqInv, TypeOK', UNCHANGED <<settling, queue, waiting, pending, done>>,
         auto' # NoPatch => auto # NoPatch
  PROVE  SeqInv'
<1>1. QueueOK(queue') /\ DoneOK(done') /\ (pending' # NoPending => Covers(pending', queue'))
  BY DEF SeqInv
<1>2. SettleClean' /\ WriterInv'
  BY DEF SeqInv, SettleClean, WriterInv
<1>. QED
  BY <1>1, <1>2 DEF SeqInv

LEMMA InvImplies ==
  ASSUME SeqInv
  PROVE  PendingCoversQueue /\ BudgetInOrder /\ OneWriter
<1>1. DOMAIN queue = 1..Len(queue) /\ DOMAIN done = 1..Len(done)
  BY LenProperties DEF SeqInv, QueueOK, DoneOK
<1>2. PendingCoversQueue
  BY CoversIsPending DEF SeqInv, QueueOK
<1>3. BudgetInOrder
  BY <1>1 DEF SeqInv, QueueOK, Ordered, DoneOK, GivenUpPaid, BudgetInOrder
<1>4. OneWriter
  BY <1>1 DEF SeqInv, WriterInv, Unsent, OneWriter
<1>. QED
  BY <1>2, <1>3, <1>4

LEMMA SeqInit == Init => SeqInv
<1>. SUFFICES ASSUME Init PROVE SeqInv
  OBVIOUS
<1>1. /\ <<>> \in Seq(Cmd) /\ <<>> \in Seq(Messages)
      /\ <<>> \in Seq([entry : Entries, how : {"confirmed", "satisfied", "gaveup", "forgotten"}])
      /\ <<>> \in Seq([n : Nat, answered : BOOLEAN,
                       status : {"refused", "already", "submitted", "confirmed", "unknown"}])
  BY EmptySeq
<1>2. QueueOK(queue) /\ Unsent(queue)
  BY EmptyQueueOK DEF Init
<1>3. DoneOK(done)
  BY <1>1, EmptySeq DEF Init, DoneOK, DoneEntries, Hows, GivenUpPaid
<1>4. TypeOK
  BY <1>1, <1>2, FirstAssumption DEF Init, TypeOK, QueueOK
<1>. QED
  BY <1>2, <1>3, <1>4 DEF SeqInv, Init, SettleClean, WriterInv

-----------------------------------------------------------------------------
(* One lemma per action that changes the queue, or more than one of the    *)
(* serializer's variables.                                                 *)

LEMMA TakeEditStep ==
  ASSUME SeqInv, TakeEdit
  PROVE  SeqInv'
<1>1. TypeOK /\ QueueOK(queue) /\ inbox \in Seq(Cmd) /\ inbox # <<>>
  BY DEF SeqInv, TypeOK, TakeEdit, Draining
<1>2. Head(inbox) \in Cmd /\ inbox' \in Seq(Cmd)
  BY <1>1, HeadTailProperties DEF TakeEdit, Draining
<1>3. Entry(Head(inbox)) \in Entries /\ Entry(Head(inbox)).attempts = 0
  BY <1>2, NewEntry
<1>4. queue' = Append(queue, Entry(Head(inbox)))
  BY DEF TakeEdit
<1>5. /\ QueueOK(queue') /\ (Unsent(queue) => Unsent(queue'))
      /\ \A a : Covers(a, queue) => Covers(a, queue')
  BY <1>1, <1>3, <1>4, AppendOK
<1>6. queue' \in Seq(Entries)
  BY <1>5 DEF QueueOK
<1>7. TypeOK'
  BY <1>1, <1>2, <1>6 DEF TypeOK, TakeEdit, Draining, outVars, linkVars, histVars
<1>8. SettleClean' /\ WriterInv'
  BY <1>5 DEF SeqInv, TakeEdit, SettleClean, WriterInv
<1>9. (pending' # NoPending => Covers(pending', queue')) /\ DoneOK(done')
  BY <1>5 DEF SeqInv, TakeEdit
<1>. QED
  BY <1>5, <1>7, <1>8, <1>9 DEF SeqInv

Statuses == {"refused", "already", "submitted", "confirmed", "unknown"}
Answers == [n : Nat, answered : BOOLEAN, status : Statuses]
Watched == [n : Nat, want : Partial, updated : BOOLEAN, late : BOOLEAN, answered : BOOLEAN]

LEMMA AnswerTyped ==
  ASSUME answers \in Seq(Answers), NEW n \in Nat, NEW status \in Statuses,
         NEW answered \in BOOLEAN, Answer(n, status, answered)
  PROVE  answers' \in Seq(Answers)
<1>1. [n |-> n, status |-> status, answered |-> answered] \in Answers
  BY DEF Answers
<1>. QED
  BY <1>1, AppendProperties DEF Answer

LEMMA CancelTyped ==
  ASSUME TypeOK, CancelAutomation
  PROVE  answers' \in Seq(Answers) /\ auto' = NoPatch
<1>1. auto # NoPatch => auto.n \in Nat /\ auto.answered \in BOOLEAN
  BY DEF TypeOK
<1>2. answers \in Seq(Answers) /\ "unknown" \in Statuses
  BY DEF TypeOK, Answers, Statuses
<1>. QED
  BY <1>1, <1>2, AnswerTyped DEF CancelAutomation

(* A patch that is only answered, and one that is sent. *)
LEMMA PatchStep ==
  ASSUME SeqInv, PatchRefused \/ PatchAlready \/ PatchSubmitted
  PROVE  SeqInv'
<1>1. TypeOK /\ inbox \in Seq(Cmd) /\ inbox # <<>> /\ answers \in Seq(Answers) /\ ~settling
  BY DEF SeqInv, TypeOK, PatchRefused, PatchAlready, PatchSubmitted, Draining, Answers, Statuses
<1>2. Head(inbox) \in Cmd /\ Tail(inbox) \in Seq(Cmd)
  BY <1>1, HeadTailProperties
<1>3. Head(inbox).n \in Nat /\ Head(inbox).set \in Partial
  BY <1>2 DEF Cmd
<1>4. CASE PatchRefused
  <2>1. answers' \in Seq(Answers)
    BY <1>1, <1>3, <1>4, AnswerTyped DEF PatchRefused, Statuses
  <2>2. TypeOK'
    BY <1>1, <1>2, <1>4, <2>1
       DEF TypeOK, PatchRefused, Draining, seqVars, outVars, linkVars, histVars, Answers, Statuses
  <2> QED BY <1>4, <2>2, SeqUntouched DEF PatchRefused, seqVars
<1>5. CASE PatchAlready
  <2>1. answers' \in Seq(Answers)
    BY <1>1, <1>3, <1>5, AnswerTyped DEF PatchAlready, Statuses
  <2>2. TypeOK'
    BY <1>1, <1>2, <1>5, <2>1
       DEF TypeOK, PatchAlready, Draining, seqVars, outVars, linkVars, histVars, Answers, Statuses
  <2> QED BY <1>5, <2>2, SeqUntouched DEF PatchAlready, seqVars
<1>6. CASE PatchSubmitted
  <2>1. answers' \in Seq(Answers)
    BY <1>1, <1>3, <1>6, AnswerTyped DEF PatchSubmitted, Statuses
  <2>2. page \in Pages
    BY <1>1, <1>6 DEF TypeOK, PatchSubmitted
  <2>3. Fold(page, <<Head(inbox)>>) \in Pages
    <3>1. <<Head(inbox)>> \in Seq(Cmd) /\ Len(<<Head(inbox)>>) = 1 /\ <<Head(inbox)>>[1] = Head(inbox)
      BY <1>2
    <3>2. DOMAIN <<Head(inbox)>> = 1..1 /\ \A i \in 1..1 : <<Head(inbox)>>[i].set \in Partial
      BY <1>3, <3>1
    <3> HIDE DEF Fold
    <3> QED BY <2>2, <3>2, FoldProperties
  <2>4. auto' \in Watched
    BY <1>3, <1>6 DEF PatchSubmitted, Watched
  <2>5. TypeOK'
    BY <1>1, <1>2, <1>6, <2>1, <2>3, <2>4
       DEF TypeOK, PatchSubmitted, Draining, outVars, histVars, Answers, Statuses, Watched
  <2>6. ~waiting' /\ pending' = NoPending /\ queue' = <<>> /\ ~settling'
    BY <1>1, <1>6 DEF SeqInv, TypeOK, PatchSubmitted, WriterFree
  <2>7. QueueOK(queue') /\ Unsent(queue')
    BY <2>6, EmptyQueueOK
  <2>8. DoneOK(done')
    BY <1>6 DEF SeqInv, PatchSubmitted
  <2> QED BY <2>5, <2>6, <2>7, <2>8 DEF SeqInv, SettleClean, WriterInv
<1>. QED
  BY <1>4, <1>5, <1>6

(* drive() enters the loop: nothing is awaited any more. *)
LEMMA StartStep ==
  ASSUME SeqInv, DriveStart, QueueOK(queue'), DoneOK(done'), batch' \in Seq(Messages)
  PROVE  SeqInv'
<1>1. queue' \in Seq(Entries) /\ done' \in Seq(DoneEntries)
  BY DEF QueueOK, DoneOK
<1>2. pc' \in {"drain", "echo"} /\ settling' = TRUE /\ page # NoPage
      /\ ~waiting' /\ ~overdue' /\ pending' = NoPending /\ auto' = NoPatch
  BY DEF DriveStart, MayPlan, MayDrive
<1>3. TypeOK'
  BY <1>1, <1>2 DEF SeqInv, TypeOK, DriveStart, MayPlan, MayDrive, linkVars, histVars,
                    DoneEntries, Hows
<1>. QED
  BY <1>2, <1>3 DEF SeqInv, SettleClean, WriterInv

LEMMA BatchTyped ==
  ASSUME TypeOK, NEW kind \in Kinds
  PROVE  Append(batch, Verdict(kind)) \in Seq(Messages)
  BY VerdictTyped, AppendProperties DEF TypeOK

LEMMA DriveStep ==
  ASSUME SeqInv, Drive
  PROVE  SeqInv'
<1>1. TypeOK /\ QueueOK(queue) /\ DoneOK(done) /\ batch \in Seq(Messages)
  BY DEF SeqInv, TypeOK
<1>2. CASE DriveGated
  <2>1. TypeOK'
    BY <1>1, <1>2 DEF TypeOK, DriveGated, MayDrive, Returns, seqVars, outVars, linkVars, histVars
  <2> QED BY <1>2, <2>1, SeqUntouched DEF DriveGated, seqVars
<1>3. CASE DriveAutomation
  <2>1. auto \in Watched /\ answers \in Seq(Answers)
    BY <1>1, <1>3 DEF TypeOK, DriveAutomation, Watched, Answers, Statuses
  <2>2. auto.n \in Nat /\ auto.answered \in BOOLEAN
    BY <2>1 DEF Watched
  <2>3. auto' \in Watched \cup {NoPatch}
    BY <2>1, <1>3 DEF DriveAutomation, Watched
  <2>4. answers' \in Seq(Answers)
    BY <2>1, <2>2, <1>3, AnswerTyped DEF DriveAutomation, Statuses
  <2>5. TypeOK'
    BY <1>1, <1>3, <2>3, <2>4
       DEF TypeOK, DriveAutomation, MayDrive, Returns, outVars, linkVars, histVars,
           Watched, Answers, Statuses
  <2> QED BY <1>3, <2>5, SeqUntouched DEF DriveAutomation
<1>4. CASE DriveNothing
  <2>1. TypeOK'
    BY <1>1, <1>4 DEF TypeOK, DriveNothing, MayDrive, Returns, seqVars, outVars, linkVars, histVars
  <2> QED BY <1>4, <2>1, SeqUntouched DEF DriveNothing, seqVars
<1>5. CASE DriveNoPage
  <2>1. pending' \in {pending, NoPending} /\ ~waiting' /\ ~settling'
    BY <1>5 DEF DriveNoPage, MayPlan, MayDrive
  <2>2. TypeOK'
    BY <1>1, <1>5, <2>1
       DEF TypeOK, DriveNoPage, MayPlan, MayDrive, Returns, outVars, linkVars, histVars
  <2>3. auto' = NoPatch
    BY <1>5 DEF DriveNoPage, MayPlan
  <2> QED BY <1>5, <2>1, <2>2, <2>3 DEF SeqInv, SettleClean, WriterInv, DriveNoPage
<1>6. CASE DriveTimedOut
  <2>1. DriveStart /\ QueueOK(queue') /\ DoneOK(done') /\ batch' \in Seq(Messages)
    BY <1>1, <1>6 DEF DriveTimedOut
  <2> QED BY <2>1, StartStep
<1>7. CASE DriveConfirmed
  <2>1. pending.count \in 0..Len(queue)
    BY <1>1, <1>7 DEF SeqInv, Covers, DriveConfirmed
  <2>2. QueueOK(queue')
    BY <1>1, <1>7, <2>1, DropOK DEF DriveConfirmed
  <2>3. DoneOK(done')
    BY <1>1, <1>7, <2>1, LeaveOK DEF DriveConfirmed, Hows
  <2>4. batch' \in Seq(Messages)
    BY <1>1, <1>7, BatchTyped DEF DriveConfirmed, Kinds
  <2> QED BY <1>7, <2>2, <2>3, <2>4, StartStep DEF DriveConfirmed
<1>8. CASE DriveContradicted
  <2>1. batch' \in Seq(Messages)
    BY <1>1, <1>8, BatchTyped DEF DriveContradicted, Kinds
  <2> QED BY <1>1, <1>8, <2>1, StartStep DEF DriveContradicted
<1>9. CASE DrivePlan
  BY <1>1, <1>9, StartStep DEF DrivePlan
<1>. QED
  BY <1>2, <1>3, <1>4, <1>5, <1>6, <1>7, <1>8, <1>9 DEF Drive

(* An entry leaves from the head while the loop runs. *)
LEMMA PopStep ==
  ASSUME SeqInv, AtHead, Stays, queue' = Tail(queue), DoneOK(done'), batch' \in Seq(Messages)
  PROVE  SeqInv'
<1>1. QueueOK(queue')
  BY TailOK DEF SeqInv, AtHead
<1>2. queue' \in Seq(Entries) /\ done' \in Seq(DoneEntries)
  BY <1>1 DEF QueueOK, DoneOK
<1>3. TypeOK'
  BY <1>2 DEF SeqInv, TypeOK, Stays, loopVars, linkVars, histVars, DoneEntries, Hows
<1>4. settling /\ pending = NoPending /\ auto = NoPatch /\ ~waiting
  BY DEF SeqInv, SettleClean, AtHead
<1>. QED
  BY <1>1, <1>3, <1>4 DEF SeqInv, SettleClean, WriterInv, Stays, loopVars

LEMMA SendStep ==
  ASSUME SeqInv, Send
  PROVE  SeqInv'
<1>1. TypeOK /\ QueueOK(queue) /\ queue # <<>> /\ settling /\ queue \in Seq(Entries)
      /\ pending = NoPending /\ auto = NoPatch /\ ~waiting
  BY DEF SeqInv, SettleClean, Send, MustSend, AtHead, QueueOK
<1>2. page \in Pages
  BY <1>1 DEF TypeOK
<1>3. /\ QueueOK(queue') /\ Len(queue') = Len(queue)
      /\ \A i \in 1..Len(queue) : queue'[i].set = queue[i].set
  BY <1>1, ChargeOK DEF Send, MustSend
<1>4. queue' \in Seq(Entries) /\ Len(queue) \in Nat \ {0}
  BY <1>1, <1>3, TailOK DEF QueueOK
<1>5. /\ Fold(page, queue) \in Pages
      /\ \A f \in Named(queue) :
           \E i \in 1..Len(queue) : /\ f \in DOMAIN queue[i].set
                                    /\ Fold(page, queue)[f] = queue[i].set[f]
                                    /\ \A j \in (i + 1)..Len(queue) : f \notin DOMAIN queue[j].set
  BY <1>1, <1>2, QueueFold
<1>6. Named(queue) \subseteq Fields
      /\ \A f : f \in Named(queue) <=> \E i \in 1..Len(queue) : f \in DOMAIN queue[i].set
  BY <1>1, NamedProperties
<1> DEFINE asked == [f \in Named(queue) |-> Fold(page, queue)[f]]
<1>7. \A f \in Fields : Fold(page, queue)[f] \in Values
  BY <1>5 DEF Pages
<1>8. asked \in Partial
  <2>1. asked \in [Named(queue) -> Values]
    BY <1>6, <1>7
  <2> QED BY <1>6, <2>1, PartialFunction
<1>9. /\ pending'.want = asked /\ pending'.count = Len(queue)
      /\ pending' = [want |-> asked, count |-> Len(queue)]
  BY DEF Send, Ask
<1>10. pending' \in Asks
  <2> HIDE DEF asked
  <2> QED BY <1>4, <1>8, <1>9 DEF Asks
<1>11. Covers(pending', queue)
  <2>1. pending'.count = Len(queue) /\ Len(queue) \in 1..Len(queue)
    BY <1>4, <1>9
  <2>2. DOMAIN pending'.want = Named(queue)
        /\ \A f \in Named(queue) : pending'.want[f] = Fold(page, queue)[f]
    BY <1>9
  <2> HIDE DEF asked
  <2> QED BY <1>1, <1>2, <2>1, <2>2, CoversFold
<1>12. Covers(pending', queue')
  <2>1. pending'.count \in 1..Len(queue') /\ pending'.count = Len(queue)
    BY <1>3, <1>4, <1>9
  <2> QED BY <1>3, <1>11, <2>1, CoversSame
<1>13. batch' \in Seq(Messages)
  <2> DEFINE told == [f \in Named(queue) \cap Settings |-> Fold(page, queue)[f]]
  <2>1. told \in [Named(queue) \cap Settings -> Values]
    BY <1>6, <1>7
  <2>2. told \in Partial
    <3>1. Named(queue) \cap Settings \in SUBSET Fields
      BY <1>6
    <3> HIDE DEF told
    <3> QED BY <2>1, <3>1, PartialFunction
  <2>3. Announcement = [kind |-> "submitted", set |-> told]
    BY DEF Announcement, Submitted
  <2> HIDE DEF told
  <2>4. Announcement \in Messages
    BY <2>2, <2>3 DEF Messages
  <2> QED BY <1>1, <2>4, AppendProperties DEF Send, AfterSend, TypeOK
<1>14. TypeOK'
  BY <1>1, <1>4, <1>5, <1>10, <1>13
     DEF TypeOK, Send, MustSend, AtHead, Returns, histVars
<1>15. ~settling' /\ auto' = NoPatch /\ DoneOK(done')
  BY <1>1 DEF Send, MustSend, SeqInv
<1>. QED
  BY <1>3, <1>12, <1>14, <1>15 DEF SeqInv, SettleClean, WriterInv

LEMMA SettleStep ==
  ASSUME SeqInv, Settle
  PROVE  SeqInv'
<1>1. TypeOK /\ QueueOK(queue) /\ DoneOK(done) /\ batch \in Seq(Messages)
  BY DEF SeqInv, TypeOK
<1>2. CASE DropSatisfied
  <2>1. DoneOK(done')
    BY <1>1, <1>2, LeaveHeadOK DEF DropSatisfied, AtHead, Hows
  <2>2. batch' \in Seq(Messages)
    BY <1>1, <1>2, BatchTyped DEF DropSatisfied, AfterSatisfied, Kinds
  <2> QED BY <1>2, <2>1, <2>2, PopStep DEF DropSatisfied
<1>3. CASE GiveUp
  <2>1. DoneOK(done')
    BY <1>1, <1>3, LeaveHeadOK DEF GiveUp, AtHead, Hows
  <2>2. batch' \in Seq(Messages)
    BY <1>1, <1>3, BatchTyped DEF GiveUp, Kinds
  <2> QED BY <1>3, <2>1, <2>2, PopStep DEF GiveUp
<1>4. CASE Send
  BY <1>4, SendStep
<1>5. CASE SendFails
  <2>1. settling /\ queue # <<>> /\ pending = NoPending /\ auto = NoPatch /\ ~waiting
    BY <1>5 DEF SeqInv, SettleClean, SendFails, MustSend, AtHead
  <2>2. QueueOK(queue')
    BY <1>1, <1>5, <2>1, ChargeOK DEF SendFails, MustSend
  <2>3. queue' \in Seq(Entries)
    BY <2>2 DEF QueueOK
  <2>4. TypeOK'
    BY <1>1, <1>5, <2>1, <2>3 DEF TypeOK, SendFails, MustSend, AtHead, Returns, histVars
  <2>5. ~settling' /\ auto' = NoPatch /\ pending' = NoPending /\ DoneOK(done')
    BY <1>1, <1>5, <2>1 DEF SendFails, MustSend
  <2> QED BY <2>2, <2>4, <2>5 DEF SeqInv, SettleClean, WriterInv
<1>6. CASE Drained
  <2>1. batch' \in Seq(Messages)
    BY <1>1, <1>6, BatchTyped DEF Drained, Kinds
  <2>2. settling /\ pending = NoPending /\ auto = NoPatch
    BY <1>6 DEF SeqInv, SettleClean, Drained
  <2>3. TypeOK'
    BY ZenonT(60), <1>1, <1>6, <2>1, <2>2 DEF TypeOK, Drained, Returns, seqVars, linkVars, histVars
  <2> QED BY <1>1, <1>6, <2>2, <2>3 DEF SeqInv, SettleClean, WriterInv, Drained, seqVars
<1>. QED
  BY <1>2, <1>3, <1>4, <1>5, <1>6 DEF Settle

(* The ways a connection begins and ends. *)
LEMMA LifecycleStep ==
  ASSUME SeqInv, LifecycleEvents
  PROVE  SeqInv'
<1>1. TypeOK /\ QueueOK(queue) /\ DoneOK(done) /\ wire \in Seq(Messages)
  BY DEF SeqInv, TypeOK
<1>2. CASE NoLifecycleEvent
  <2>1. TypeOK'
    BY <1>1, <1>2 DEF TypeOK, NoLifecycleEvent, Lifecycle, seqVars, outVars, linkVars, histVars
  <2> QED BY <1>2, <2>1, SeqUntouched DEF NoLifecycleEvent, Lifecycle, seqVars
<1>3. CASE BecomeReady
  <2>1. <<"up">> \in Seq(Kinds)
    BY DEF Kinds
  <2>2. wire' \in Seq(Messages)
    BY <1>1, <1>3, <2>1, TellTyped DEF BecomeReady
  <2>3. dirty' \in BOOLEAN
    BY <1>1, <1>3 DEF BecomeReady, TypeOK
  <2>4. TypeOK'
    BY <1>1, <1>3, <2>2, <2>3 DEF TypeOK, BecomeReady, Lifecycle, seqVars, histVars
  <2> QED BY <1>3, <2>4, SeqUntouched DEF BecomeReady, Lifecycle, seqVars
<1>4. CASE LoseConnection
  <2>1. <<"down">> \in Seq(Kinds)
    BY DEF Kinds
  <2>2. wire' \in Seq(Messages)
    BY <1>1, <1>4, <2>1, TellTyped DEF LoseConnection
  <2>3. answers' \in Seq(Answers) /\ auto' = NoPatch
    BY <1>1, <1>4, CancelTyped DEF LoseConnection
  <2>4. episodes' \in Nat /\ ~settling' /\ pc' \in {"drain", "events"}
    BY <1>1, <1>4 DEF TypeOK, LoseConnection, Lifecycle, Episode
  <2>5. TypeOK'
    BY ZenonT(60), <1>1, <1>4, <2>2, <2>3, <2>4
       DEF TypeOK, LoseConnection, Lifecycle, linkVars, Answers, Statuses
  <2> QED BY <1>4, <2>3, <2>5, SeqUntouched DEF LoseConnection, Lifecycle
<1>5. CASE ServerRestart
  <2>1. <<"forgotten", "down">> \in Seq(Kinds)
    BY DEF Kinds
  <2>2. wire' \in Seq(Messages)
    BY <1>1, <1>5, <2>1, TellTyped DEF ServerRestart
  <2>3. answers' \in Seq(Answers) /\ auto' = NoPatch
    BY <1>1, <1>5, CancelTyped DEF ServerRestart
  <2>4. QueueOK(queue')
    BY <1>5, EmptyQueueOK DEF ServerRestart
  <2>5. DoneOK(done')
    <3>1. Len(queue) \in 0..Len(queue) /\ DOMAIN queue = 1..Len(queue)
      BY <1>1, LenProperties DEF QueueOK
    <3> QED BY <1>1, <1>5, <3>1, LeaveOK DEF ServerRestart, Hows
  <2>6. queue' \in Seq(Entries) /\ done' \in Seq(DoneEntries)
    BY <2>4, <2>5 DEF QueueOK, DoneOK
  <2>7. episodes' \in Nat /\ ~settling' /\ pc' \in {"drain", "events"}
    BY <1>1, <1>5 DEF TypeOK, ServerRestart, Lifecycle, Episode
  <2>8. ~settling' /\ pending' = NoPending
    BY <1>1, <1>5 DEF ServerRestart, Lifecycle, Forget, TypeOK
  <2>9. /\ core' \in Pages /\ process' \in Nat /\ ready' = FALSE
         /\ waiting' = FALSE /\ overdue' = FALSE
         /\ UNCHANGED <<settling, inbox, batch, idle, dirty, slot, full, page, fresh, overlay,
                        issued, rewrites>>
    BY <1>1, <1>5, FirstAssumption DEF TypeOK, ServerRestart, Lifecycle
  <2>10. TypeOK'
    BY <1>1, <2>2, <2>3, <2>6, <2>8, <2>7, <2>9
       DEF TypeOK, Answers, Statuses, DoneEntries, Hows
  <2> QED BY <2>3, <2>4, <2>5, <2>10, <2>8 DEF SeqInv, SettleClean, WriterInv
<1>6. CASE NewRun
  <2>1. <<"down">> \in Seq(Kinds) /\ <<>> \in Seq(Messages)
    BY EmptySeq DEF Kinds
  <2>2. wire' \in Seq(Messages)
    BY <1>1, <1>6, <2>1, TellTyped DEF NewRun
  <2>3. answers' \in Seq(Answers) /\ auto' = NoPatch
    BY <1>1, <1>6, CancelTyped DEF NewRun
  <2>4. QueueOK(queue')
    BY <1>1, <1>6, FreshOK DEF NewRun
  <2>5. queue' \in Seq(Entries)
    BY <2>4 DEF QueueOK
  <2>6. ~settling' /\ pending' = NoPending
    BY <1>1, <1>6 DEF NewRun, TypeOK
  <2>7. episodes' \in Nat /\ ~settling' /\ pc' \in {"drain", "events"}
    BY <1>1, <1>6 DEF TypeOK, NewRun, Episode
  <2>8. TypeOK'
    BY <1>1, <1>6, <2>1, <2>2, <2>3, <2>5, <2>6, <2>7
       DEF TypeOK, NewRun, Answers, Statuses
  <2>9. DoneOK(done')
    BY <1>1, <1>6 DEF NewRun
  <2> QED BY <2>3, <2>4, <2>6, <2>8, <2>9 DEF SeqInv, SettleClean, WriterInv
<1>. QED
  BY <1>2, <1>3, <1>4, <1>5, <1>6 DEF LifecycleEvents

(* Settings events, and the end of an iteration. *)
LEMMA EventStep ==
  ASSUME SeqInv, ConfigEvents \/ NoConfigEvents \/ Publish
  PROVE  SeqInv'
<1>1. TypeOK /\ QueueOK(queue) /\ wire \in Seq(Messages) /\ batch \in Seq(Messages)
  BY DEF SeqInv, TypeOK
<1>2. CASE ConfigEvents
  <2>1. page \in Partial
    BY <1>1, <1>2, PageIsPartial DEF TypeOK, ConfigEvents
  <2> DEFINE told == [kind |-> IF fresh THEN "page" ELSE "overlay", set |-> page]
  <2>2. told \in Messages
    BY <2>1 DEF Messages
  <2>3. Post(<<told>>)
    BY <1>2 DEF ConfigEvents
  <2> HIDE DEF told
  <2>4. wire' \in Seq(Messages)
    <3>1. <<told>> \in Seq(Messages)
      BY <2>2
    <3> QED BY <1>1, <2>3, <3>1, PostTyped
  <2>5. auto' \in Watched \cup {NoPatch}
    BY <1>1, <1>2 DEF ConfigEvents, TypeOK, Watched
  <2>6. TypeOK'
    BY <1>1, <1>2, <2>4, <2>5 DEF TypeOK, ConfigEvents, histVars, Watched
  <2>7. ~settling' /\ (waiting' => waiting) /\ (auto' # NoPatch => auto # NoPatch)
    BY <1>1, <1>2 DEF ConfigEvents, TypeOK
  <2> QED BY <1>2, <2>6, <2>7 DEF SeqInv, SettleClean, WriterInv, ConfigEvents
<1>3. CASE NoConfigEvents
  <2>1. /\ ~settling' /\ pc' = "publish" /\ overlay' \in BOOLEAN
        /\ UNCHANGED <<settling, inbox, ready, idle, core, dirty, slot, full, page, fresh,
                       done, answers>>
        /\ UNCHANGED <<seqVars, outVars, histVars>>
    BY <1>1, <1>3 DEF TypeOK, NoConfigEvents
  <2>2. TypeOK'
    BY <1>1, <2>1 DEF TypeOK, seqVars, outVars, histVars
  <2> QED BY <1>3, <2>2, SeqUntouched DEF NoConfigEvents, seqVars
<1>4. CASE Publish
  <2>1. wire' \in Seq(Messages) /\ <<>> \in Seq(Messages)
    BY <1>1, <1>4, PostTyped, EmptySeq DEF Publish
  <2>2. TypeOK'
    BY <1>1, <1>4, <2>1 DEF TypeOK, Publish, seqVars, linkVars, histVars
  <2> QED BY <1>4, <2>2, SeqUntouched DEF Publish, seqVars
<1>. QED
  BY <1>2, <1>3, <1>4

LEMMA WindowStep ==
  ASSUME SeqInv, Windows
  PROVE  SeqInv'
<1>1. PICK kind \in {"edit", "patch"}, set \in Partial : UiSend(kind, set)
  BY EditsAssumption DEF Windows, UiEdit, UiMark, UiPatch
<1>2. TypeOK /\ inbox \in Seq(Cmd) /\ issued + 1 \in Nat /\ process \in Nat
  BY DEF SeqInv, TypeOK
<1>3. [kind |-> kind, n |-> issued + 1, set |-> set, process |-> process] \in Cmd
  BY <1>2 DEF Cmd
<1>4. inbox' \in Seq(Cmd) /\ issued' \in Nat
  BY <1>1, <1>2, <1>3, AppendProperties DEF UiSend
<1>5. TypeOK'
  BY <1>1, <1>2, <1>4 DEF TypeOK, UiSend, seqVars, outVars, linkVars
<1>. QED
  BY <1>1, <1>5, SeqUntouched DEF UiSend, seqVars

LEMMA MergedPage ==
  ASSUME NEW a \in Pages, NEW b \in Pages, NEW D
  PROVE  [f \in Fields |-> IF f \in D THEN a[f] ELSE b[f]] \in Pages
  BY DEF Pages

LEMMA EnvironmentStep ==
  ASSUME SeqInv, Environment
  PROVE  SeqInv'
<1>1. TypeOK
  BY DEF SeqInv
<1>2. CASE EchoDeadline
  <2>1. TypeOK'
    BY <1>1, <1>2 DEF TypeOK, EchoDeadline, loopVars, outVars, linkVars, histVars
  <2> QED BY <1>2, <2>1, SeqUntouched DEF EchoDeadline, loopVars
<1>3. CASE PatchDeadline
  <2>1. auto' \in Watched
    BY <1>1, <1>3 DEF TypeOK, PatchDeadline, Watched
  <2>2. TypeOK'
    BY <1>1, <1>3, <2>1 DEF TypeOK, PatchDeadline, loopVars, outVars, linkVars, histVars, Watched
  <2> QED BY <1>3, <2>2, SeqUntouched DEF PatchDeadline, loopVars
<1>4. CASE CompactWrites
  <2>1. rewrites' \in Nat
    <3>1. rewrites \in Nat /\ rewrites' = rewrites + 1
      BY <1>1, <1>4 DEF TypeOK, CompactWrites
    <3> QED BY <3>1
  <2>2. /\ rewrites' \in Nat /\ idle' \in BOOLEAN
        /\ UNCHANGED <<loopVars, seqVars, outVars, linkVars, issued, process, episodes,
                       done, answers>>
    BY <2>1, <1>4 DEF CompactWrites
  <2>3. TypeOK'
    BY <1>1, <2>2 DEF TypeOK, loopVars, seqVars, outVars, linkVars
  <2> QED BY <1>4, <2>3, SeqUntouched DEF CompactWrites, loopVars, seqVars
<1>5. CASE CompactEchoed
  <2>1. PICK written \in [Overlaid -> Values] :
          /\ core' = [f \in Fields |-> IF f \in Overlaid THEN written[f] ELSE core[f]]
          /\ page' = IF page = NoPage THEN NoPage
                     ELSE [f \in Fields |-> IF f \in Overlaid THEN written[f] ELSE page[f]]
    BY <1>5, ForeignAssumption DEF CompactEchoed
  <2>2. core' \in Pages /\ page' \in Pages \cup {NoPage}
    BY <1>1, <2>1 DEF TypeOK, Pages
  <2>3. page' = NoPage => page = NoPage
    <3>1. CASE page # NoPage
      <4>1. page' \in Pages
        BY <1>1, <2>1, <3>1 DEF TypeOK, Pages
      <4> QED BY <4>1, NoneAssumption
    <3> QED BY <3>1
  <2>4. TypeOK'
    BY <1>1, <1>5, <2>2, <2>3 DEF TypeOK, CompactEchoed, loopVars, seqVars, outVars, histVars
  <2> QED BY <1>5, <2>4, SeqUntouched DEF CompactEchoed, loopVars, seqVars
<1>6. CASE CompactGivesUp
  <2>1. TypeOK'
    BY <1>1, <1>6 DEF TypeOK, CompactGivesUp, loopVars, seqVars, outVars, linkVars, histVars
  <2> QED BY <1>6, <2>1, SeqUntouched DEF CompactGivesUp, loopVars, seqVars
<1>7. CASE CoreTakes
  <2>1. core \in Pages /\ slot \in Pages
    BY <1>1, <1>7 DEF TypeOK, CoreTakes
  <2>2. PICK kept \in SUBSET CoreOwned :
          core' = [f \in Fields |-> IF f \in kept THEN core[f] ELSE slot[f]]
    BY <1>7 DEF CoreTakes
  <2>3. core' \in Pages
    BY <2>1, <2>2, MergedPage
  <2>4. TypeOK'
    BY <1>1, <1>7, <2>3 DEF TypeOK, CoreTakes, loopVars, seqVars, outVars, histVars
  <2> QED BY <1>7, <2>4, SeqUntouched DEF CoreTakes, loopVars, seqVars
<1>8. CASE PacketLost
  <2>1. TypeOK'
    BY <1>1, <1>8 DEF TypeOK, PacketLost, loopVars, seqVars, outVars, histVars
  <2> QED BY <1>8, <2>1, SeqUntouched DEF PacketLost, loopVars, seqVars
<1>9. CASE CoreRewrites
  <2>1. PICK f \in CoreOwned, v \in Values : core' = [core EXCEPT ![f] = v]
    BY <1>9, ForeignAssumption DEF CoreRewrites
  <2>2. rewrites' \in Nat /\ core \in Pages
    BY <1>1, <1>9 DEF TypeOK, CoreRewrites
  <2>3. core' \in Pages
    BY <2>1, <2>2 DEF Pages
  <2>4. TypeOK'
    BY <1>1, <1>9, <2>2, <2>3 DEF TypeOK, CoreRewrites, loopVars, seqVars, outVars
  <2> QED BY <1>9, <2>4, SeqUntouched DEF CoreRewrites, loopVars, seqVars
<1>10. CASE SnapshotArrives
  <2>1. page' \in Pages /\ full' \in Pages /\ page' # NoPage
    BY <1>1, <1>10, NoneAssumption DEF TypeOK, SnapshotArrives
  <2>2. auto' \in Watched \cup {NoPatch} /\ (auto' # NoPatch => auto # NoPatch)
    BY <1>1, <1>10 DEF TypeOK, SnapshotArrives, Watched
  <2>3. TypeOK'
    BY <1>1, <1>10, <2>1, <2>2 DEF TypeOK, SnapshotArrives, loopVars, outVars, Watched
  <2> QED BY <1>10, <2>2, <2>3, SeqUntouched DEF SnapshotArrives, loopVars
<1>. QED
  BY <1>2, <1>3, <1>4, <1>5, <1>6, <1>7, <1>8, <1>9, <1>10 DEF Environment

-----------------------------------------------------------------------------
(* The theorems. *)

LEMMA SeqStep ==
  ASSUME SeqInv, [Next]_vars
  PROVE  SeqInv'
<1>1. CASE FeedLoop
  <2>1. CASE Commands
    BY <2>1, TakeEditStep, PatchStep DEF Commands
  <2>2. CASE Drive
    BY <2>2, DriveStep
  <2>3. CASE Settle
    BY <2>3, SettleStep
  <2>4. CASE LifecycleEvents
    BY <2>4, LifecycleStep
  <2>5. CASE ConfigEvents \/ NoConfigEvents \/ Publish
    BY <2>5, EventStep
  <2> QED BY <1>1, <2>1, <2>2, <2>3, <2>4, <2>5 DEF FeedLoop
<1>2. CASE Windows
  BY <1>2, WindowStep
<1>3. CASE Environment
  BY <1>3, EnvironmentStep
<1>4. CASE UNCHANGED vars
  <2>1. TypeOK'
    BY <1>4 DEF SeqInv, TypeOK, vars, loopVars, seqVars, outVars, linkVars, histVars
  <2> QED BY <1>4, <2>1, SeqUntouched DEF vars, loopVars, seqVars
<1>. QED
  BY <1>1, <1>2, <1>3, <1>4 DEF Next

(* The queue, the awaited packet, the import and the budget stay           *)
(* consistent through every method of SharedConfigSequence.                *)
THEOREM SeqInvariant == Spec => []SeqInv
<1>1. Init => SeqInv
  BY SeqInit
<1>2. SeqInv /\ [Next]_vars => SeqInv'
  BY SeqStep
<1>. QED
  BY <1>1, <1>2, PTL DEF Spec

(* Every variable keeps its type; no edit is charged beyond MAX_ATTEMPTS.  *)
THEOREM SharedTypeCorrect == Spec => []TypeOK
<1>1. SeqInv => TypeOK
  BY DEF SeqInv
<1>. QED
  BY <1>1, SeqInvariant, PTL

(* next_action() pops what the awaited packet carried, and nothing else.   *)
THEOREM SharedPendingCorrect == Spec => []PendingCoversQueue
<1>1. SeqInv => PendingCoversQueue
  BY InvImplies
<1>. QED
  BY <1>1, SeqInvariant, PTL

(* charge_attempts spends the budget in order, and an edit is given up     *)
(* only after its full budget of packets.                                  *)
THEOREM SharedBudgetCorrect == Spec => []BudgetInOrder
<1>1. SeqInv => BudgetInOrder
  BY InvImplies
<1>. QED
  BY <1>1, SeqInvariant, PTL

(* An automation import and an ordinary packet exclude each other.         *)
THEOREM OneWriterCorrect == Spec => []OneWriter
<1>1. SeqInv => OneWriter
  BY InvImplies
<1>. QED
  BY <1>1, SeqInvariant, PTL

-----------------------------------------------------------------------------
(* The answers of the automation.  Commands are numbered as they are sent, *)
(* and the channel keeps their order: the ones still in it are younger     *)
(* than every answer and than the request observed, which has only been    *)
(* answered "submitted".                                                   *)

ChannelInv ==
  /\ \A i \in 1..Len(inbox) : inbox[i].n <= issued
  /\ \A i, j \in 1..Len(inbox) : i < j => inbox[i].n < inbox[j].n
  /\ \A i \in 1..Len(inbox) : \A k \in 1..Len(answers) : answers[k].n < inbox[i].n
  /\ \A i \in 1..Len(inbox) : auto # NoPatch => auto.n < inbox[i].n
  /\ \A k \in 1..Len(answers) : answers[k].n <= issued
  /\ auto # NoPatch => auto.n <= issued

ObservedInv ==
  auto # NoPatch =>
    \A k \in 1..Len(answers) : answers[k].n = auto.n => answers[k].status = "submitted"

(* AnsweredOnce, over positions. *)
OnceInv ==
  \A i, j \in 1..Len(answers) :
    (i < j /\ answers[i].n = answers[j].n) =>
      /\ answers[i].status = "submitted"
      /\ answers[j].status \in {"confirmed", "unknown"}
      /\ auto # NoPatch => auto.n # answers[j].n

AnswerInv == ChannelInv /\ ObservedInv /\ OnceInv

LEMMA AnswerInit == Init => AnswerInv
  BY EmptySeq DEF Init, AnswerInv, ChannelInv, ObservedInv, OnceInv

LEMMA AnswersUntouched ==
  ASSUME AnswerInv, UNCHANGED <<inbox, answers, issued>>,
         auto' # NoPatch => auto # NoPatch /\ auto'.n = auto.n
  PROVE  AnswerInv'
<1>1. ChannelInv'
  BY DEF AnswerInv, ChannelInv
<1>2. ObservedInv' /\ OnceInv'
  BY DEF AnswerInv, ObservedInv, OnceInv
<1>. QED
  BY <1>1, <1>2 DEF AnswerInv

(* What TypeOK says of the three. *)
LEMMA AnswerTypes ==
  ASSUME TypeOK
  PROVE  /\ inbox \in Seq(Cmd) /\ Len(inbox) \in Nat
         /\ \A i \in 1..Len(inbox) : inbox[i].n \in Nat
         /\ answers \in Seq(Answers) /\ Len(answers) \in Nat
         /\ \A k \in 1..Len(answers) : answers[k].n \in Nat
         /\ auto # NoPatch => auto.n \in Nat
         /\ issued \in Nat
<1>1. inbox \in Seq(Cmd) /\ answers \in Seq(Answers) /\ issued \in Nat
      /\ (auto # NoPatch => auto.n \in Nat)
  BY DEF TypeOK, Answers, Statuses
<1>2. \A i \in 1..Len(inbox) : inbox[i] \in Cmd
  BY <1>1, ElementOfSeq
<1>3. \A k \in 1..Len(answers) : answers[k] \in Answers
  BY <1>1, ElementOfSeq
<1>. QED
  BY <1>1, <1>2, <1>3, LenProperties DEF Cmd, Answers

LEMMA TakenHead ==
  ASSUME TypeOK, ChannelInv, inbox # <<>>
  PROVE  /\ Head(inbox) = inbox[1] /\ 1 \in 1..Len(inbox)
         /\ Len(Tail(inbox)) = Len(inbox) - 1
         /\ \A i \in 1..Len(Tail(inbox)) :
              /\ i + 1 \in 1..Len(inbox) /\ Tail(inbox)[i] = inbox[i + 1]
              /\ inbox[1].n < Tail(inbox)[i].n
<1>1. inbox \in Seq(Cmd) /\ Len(inbox) \in Nat
  BY AnswerTypes
<1>2. Head(inbox) = inbox[1] /\ Len(inbox) \in Nat \ {0}
  BY <1>1, TailIsSuffix
<1>3. /\ Len(Tail(inbox)) = Len(inbox) - 1
      /\ \A i \in 1..Len(Tail(inbox)) : Tail(inbox)[i] = inbox[i + 1]
  BY <1>1, HeadTailProperties
<1>4. \A i \in 1..Len(Tail(inbox)) : i + 1 \in 1..Len(inbox) /\ 1 < i + 1
  BY <1>1, <1>3
<1>5. 1 \in 1..Len(inbox)
  BY <1>2
<1>6. \A i \in 1..Len(Tail(inbox)) : inbox[1].n < inbox[i + 1].n
  BY <1>4, <1>5 DEF ChannelInv
<1>. QED
  BY <1>2, <1>3, <1>4, <1>5, <1>6

LEMMA AppendedAnswer ==
  ASSUME TypeOK, NEW n \in Nat, NEW status \in Statuses, NEW answered \in BOOLEAN,
         Answer(n, status, answered)
  PROVE  /\ Len(answers') = Len(answers) + 1
         /\ \A k \in 1..Len(answers) : answers'[k] = answers[k]
         /\ answers'[Len(answers) + 1].n = n
         /\ answers'[Len(answers) + 1].status = status
         /\ \A k \in 1..Len(answers') : k \in 1..Len(answers) \/ k = Len(answers) + 1
<1> DEFINE a == [n |-> n, status |-> status, answered |-> answered]
<1>1. a \in Answers /\ a.n = n /\ a.status = status
  BY DEF Answers
<1>2. answers' = Append(answers, a) /\ answers \in Seq(Answers) /\ Len(answers) \in Nat
  BY AnswerTypes DEF Answer
<1> HIDE DEF a
<1>3. /\ Len(answers') = Len(answers) + 1
      /\ \A k \in 1..Len(answers) : answers'[k] = answers[k]
      /\ answers'[Len(answers) + 1] = a
  BY <1>1, <1>2, AppendProperties
<1>. QED
  BY <1>1, <1>2, <1>3

(* A command is taken from the channel without an answer. *)
LEMMA TakenSilently ==
  ASSUME TypeOK, AnswerInv, inbox # <<>>, inbox' = Tail(inbox),
         UNCHANGED <<answers, auto, issued>>
  PROVE  AnswerInv'
<1>1. \A i \in 1..Len(inbox') : i + 1 \in 1..Len(inbox) /\ inbox'[i] = inbox[i + 1]
  BY TakenHead DEF AnswerInv
<1>2. \A i, j \in 1..Len(inbox') : i < j => i + 1 < j + 1
  BY AnswerTypes, TakenHead DEF AnswerInv
<1>3. \A i \in 1..Len(inbox') : \A k \in 1..Len(answers') : answers'[k].n < inbox'[i].n
  BY <1>1 DEF AnswerInv, ChannelInv
<1>4. \A i, j \in 1..Len(inbox') : i < j => inbox'[i].n < inbox'[j].n
  BY <1>1, <1>2 DEF AnswerInv, ChannelInv
<1>5. ChannelInv'
  BY <1>1, <1>3, <1>4 DEF AnswerInv, ChannelInv
<1>6. ObservedInv' /\ OnceInv'
  BY DEF AnswerInv, ObservedInv, OnceInv
<1>. QED
  BY <1>5, <1>6 DEF AnswerInv

(* A request is taken and answered: refused, already so, or submitted, and *)
(* only then observed.                                                     *)
LEMMA HeadAnswer ==
  ASSUME TypeOK, AnswerInv, inbox # <<>>, inbox' = Tail(inbox), UNCHANGED issued,
         NEW status \in Statuses, Answer(Head(inbox).n, status, FALSE),
         \/ auto' = auto
         \/ auto = NoPatch /\ status = "submitted" /\ auto'.n = Head(inbox).n
  PROVE  AnswerInv'
<1> DEFINE h == inbox[1].n
           m == Len(answers)
<1>1. /\ m \in Nat /\ 1 \in 1..Len(inbox) /\ Head(inbox) = inbox[1]
      /\ \A k \in 1..m : answers[k].n \in Nat
      /\ auto # NoPatch => auto.n \in Nat
  BY AnswerTypes, TakenHead DEF AnswerInv
<1>2. h \in Nat /\ h <= issued /\ issued \in Nat
  BY <1>1, AnswerTypes DEF AnswerInv, ChannelInv
<1>3. /\ \A k \in 1..m : answers[k].n < h /\ answers[k].n # h
      /\ auto # NoPatch => auto.n < h /\ auto.n # h
  <2>1. /\ \A k \in 1..m : answers[k].n < h
        /\ auto # NoPatch => auto.n < h
    BY <1>1 DEF AnswerInv, ChannelInv
  <2> QED BY SMTT(60), <1>1, <1>2, <2>1
<1>4. Answer(h, status, FALSE)
  BY <1>1
<1>5. /\ Len(answers') = m + 1
      /\ \A k \in 1..m : answers'[k] = answers[k]
      /\ answers'[m + 1].n = h /\ answers'[m + 1].status = status
      /\ \A k \in 1..Len(answers') : k \in 1..m \/ k = m + 1
  BY <1>2, <1>4, AppendedAnswer
<1>6. /\ Len(inbox') = Len(inbox) - 1
      /\ \A i \in 1..Len(inbox') :
           i + 1 \in 1..Len(inbox) /\ inbox'[i] = inbox[i + 1] /\ h < inbox'[i].n
  BY TakenHead DEF AnswerInv
<1>7. \A i, j \in 1..Len(inbox') : i < j => inbox'[i].n < inbox'[j].n
  <2>1. \A i, j \in 1..Len(inbox') : i < j => i + 1 < j + 1
    BY <1>6, AnswerTypes
  <2> QED BY <1>6, <2>1 DEF AnswerInv, ChannelInv
<1> HIDE DEF h, m
<1>8. \A i \in 1..Len(inbox') : \A k \in 1..Len(answers') : answers'[k].n < inbox'[i].n
  <2> SUFFICES ASSUME NEW i \in 1..Len(inbox'), NEW k \in 1..Len(answers')
               PROVE  answers'[k].n < inbox'[i].n
    OBVIOUS
  <2>1. CASE k \in 1..m
    BY <1>5, <1>6, <2>1 DEF AnswerInv, ChannelInv, m
  <2>2. CASE k = m + 1
    BY <1>5, <1>6, <2>2
  <2> QED BY <1>5, <2>1, <2>2
<1>9. \A i \in 1..Len(inbox') : auto' # NoPatch => auto'.n < inbox'[i].n
  <2> SUFFICES ASSUME NEW i \in 1..Len(inbox'), auto' # NoPatch
               PROVE  auto'.n < inbox'[i].n
    OBVIOUS
  <2>1. CASE auto' = auto
    BY <1>6, <2>1 DEF AnswerInv, ChannelInv
  <2>2. CASE auto'.n = Head(inbox).n
    BY <1>1, <1>6, <2>2 DEF h
  <2> QED BY <2>1, <2>2
<1>10. /\ \A k \in 1..Len(answers') : answers'[k].n <= issued
       /\ auto' # NoPatch => auto'.n <= issued
  BY <1>1, <1>2, <1>5 DEF AnswerInv, ChannelInv, h, m
<1>11. ChannelInv'
  BY <1>6, <1>7, <1>8, <1>9, <1>10 DEF AnswerInv, ChannelInv
<1>12. ObservedInv'
  <2> SUFFICES ASSUME auto' # NoPatch, NEW k \in 1..Len(answers'), answers'[k].n = auto'.n
               PROVE  answers'[k].status = "submitted"
    BY DEF ObservedInv
  <2>1. CASE auto' = auto
    <3>1. k \in 1..m
      BY <1>3, <1>5, <2>1
    <3> QED BY <1>5, <2>1, <3>1 DEF AnswerInv, ObservedInv, m
  <2>2. CASE status = "submitted" /\ auto'.n = Head(inbox).n
    <3>1. k = m + 1
      BY <1>1, <1>3, <1>5, <2>2 DEF h
    <3> QED BY <1>5, <2>2, <3>1
  <2> QED BY <2>1, <2>2
<1>13. OnceInv'
  <2> SUFFICES ASSUME NEW i \in 1..Len(answers'), NEW j \in 1..Len(answers'),
                      i < j, answers'[i].n = answers'[j].n
               PROVE  /\ answers'[i].status = "submitted"
                      /\ answers'[j].status \in {"confirmed", "unknown"}
                      /\ auto' # NoPatch => auto'.n # answers'[j].n
    BY DEF OnceInv
  <2>1. i \in 1..m
    BY <1>1, <1>5 DEF m
  <2>2. j \in 1..m
    BY <1>3, <1>5, <2>1
  <2>3. /\ answers[i].status = "submitted"
        /\ answers[j].status \in {"confirmed", "unknown"}
        /\ auto # NoPatch => auto.n # answers[j].n
    BY <1>5, <2>1, <2>2 DEF AnswerInv, OnceInv, m
  <2>4. auto' # NoPatch => auto'.n # answers[j].n
    BY <1>1, <1>3, <2>2, <2>3 DEF h
  <2> QED BY <1>5, <2>1, <2>2, <2>3, <2>4
<1>. QED
  BY <1>11, <1>12, <1>13 DEF AnswerInv

(* The request observed is answered with its outcome, and observed no more. *)
LEMMA FinalAnswer ==
  ASSUME TypeOK, AnswerInv, UNCHANGED <<inbox, issued>>, auto # NoPatch, auto' = NoPatch,
         NEW status \in {"confirmed", "unknown"}, Answer(auto.n, status, auto.answered)
  PROVE  AnswerInv'
<1> DEFINE m == Len(answers)
<1>1. m \in Nat /\ auto.n \in Nat /\ auto.answered \in BOOLEAN /\ status \in Statuses
  BY AnswerTypes DEF TypeOK, Statuses
<1>2. /\ Len(answers') = m + 1
      /\ \A k \in 1..m : answers'[k] = answers[k]
      /\ answers'[m + 1].n = auto.n /\ answers'[m + 1].status = status
      /\ \A k \in 1..Len(answers') : k \in 1..m \/ k = m + 1
  BY <1>1, AppendedAnswer
<1>3. ChannelInv'
  BY <1>2 DEF AnswerInv, ChannelInv
<1>4. ObservedInv'
  BY DEF ObservedInv
<1>5. OnceInv'
  <2> SUFFICES ASSUME NEW i \in 1..Len(answers'), NEW j \in 1..Len(answers'),
                      i < j, answers'[i].n = answers'[j].n
               PROVE  /\ answers'[i].status = "submitted"
                      /\ answers'[j].status \in {"confirmed", "unknown"}
    BY DEF OnceInv
  <2>1. i \in 1..m
    BY <1>1, <1>2
  <2>2. CASE j \in 1..m
    BY <1>2, <2>1, <2>2 DEF AnswerInv, OnceInv
  <2>3. CASE j = m + 1
    BY <1>2, <2>1, <2>3 DEF AnswerInv, ObservedInv
  <2> QED BY <1>2, <2>2, <2>3
<1>. QED
  BY <1>3, <1>4, <1>5 DEF AnswerInv

LEMMA CancelAnswer ==
  ASSUME TypeOK, AnswerInv, UNCHANGED <<inbox, issued>>, CancelAutomation
  PROVE  AnswerInv'
<1>1. CASE auto = NoPatch
  BY <1>1, AnswersUntouched DEF CancelAutomation
<1>2. CASE auto # NoPatch
  BY <1>2, FinalAnswer DEF CancelAutomation
<1>. QED
  BY <1>1, <1>2

(* A command is issued: it is younger than everything. *)
LEMMA IssuedCommand ==
  ASSUME TypeOK, AnswerInv, NEW kind \in {"edit", "patch"}, NEW set \in Partial,
         UiSend(kind, set)
  PROVE  AnswerInv'
<1> DEFINE cmd == [kind |-> kind, n |-> issued + 1, set |-> set, process |-> process]
           m == Len(inbox)
<1>1. /\ inbox \in Seq(Cmd) /\ m \in Nat /\ issued \in Nat
      /\ \A i \in 1..m : inbox[i].n \in Nat
      /\ \A k \in 1..Len(answers) : answers[k].n \in Nat
      /\ auto # NoPatch => auto.n \in Nat
  BY AnswerTypes
<1>2. cmd \in Cmd /\ cmd.n = issued + 1
  BY <1>1 DEF TypeOK, Cmd
<1>3. inbox' = Append(inbox, cmd) /\ issued' = issued + 1
      /\ UNCHANGED <<answers, auto>>
  BY DEF UiSend, seqVars
<1> HIDE DEF cmd
<1>4. /\ Len(inbox') = m + 1
      /\ \A i \in 1..m : inbox'[i] = inbox[i]
      /\ inbox'[m + 1] = cmd
  BY <1>1, <1>2, <1>3, AppendProperties
<1>5. \A i \in 1..Len(inbox') : i \in 1..m \/ i = m + 1
  BY <1>1, <1>4
<1>6. /\ \A i \in 1..m : inbox[i].n < issued + 1
      /\ \A k \in 1..Len(answers) : answers[k].n < issued + 1
      /\ auto # NoPatch => auto.n < issued + 1
  BY <1>1 DEF AnswerInv, ChannelInv
<1> HIDE DEF m
<1>7. \A i \in 1..Len(inbox') : inbox'[i].n <= issued'
  BY <1>1, <1>2, <1>3, <1>4, <1>5, <1>6
<1>8. \A i, j \in 1..Len(inbox') : i < j => inbox'[i].n < inbox'[j].n
  <2> SUFFICES ASSUME NEW i \in 1..Len(inbox'), NEW j \in 1..Len(inbox'), i < j
               PROVE  inbox'[i].n < inbox'[j].n
    OBVIOUS
  <2>1. i \in 1..m
    BY <1>1, <1>4
  <2>2. CASE j \in 1..m
    BY <1>4, <2>1, <2>2 DEF AnswerInv, ChannelInv, m
  <2>3. CASE j = m + 1
    BY <1>2, <1>4, <1>6, <2>1, <2>3
  <2> QED BY <1>5, <2>2, <2>3
<1>9. \A i \in 1..Len(inbox') : \A k \in 1..Len(answers') : answers'[k].n < inbox'[i].n
  <2> SUFFICES ASSUME NEW i \in 1..Len(inbox'), NEW k \in 1..Len(answers)
               PROVE  answers[k].n < inbox'[i].n
    BY <1>3
  <2>1. CASE i \in 1..m
    BY <1>4, <2>1 DEF AnswerInv, ChannelInv, m
  <2>2. CASE i = m + 1
    BY <1>2, <1>4, <1>6, <2>2
  <2> QED BY <1>5, <2>1, <2>2
<1>10. \A i \in 1..Len(inbox') : auto' # NoPatch => auto'.n < inbox'[i].n
  <2> SUFFICES ASSUME NEW i \in 1..Len(inbox'), auto # NoPatch
               PROVE  auto.n < inbox'[i].n
    BY <1>3
  <2>1. CASE i \in 1..m
    BY <1>4, <2>1 DEF AnswerInv, ChannelInv, m
  <2>2. CASE i = m + 1
    BY <1>2, <1>4, <1>6, <2>2
  <2> QED BY <1>5, <2>1, <2>2
<1>11. /\ \A k \in 1..Len(answers') : answers'[k].n <= issued'
       /\ auto' # NoPatch => auto'.n <= issued'
  BY <1>1, <1>3, <1>6
<1>12. ChannelInv'
  BY <1>7, <1>8, <1>9, <1>10, <1>11 DEF ChannelInv
<1>13. ObservedInv' /\ OnceInv'
  BY <1>3 DEF AnswerInv, ObservedInv, OnceInv
<1>. QED
  BY <1>12, <1>13 DEF AnswerInv

-----------------------------------------------------------------------------
LEMMA LoopAnswers ==
  ASSUME TypeOK, AnswerInv, FeedLoop
  PROVE  AnswerInv'
<1>1. CASE TakeEdit
  BY <1>1, TakenSilently DEF TakeEdit, Draining, histVars
<1>2. CASE PatchRefused
  BY <1>2, HeadAnswer DEF PatchRefused, Draining, seqVars, histVars, Statuses
<1>3. CASE PatchAlready
  BY <1>3, HeadAnswer DEF PatchAlready, Draining, seqVars, histVars, Statuses
<1>4. CASE PatchSubmitted
  <2>1. auto = NoPatch /\ auto'.n = Head(inbox).n
    BY <1>4 DEF PatchSubmitted, WriterFree
  <2> QED BY <1>4, <2>1, HeadAnswer DEF PatchSubmitted, Draining, histVars, Statuses
<1>5. CASE DriveAutomation
  <2>1. UNCHANGED <<inbox, issued>> /\ auto # NoPatch
    BY <1>5 DEF DriveAutomation, histVars
  <2>2. CASE auto' = NoPatch /\ Answer(auto.n, "confirmed", auto.answered)
    BY <2>1, <2>2, FinalAnswer
  <2>3. CASE auto' = NoPatch /\ Answer(auto.n, "unknown", auto.answered)
    BY <2>1, <2>3, FinalAnswer
  <2>4. CASE auto' = [auto EXCEPT !.updated = FALSE] /\ UNCHANGED answers
    <3>1. auto'.n = auto.n
      BY <2>1, <2>4 DEF TypeOK
    <3> QED BY <2>1, <2>4, <3>1, AnswersUntouched
  <2> QED BY <1>5, <2>2, <2>3, <2>4 DEF DriveAutomation
<1>6. CASE Drive /\ ~DriveAutomation
  <2>1. UNCHANGED <<inbox, answers, issued, auto>>
    BY <1>6 DEF Drive, DriveGated, DriveNothing, DriveNoPage, DriveTimedOut, DriveConfirmed,
                DriveContradicted, DrivePlan, DriveStart, seqVars, histVars
  <2> QED BY <2>1, AnswersUntouched
<1>7. CASE Settle
  <2>1. UNCHANGED <<inbox, answers, issued, auto>>
    BY <1>7 DEF Settle, DropSatisfied, GiveUp, Send, SendFails, Drained, MustSend, Stays,
                loopVars, seqVars, histVars
  <2> QED BY <2>1, AnswersUntouched
<1>8. CASE NoLifecycleEvent \/ BecomeReady
  <2>1. UNCHANGED <<inbox, answers, issued, auto>>
    BY <1>8 DEF NoLifecycleEvent, BecomeReady, Lifecycle, seqVars, histVars
  <2> QED BY <2>1, AnswersUntouched
<1>9. CASE LoseConnection \/ ServerRestart \/ NewRun
  <2>1. UNCHANGED <<inbox, issued>> /\ CancelAutomation
    BY <1>9 DEF LoseConnection, ServerRestart, NewRun, Lifecycle
  <2> QED BY <2>1, CancelAnswer
<1>10. CASE ConfigEvents
  <2>1. UNCHANGED <<inbox, answers, issued>>
    BY <1>10 DEF ConfigEvents, histVars
  <2>2. auto' # NoPatch => auto # NoPatch /\ auto'.n = auto.n
    BY <1>10 DEF ConfigEvents, TypeOK
  <2> QED BY <2>1, <2>2, AnswersUntouched
<1>11. CASE NoConfigEvents \/ Publish
  <2>1. UNCHANGED <<inbox, answers, issued, auto>>
    BY <1>11 DEF NoConfigEvents, Publish, seqVars, histVars
  <2> QED BY <2>1, AnswersUntouched
<1>. QED
  BY <1>1, <1>2, <1>3, <1>4, <1>5, <1>6, <1>7, <1>8, <1>9, <1>10, <1>11
     DEF FeedLoop, Commands, LifecycleEvents

LEMMA EnvironmentAnswers ==
  ASSUME TypeOK, AnswerInv, Environment
  PROVE  AnswerInv'
<1>1. CASE PatchDeadline \/ SnapshotArrives
  <2>1. UNCHANGED <<inbox, answers, issued>>
    BY <1>1 DEF PatchDeadline, SnapshotArrives, loopVars, histVars
  <2>2. auto' # NoPatch => auto # NoPatch /\ auto'.n = auto.n
    BY <1>1 DEF PatchDeadline, SnapshotArrives, TypeOK
  <2> QED BY <2>1, <2>2, AnswersUntouched
<1>2. CASE EchoDeadline \/ CompactWrites \/ CompactEchoed \/ CompactGivesUp
  <2>1. UNCHANGED <<inbox, answers, issued, auto>>
    BY <1>2 DEF EchoDeadline, CompactWrites, CompactEchoed, CompactGivesUp, loopVars, seqVars,
                histVars
  <2> QED BY <2>1, AnswersUntouched
<1>3. CASE CoreTakes \/ PacketLost \/ CoreRewrites
  <2>1. UNCHANGED <<inbox, answers, issued, auto>>
    BY <1>3 DEF CoreTakes, PacketLost, CoreRewrites, loopVars, seqVars, histVars
  <2> QED BY <2>1, AnswersUntouched
<1>. QED
  BY <1>1, <1>2, <1>3 DEF Environment

LEMMA AnswerStep ==
  ASSUME TypeOK, AnswerInv, [Next]_vars
  PROVE  AnswerInv'
<1>1. CASE Windows
  <2>1. PICK kind \in {"edit", "patch"}, set \in Partial : UiSend(kind, set)
    BY <1>1, EditsAssumption DEF Windows, UiEdit, UiMark, UiPatch
  <2> QED BY <2>1, IssuedCommand
<1>2. CASE UNCHANGED vars
  BY <1>2, AnswersUntouched DEF vars, loopVars, seqVars, histVars
<1>. QED
  BY <1>1, <1>2, LoopAnswers, EnvironmentAnswers DEF Next

(* No request for an import is answered twice, but for the outcome of one  *)
(* that was submitted; and after the outcome it is not observed.           *)
THEOREM AnsweredOnceCorrect == Spec => []AnsweredOnce
<1>1. Init => AnswerInv
  BY AnswerInit
<1>2. TypeOK /\ AnswerInv /\ [Next]_vars => AnswerInv'
  BY AnswerStep
<1>3. TypeOK /\ AnswerInv => AnsweredOnce
  <2> SUFFICES ASSUME TypeOK, AnswerInv
               PROVE  AnsweredOnce
    OBVIOUS
  <2>1. DOMAIN answers = 1..Len(answers)
    BY AnswerTypes, LenProperties
  <2> QED BY <2>1 DEF AnswerInv, OnceInv, AnsweredOnce
<1>. QED
  BY <1>1, <1>2, <1>3, SharedTypeCorrect, PTL DEF Spec

-----------------------------------------------------------------------------
(* The confirmation of an import.  A full snapshot that is unread when the *)
(* packet leaves lifts the flag all the same; it cannot agree with the     *)
(* import, because the import was compared with the page built from it.    *)
(* That needs the two to hold the same values where the import asks: no    *)
(* patch may name a setting that the compact channel overlays.             *)

Apart == \A set \in Patches : DOMAIN set \cap Overlaid = {}

(* The page is the retained snapshot, but for the overlaid settings. *)
PairedPages ==
  /\ (full = NoPage) <=> (page = NoPage)
  /\ page # NoPage => \A f \in Fields \ Overlaid : page[f] = full[f]

ApartInbox ==
  \A i \in 1..Len(inbox) : inbox[i].kind = "patch" => DOMAIN inbox[i].set \cap Overlaid = {}

(* Until the next snapshot the retained one contradicts the import. *)
Unechoed == auto # NoPatch /\ ~auto.answered => full # NoPage /\ ~Agrees(full, auto.want)

ConfirmedAnswered ==
  \A k \in 1..Len(answers) : answers[k].status = "confirmed" => answers[k].answered

EchoInv == PairedPages /\ ApartInbox /\ Unechoed /\ ConfirmedAnswered

LEMMA EchoInit == Init => EchoInv
  BY EmptySeq DEF Init, EchoInv, PairedPages, ApartInbox, Unechoed, ConfirmedAnswered

(* An answer that does not confirm, or confirms what was answered. *)
LEMMA AnsweredKept ==
  ASSUME TypeOK, ConfirmedAnswered, NEW n \in Nat, NEW status \in Statuses,
         NEW answered \in BOOLEAN, Answer(n, status, answered),
         status = "confirmed" => answered
  PROVE  ConfirmedAnswered'
<1> DEFINE a == [n |-> n, status |-> status, answered |-> answered]
           m == Len(answers)
<1>1. a \in Answers /\ (a.status = "confirmed" => a.answered)
  BY DEF Answers
<1>2. answers' = Append(answers, a) /\ answers \in Seq(Answers) /\ m \in Nat
  BY AnswerTypes DEF Answer
<1> HIDE DEF a
<1>3. /\ Len(answers') = m + 1
      /\ \A k \in 1..m : answers'[k] = answers[k]
      /\ answers'[m + 1] = a
  BY <1>1, <1>2, AppendProperties
<1>4. \A k \in 1..Len(answers') : k \in 1..m \/ k = m + 1
  BY <1>2, <1>3
<1>. QED
  BY <1>1, <1>3, <1>4 DEF ConfirmedAnswered

LEMMA CancelKept ==
  ASSUME TypeOK, ConfirmedAnswered, CancelAutomation
  PROVE  ConfirmedAnswered' /\ Unechoed'
<1>1. Unechoed'
  BY DEF CancelAutomation, Unechoed
<1>2. CASE auto = NoPatch
  BY <1>1, <1>2 DEF CancelAutomation, ConfirmedAnswered
<1>3. CASE auto # NoPatch
  <2>1. auto.n \in Nat /\ auto.answered \in BOOLEAN
    BY <1>3 DEF TypeOK
  <2>2. Answer(auto.n, "unknown", auto.answered)
    BY <1>3 DEF CancelAutomation
  <2> QED BY <1>1, <2>1, <2>2, AnsweredKept DEF Statuses
<1>. QED
  BY <1>1, <1>2, <1>3

(* The head leaves the channel. *)
LEMMA ApartTail ==
  ASSUME TypeOK, ApartInbox, inbox # <<>>, inbox' = Tail(inbox)
  PROVE  ApartInbox' /\ (Head(inbox).kind = "patch" => DOMAIN Head(inbox).set \cap Overlaid = {})
<1>1. inbox \in Seq(Cmd) /\ Len(inbox) \in Nat
  BY AnswerTypes
<1>2. Head(inbox) = inbox[1] /\ Len(inbox) \in Nat \ {0}
  BY <1>1, TailIsSuffix
<1>3. /\ Len(Tail(inbox)) = Len(inbox) - 1
      /\ \A i \in 1..Len(Tail(inbox)) : Tail(inbox)[i] = inbox[i + 1]
  BY <1>1, HeadTailProperties
<1>4. \A i \in 1..Len(Tail(inbox)) : i + 1 \in 1..Len(inbox)
  BY <1>1, <1>3
<1>5. ApartInbox'
  BY <1>3, <1>4 DEF ApartInbox
<1>6. 1 \in 1..Len(inbox)
  BY <1>2
<1>. QED
  BY <1>2, <1>5, <1>6 DEF ApartInbox

(* The import left because the page contradicts it; so does the snapshot.  *)
LEMMA SubmittedUnechoed ==
  ASSUME TypeOK, PairedPages, page # NoPage, inbox # <<>>, ~Agrees(page, Head(inbox).set),
         DOMAIN Head(inbox).set \cap Overlaid = {}
  PROVE  full # NoPage /\ ~Agrees(full, Head(inbox).set)
<1>1. inbox \in Seq(Cmd)
  BY AnswerTypes
<1>2. Head(inbox) \in Cmd
  BY <1>1, TailIsSuffix
<1>3. Head(inbox).set \in Partial
  BY <1>2 DEF Cmd
<1>4. PICK f \in DOMAIN Head(inbox).set : page[f] # Head(inbox).set[f]
  BY DEF Agrees
<1>5. f \in Fields \ Overlaid
  BY <1>3, <1>4, PartialFields
<1>6. full[f] = page[f] /\ full # NoPage
  BY <1>5 DEF PairedPages
<1>. QED
  BY <1>4, <1>6 DEF Agrees

LEMMA LoopEcho ==
  ASSUME TypeOK, EchoInv, FeedLoop
  PROVE  EchoInv'
<1>. USE DEF EchoInv
<1>1. CASE TakeEdit
  <2>1. inbox # <<>> /\ inbox' = Tail(inbox)
        /\ UNCHANGED <<full, page, auto, answers>>
    BY <1>1 DEF TakeEdit, Draining, linkVars
  <2> QED BY <2>1, ApartTail DEF PairedPages, Unechoed, ConfirmedAnswered
<1>2. CASE Commands /\ ~TakeEdit
  <2>1. /\ inbox # <<>> /\ inbox' = Tail(inbox) /\ Head(inbox).kind = "patch"
        /\ UNCHANGED <<full, page>>
    BY <1>2 DEF Commands, PatchRefused, PatchAlready, PatchSubmitted, Draining, linkVars
  <2>2. /\ ApartInbox' /\ PairedPages'
        /\ DOMAIN Head(inbox).set \cap Overlaid = {}
    BY <2>1, ApartTail DEF PairedPages
  <2>3. Head(inbox).n \in Nat
    <3>1. inbox \in Seq(Cmd)
      BY AnswerTypes
    <3>2. Head(inbox) \in Cmd
      BY <2>1, <3>1, TailIsSuffix
    <3> QED BY <3>2 DEF Cmd
  <2>4. PICK status \in {"refused", "already", "submitted"} :
          Answer(Head(inbox).n, status, FALSE)
    BY <1>2 DEF Commands, PatchRefused, PatchAlready, PatchSubmitted
  <2>5. ConfirmedAnswered'
    BY <2>3, <2>4, AnsweredKept DEF Statuses
  <2>6. Unechoed'
    <3>1. CASE PatchRefused \/ PatchAlready
      BY <2>1, <3>1 DEF PatchRefused, PatchAlready, seqVars, Unechoed
    <3>2. CASE PatchSubmitted
      <4>1. full # NoPage /\ ~Agrees(full, Head(inbox).set)
        BY <2>1, <2>2, <3>2, SubmittedUnechoed DEF PatchSubmitted
      <4>2. auto'.want = Head(inbox).set /\ full' = full
        BY <2>1, <3>2 DEF PatchSubmitted
      <4> QED BY <4>1, <4>2 DEF Unechoed, Agrees
    <3> QED BY <1>2, <3>1, <3>2 DEF Commands
  <2> QED BY <2>2, <2>5, <2>6
<1>3. CASE DriveAutomation
  <2>1. UNCHANGED <<inbox, full, page>> /\ auto # NoPatch
    BY <1>3 DEF DriveAutomation, linkVars
  <2>2. auto.n \in Nat /\ auto.answered \in BOOLEAN
    BY <2>1 DEF TypeOK
  <2>3. PairedPages' /\ ApartInbox'
    BY <2>1 DEF PairedPages, ApartInbox
  <2>4. CASE PatchEchoed /\ auto' = NoPatch /\ Answer(auto.n, "confirmed", auto.answered)
    <3>1. auto.answered
      BY <2>1, <2>4 DEF Unechoed, PatchEchoed
    <3>2. ConfirmedAnswered'
      BY <2>2, <2>4, <3>1, AnsweredKept DEF Statuses
    <3>3. Unechoed'
      BY <2>4 DEF Unechoed
    <3> QED BY <2>3, <3>2, <3>3
  <2>5. CASE auto' = NoPatch /\ Answer(auto.n, "unknown", auto.answered)
    <3>1. ConfirmedAnswered'
      BY <2>2, <2>5, AnsweredKept DEF Statuses
    <3>2. Unechoed'
      BY <2>5 DEF Unechoed
    <3> QED BY <2>3, <3>1, <3>2
  <2>6. CASE auto' = [auto EXCEPT !.updated = FALSE] /\ UNCHANGED answers
    <3>1. auto'.want = auto.want /\ auto'.answered = auto.answered
      BY <2>1, <2>6 DEF TypeOK
    <3>2. Unechoed'
      BY <2>1, <3>1 DEF Unechoed, Agrees
    <3> QED BY <2>3, <2>6, <3>2 DEF ConfirmedAnswered
  <2> QED BY <1>3, <2>4, <2>5, <2>6 DEF DriveAutomation
<1>4. CASE Drive /\ ~DriveAutomation
  <2>1. UNCHANGED <<inbox, answers, full, page, auto>>
    BY <1>4 DEF Drive, DriveGated, DriveNothing, DriveNoPage, DriveTimedOut, DriveConfirmed,
                DriveContradicted, DrivePlan, DriveStart, seqVars, linkVars
  <2> QED BY <2>1 DEF PairedPages, ApartInbox, Unechoed, ConfirmedAnswered, Agrees
<1>5. CASE Settle
  <2>1. UNCHANGED <<inbox, answers, full, page, auto>>
    BY <1>5 DEF Settle, DropSatisfied, GiveUp, Send, SendFails, Drained, MustSend, Stays,
                loopVars, seqVars, linkVars
  <2> QED BY <2>1 DEF PairedPages, ApartInbox, Unechoed, ConfirmedAnswered, Agrees
<1>6. CASE NoLifecycleEvent \/ BecomeReady
  <2>1. UNCHANGED <<inbox, answers, full, page, auto>>
    BY <1>6 DEF NoLifecycleEvent, BecomeReady, Lifecycle, seqVars, linkVars
  <2> QED BY <2>1 DEF PairedPages, ApartInbox, Unechoed, ConfirmedAnswered, Agrees
<1>7. CASE LoseConnection \/ ServerRestart \/ NewRun
  <2>1. UNCHANGED inbox /\ CancelAutomation
    BY <1>7 DEF LoseConnection, ServerRestart, NewRun, Lifecycle
  <2>2. UNCHANGED <<full, page>> \/ (full' = NoPage /\ page' = NoPage)
    BY <1>7 DEF LoseConnection, ServerRestart, NewRun, linkVars
  <2>3. PairedPages' /\ ApartInbox'
    BY <2>1, <2>2 DEF PairedPages, ApartInbox
  <2> QED BY <2>1, <2>3, CancelKept
<1>8. CASE ConfigEvents
  <2>1. UNCHANGED <<inbox, answers, full, page>>
    BY <1>8 DEF ConfigEvents
  <2>2. auto' # NoPatch =>
          auto # NoPatch /\ auto'.want = auto.want /\ auto'.answered = auto.answered
    BY <1>8 DEF ConfigEvents, TypeOK
  <2>3. Unechoed'
    BY <2>1, <2>2 DEF Unechoed, Agrees
  <2> QED BY <2>1, <2>3 DEF PairedPages, ApartInbox, ConfirmedAnswered
<1>9. CASE NoConfigEvents \/ Publish
  <2>1. UNCHANGED <<inbox, answers, full, page, auto>>
    BY <1>9 DEF NoConfigEvents, Publish, seqVars, linkVars
  <2> QED BY <2>1 DEF PairedPages, ApartInbox, Unechoed, ConfirmedAnswered, Agrees
<1>. QED
  BY <1>1, <1>2, <1>3, <1>4, <1>5, <1>6, <1>7, <1>8, <1>9 DEF FeedLoop, LifecycleEvents

LEMMA WindowEcho ==
  ASSUME Apart, TypeOK, EchoInv, Windows
  PROVE  EchoInv'
<1>1. PICK kind \in {"edit", "patch"}, set \in Partial :
        UiSend(kind, set) /\ (kind = "patch" => DOMAIN set \cap Overlaid = {})
  BY EditsAssumption DEF Windows, UiEdit, UiMark, UiPatch, Apart
<1> DEFINE cmd == [kind |-> kind, n |-> issued + 1, set |-> set, process |-> process]
           m == Len(inbox)
<1>2. inbox \in Seq(Cmd) /\ m \in Nat /\ issued \in Nat
  BY AnswerTypes
<1>3. cmd \in Cmd /\ cmd.kind = kind /\ cmd.set = set
  BY <1>2 DEF TypeOK, Cmd
<1>4. inbox' = Append(inbox, cmd) /\ UNCHANGED <<answers, auto, full, page>>
  BY <1>1 DEF UiSend, seqVars, linkVars
<1> HIDE DEF cmd
<1>5. /\ Len(inbox') = m + 1
      /\ \A i \in 1..m : inbox'[i] = inbox[i]
      /\ inbox'[m + 1] = cmd
  BY <1>2, <1>3, <1>4, AppendProperties
<1>6. \A i \in 1..Len(inbox') : i \in 1..m \/ i = m + 1
  BY <1>2, <1>5
<1>7. ApartInbox'
  BY <1>1, <1>3, <1>5, <1>6 DEF EchoInv, ApartInbox
<1>. QED
  BY <1>4, <1>7 DEF EchoInv, PairedPages, Unechoed, ConfirmedAnswered, Agrees

LEMMA EnvironmentEcho ==
  ASSUME TypeOK, EchoInv, Environment
  PROVE  EchoInv'
<1>. USE DEF EchoInv
<1>1. CASE PatchDeadline
  <2>1. UNCHANGED <<inbox, answers, full, page>>
    BY <1>1 DEF PatchDeadline, loopVars, linkVars
  <2>2. auto # NoPatch /\ auto'.want = auto.want /\ auto'.answered = auto.answered
    BY <1>1 DEF PatchDeadline, TypeOK
  <2>3. Unechoed'
    BY <2>1, <2>2 DEF Unechoed, Agrees
  <2> QED BY <2>1, <2>3 DEF PairedPages, ApartInbox, ConfirmedAnswered
<1>2. CASE SnapshotArrives
  <2>1. /\ UNCHANGED <<inbox, answers>>
        /\ full' = core /\ page' = core /\ core # NoPage
    BY <1>2, NoneAssumption DEF SnapshotArrives, loopVars, TypeOK
  <2>2. auto' # NoPatch => auto'.answered
    BY <1>2 DEF SnapshotArrives, TypeOK
  <2> QED BY <2>1, <2>2 DEF PairedPages, ApartInbox, Unechoed, ConfirmedAnswered
<1>3. CASE CompactEchoed
  <2>1. UNCHANGED <<inbox, answers, auto, full>>
    BY <1>3 DEF CompactEchoed, loopVars, seqVars
  <2>2. PICK written \in [Overlaid -> Values] :
          page' = IF page = NoPage THEN NoPage
                  ELSE [f \in Fields |-> IF f \in Overlaid THEN written[f] ELSE page[f]]
    BY <1>3, ForeignAssumption DEF CompactEchoed
  <2>3. PairedPages'
    <3>1. CASE page = NoPage
      BY <2>1, <2>2, <3>1 DEF PairedPages
    <3>2. CASE page # NoPage
      <4>1. page' = [f \in Fields |-> IF f \in Overlaid THEN written[f] ELSE page[f]]
        BY <2>2, <3>2
      <4>2. page \in Pages
        BY <3>2 DEF TypeOK
      <4>3. page' \in Pages
        BY <4>1, <4>2 DEF Pages
      <4>4. page' # NoPage
        BY <4>3, NoneAssumption
      <4> QED BY <2>1, <3>2, <4>1, <4>4 DEF PairedPages
    <3> QED BY <3>1, <3>2
  <2> QED BY <2>1, <2>3 DEF ApartInbox, Unechoed, ConfirmedAnswered, Agrees
<1>4. CASE EchoDeadline \/ CompactWrites \/ CompactGivesUp
  <2>1. UNCHANGED <<inbox, answers, full, page, auto>>
    BY <1>4 DEF EchoDeadline, CompactWrites, CompactGivesUp, loopVars, seqVars, linkVars
  <2> QED BY <2>1 DEF PairedPages, ApartInbox, Unechoed, ConfirmedAnswered, Agrees
<1>5. CASE CoreTakes \/ PacketLost \/ CoreRewrites
  <2>1. UNCHANGED <<inbox, answers, full, page, auto>>
    BY <1>5 DEF CoreTakes, PacketLost, CoreRewrites, loopVars, seqVars
  <2> QED BY <2>1 DEF PairedPages, ApartInbox, Unechoed, ConfirmedAnswered, Agrees
<1>. QED
  BY <1>1, <1>2, <1>3, <1>4, <1>5 DEF Environment

LEMMA EchoStep ==
  ASSUME Apart, TypeOK, EchoInv, [Next]_vars
  PROVE  EchoInv'
<1>1. CASE UNCHANGED vars
  BY <1>1 DEF vars, loopVars, seqVars, linkVars, EchoInv, PairedPages, ApartInbox, Unechoed,
              ConfirmedAnswered, Agrees
<1>. QED
  BY <1>1, LoopEcho, WindowEcho, EnvironmentEcho DEF Next

(* An import is reported as confirmed only on a snapshot newer than its    *)
(* packet, however the unread ones, the deadlines and the connection       *)
(* interleave, when no patch names an overlaid setting.                    *)
THEOREM ConfirmedCorrect == Apart => (Spec => []ConfirmedByNewEcho)
<1>. SUFFICES ASSUME Apart PROVE Spec => []ConfirmedByNewEcho
  OBVIOUS
<1>1. Init => EchoInv
  BY EchoInit
<1>2. TypeOK /\ EchoInv /\ [Next]_vars => EchoInv'
  BY EchoStep
<1>3. TypeOK /\ EchoInv => ConfirmedByNewEcho
  <2> SUFFICES ASSUME TypeOK, EchoInv
               PROVE  ConfirmedByNewEcho
    OBVIOUS
  <2>1. DOMAIN answers = 1..Len(answers)
    BY AnswerTypes, LenProperties
  <2> QED BY <2>1 DEF EchoInv, ConfirmedAnswered, ConfirmedByNewEcho
<1>. QED
  BY <1>1, <1>2, <1>3, SharedTypeCorrect, PTL DEF Spec
=============================================================================
