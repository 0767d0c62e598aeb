--------------------- MODULE ClientSettingsOrders_proofs ---------------------
(***************************************************************************)
(* Further proofs about the settings serializer: it implements the barrier *)
(* queue of OrderBarrier, and an order waits for a bounded number of       *)
(* packets.  Both rest on the serial numbers of the operations.            *)
(***************************************************************************)
EXTENDS ClientSettingsSequence_proofs

-----------------------------------------------------------------------------
(* The line and what left it, by position. *)

(* The mutations of the queue, when a command is about to join it. *)
Queued == {i \in DOMAIN queue : IsMutation(queue[i])}

(* What TakeCommand appends: at most two mutations and an order, numbered  *)
(* in order; the order knows the mutations it waits behind.                *)
Joins(new) ==
  /\ new \in Seq(Op)
  /\ Len(new) \in 0..3
  /\ queue' = queue \o new
  /\ nextOp' = nextOp + Len(new)
  /\ \A i \in 1..Len(new) :
       /\ new[i].n = nextOp + (i - 1)
       /\ new[i].sends = 0
       /\ i < Len(new) => IsMutation(new[i])
       /\ IsOrder(new[i]) => new[i].ahead = Cardinality(Queued) + (Len(new) - 1)

LEMMA QueuedFinite ==
  ASSUME queue \in Seq(Op)
  PROVE  IsFiniteSet(Queued) /\ Cardinality(Queued) \in Nat
<1>1. IsFiniteSet(1..Len(queue)) /\ DOMAIN queue = 1..Len(queue)
  BY LenProperties, FS_Interval
<1>2. IsFiniteSet(Queued)
  BY <1>1, FS_Subset DEF Queued
<1>. QED
  BY <1>2, FS_CardinalityType

LEMMA CommandJoins ==
  ASSUME TypeOK, TakeCommand
  PROVE  \E new : Joins(new)
<1> DEFINE cmd == Head(cmds)
<1>1. cmds # <<>> /\ cmd \in Cmd
  BY HeadTailProperties DEF TakeCommand, TypeOK
<1>2. cmd.set \in Mutation /\ cmd.order.sync \in BOOLEAN /\ cmd.order.bare \in BOOLEAN
      /\ cmd.at \in Nat
  BY <1>1 DEF Cmd
<1>3. nextOp \in Nat /\ queue \in Seq(Op) /\ ManualOff \in Mutation
  BY MutationsAssumption DEF TypeOK
<1> HIDE DEF cmd
<1>4. CASE UNCHANGED <<queue, nextOp>>
  <2>1. <<>> \in Seq(Op) /\ Len(<<>>) = 0 /\ queue' = queue \o <<>>
    BY <1>3, <1>4, ConcatEmptySeq, EmptySeq
  <2>2. nextOp' = nextOp + Len(<<>>)
    BY <1>3, <1>4, <2>1
  <2>3. \A i \in 1..Len(<<>>) : FALSE
    BY <2>1
  <2>4. Joins(<<>>)
    BY <2>1, <2>2, <2>3 DEF Joins
  <2> QED BY <2>4
<1>5. CASE EnqueueMutation(cmd.set)
  <2> DEFINE op == MutationOp(nextOp, cmd.set)
  <2>1. op \in Op /\ IsMutation(op) /\ ~IsOrder(op) /\ op.sends = 0 /\ op.n = nextOp
    BY <1>2, <1>3 DEF MutationOp, Op, IsMutation, IsOrder
  <2>2. queue' = Append(queue, op) /\ nextOp' = nextOp + 1
    BY <1>5 DEF EnqueueMutation
  <2> HIDE DEF op
  <2>3. queue' = queue \o <<op>>
    BY <1>3, <2>1, <2>2, AppendIsConcat
  <2>4. <<op>> \in Seq(Op) /\ Len(<<op>>) = 1 /\ <<op>>[1] = op
    BY <2>1
  <2>5. nextOp + (1 - 1) = nextOp
    BY <1>3
  <2>6. Joins(<<op>>)
    BY <2>1, <2>2, <2>3, <2>4, <2>5 DEF Joins
  <2> QED BY <2>6
<1>6. CASE EnqueueOrder(cmd)
  <2> DEFINE gen   == Generation(cmd)
             order == OrderOp(nextOp + Len(gen), cmd.set, cmd.order.sync,
                              Cardinality(Queued) + Len(gen), cmd.at)
  <2>1. gen \in Seq(Op) /\ Len(gen) \in 0..2
        /\ \A i \in 1..Len(gen) :
             gen[i].sends = 0 /\ IsMutation(gen[i]) /\ gen[i].n = nextOp + (i - 1)
    <3> DEFINE first  == MutationOp(nextOp, cmd.set)
               second == MutationOp(nextOp + 1, ManualOff)
    <3>1. first \in Op /\ second \in Op
      BY <1>2, <1>3, MutationOpFresh
    <3>2. /\ first.sends = 0 /\ second.sends = 0
          /\ IsMutation(first) /\ IsMutation(second)
          /\ first.n = nextOp /\ second.n = nextOp + 1
      BY DEF MutationOp, IsMutation
    <3>3. nextOp + (1 - 1) = nextOp /\ nextOp + (2 - 1) = nextOp + 1
      BY <1>3
    <3>4. gen = <<>> \/ gen = <<first>> \/ gen = <<first, second>>
      BY DEF Generation
    <3> HIDE DEF gen, first, second
    <3>5. CASE gen = <<>>
      BY <3>5
    <3>6. CASE gen = <<first>>
      BY <3>1, <3>2, <3>3, <3>6
    <3>7. CASE gen = <<first, second>>
      BY <3>1, <3>2, <3>3, <3>7
    <3> QED BY <3>4, <3>5, <3>6, <3>7
  <2>2. Cardinality(Queued) \in Nat
    BY <1>3, QueuedFinite
  <2>3. queue' = queue \o gen \o <<order>> /\ nextOp' = nextOp + Len(gen) + 1
    BY <1>6 DEF EnqueueOrder, Queued
  <2> HIDE DEF gen
  <2>4. nextOp + Len(gen) \in Nat /\ Cardinality(Queued) + Len(gen) \in Nat
    BY <1>3, <2>1, <2>2
  <2>5. /\ order \in Op /\ IsOrder(order) /\ order.sends = 0
        /\ order.n = nextOp + Len(gen) /\ order.ahead = Cardinality(Queued) + Len(gen)
    BY <1>2, <2>4 DEF OrderOp, Op, IsOrder
  <2> HIDE DEF order
  <2> DEFINE new == gen \o <<order>>
  <2>6. <<order>> \in Seq(Op) /\ Len(<<order>>) = 1 /\ <<order>>[1] = order
    BY <2>5
  <2>7. /\ new \in Seq(Op)
        /\ Len(new) = Len(gen) + 1
        /\ \A i \in 1..(Len(gen) + 1) : new[i] =
             IF i <= Len(gen) THEN gen[i] ELSE <<order>>[i - Len(gen)]
    BY <2>1, <2>6, ConcatProperties
  <2>8. queue' = queue \o new
    <3>1. (queue \o gen) \o <<order>> = queue \o (gen \o <<order>>)
      BY <1>3, <2>1, <2>6, ConcatAssociative
    <3> QED BY <2>3, <3>1
  <2> HIDE DEF new
  <2>9. \A i \in 1..Len(gen) : new[i] = gen[i] /\ i < Len(new)
    BY <2>1, <2>7
  <2>10. new[Len(gen) + 1] = order
    BY <2>1, <2>6, <2>7
  <2>11. ASSUME NEW i \in 1..Len(new)
         PROVE  /\ new[i].n = nextOp + (i - 1)
                /\ new[i].sends = 0
                /\ i < Len(new) => IsMutation(new[i])
                /\ IsOrder(new[i]) => new[i].ahead = Cardinality(Queued) + (Len(new) - 1)
    <3>1. CASE i \in 1..Len(gen)
      <4>1. new[i] = gen[i] /\ IsMutation(new[i])
        BY <2>1, <2>9, <3>1
      <4>2. ~IsOrder(new[i])
        BY <4>1 DEF IsMutation, IsOrder
      <4> QED BY <2>1, <3>1, <4>1, <4>2
    <3>2. CASE i = Len(gen) + 1
      <4>1. new[i] = order /\ i - 1 = Len(gen) /\ Len(new) - 1 = Len(gen) /\ ~(i < Len(new))
        BY <2>1, <2>7, <2>10, <3>2
      <4> QED BY <2>5, <4>1
    <3> QED BY <2>1, <2>7, <3>1, <3>2
  <2>12. Len(new) \in 0..3 /\ nextOp' = nextOp + Len(new)
    <3>1. Len(gen) \in 0..2 /\ Len(new) = Len(gen) + 1
      BY <2>1, <2>7
    <3>2. \A k \in 0..2 : k + 1 \in 0..3
      OBVIOUS
    <3>3. Len(new) \in 0..3
      BY <3>1, <3>2, Zenon
    <3>4. nextOp' = nextOp + Len(gen) + 1
      BY <2>3
    <3>5. nextOp' = nextOp + Len(new)
      BY <1>3, <3>1, <3>4
    <3> QED BY <3>3, <3>5
  <2>13. Joins(new)
    BY <2>7, <2>8, <2>11, <2>12 DEF Joins
  <2> QED BY <2>13
<1>. QED
  BY <1>4, <1>5, <1>6 DEF TakeCommand, cmd

LEMMA JoinsEffect ==
  ASSUME CoreInv, NEW new, Joins(new)
  PROVE  /\ Len(new) \in 0..3
         /\ queue' \in Seq(Op)
         /\ Len(queue') = Len(queue) + Len(new)
         /\ \A i \in 1..Len(queue) : queue'[i] = queue[i]
         /\ \A i \in (Len(queue) + 1)..Len(queue') :
              i - Len(queue) \in 1..Len(new) /\ queue'[i] = new[i - Len(queue)]
<1>1. new \in Seq(Op) /\ queue \in Seq(Op) /\ Len(new) \in 0..3 /\ Len(queue) \in Nat
  BY QueueTyped DEF Joins
<1>2. /\ queue \o new \in Seq(Op)
      /\ Len(queue \o new) = Len(queue) + Len(new)
      /\ \A i \in 1..(Len(queue) + Len(new)) : (queue \o new)[i] =
           IF i <= Len(queue) THEN queue[i] ELSE new[i - Len(queue)]
  BY <1>1, ConcatProperties
<1>3. queue' = queue \o new
  BY DEF Joins
<1>. QED
  BY <1>1, <1>2, <1>3

(* The first n operations leave, each in one of the ways of H. *)
Leaves(n, H) ==
  /\ n \in 0..Len(queue)
  /\ queue' \in Seq(Op) /\ Len(queue') = Len(queue) - n
  /\ \A i \in 1..(Len(queue) - n) : queue'[i] = queue[i + n]
  /\ done' \in Seq(DoneOp) /\ Len(done') = Len(done) + n
  /\ \A i \in 1..Len(done) : done'[i] = done[i]
  /\ \A i \in 1..n : done'[Len(done) + i].op = queue[i] /\ done'[Len(done) + i].how \in H

ToSettled == {"confirmed", "satisfied", "abandoned"}
ToPlaced  == {"placed"}
ToDropped == {"dropped"}

LEMMA ConfirmedLeaves ==
  ASSUME CoreInv, DriveConfirmed
  PROVE  \E n \in 1..Len(queue) :
           /\ Leaves(n, ToSettled)
           /\ \A i \in 1..n : IsMutation(queue[i])
           /\ attempts' = 0 /\ nextOp' = nextOp
<1> DEFINE n == pending.count
<1>1. n \in 1..Len(queue) /\ n \in 0..Len(queue) /\ \A i \in 1..n : IsMutation(queue[i])
  BY QueueTyped DEF CoreInv, PendingCoversPrefix, DriveConfirmed
<1>2. queue' = Drop(queue, n) /\ Retire(n, "confirmed", retained)
      /\ attempts' = 0 /\ nextOp' = nextOp
  BY DEF DriveConfirmed, DriveStart
<1> HIDE DEF n
<1>3. /\ queue' \in Seq(Op) /\ Len(queue') = Len(queue) - n
      /\ \A i \in 1..(Len(queue) - n) : queue'[i] = queue[i + n]
  BY <1>1, <1>2, QueueTyped, DropProperties
<1>4. "confirmed" \in Hows
  BY DEF Hows
<1>5. /\ done' \in Seq(DoneOp) /\ Len(done') = Len(done) + n
      /\ \A i \in 1..Len(done) : done'[i] = done[i]
      /\ \A i \in 1..n : done'[Len(done) + i] = Retired(queue[i], "confirmed", retained)
  BY <1>1, <1>2, <1>4, QueueTyped, RetireProperties
<1>6. \A i \in 1..n : /\ done'[Len(done) + i].op = queue[i]
                      /\ done'[Len(done) + i].how \in ToSettled
  <2> TAKE i \in 1..n
  <2>1. done'[Len(done) + i] = Retired(queue[i], "confirmed", retained)
    BY <1>5
  <2> QED BY <2>1 DEF Retired, ToSettled
<1>7. Leaves(n, ToSettled)
  BY <1>1, <1>3, <1>5, <1>6 DEF Leaves
<1>. QED
  BY <1>1, <1>2, <1>7

LEMMA HeadLeaves ==
  ASSUME CoreInv, PopsHead
  PROVE  /\ queue # <<>> /\ nextOp' = nextOp
         /\ \/ Leaves(1, ToSettled) /\ IsMutation(queue[1]) /\ attempts' = 0
            \/ Leaves(1, ToPlaced) /\ IsOrder(queue[1]) /\ attempts' = attempts
<1>1. queue # <<>> /\ nextOp' = nextOp /\ queue' = Tail(queue)
  BY DEF PopsHead, RetireSatisfied, Abandon, PlaceOrder, AtMutation, AtOrder
<1>2. 1 \in 0..Len(queue) /\ queue' = Drop(queue, 1) /\ Head(queue) = queue[1]
  BY <1>1, QueueTyped, TailProperties
<1>3. /\ queue' \in Seq(Op) /\ Len(queue') = Len(queue) - 1
      /\ \A i \in 1..(Len(queue) - 1) : queue'[i] = queue[i + 1]
  BY <1>2, QueueTyped, DropProperties
<1>4. ASSUME NEW how \in Hows, Retire(1, how, view)
      PROVE  Leaves(1, {how})
  <2>1. /\ done' \in Seq(DoneOp) /\ Len(done') = Len(done) + 1
        /\ \A i \in 1..Len(done) : done'[i] = done[i]
        /\ \A i \in 1..1 : done'[Len(done) + i] = Retired(queue[i], how, view)
    BY <1>2, <1>4, QueueTyped, RetireProperties
  <2>2. \A i \in 1..1 : done'[Len(done) + i].op = queue[i] /\ done'[Len(done) + i].how \in {how}
    BY <2>1 DEF Retired
  <2> QED BY <1>2, <1>3, <2>1, <2>2 DEF Leaves
<1>5. CASE RetireSatisfied
  <2>1. IsMutation(queue[1]) /\ attempts' = 0 /\ Retire(1, "satisfied", view)
    BY <1>2, <1>5 DEF RetireSatisfied, AtMutation
  <2>2. Leaves(1, {"satisfied"})
    BY <1>4, <2>1 DEF Hows
  <2> QED BY <1>1, <2>1, <2>2 DEF Leaves, ToSettled
<1>6. CASE Abandon
  <2>1. IsMutation(queue[1]) /\ attempts' = 0 /\ Retire(1, "abandoned", view)
    BY <1>2, <1>6 DEF Abandon, AtMutation
  <2>2. Leaves(1, {"abandoned"})
    BY <1>4, <2>1 DEF Hows
  <2> QED BY <1>1, <2>1, <2>2 DEF Leaves, ToSettled
<1>7. CASE PlaceOrder
  <2>1. IsOrder(queue[1]) /\ attempts' = attempts /\ Retire(1, "placed", view)
    BY <1>2, <1>7 DEF PlaceOrder, AtOrder
  <2>2. Leaves(1, ToPlaced)
    BY <1>4, <2>1 DEF Hows, ToPlaced
  <2> QED BY <1>1, <2>1, <2>2
<1>. QED
  BY <1>5, <1>6, <1>7 DEF PopsHead

LEMMA EndLeaves ==
  ASSUME CoreInv, Ends
  PROVE  /\ Leaves(Len(queue), ToDropped)
         /\ queue' = <<>> /\ attempts' = 0 /\ nextOp' = nextOp
<1>1. PrepareReconnect /\ nextOp' = nextOp
  BY DEF Ends, LoseConnection, ServerRestart, NewRun
<1>2. queue' = <<>> /\ attempts' = 0 /\ DropAll
  BY <1>1 DEF PrepareReconnect
<1>3. /\ done' \in Seq(DoneOp)
      /\ Len(done') = Len(done) + Len(queue)
      /\ \A i \in 1..Len(done) : done'[i] = done[i]
      /\ \A i \in 1..Len(queue) :
           done'[Len(done) + i] =
             [op |-> queue[i], how |-> "dropped", shown |-> FALSE, conn |-> conn]
  BY <1>2, QueueTyped, DropAllProperties
<1>4. \A i \in 1..Len(queue) : /\ done'[Len(done) + i].op = queue[i]
                               /\ done'[Len(done) + i].how \in ToDropped
  <2> TAKE i \in 1..Len(queue)
  <2>1. done'[Len(done) + i] =
          [op |-> queue[i], how |-> "dropped", shown |-> FALSE, conn |-> conn]
    BY <1>3
  <2> QED BY <2>1 DEF ToDropped
<1>5. Len(queue) \in 0..Len(queue) /\ queue' \in Seq(Op) /\ Len(queue') = Len(queue) - Len(queue)
      /\ \A i \in 1..(Len(queue) - Len(queue)) : FALSE
  BY <1>2, QueueTyped, EmptyQueue
<1>. QED
  BY <1>1, <1>2, <1>3, <1>4, <1>5 DEF Leaves

(* A packet leaves the order, the kinds and the serial numbers alone.      *)
LEMMA SendKeeps ==
  ASSUME CoreInv, Send
  PROVE  /\ queue # <<>> /\ IsMutation(queue[1]) /\ attempts' = attempts + 1
         /\ done' = done /\ nextOp' = nextOp
         /\ queue' \in Seq(Op) /\ Len(queue') = Len(queue)
         /\ \A i \in 1..Len(queue) :
              /\ queue'[i].kind = queue[i].kind
              /\ queue'[i].n = queue[i].n
              /\ queue'[i].ahead = queue[i].ahead
              /\ IsOrder(queue[i]) => queue'[i].sends = queue[i].sends + 1
<1>1. PICK n \in 1..Len(queue) : IsPrefix(queue, n) /\ Counted(n)
  BY DEF Send, Counted
<1>2. queue' \in Seq(Op) /\ Len(queue') = Len(queue)
      /\ \A i \in 1..Len(queue) :
           queue'[i] = IF i <= n \/ IsOrder(queue[i])
                         THEN [queue[i] EXCEPT !.sends = @ + 1] ELSE queue[i]
  BY <1>1, QueueTyped, CountedProperties
<1>3. \A op \in Op : /\ [op EXCEPT !.sends = @ + 1].kind = op.kind
                     /\ [op EXCEPT !.sends = @ + 1].n = op.n
                     /\ [op EXCEPT !.sends = @ + 1].ahead = op.ahead
                     /\ [op EXCEPT !.sends = @ + 1].sends = op.sends + 1
  BY DEF Op
<1>4. \A i \in 1..Len(queue) :
        /\ queue'[i].kind = queue[i].kind
        /\ queue'[i].n = queue[i].n
        /\ queue'[i].ahead = queue[i].ahead
        /\ IsOrder(queue[i]) => queue'[i].sends = queue[i].sends + 1
  BY <1>2, <1>3, QueueTyped
<1>5. queue # <<>> /\ IsMutation(queue[1]) /\ attempts' = attempts + 1
      /\ done' = done /\ nextOp' = nextOp
  BY QueueTyped DEF Send, MustSend, AtMutation
<1>. QED
  BY <1>2, <1>4, <1>5

LEMMA QuietKeepsNumber ==
  ASSUME [Next]_vars
  PROVE  TakeCommand \/ DriveConfirmed \/ PopsHead \/ Send \/ Ends
         \/ (Quiet /\ nextOp' = nextOp)
<1>1. CASE Drive
  BY <1>1 DEF Drive, DriveNoSnapshot, DriveBlocked, DriveExpired, DriveUnconfirmed,
              DriveStart, seqVars, Quiet
<1>2. CASE Settle
  BY <1>2 DEF Settle, PopsHead, SendFails, DriveDone, seqVars, Quiet
<1>3. CASE ClientSettingsUpdated
  BY <1>3 DEF ClientSettingsUpdated, Quiet
<1>4. CASE Lifecycle
  BY <1>4 DEF Lifecycle, Ends, BecomeReady, seqVars, Quiet
<1>5. CASE Environment
  BY <1>5 DEF Environment, UiEdit, UiTempEdit, UiOrder, UiSend, CommandAges,
              EchoDeadline, CoreTakes, PacketLost, CoreRewrites, Publish, seqVars, Quiet
<1>6. CASE UNCHANGED vars
  BY <1>6 DEF vars, seqVars, Quiet
<1>. QED
  BY <1>1, <1>2, <1>3, <1>4, <1>5, <1>6 DEF Next

-----------------------------------------------------------------------------
(* Serial numbers: what left the queue took the first numbers, in order,   *)
(* and the queue holds the next.                                           *)

Numbered ==
  /\ nextOp = Len(done) + Len(queue) + 1
  /\ \A i \in DOMAIN queue : queue[i].n = Len(done) + i

LEMMA NumberedStep ==
  ASSUME CoreInv, Numbered, [Next]_vars
  PROVE  Numbered'
<1>1. /\ Len(queue) \in Nat /\ DOMAIN queue = 1..Len(queue)
      /\ Len(done) \in Nat /\ nextOp = Len(done) + Len(queue) + 1
      /\ \A i \in 1..Len(queue) : queue[i].n = Len(done) + i
  BY QueueTyped DEF Numbered
<1>2. ASSUME NEW n, NEW H, Leaves(n, H), nextOp' = nextOp
      PROVE  Numbered'
  <2>1. /\ n \in 0..Len(queue)
        /\ Len(queue') = Len(queue) - n /\ DOMAIN queue' = 1..(Len(queue) - n)
        /\ \A i \in 1..(Len(queue) - n) : queue'[i] = queue[i + n]
        /\ Len(done') = Len(done) + n
    BY <1>2, LenProperties DEF Leaves
  <2>2. nextOp' = Len(done') + Len(queue') + 1
    BY <1>1, <1>2, <2>1
  <2>3. ASSUME NEW i \in 1..(Len(queue) - n)
        PROVE  queue'[i].n = Len(done') + i
    <3>1. i + n \in 1..Len(queue) /\ Len(done) + (i + n) = (Len(done) + n) + i
      BY <1>1, <2>1
    <3> QED BY <1>1, <2>1, <3>1
  <2> QED BY <2>1, <2>2, <2>3 DEF Numbered
<1>3. CASE TakeCommand
  <2>1. PICK new : Joins(new)
    BY <1>3, CommandJoins DEF CoreInv
  <2>2. /\ Len(new) \in 0..3
        /\ queue' \in Seq(Op)
        /\ Len(queue') = Len(queue) + Len(new)
        /\ \A i \in 1..Len(queue) : queue'[i] = queue[i]
        /\ \A i \in (Len(queue) + 1)..Len(queue') :
             i - Len(queue) \in 1..Len(new) /\ queue'[i] = new[i - Len(queue)]
    BY <2>1, JoinsEffect
  <2>3. DOMAIN queue' = 1..Len(queue') /\ done' = done /\ nextOp' = nextOp + Len(new)
    BY <1>3, <2>1, <2>2, LenProperties DEF TakeCommand, Joins
  <2>4. ASSUME NEW i \in (Len(queue) + 1)..Len(queue')
        PROVE  queue'[i].n = Len(done) + i
    <3>1. new[i - Len(queue)].n = nextOp + ((i - Len(queue)) - 1)
      BY <2>1, <2>2 DEF Joins
    <3> QED BY <1>1, <2>2, <3>1
  <2>5. \A i \in 1..Len(queue') : i \in 1..Len(queue) \/ i \in (Len(queue) + 1)..Len(queue')
    BY <1>1, <2>2
  <2>6. nextOp' = Len(done') + Len(queue') + 1
    BY <1>1, <2>2, <2>3
  <2> QED BY <1>1, <2>2, <2>3, <2>4, <2>5, <2>6 DEF Numbered
<1>4. CASE DriveConfirmed
  BY <1>2, <1>4, ConfirmedLeaves
<1>5. CASE PopsHead
  BY <1>2, <1>5, HeadLeaves
<1>6. CASE Send
  <2>1. /\ queue' \in Seq(Op) /\ Len(queue') = Len(queue) /\ done' = done /\ nextOp' = nextOp
        /\ \A i \in 1..Len(queue) : queue'[i].n = queue[i].n
    BY <1>6, SendKeeps
  <2>2. DOMAIN queue' = 1..Len(queue)
    BY <2>1, LenProperties
  <2> QED BY <1>1, <2>1, <2>2 DEF Numbered
<1>7. CASE Ends
  BY <1>2, <1>7, EndLeaves
<1>8. CASE Quiet /\ nextOp' = nextOp
  BY <1>8 DEF Quiet, Numbered
<1>. QED
  BY <1>3, <1>4, <1>5, <1>6, <1>7, <1>8, QuietKeepsNumber

LEMMA NumberedInvariant == Spec => []Numbered
<1>1. Init => Numbered
  <2> SUFFICES ASSUME Init PROVE Numbered
    OBVIOUS
  <2>1. queue = <<>> /\ done = <<>> /\ nextOp = 1
    BY DEF Init
  <2> QED BY <2>1, EmptySeq DEF Numbered
<1>2. CoreInv /\ Numbered /\ [Next]_vars => Numbered'
  BY NumberedStep
<1>. QED
  BY <1>1, <1>2, CoreInvariant, PTL DEF Spec

-----------------------------------------------------------------------------
(* The barrier queue.  Line and Gone are the refinement mapping of         *)
(* Barrier, as operators.                                                  *)

Line(q) == [i \in DOMAIN q |-> [n |-> q[i].n, kind |-> q[i].kind]]

Way(how) == IF how \in {"confirmed", "satisfied", "abandoned"} THEN "settled" ELSE how

Gone(d) == [i \in DOMAIN d |-> [n |-> d[i].op.n, kind |-> d[i].op.kind,
                                how |-> Way(d[i].how)]]

Standing == [n : Nat, kind : {"mutation", "order"}]
Departed == [n : Nat, kind : {"mutation", "order"}, how : {"settled", "placed", "dropped"}]

LEMMA LineProperties ==
  ASSUME NEW q \in Seq(Op)
  PROVE  /\ Line(q) \in Seq(Standing) /\ Len(Line(q)) = Len(q)
         /\ DOMAIN Line(q) = 1..Len(q)
         /\ \A i \in 1..Len(q) : Line(q)[i] = [n |-> q[i].n, kind |-> q[i].kind]
<1>1. DOMAIN q = 1..Len(q) /\ Len(q) \in Nat /\ \A i \in 1..Len(q) : q[i] \in Op
  BY LenProperties, ElementOfSeq
<1>2. \A op \in Op : [n |-> op.n, kind |-> op.kind] \in Standing
  BY DEF Op, Standing
<1>3. Line(q) \in [1..Len(q) -> Standing]
  BY <1>1, <1>2 DEF Line
<1>4. \A i \in 1..Len(q) : Line(q)[i] = [n |-> q[i].n, kind |-> q[i].kind]
  BY <1>1 DEF Line
<1>. QED
  BY <1>1, <1>3, <1>4, TupleSeq

LEMMA GoneProperties ==
  ASSUME NEW d \in Seq(DoneOp)
  PROVE  /\ Gone(d) \in Seq(Departed) /\ Len(Gone(d)) = Len(d)
         /\ \A i \in 1..Len(d) :
              Gone(d)[i] = [n |-> d[i].op.n, kind |-> d[i].op.kind, how |-> Way(d[i].how)]
<1>1. DOMAIN d = 1..Len(d) /\ Len(d) \in Nat /\ \A i \in 1..Len(d) : d[i] \in DoneOp
  BY LenProperties, ElementOfSeq
<1>2. \A r \in DoneOp : Way(r.how) \in {"settled", "placed", "dropped"}
  BY DEF DoneOp, Way
<1>3. \A r \in DoneOp : r.op.n \in Nat /\ r.op.kind \in {"mutation", "order"}
  BY DEF DoneOp, Op
<1>4. \A i \in 1..Len(d) :
        [n |-> d[i].op.n, kind |-> d[i].op.kind, how |-> Way(d[i].how)] \in Departed
  BY <1>1, <1>2, <1>3 DEF Departed
<1>5. Gone(d) \in [1..Len(d) -> Departed]
  BY <1>1, <1>4 DEF Gone
<1>6. \A i \in 1..Len(d) :
        Gone(d)[i] = [n |-> d[i].op.n, kind |-> d[i].op.kind, how |-> Way(d[i].how)]
  BY <1>1 DEF Gone
<1>. QED
  BY <1>1, <1>5, <1>6, TupleSeq

(* Leaving the queue from the front is leaving the line from the front.    *)
LEMMA LeavesLine ==
  ASSUME CoreInv, NEW n, NEW H, Leaves(n, H), NEW way \in {"settled", "placed", "dropped"},
         \A how \in H : Way(how) = way
  PROVE  /\ n \in 0..Len(Line(queue))
         /\ Line(queue') = SubSeq(Line(queue), n + 1, Len(Line(queue)))
         /\ Gone(done') = Gone(done) \o
              [i \in 1..n |-> [n |-> Line(queue)[i].n, kind |-> Line(queue)[i].kind,
                               how |-> way]]
<1>1. /\ queue \in Seq(Op) /\ Len(queue) \in Nat /\ \A i \in 1..Len(queue) : queue[i] \in Op
      /\ done \in Seq(DoneOp) /\ Len(done) \in Nat
      /\ n \in 0..Len(queue) /\ n \in Nat
      /\ queue' \in Seq(Op) /\ Len(queue') = Len(queue) - n
      /\ \A i \in 1..(Len(queue) - n) : queue'[i] = queue[i + n]
      /\ done' \in Seq(DoneOp) /\ Len(done') = Len(done) + n
      /\ \A i \in 1..Len(done) : done'[i] = done[i]
      /\ \A i \in 1..n : done'[Len(done) + i].op = queue[i] /\ done'[Len(done) + i].how \in H
  BY QueueTyped DEF Leaves
<1> DEFINE ln == Line(queue)
           rest == SubSeq(ln, n + 1, Len(ln))
           out == [i \in 1..n |-> [n |-> ln[i].n, kind |-> ln[i].kind, how |-> way]]
<1>2. /\ ln \in Seq(Standing) /\ Len(ln) = Len(queue)
      /\ \A i \in 1..Len(queue) : ln[i] = [n |-> queue[i].n, kind |-> queue[i].kind]
  BY <1>1, LineProperties
<1>3. \A i \in 1..n : /\ i \in 1..Len(queue) /\ ln[i].n = queue[i].n
                      /\ ln[i].kind = queue[i].kind
  <2> TAKE i \in 1..n
  <2>1. i \in 1..Len(queue)
    BY <1>1
  <2>2. ln[i] = [n |-> queue[i].n, kind |-> queue[i].kind]
    BY <1>2, <2>1
  <2> HIDE DEF ln
  <2> QED BY <2>1, <2>2
<1>4. Line(queue') = rest
  <2>1. /\ rest \in Seq(Standing) /\ Len(rest) = Len(queue) - n
        /\ \A i \in 1..(Len(queue) - n) : rest[i] = ln[i + n]
    <3>1. n \in 0..Len(ln)
      BY <1>1, <1>2
    <3> HIDE DEF ln
    <3> QED BY <1>2, <3>1, SuffixProperties
  <2>2. /\ Line(queue') \in Seq(Standing) /\ Len(Line(queue')) = Len(queue) - n
        /\ \A i \in 1..(Len(queue) - n) :
             Line(queue')[i] = [n |-> queue'[i].n, kind |-> queue'[i].kind]
    BY <1>1, LineProperties
  <2>3. ASSUME NEW i \in 1..(Len(queue) - n)
        PROVE  Line(queue')[i] = rest[i]
    <3>1. i + n \in 1..Len(queue)
      BY <1>1
    <3> HIDE DEF ln, rest
    <3> QED BY <1>1, <1>2, <2>1, <2>2, <3>1
  <2> HIDE DEF rest
  <2> QED BY <2>1, <2>2, <2>3, SeqEqual
<1>5. Gone(done') = Gone(done) \o out
  <2>1. \A i \in 1..n : [n |-> ln[i].n, kind |-> ln[i].kind, how |-> way] \in Departed
    <3> TAKE i \in 1..n
    <3>1. queue[i] \in Op /\ ln[i].n = queue[i].n /\ ln[i].kind = queue[i].kind
      BY <1>1, <1>3
    <3>2. queue[i].n \in Nat /\ queue[i].kind \in {"mutation", "order"}
      BY <3>1 DEF Op
    <3> HIDE DEF ln
    <3> QED BY <3>1, <3>2 DEF Departed
  <2>2. out \in [1..n -> Departed]
    BY <2>1
  <2>3. \A i \in 1..n : out[i] = [n |-> ln[i].n, kind |-> ln[i].kind, how |-> way]
    OBVIOUS
  <2>4. /\ Gone(done) \in Seq(Departed) /\ Len(Gone(done)) = Len(done)
        /\ \A i \in 1..Len(done) : Gone(done)[i] =
             [n |-> done[i].op.n, kind |-> done[i].op.kind, how |-> Way(done[i].how)]
    BY <1>1, GoneProperties
  <2>5. /\ Gone(done') \in Seq(Departed) /\ Len(Gone(done')) = Len(done) + n
        /\ \A i \in 1..(Len(done) + n) : Gone(done')[i] =
             [n |-> done'[i].op.n, kind |-> done'[i].op.kind, how |-> Way(done'[i].how)]
    BY <1>1, GoneProperties
  <2> HIDE DEF ln, out
  <2>6. /\ Gone(done) \o out \in Seq(Departed)
        /\ Len(Gone(done) \o out) = Len(done) + n
        /\ \A i \in 1..Len(done) : (Gone(done) \o out)[i] = Gone(done)[i]
        /\ \A i \in 1..n : (Gone(done) \o out)[Len(done) + i] = out[i]
    <3>1. /\ Gone(done) \o out \in Seq(Departed)
          /\ Len(Gone(done) \o out) = Len(Gone(done)) + n
          /\ \A i \in 1..Len(Gone(done)) : (Gone(done) \o out)[i] = Gone(done)[i]
          /\ \A i \in 1..n : (Gone(done) \o out)[Len(Gone(done)) + i] = out[i]
      <4>1. n \in Nat /\ Gone(done) \in Seq(Departed)
        BY <1>1, <2>4
      <4> QED BY <2>2, <4>1, ConcatTyped
    <3>2. Len(Gone(done)) = Len(done)
      BY <2>4
    <3> QED BY <3>1, <3>2
  <2>7. ASSUME NEW i \in 1..(Len(done) + n)
        PROVE  Gone(done')[i] = (Gone(done) \o out)[i]
    <3>1. CASE i \in 1..Len(done)
      <4>1. done'[i] = done[i]
        BY <1>1, <3>1
      <4>2. (Gone(done) \o out)[i] = Gone(done)[i]
        BY <2>6, <3>1
      <4> QED BY <2>4, <2>5, <3>1, <4>1, <4>2
    <3>2. CASE i \notin 1..Len(done)
      <4>1. PICK k \in 1..n : i = Len(done) + k
        <5>1. i - Len(done) \in 1..n /\ i = Len(done) + (i - Len(done))
          BY <1>1, <3>2
        <5> QED BY <5>1
      <4>2. done'[i].op = queue[k] /\ Way(done'[i].how) = way
        BY <1>1, <4>1
      <4>3. Gone(done')[i] = [n |-> queue[k].n, kind |-> queue[k].kind, how |-> way]
        BY <2>5, <4>2
      <4>4. out[k] = [n |-> queue[k].n, kind |-> queue[k].kind, how |-> way]
        BY <1>3, <2>3
      <4> QED BY <2>6, <4>1, <4>3, <4>4
    <3> QED BY <3>1, <3>2
  <2> QED BY <1>1, <2>5, <2>6, <2>7, SeqEqual
<1>. QED
  BY <1>1, <1>2, <1>4, <1>5

(* The actions of the barrier queue, over Line and Gone. *)

LEMMA BarrierSettle ==
  ASSUME NEW k \in 1..Len(Line(queue)),
         \A i \in 1..k : Line(queue)[i].kind = "mutation",
         Line(queue') = SubSeq(Line(queue), k + 1, Len(Line(queue))),
         Gone(done') = Gone(done) \o
           [i \in 1..k |-> [n |-> Line(queue)[i].n, kind |-> Line(queue)[i].kind,
                            how |-> "settled"]]
  PROVE  Barrier!Next
<1>1. Barrier!Settle
  BY Zenon DEF Barrier!Settle, Barrier!Out, Line, Gone, Way
<1>. QED
  BY <1>1 DEF Barrier!Next

LEMMA BarrierPlace ==
  ASSUME Line(queue) # <<>>, Line(queue)[1].kind = "order",
         Line(queue') = Tail(Line(queue)),
         Gone(done') = Gone(done) \o
           [i \in 1..1 |-> [n |-> Line(queue)[i].n, kind |-> Line(queue)[i].kind,
                            how |-> "placed"]]
  PROVE  Barrier!Next
<1>1. Barrier!Place
  BY Zenon DEF Barrier!Place, Barrier!Out, Line, Gone, Way
<1>. QED
  BY <1>1 DEF Barrier!Next

LEMMA BarrierClear ==
  ASSUME Line(queue') = <<>>,
         Gone(done') = Gone(done) \o
           [i \in 1..Len(Line(queue)) |->
              [n |-> Line(queue)[i].n, kind |-> Line(queue)[i].kind, how |-> "dropped"]]
  PROVE  Barrier!Next
<1>1. Barrier!Clear
  BY Zenon DEF Barrier!Clear, Barrier!Out, Line, Gone, Way
<1>. QED
  BY <1>1 DEF Barrier!Next

LEMMA BarrierJoin ==
  ASSUME Len(Line(queue')) > Len(Line(queue)),
         Len(Line(queue')) <= Len(Line(queue)) + 3,
         \A i \in DOMAIN Line(queue) : Line(queue')[i] = Line(queue)[i],
         \A i \in (Len(Line(queue)) + 1)..Len(Line(queue')) :
           /\ Line(queue')[i].n = Len(Gone(done)) + i
           /\ Line(queue')[i].kind \in {"mutation", "order"}
           /\ i < Len(Line(queue')) => Line(queue')[i].kind = "mutation",
         Gone(done') = Gone(done)
  PROVE  Barrier!Next
<1>1. Barrier!Join
  BY Zenon DEF Barrier!Join, Barrier!Kinds, Line, Gone, Way
<1>. QED
  BY <1>1 DEF Barrier!Next

(* Every step of the serializer is a step of the barrier queue, or none.   *)
LEMMA BarrierStep ==
  ASSUME CoreInv, Numbered, [Next]_vars
  PROVE  Barrier!Next \/ UNCHANGED <<Line(queue), Gone(done)>>
<1>1. /\ queue \in Seq(Op) /\ Len(queue) \in Nat /\ \A i \in 1..Len(queue) : queue[i] \in Op
      /\ done \in Seq(DoneOp) /\ Len(done) \in Nat /\ nextOp = Len(done) + Len(queue) + 1
      /\ queue # <<>> => Len(queue) >= 1
  BY QueueTyped DEF Numbered
<1>2. /\ Line(queue) \in Seq(Standing) /\ Len(Line(queue)) = Len(queue)
      /\ DOMAIN Line(queue) = 1..Len(queue)
      /\ \A i \in 1..Len(queue) : Line(queue)[i] = [n |-> queue[i].n, kind |-> queue[i].kind]
      /\ Len(Gone(done)) = Len(done)
  BY <1>1, LineProperties, GoneProperties
<1>3. \A i \in 1..Len(queue) : Line(queue)[i].kind = queue[i].kind
  BY <1>2
<1>4. ASSUME NEW n \in 1..Len(queue), Leaves(n, ToSettled), \A i \in 1..n : IsMutation(queue[i])
      PROVE  Barrier!Next
  <2>1. \A how \in ToSettled : Way(how) = "settled"
    BY DEF ToSettled, Way
  <2>2. /\ Line(queue') = SubSeq(Line(queue), n + 1, Len(Line(queue)))
        /\ Gone(done') = Gone(done) \o
             [i \in 1..n |-> [n |-> Line(queue)[i].n, kind |-> Line(queue)[i].kind,
                              how |-> "settled"]]
    BY <1>4, <2>1, LeavesLine
  <2>3. n \in 1..Len(Line(queue)) /\ \A i \in 1..n : Line(queue)[i].kind = "mutation"
    BY <1>1, <1>2, <1>3, <1>4 DEF IsMutation
  <2> QED BY <2>2, <2>3, BarrierSettle
<1>5. CASE TakeCommand
  <2>1. PICK new : Joins(new)
    BY <1>5, CommandJoins DEF CoreInv
  <2>2. /\ Len(new) \in 0..3
        /\ queue' \in Seq(Op)
        /\ Len(queue') = Len(queue) + Len(new)
        /\ \A i \in 1..Len(queue) : queue'[i] = queue[i]
        /\ \A i \in (Len(queue) + 1)..Len(queue') :
             i - Len(queue) \in 1..Len(new) /\ queue'[i] = new[i - Len(queue)]
    BY <2>1, JoinsEffect
  <2>3. done' = done
    BY <1>5 DEF TakeCommand
  <2>4. CASE Len(new) = 0
    <3>1. queue' = queue
      BY <1>1, <2>2, <2>4, SeqEqual
    <3> QED BY <2>3, <3>1
  <2>5. CASE Len(new) # 0
    <3>1. /\ Len(Line(queue')) = Len(queue')
          /\ \A i \in 1..Len(queue') :
               Line(queue')[i] = [n |-> queue'[i].n, kind |-> queue'[i].kind]
      BY <2>2, LineProperties
    <3>2. /\ Len(Line(queue')) > Len(Line(queue))
          /\ Len(Line(queue')) <= Len(Line(queue)) + 3
      <4>1. Len(new) \in 1..3
        BY <2>2, <2>5
      <4>2. Len(queue) \in Nat /\ Len(queue') = Len(queue) + Len(new)
        BY <1>1, <2>2
      <4>3. \A a \in Nat, b \in 1..3 : a + b > a /\ a + b <= a + 3
        OBVIOUS
      <4>4. Len(queue') > Len(queue) /\ Len(queue') <= Len(queue) + 3
        BY <4>1, <4>2, <4>3, Zenon
      <4> QED BY <1>2, <3>1, <4>4
    <3>3. ASSUME NEW i \in DOMAIN Line(queue)
          PROVE  Line(queue')[i] = Line(queue)[i]
      <4>1. i \in 1..Len(queue) /\ i \in 1..Len(queue') /\ queue'[i] = queue[i]
        BY <1>1, <1>2, <2>2
      <4> QED BY <1>2, <3>1, <4>1
    <3>4. ASSUME NEW i \in (Len(Line(queue)) + 1)..Len(Line(queue'))
          PROVE  /\ Line(queue')[i].n = Len(Gone(done)) + i
                 /\ Line(queue')[i].kind \in {"mutation", "order"}
                 /\ i < Len(Line(queue')) => Line(queue')[i].kind = "mutation"
      <4> DEFINE k == i - Len(queue)
      <4>1. i \in (Len(queue) + 1)..Len(queue') /\ i \in 1..Len(queue')
        BY <1>1, <1>2, <3>1
      <4>2. k \in 1..Len(new) /\ queue'[i] = new[k] /\ (i < Len(queue') => k < Len(new))
        BY <1>1, <2>2, <4>1
      <4>3. Line(queue')[i] = [n |-> new[k].n, kind |-> new[k].kind]
        BY <3>1, <4>1, <4>2
      <4>4. new[k].n = nextOp + (k - 1) /\ (k < Len(new) => new[k].kind = "mutation")
            /\ new[k] \in Op
        BY <2>1, <4>2, ElementOfSeq DEF Joins, IsMutation
      <4>5. nextOp + (k - 1) = Len(done) + i
        BY <1>1, <4>1
      <4>6. new[k].kind \in {"mutation", "order"}
        BY <4>4 DEF Op
      <4> HIDE DEF k
      <4> QED BY <1>2, <3>1, <4>2, <4>3, <4>4, <4>5, <4>6
    <3> QED BY <2>3, <3>2, <3>3, <3>4, BarrierJoin
  <2> QED BY <2>2, <2>4, <2>5
<1>6. CASE DriveConfirmed
  BY <1>4, <1>6, ConfirmedLeaves
<1>7. CASE PopsHead
  <2>1. CASE Leaves(1, ToSettled) /\ IsMutation(queue[1])
    <3>1. 1 \in 1..Len(queue) /\ \A i \in 1..1 : IsMutation(queue[i])
      BY <1>1, <1>7, <2>1, HeadLeaves
    <3> QED BY <1>4, <2>1, <3>1
  <2>2. CASE Leaves(1, ToPlaced) /\ IsOrder(queue[1])
    <3>1. 1 \in 1..Len(queue)
      BY <1>1, <1>7, HeadLeaves
    <3>2. \A how \in ToPlaced : Way(how) = "placed"
      BY DEF ToPlaced, Way
    <3>3. /\ Line(queue') = SubSeq(Line(queue), 1 + 1, Len(Line(queue)))
          /\ Gone(done') = Gone(done) \o
               [i \in 1..1 |-> [n |-> Line(queue)[i].n, kind |-> Line(queue)[i].kind,
                                how |-> "placed"]]
      BY <2>2, <3>2, LeavesLine
    <3>4. Line(queue) # <<>>
      BY <1>1, <1>2, <3>1, EmptySeq
    <3>5. Line(queue') = Tail(Line(queue))
      BY <1>2, <3>3, <3>4, TailIsSuffix
    <3>6. Line(queue)[1].kind = "order"
      BY <1>3, <2>2, <3>1 DEF IsOrder
    <3> QED BY <3>3, <3>4, <3>5, <3>6, BarrierPlace
  <2> QED BY <1>7, <2>1, <2>2, HeadLeaves
<1>8. CASE Send
  <2>1. /\ queue' \in Seq(Op) /\ Len(queue') = Len(queue) /\ done' = done
        /\ \A i \in 1..Len(queue) : queue'[i].n = queue[i].n /\ queue'[i].kind = queue[i].kind
    BY <1>8, SendKeeps
  <2>2. /\ Line(queue') \in Seq(Standing) /\ Len(Line(queue')) = Len(queue)
        /\ \A i \in 1..Len(queue) :
             Line(queue')[i] = [n |-> queue'[i].n, kind |-> queue'[i].kind]
    BY <2>1, LineProperties
  <2>3. \A i \in 1..Len(queue) : Line(queue')[i] = Line(queue)[i]
    BY <1>2, <2>1, <2>2
  <2>4. Line(queue') = Line(queue)
    BY <1>2, <2>2, <2>3, SeqEqual
  <2> QED BY <2>1, <2>4
<1>9. CASE Ends
  <2>1. Leaves(Len(queue), ToDropped) /\ queue' = <<>>
    BY <1>9, EndLeaves
  <2>2. \A how \in ToDropped : Way(how) = "dropped"
    BY DEF ToDropped, Way
  <2>3. Gone(done') = Gone(done) \o
          [i \in 1..Len(queue) |-> [n |-> Line(queue)[i].n, kind |-> Line(queue)[i].kind,
                                    how |-> "dropped"]]
    BY <2>1, <2>2, LeavesLine
  <2>4. Line(queue') = <<>>
    BY <2>1, LineProperties, EmptyQueue, EmptySeq
  <2> QED BY <1>2, <2>3, <2>4, BarrierClear
<1>10. CASE Quiet
  BY <1>10 DEF Quiet, Line, Gone
<1>. QED
  BY <1>5, <1>6, <1>7, <1>8, <1>9, <1>10, StepKinds

LEMMA BarrierInit == Init => Barrier!Init
<1> SUFFICES ASSUME Init PROVE Barrier!Init
  OBVIOUS
<1>1. queue = <<>> /\ done = <<>>
  BY DEF Init
<1>2. <<>> \in Seq(Op) /\ <<>> \in Seq(DoneOp) /\ Len(<<>>) = 0
  BY EmptySeq
<1>3. Line(queue) = <<>> /\ Gone(done) = <<>>
  BY <1>1, <1>2, LineProperties, GoneProperties, EmptySeq
<1>. QED
  BY <1>3, Zenon DEF Barrier!Init, Line, Gone, Way

(* The serializer implements the abstract barrier queue of OrderBarrier:   *)
(* whatever packets are sent, lost, confirmed or given up on, mutations    *)
(* are settled from the front and never past an order, an order is placed  *)
(* only from the front, and only a lost connection drops the line.         *)
THEOREM BarrierCorrect == Spec => BarrierSpec
<1>1. Init => Barrier!Init
  BY BarrierInit
<1>2. CoreInv /\ Numbered /\ [Next]_vars =>
        [Barrier!Next]_<<Line(queue), Gone(done)>>
  BY BarrierStep
<1>. QED
  BY <1>1, <1>2, CoreInvariant, NumberedInvariant, PTL
     DEF Spec, BarrierSpec, Barrier!Spec, Line, Gone, Way

-----------------------------------------------------------------------------
(* The wait of an order.                                                   *)

LEMMA SubsetFinite ==
  ASSUME NEW a \in Int, NEW b \in Int, NEW S \in SUBSET (a..b)
  PROVE  IsFiniteSet(S) /\ Cardinality(S) \in Nat
<1>1. IsFiniteSet(S)
  BY FS_Interval, FS_Subset
<1>. QED
  BY <1>1, FS_CardinalityType

(* Numbering a set of positions from another origin adds no element. *)
LEMMA ShiftedSize ==
  ASSUME NEW S, IsFiniteSet(S), NEW d, NEW T, T = {d + i : i \in S}
  PROVE  IsFiniteSet(T) /\ Cardinality(T) <= Cardinality(S)
<1> DEFINE f == [i \in S |-> d + i]
<1>1. f \in Surjection(S, T)
  BY DEF Surjection
<1>. QED
  BY <1>1, FS_Surjection

LEMMA UnionSize ==
  ASSUME NEW S, NEW T, IsFiniteSet(S), IsFiniteSet(T)
  PROVE  IsFiniteSet(S \cup T) /\ Cardinality(S \cup T) <= Cardinality(S) + Cardinality(T)
<1>1. /\ IsFiniteSet(S \cup T)
      /\ Cardinality(S \cup T) = Cardinality(S) + Cardinality(T) - Cardinality(S \cap T)
  BY FS_Union
<1>2. IsFiniteSet(S \cap T)
  BY FS_Intersection
<1>3. Cardinality(S) \in Nat /\ Cardinality(T) \in Nat /\ Cardinality(S \cap T) \in Nat
  BY <1>2, FS_CardinalityType
<1>. QED
  BY <1>1, <1>3

LEMMA FewerThan ==
  ASSUME NEW S, IsFiniteSet(S), NEW x \in S, NEW T \in SUBSET (S \ {x})
  PROVE  IsFiniteSet(T) /\ Cardinality(T) <= Cardinality(S) - 1
<1>1. IsFiniteSet(S \ {x}) /\ Cardinality(S \ {x}) = Cardinality(S) - 1
  BY FS_RemoveElement
<1>. QED
  BY <1>1, FS_Subset

LEMMA TimesTyped ==
  ASSUME NEW m \in Nat, NEW x \in Nat
  PROVE  m * x \in Nat
  OBVIOUS

LEMMA LessLeft ==
  ASSUME NEW x \in Nat, NEW y \in Nat, NEW z \in Nat, z <= y, y <= x
  PROVE  x - y \in Nat /\ x - z \in Nat /\ x - y <= x - z
  OBVIOUS

LEMMA Chained ==
  ASSUME NEW w \in Nat, NEW x \in Nat, NEW y \in Nat, NEW z \in Nat,
         w <= x, x <= y + z
  PROVE  w <= y + z
  OBVIOUS

LEMMA Ordered ==
  ASSUME NEW x \in Nat, NEW y \in Nat, NEW z \in Nat, x <= y, y <= z
  PROVE  x <= z
  OBVIOUS

LEMMA TimesMonotonic ==
  ASSUME NEW m \in Nat, NEW x \in Nat, NEW y \in Nat, x <= y
  PROVE  m * x \in Nat /\ m * y \in Nat /\ m * x <= m * y
<1>1. y - x \in Nat /\ m * (y - x) >= 0
  OBVIOUS
<1>2. m * y = m * x + m * (y - x)
  OBVIOUS
<1>. QED
  BY <1>1, <1>2

LEMMA BudgetOfOne ==
  ASSUME NEW m \in Nat, NEW x \in Nat, NEW y \in Nat, x + 1 <= y
  PROVE  m * x + m <= m * y
<1>1. m * (x + 1) = m * x + m
  OBVIOUS
<1>. QED
  BY <1>1, TimesMonotonic

(* The mutations of queue q whose serial number is below s, when base      *)
(* operations have left.                                                   *)
Before(q, base, s) == {x \in (base + 1)..(s - 1) : IsMutation(q[x - base])}

(* An order has waited for its packets out of the budgets of the mutations *)
(* that are gone, and of what the head has spent so far.                   *)
Waiting ==
  \A k \in DOMAIN queue : IsOrder(queue[k]) =>
    LET left == Cardinality(Before(queue, Len(done), queue[k].n))
    IN  /\ left <= queue[k].ahead
        /\ queue[k].sends <= MaxAttempts * (queue[k].ahead - left) + attempts

Waited ==
  \A i \in DOMAIN done :
    IsOrder(done[i].op) => done[i].op.sends <= MaxAttempts * done[i].op.ahead

LEMMA BeforeFinite ==
  ASSUME NEW q, NEW base \in Nat, NEW s \in Nat
  PROVE  /\ IsFiniteSet(Before(q, base, s))
         /\ Cardinality(Before(q, base, s)) \in Nat
<1>1. Before(q, base, s) \in SUBSET ((base + 1)..(s - 1))
  BY DEF Before
<1>2. base + 1 \in Int /\ s - 1 \in Int
  OBVIOUS
<1>. QED
  BY <1>1, <1>2, SubsetFinite

LEMMA WaitTyped ==
  ASSUME CoreInv, Numbered
  PROVE  /\ DOMAIN queue = 1..Len(queue) /\ Len(queue) \in Nat
         /\ DOMAIN done = 1..Len(done) /\ Len(done) \in Nat
         /\ attempts \in Nat /\ attempts <= MaxAttempts /\ MaxAttempts \in Nat
         /\ \A k \in 1..Len(queue) :
              /\ queue[k].n = Len(done) + k /\ queue[k].n \in Nat
              /\ queue[k].sends \in Nat /\ queue[k].ahead \in Nat
              /\ queue[k].kind \in {"mutation", "order"}
              /\ Cardinality(Before(queue, Len(done), queue[k].n)) \in Nat
<1>1. /\ DOMAIN queue = 1..Len(queue) /\ Len(queue) \in Nat
      /\ DOMAIN done = 1..Len(done) /\ Len(done) \in Nat
      /\ attempts \in 0..MaxAttempts /\ MaxAttempts \in Nat
      /\ \A k \in 1..Len(queue) : queue[k] \in Op
  BY QueueTyped, AttemptsAssumption
<1>2. \A k \in 1..Len(queue) :
        /\ queue[k].n = Len(done) + k /\ queue[k].n \in Nat
        /\ queue[k].sends \in Nat /\ queue[k].ahead \in Nat
        /\ queue[k].kind \in {"mutation", "order"}
  BY <1>1 DEF Numbered, Op
<1>. QED
  BY <1>1, <1>2, BeforeFinite

(* While some of the head's budget is spent, the head is a mutation, and   *)
(* every order still waits behind it.                                      *)
LEMMA OrderInQueue ==
  ASSUME CoreInv, BudgetInv, Numbered, Waiting,
         NEW k \in 1..Len(queue), IsOrder(queue[k])
  PROVE  queue[k].sends <= MaxAttempts * queue[k].ahead
<1> DEFINE S == Before(queue, Len(done), queue[k].n)
           a == queue[k].ahead
           c == Cardinality(S)
<1>1. /\ DOMAIN queue = 1..Len(queue) /\ Len(queue) \in Nat /\ Len(done) \in Nat
      /\ attempts \in Nat /\ attempts <= MaxAttempts /\ MaxAttempts \in Nat
      /\ queue[k].n = Len(done) + k /\ queue[k].sends \in Nat /\ a \in Nat /\ c \in Nat
  BY WaitTyped
<1>2. c <= a /\ queue[k].sends <= MaxAttempts * (a - c) + attempts
  BY <1>1 DEF Waiting
<1>3. CASE attempts = 0
  <2>1. a - c \in Nat /\ a - c <= a
    BY <1>1, <1>2
  <2> HIDE DEF a, c
  <2>2. MaxAttempts * (a - c) \in Nat /\ MaxAttempts * a \in Nat
        /\ MaxAttempts * (a - c) <= MaxAttempts * a
    BY <1>1, <2>1, TimesMonotonic
  <2>3. queue[k].sends <= MaxAttempts * a
    BY <1>1, <1>2, <1>3, <2>2
  <2> QED BY <2>3 DEF a
<1>4. CASE attempts > 0
  <2>1. IsMutation(queue[1]) /\ k # 1
    <3>1. queue # <<>> /\ IsMutation(Head(queue))
      BY <1>1, <1>4 DEF BudgetInv, BudgetIsHeads
    <3>2. IsMutation(queue[1])
      BY <3>1, QueueTyped
    <3> QED BY <3>2 DEF IsMutation, IsOrder
  <2>2. Len(done) + 1 \in S
    BY <1>1, <2>1 DEF Before
  <2>3. IsFiniteSet(S)
    BY <1>1, BeforeFinite
  <2>4. c # 0
    BY <2>2, <2>3, FS_EmptySet
  <2>5. a - c \in Nat /\ (a - c) + 1 <= a
    BY <1>1, <1>2, <2>4
  <2> HIDE DEF a, c, S
  <2>6. MaxAttempts * (a - c) + MaxAttempts <= MaxAttempts * a
    BY <1>1, <2>5, BudgetOfOne
  <2>7. MaxAttempts * (a - c) \in Nat /\ MaxAttempts * a \in Nat
    BY <1>1, <2>5, TimesTyped
  <2>8. queue[k].sends <= MaxAttempts * a
    BY <1>1, <1>2, <2>6, <2>7
  <2> QED BY <2>8 DEF a
<1>. QED
  BY <1>1, <1>3, <1>4

(* Operations leave: an order that stays has no more mutations before it,  *)
(* and one less when a mutation went and took the budget spent with it.    *)
LEMMA WaitingLeaves ==
  ASSUME CoreInv, CoreInv', Numbered, Numbered', Waiting, NEW n, NEW H, Leaves(n, H),
         attempts' = 0,
         attempts = 0 \/ (n >= 1 /\ IsMutation(queue[1]))
  PROVE  Waiting'
<1>1. /\ Len(queue) \in Nat /\ Len(done) \in Nat /\ DOMAIN queue = 1..Len(queue)
      /\ n \in 0..Len(queue) /\ n \in Nat
      /\ Len(queue') = Len(queue) - n /\ DOMAIN queue' = 1..(Len(queue) - n)
      /\ \A i \in 1..(Len(queue) - n) : queue'[i] = queue[i + n]
      /\ Len(done') = Len(done) + n
  BY WaitTyped, LenProperties DEF Leaves
<1>2. SUFFICES ASSUME NEW j \in 1..(Len(queue) - n), IsOrder(queue'[j])
               PROVE  LET left == Cardinality(Before(queue', Len(done'), queue'[j].n))
                      IN  /\ left <= queue'[j].ahead
                          /\ queue'[j].sends <= MaxAttempts * (queue'[j].ahead - left) + attempts'
  BY <1>1 DEF Waiting
<1> DEFINE k == j + n
           s == queue[k].n
           S == Before(queue, Len(done), s)
           T == Before(queue', Len(done'), s)
           a == queue[k].ahead
           c == Cardinality(S)
           d == Cardinality(T)
<1>3. k \in 1..Len(queue) /\ queue'[j] = queue[k] /\ IsOrder(queue[k])
  BY <1>1, <1>2
<1>4. /\ s = Len(done) + k /\ s \in Nat /\ queue[k].sends \in Nat /\ a \in Nat /\ c \in Nat
      /\ attempts \in Nat /\ attempts <= MaxAttempts /\ MaxAttempts \in Nat
  BY <1>3, WaitTyped
<1>5. c <= a /\ queue[k].sends <= MaxAttempts * (a - c) + attempts
  BY <1>1, <1>3 DEF Waiting
<1>6. T \in SUBSET S /\ \A x \in T : x >= Len(done) + n + 1
  <2>1. ASSUME NEW x \in T
        PROVE  x \in S /\ x >= Len(done) + n + 1
    <3>1. x \in (Len(done') + 1)..(s - 1) /\ IsMutation(queue'[x - Len(done')])
      BY <2>1 DEF Before
    <3>2. x - Len(done') \in 1..(Len(queue) - n) /\ x - Len(done') + n = x - Len(done)
          /\ x \in (Len(done) + 1)..(s - 1) /\ x >= Len(done) + n + 1
      BY <1>1, <1>4, <3>1
    <3>3. queue'[x - Len(done')] = queue[x - Len(done)]
      BY <1>1, <3>2
    <3> QED BY <3>1, <3>2, <3>3 DEF Before
  <2> QED BY <2>1
<1>7. IsFiniteSet(S)
  BY <1>1, <1>4, BeforeFinite
<1>8. IsFiniteSet(T) /\ d \in Nat /\ d <= c
  <2>1. IsFiniteSet(T) /\ d <= c
    BY <1>6, <1>7, FS_Subset
  <2> QED BY <2>1, FS_CardinalityType
<1>9. CASE attempts = 0
  <2> HIDE DEF a, c, d, S, T
  <2>1. a - c \in Nat /\ a - d \in Nat /\ a - c <= a - d
    BY <1>4, <1>5, <1>8, LessLeft
  <2>2. /\ MaxAttempts * (a - c) \in Nat /\ MaxAttempts * (a - d) \in Nat
        /\ MaxAttempts * (a - c) <= MaxAttempts * (a - d)
    BY <1>4, <2>1, TimesMonotonic
  <2>3. d <= a /\ queue[k].sends <= MaxAttempts * (a - d) + 0
    BY <1>4, <1>5, <1>8, <1>9, <2>2
  <2> QED BY <1>3, <2>3 DEF a, d, T
<1>10. CASE n >= 1 /\ IsMutation(queue[1])
  <2>1. Len(done) + 1 \in S
    BY <1>1, <1>4, <1>10 DEF Before
  <2>2. T \in SUBSET (S \ {Len(done) + 1})
    <3> HIDE DEF S, T
    <3> QED BY <1>1, <1>6, <1>10
  <2> HIDE DEF a, c, d, S, T
  <2>3. d <= c - 1
    BY <1>7, <2>1, <2>2, FewerThan DEF c, d
  <2>4. a - c \in Nat /\ a - d \in Nat /\ (a - c) + 1 <= a - d
    BY <1>4, <1>5, <1>8, <2>3
  <2>5. MaxAttempts * (a - c) + MaxAttempts <= MaxAttempts * (a - d)
    BY <1>4, <2>4, BudgetOfOne
  <2>6. MaxAttempts * (a - c) \in Nat /\ MaxAttempts * (a - d) \in Nat
    BY <1>4, <2>4
  <2> DEFINE spent == MaxAttempts * (a - c)
             owed  == MaxAttempts * (a - d)
  <2>7. queue[k].sends <= spent + attempts /\ spent + MaxAttempts <= owed
        /\ spent \in Nat /\ owed \in Nat
    BY <1>5, <2>5, <2>6
  <2> HIDE DEF spent, owed
  <2>8. queue[k].sends <= owed + 0
    BY <1>4, <2>7
  <2>9. d <= a
    BY <1>4, <1>5, <1>8
  <2> QED BY <1>3, <2>8, <2>9 DEF a, d, T, owed
<1>. QED
  BY <1>9, <1>10

LEMMA WaitingJoins ==
  ASSUME CoreInv, CoreInv', Numbered, Waiting, TakeCommand
  PROVE  Waiting'
<1>1. /\ Len(queue) \in Nat /\ Len(done) \in Nat /\ DOMAIN queue = 1..Len(queue)
      /\ attempts \in Nat /\ MaxAttempts \in Nat
      /\ nextOp = Len(done) + Len(queue) + 1 /\ queue \in Seq(Op)
  BY WaitTyped, QueueTyped DEF Numbered
<1>2. PICK new : Joins(new)
  BY CommandJoins DEF CoreInv
<1>3. /\ Len(new) \in 0..3
      /\ queue' \in Seq(Op)
      /\ Len(queue') = Len(queue) + Len(new)
      /\ \A i \in 1..Len(queue) : queue'[i] = queue[i]
      /\ \A i \in (Len(queue) + 1)..Len(queue') :
           i - Len(queue) \in 1..Len(new) /\ queue'[i] = new[i - Len(queue)]
  BY <1>2, JoinsEffect
<1>4. DOMAIN queue' = 1..Len(queue') /\ done' = done /\ attempts' = attempts
  BY <1>3, LenProperties DEF TakeCommand
<1>5. SUFFICES ASSUME NEW k \in 1..Len(queue'), IsOrder(queue'[k])
               PROVE  LET left == Cardinality(Before(queue', Len(done), queue'[k].n))
                      IN  /\ left <= queue'[k].ahead
                          /\ queue'[k].sends <= MaxAttempts * (queue'[k].ahead - left) + attempts
  BY <1>4 DEF Waiting
<1>6. CASE k \in 1..Len(queue)
  <2> DEFINE s == queue[k].n
  <2>1. queue'[k] = queue[k] /\ IsOrder(queue[k]) /\ s = Len(done) + k
    BY <1>1, <1>3, <1>5, <1>6 DEF Numbered
  <2>2. \A x \in (Len(done) + 1)..(s - 1) : queue'[x - Len(done)] = queue[x - Len(done)]
    <3> TAKE x \in (Len(done) + 1)..(s - 1)
    <3>1. x - Len(done) \in 1..Len(queue)
      BY <1>1, <1>6, <2>1
    <3> QED BY <1>3, <3>1
  <2>3. Before(queue', Len(done), s) = Before(queue, Len(done), s)
    BY <2>2 DEF Before, IsMutation
  <2> QED BY <1>1, <1>6, <2>1, <2>3 DEF Waiting
<1>7. CASE k \notin 1..Len(queue)
  <2> DEFINE s == queue'[k].n
             S == Before(queue', Len(done), s)
             old == {Len(done) + i : i \in Queued}
             fresh == nextOp..(s - 1)
  <2>1. k \in (Len(queue) + 1)..Len(queue')
    BY <1>1, <1>3, <1>5, <1>7
  <2>2. k - Len(queue) \in 1..Len(new) /\ queue'[k] = new[k - Len(queue)]
    BY <1>3, <2>1
  <2>3. ~IsMutation(queue'[k])
    BY <1>5 DEF IsMutation, IsOrder
  <2>4. k - Len(queue) = Len(new)
    <3>1. ~(k - Len(queue) < Len(new))
      BY <1>2, <2>2, <2>3 DEF Joins
    <3> QED BY <1>3, <2>2, <3>1
  <2>5. /\ s = nextOp + (Len(new) - 1) /\ queue'[k].sends = 0
        /\ queue'[k].ahead = Cardinality(Queued) + (Len(new) - 1)
    BY <1>2, <1>5, <2>2, <2>4 DEF Joins
  <2>6. Len(new) \in 1..3 /\ Len(new) - 1 \in Nat /\ nextOp \in Nat /\ s \in Nat
        /\ s - 1 = nextOp + (Len(new) - 1) - 1
    BY <1>1, <1>3, <2>2, <2>5
  <2>7. IsFiniteSet(Queued) /\ Cardinality(Queued) \in Nat
    BY <1>1, QueuedFinite
  <2>8. IsFiniteSet(old) /\ Cardinality(old) <= Cardinality(Queued)
    BY <2>7, ShiftedSize
  <2>9. IsFiniteSet(fresh) /\ Cardinality(fresh) <= Len(new) - 1
    <3>1. nextOp \in Int /\ s - 1 \in Int
      BY <2>6
    <3>2. /\ IsFiniteSet(fresh)
          /\ Cardinality(fresh) = IF nextOp > s - 1 THEN 0 ELSE (s - 1) - nextOp + 1
      BY <3>1, FS_Interval
    <3> QED BY <2>6, <3>2
  <2>10. S \in SUBSET (old \cup fresh)
    <3> SUFFICES ASSUME NEW x \in S, x \notin fresh
                 PROVE  x \in old
      OBVIOUS
    <3>1. x \in (Len(done) + 1)..(s - 1) /\ IsMutation(queue'[x - Len(done)])
      BY DEF Before
    <3>2. x - Len(done) \in 1..Len(queue) /\ x = Len(done) + (x - Len(done))
      BY <1>1, <2>6, <3>1
    <3>3. x - Len(done) \in Queued
      BY <1>1, <1>3, <3>1, <3>2 DEF Queued
    <3> QED BY <3>2, <3>3
  <2> HIDE DEF old, fresh, S
  <2>11. /\ IsFiniteSet(old \cup fresh)
         /\ Cardinality(old \cup fresh) <= Cardinality(old) + Cardinality(fresh)
    BY <2>8, <2>9, UnionSize
  <2>12. IsFiniteSet(S) /\ Cardinality(S) <= Cardinality(old \cup fresh)
    BY <2>10, <2>11, FS_Subset
  <2>13. /\ Cardinality(S) \in Nat /\ Cardinality(old) \in Nat /\ Cardinality(fresh) \in Nat
         /\ Cardinality(old \cup fresh) \in Nat
    BY <2>8, <2>9, <2>11, <2>12, FS_CardinalityType
  <2>14. Cardinality(S) <= queue'[k].ahead /\ queue'[k].ahead \in Nat
    <3>1. Cardinality(S) <= Cardinality(old) + Cardinality(fresh)
      BY <2>11, <2>12, <2>13, Chained
    <3>2. Cardinality(old) + Cardinality(fresh) <= Cardinality(Queued) + (Len(new) - 1)
      BY <2>6, <2>7, <2>8, <2>9, <2>13
    <3>3. /\ Cardinality(old) + Cardinality(fresh) \in Nat
          /\ Cardinality(Queued) + (Len(new) - 1) \in Nat
      BY <2>6, <2>7, <2>13
    <3>4. Cardinality(S) <= Cardinality(Queued) + (Len(new) - 1)
      BY <2>13, <3>1, <3>2, <3>3, Ordered
    <3> QED BY <2>5, <3>3, <3>4
  <2>15. queue'[k].ahead - Cardinality(S) \in Nat
    BY <2>13, <2>14
  <2>16. MaxAttempts * (queue'[k].ahead - Cardinality(S)) \in Nat
    BY <1>1, <2>15
  <2>17. queue'[k].sends <= MaxAttempts * (queue'[k].ahead - Cardinality(S)) + attempts
    BY <1>1, <2>5, <2>16
  <2> QED BY <2>14, <2>17 DEF S
<1>. QED
  BY <1>6, <1>7

LEMMA WaitingSend ==
  ASSUME CoreInv, Numbered, Waiting, Send
  PROVE  Waiting'
<1>1. /\ queue' \in Seq(Op) /\ Len(queue') = Len(queue) /\ done' = done
      /\ attempts' = attempts + 1
      /\ \A i \in 1..Len(queue) :
           /\ queue'[i].kind = queue[i].kind
           /\ queue'[i].n = queue[i].n
           /\ queue'[i].ahead = queue[i].ahead
           /\ IsOrder(queue[i]) => queue'[i].sends = queue[i].sends + 1
  BY SendKeeps
<1>2. DOMAIN queue' = 1..Len(queue) /\ DOMAIN queue = 1..Len(queue)
      /\ Len(queue) \in Nat /\ Len(done) \in Nat
      /\ attempts \in Nat /\ MaxAttempts \in Nat
  BY <1>1, LenProperties, WaitTyped
<1>3. SUFFICES ASSUME NEW k \in 1..Len(queue), IsOrder(queue'[k])
               PROVE  LET left == Cardinality(Before(queue', Len(done), queue'[k].n))
                      IN  /\ left <= queue'[k].ahead
                          /\ queue'[k].sends <= MaxAttempts * (queue'[k].ahead - left) + attempts'
  BY <1>1, <1>2 DEF Waiting
<1> DEFINE s == queue[k].n
           c == Cardinality(Before(queue, Len(done), s))
           a == queue[k].ahead
<1>4. /\ IsOrder(queue[k]) /\ queue'[k].n = s /\ queue'[k].ahead = a
      /\ queue'[k].sends = queue[k].sends + 1
  BY <1>1, <1>3 DEF IsOrder
<1>5. s = Len(done) + k /\ a \in Nat /\ c \in Nat /\ queue[k].sends \in Nat
  BY WaitTyped
<1>6. c <= a /\ queue[k].sends <= MaxAttempts * (a - c) + attempts
  BY <1>2, <1>4 DEF Waiting
<1>7. \A x \in (Len(done) + 1)..(s - 1) :
        queue'[x - Len(done)].kind = queue[x - Len(done)].kind
  <2> TAKE x \in (Len(done) + 1)..(s - 1)
  <2>1. x - Len(done) \in 1..Len(queue)
    BY <1>2, <1>5
  <2> QED BY <1>1, <2>1
<1>8. Before(queue', Len(done), s) = Before(queue, Len(done), s)
  BY <1>7 DEF Before, IsMutation
<1> HIDE DEF a, c
<1>9. a - c \in Nat /\ MaxAttempts * (a - c) \in Nat
  BY <1>2, <1>5, <1>6
<1>10. queue[k].sends + 1 <= MaxAttempts * (a - c) + (attempts + 1)
  BY <1>2, <1>5, <1>6, <1>9
<1>. QED
  BY <1>1, <1>4, <1>6, <1>8, <1>10 DEF a, c

WaitInv == BudgetInv /\ Numbered /\ Waiting /\ Waited

LEMMA WaitStep ==
  ASSUME CoreInv, CoreInv', WaitInv, [Next]_vars
  PROVE  WaitInv'
<1>1. BudgetInv /\ Numbered /\ Waiting /\ Waited
  BY DEF WaitInv
<1>2. BudgetInv' /\ Numbered'
  BY <1>1, BudgetStep, NumberedStep
<1>3. ASSUME NEW n, NEW H, Leaves(n, H)
      PROVE  Waited'
  <2>1. /\ Len(done) \in Nat /\ DOMAIN done = 1..Len(done)
        /\ Len(queue) \in Nat /\ n \in 0..Len(queue)
        /\ DOMAIN done' = 1..(Len(done) + n)
        /\ \A i \in 1..Len(done) : done'[i] = done[i]
        /\ \A i \in 1..n : done'[Len(done) + i].op = queue[i]
    BY <1>1, <1>3, WaitTyped, LenProperties DEF Leaves
  <2>2. SUFFICES ASSUME NEW i \in 1..(Len(done) + n), IsOrder(done'[i].op)
                 PROVE  done'[i].op.sends <= MaxAttempts * done'[i].op.ahead
    BY <2>1 DEF Waited
  <2>3. CASE i \in 1..Len(done)
    BY <1>1, <2>1, <2>2, <2>3 DEF Waited
  <2>4. CASE i \notin 1..Len(done)
    <3>1. i - Len(done) \in 1..n /\ i - Len(done) \in 1..Len(queue)
          /\ i = Len(done) + (i - Len(done))
      BY <2>1, <2>4
    <3>2. done'[i].op = queue[i - Len(done)]
      BY <2>1, <3>1
    <3> QED BY <1>1, <2>2, <3>1, <3>2, OrderInQueue
  <2> QED BY <2>3, <2>4
<1>4. CASE TakeCommand
  <2>1. done' = done
    BY <1>4 DEF TakeCommand
  <2> QED BY <1>1, <1>2, <1>4, <2>1, WaitingJoins DEF WaitInv, Waited
<1>5. CASE DriveConfirmed
  <2>1. PICK n \in 1..Len(queue) : /\ Leaves(n, ToSettled)
                                   /\ \A i \in 1..n : IsMutation(queue[i])
                                   /\ attempts' = 0
    BY <1>5, ConfirmedLeaves
  <2>2. n >= 1 /\ IsMutation(queue[1])
    BY <1>1, <2>1, WaitTyped
  <2> QED BY <1>1, <1>2, <1>3, <2>1, <2>2, WaitingLeaves DEF WaitInv
<1>6. CASE PopsHead
  <2>1. CASE Leaves(1, ToSettled) /\ IsMutation(queue[1]) /\ attempts' = 0
    BY <1>1, <1>2, <1>3, <2>1, WaitingLeaves DEF WaitInv
  <2>2. CASE Leaves(1, ToPlaced) /\ IsOrder(queue[1]) /\ attempts' = attempts
    <3>1. ~IsMutation(queue[1]) /\ queue # <<>>
      BY <1>6, <2>2, HeadLeaves DEF IsMutation, IsOrder
    <3>2. ~(attempts > 0)
      BY <1>1, <3>1, QueueTyped DEF BudgetInv, BudgetIsHeads
    <3>3. attempts = 0
      BY <1>1, <3>2, WaitTyped
    <3> QED BY <1>1, <1>2, <1>3, <2>2, <3>3, WaitingLeaves DEF WaitInv
  <2> QED BY <1>6, <2>1, <2>2, HeadLeaves
<1>7. CASE Send
  <2>1. done' = done
    BY <1>7, SendKeeps
  <2> QED BY <1>1, <1>2, <1>7, <2>1, WaitingSend DEF WaitInv, Waited
<1>8. CASE Ends
  <2>1. Leaves(Len(queue), ToDropped) /\ queue' = <<>>
    BY <1>8, EndLeaves
  <2>2. Waiting'
    BY <2>1 DEF Waiting
  <2> QED BY <1>1, <1>2, <1>3, <2>1, <2>2 DEF WaitInv
<1>9. CASE Quiet
  BY <1>1, <1>2, <1>9 DEF Quiet, WaitInv, Waiting, Waited
<1>. QED
  BY <1>4, <1>5, <1>6, <1>7, <1>8, <1>9, StepKinds

LEMMA WaitInit == Init => WaitInv
<1> SUFFICES ASSUME Init PROVE WaitInv
  OBVIOUS
<1>1. queue = <<>> /\ done = <<>> /\ nextOp = 1 /\ attempts = 0
  BY DEF Init
<1>2. Numbered
  BY <1>1, EmptySeq DEF Numbered
<1>. QED
  BY <1>1, <1>2 DEF WaitInv, BudgetInv, BudgetIsHeads, AbandonedAfterBudget, Waiting, Waited

(* Between the click of an order and its placement at most MaxAttempts     *)
(* packets go out for each mutation it was queued behind, whatever the     *)
(* core echoes, whichever deadlines pass, and whatever is queued after it. *)
THEOREM BoundedWaitCorrect == Spec => []BoundedWait
<1>1. CoreInv /\ WaitInv => BoundedWait
  <2> SUFFICES ASSUME CoreInv, WaitInv,
                      NEW op \in {queue[i] : i \in DOMAIN queue} \cup
                                 {done[i].op : i \in DOMAIN done},
                      IsOrder(op)
               PROVE  op.sends <= MaxAttempts * op.ahead
    BY DEF BoundedWait
  <2>1. CASE \E i \in DOMAIN queue : op = queue[i]
    BY <2>1, OrderInQueue, WaitTyped DEF WaitInv
  <2>2. CASE \E i \in DOMAIN done : op = done[i].op
    BY <2>2 DEF WaitInv, Waited
  <2> QED BY <2>1, <2>2
<1>2. CoreInv /\ CoreInv' /\ WaitInv /\ [Next]_vars => WaitInv'
  BY WaitStep
<1>. QED
  BY <1>1, <1>2, WaitInit, CoreInvariant, PTL DEF Spec

=============================================================================
