------------------- MODULE ClientSettingsSequence_proofs -------------------
(***************************************************************************)
(* Proofs about the settings serializer, for every set of fields, values,  *)
(* mutations and orders, every retry budget and every bound.               *)
(***************************************************************************)
EXTENDS ClientSettingsSequence, SequenceFacts, FiniteSetTheorems

-----------------------------------------------------------------------------
(* Sequences. *)

LEMMA DropProperties ==
  ASSUME NEW S, NEW q \in Seq(S), NEW n \in 0..Len(q)
  PROVE  /\ Drop(q, n) \in Seq(S)
         /\ Len(Drop(q, n)) = Len(q) - n
         /\ \A i \in 1..(Len(q) - n) : Drop(q, n)[i] = q[i + n]
<1>1. \A i \in (n + 1)..Len(q) : q[i] \in S
  BY ElementOfSeq
<1>. QED
  BY <1>1, SubSeqProperties DEF Drop

LEMMA TailProperties ==
  ASSUME NEW S, NEW q \in Seq(S), q # <<>>
  PROVE  /\ Tail(q) = Drop(q, 1)
         /\ Head(q) = q[1]
         /\ Len(q) \in Nat \ {0}
  BY TailIsSubSeq, EmptySeq DEF Drop


-----------------------------------------------------------------------------
(* The operators of the serializer. *)

LEMMA MutationFields ==
  ASSUME NEW m \in Mutation
  PROVE  DOMAIN m \subseteq Fields /\ \A f \in DOMAIN m : m[f] \in Values
  BY DEF Mutation

(* The packet is a snapshot, and it asks for what each mutation it carries *)
(* names, unless a later one of the packet names the field too.            *)
LEMMA ApplyProperties ==
  ASSUME NEW settings \in Settings, NEW q \in Seq(Op), NEW n \in 0..Len(q)
  PROVE  /\ Apply(settings, q, n) \in Settings
         /\ \A i \in 1..n : \A f \in DOMAIN q[i].set :
              \/ Apply(settings, q, n)[f] = q[i].set[f]
              \/ \E j \in (i + 1)..n : f \in DOMAIN q[j].set
<1> DEFINE W(f) == {i \in 1..n : f \in DOMAIN q[i].set}
           last(f) == CHOOSE i \in W(f) : \A j \in W(f) : j <= i
<1>1. \A i \in 1..n : q[i].set \in Mutation
  <2> TAKE i \in 1..n
  <2>1. q[i] \in Op
    BY ElementOfSeq
  <2> QED BY <2>1 DEF Op
<1>2. \A f : W(f) # {} => last(f) \in W(f) /\ \A j \in W(f) : j <= last(f)
  <2> TAKE f
  <2> HAVE W(f) # {}
  <2>1. W(f) \in SUBSET (1..n) /\ n \in Nat
    OBVIOUS
  <2>2. \E i \in W(f) : \A j \in W(f) : j <= i
    <3> HIDE DEF W
    <3> QED BY <2>1, LastPosition
  <2> QED BY <2>2
<1>3. Apply(settings, q, n) =
        [f \in Fields |-> IF W(f) = {} THEN settings[f] ELSE q[last(f)].set[f]]
  BY DEF Apply
<1>4. \A f : \A i \in W(f) : i \in 1..n /\ f \in DOMAIN q[i].set
  OBVIOUS
<1>5. \A f : \A i \in 1..n : f \in DOMAIN q[i].set => i \in W(f)
  OBVIOUS
<1> HIDE DEF W, last
<1>6. \A f \in Fields : W(f) # {} => q[last(f)].set[f] \in Values
  BY <1>1, <1>2, <1>4, MutationFields
<1>7. Apply(settings, q, n) \in Settings
  BY <1>3, <1>6 DEF Settings
<1>8. ASSUME NEW i \in 1..n, NEW f \in DOMAIN q[i].set
      PROVE  \/ Apply(settings, q, n)[f] = q[i].set[f]
             \/ \E j \in (i + 1)..n : f \in DOMAIN q[j].set
  <2>1. i \in W(f) /\ f \in Fields
    BY <1>1, <1>5, MutationFields
  <2>2. last(f) \in 1..n /\ i <= last(f) /\ f \in DOMAIN q[last(f)].set
    BY <1>2, <1>4, <2>1
  <2>3. Apply(settings, q, n)[f] = q[last(f)].set[f]
    BY <1>3, <2>1
  <2>4. CASE last(f) = i
    BY <2>3, <2>4
  <2>5. CASE last(f) # i
    BY <2>2, <2>5
  <2> QED BY <2>4, <2>5
<1>. QED
  BY <1>7, <1>8

Hows == {"confirmed", "satisfied", "abandoned", "placed", "dropped"}

LEMMA RetireProperties ==
  ASSUME queue \in Seq(Op), done \in Seq(DoneOp), conn \in Nat,
         NEW n \in 0..Len(queue), NEW how \in Hows, NEW settings,
         Retire(n, how, settings)
  PROVE  /\ done' \in Seq(DoneOp)
         /\ Len(done') = Len(done) + n
         /\ \A i \in 1..Len(done) : done'[i] = done[i]
         /\ \A i \in 1..n : done'[Len(done) + i] = Retired(queue[i], how, settings)
<1> DEFINE out == [i \in 1..n |-> Retired(queue[i], how, settings)]
<1>1. \A i \in 1..n : Retired(queue[i], how, settings) \in DoneOp
  <2> TAKE i \in 1..n
  <2>1. queue[i] \in Op
    BY ElementOfSeq
  <2>2. Satisfied(settings, queue[i].set) \in BOOLEAN
    BY DEF Satisfied
  <2> HIDE DEF Satisfied
  <2> QED BY <2>1, <2>2 DEF Retired, DoneOp, Hows
<1>2. out \in [1..n -> DoneOp]
  BY <1>1
<1>3. \A i \in 1..n : out[i] = Retired(queue[i], how, settings)
  OBVIOUS
<1>4. done' = done \o out
  BY DEF Retire
<1> HIDE DEF out
<1>5. out \in Seq(DoneOp) /\ Len(out) = n
  BY <1>2, TupleSeq
<1>6. /\ done \o out \in Seq(DoneOp)
      /\ Len(done \o out) = Len(done) + Len(out)
      /\ \A i \in 1..(Len(done) + Len(out)) : (done \o out)[i] =
           IF i <= Len(done) THEN done[i] ELSE out[i - Len(done)]
  BY <1>5, ConcatProperties
<1>7. Len(done) \in Nat /\ Len(queue) \in Nat
  BY LenProperties
<1>8. \A i \in 1..n : (done \o out)[Len(done) + i] = out[i]
  BY <1>5, <1>6, <1>7
<1>. QED
  BY <1>3, <1>4, <1>5, <1>6, <1>7, <1>8

LEMMA DropAllProperties ==
  ASSUME queue \in Seq(Op), done \in Seq(DoneOp), conn \in Nat, DropAll
  PROVE  /\ done' \in Seq(DoneOp)
         /\ Len(done') = Len(done) + Len(queue)
         /\ \A i \in 1..Len(done) : done'[i] = done[i]
         /\ \A i \in 1..Len(queue) :
              done'[Len(done) + i] =
                [op |-> queue[i], how |-> "dropped", shown |-> FALSE, conn |-> conn]
<1> DEFINE out == [i \in 1..Len(queue) |->
                     [op |-> queue[i], how |-> "dropped", shown |-> FALSE, conn |-> conn]]
<1>1. \A i \in 1..Len(queue) : queue[i] \in Op
  BY ElementOfSeq
<1>2. out \in [1..Len(queue) -> DoneOp]
  BY <1>1 DEF DoneOp
<1>3. \A i \in 1..Len(queue) : out[i] =
         [op |-> queue[i], how |-> "dropped", shown |-> FALSE, conn |-> conn]
  OBVIOUS
<1>4. done' = done \o out
  BY DEF DropAll
<1> HIDE DEF out
<1>5. out \in Seq(DoneOp) /\ Len(out) = Len(queue)
  BY <1>2, TupleSeq
<1>6. /\ done \o out \in Seq(DoneOp)
      /\ Len(done \o out) = Len(done) + Len(out)
      /\ \A i \in 1..(Len(done) + Len(out)) : (done \o out)[i] =
           IF i <= Len(done) THEN done[i] ELSE out[i - Len(done)]
  BY <1>5, ConcatProperties
<1>7. Len(done) \in Nat /\ Len(queue) \in Nat
  BY LenProperties
<1>8. \A i \in 1..Len(queue) : (done \o out)[Len(done) + i] = out[i]
  BY <1>5, <1>6, <1>7
<1>. QED
  BY <1>3, <1>4, <1>5, <1>6, <1>7, <1>8

-----------------------------------------------------------------------------
(* What the steps do to the queue. *)

LEMMA EmptyQueue ==
  /\ <<>> \in Seq(Op) /\ Len(<<>>) = 0
  /\ \A q \in Seq(Op) : q # <<>> => Len(q) \in Nat \ {0}
  BY EmptySeq

(* What TakeCommand appends: nothing, a mutation, or an order behind its   *)
(* generation; nothing of it has been in a packet.                         *)
Fresh(new) ==
  /\ new \in Seq(Op)
  /\ \A i \in 1..Len(new) :
       /\ new[i].sends = 0
       /\ IsOrder(new[i]) => /\ Head(cmds).kind = "order"
                             /\ ready /\ ~Head(cmds).late
                             /\ new[i].at = Head(cmds).at

LEMMA MutationOpFresh ==
  ASSUME NEW n \in Nat, NEW m \in Mutation
  PROVE  MutationOp(n, m) \in Op /\ IsMutation(MutationOp(n, m))
         /\ MutationOp(n, m).sends = 0
  BY DEF MutationOp, Op, IsMutation

LEMMA EnqueueEffect ==
  ASSUME TypeOK, TakeCommand
  PROVE  /\ \E new : Fresh(new) /\ queue' = queue \o new
         /\ nextOp' \in Nat
<1> DEFINE cmd == Head(cmds)
<1>1. cmds # <<>> /\ cmd \in Cmd
  BY HeadTailProperties DEF TakeCommand, TypeOK
<1>2. cmd.set \in Mutation /\ cmd.order.sync \in BOOLEAN /\ cmd.order.bare \in BOOLEAN
      /\ cmd.at \in Nat /\ cmd.kind \in {"edit", "temp", "order"}
  BY <1>1 DEF Cmd
<1>3. nextOp \in Nat /\ queue \in Seq(Op) /\ ManualOff \in Mutation
  BY MutationsAssumption DEF TypeOK
<1> HIDE DEF cmd
<1>4. CASE UNCHANGED <<queue, nextOp>>
  <2>1. Fresh(<<>>)
    BY EmptyQueue DEF Fresh
  <2>2. queue' = queue \o <<>>
    BY <1>3, <1>4, ConcatEmptySeq
  <2> QED BY <1>3, <1>4, <2>1, <2>2
<1>5. CASE EnqueueMutation(cmd.set)
  <2> DEFINE op == MutationOp(nextOp, cmd.set)
  <2>1. op \in Op /\ IsMutation(op) /\ op.sends = 0
    BY <1>2, <1>3, MutationOpFresh
  <2>2. queue' = Append(queue, op) /\ nextOp' = nextOp + 1
    BY <1>5 DEF EnqueueMutation
  <2> HIDE DEF op
  <2>3. queue' = queue \o <<op>>
    BY <1>3, <2>1, <2>2, AppendIsConcat
  <2>4. Fresh(<<op>>)
    BY <2>1 DEF Fresh, IsMutation, IsOrder
  <2>5. nextOp' \in Nat
    BY <1>3, <2>2
  <2> QED BY <2>3, <2>4, <2>5
<1>6. CASE EnqueueOrder(cmd) /\ ~Stale(cmd) /\ cmd.kind = "order"
  <2> DEFINE gen   == Generation(cmd)
             ahead == Cardinality({i \in DOMAIN queue : IsMutation(queue[i])}) + Len(gen)
             order == OrderOp(nextOp + Len(gen), cmd.set, cmd.order.sync, ahead, cmd.at)
  <2>1. gen \in Seq(Op) /\ Len(gen) \in Nat
        /\ \A i \in 1..Len(gen) : gen[i].sends = 0 /\ ~IsOrder(gen[i])
    <3>1. MutationOp(nextOp, cmd.set) \in Op /\ MutationOp(nextOp + 1, ManualOff) \in Op
      BY <1>2, <1>3, MutationOpFresh
    <3>2. MutationOp(nextOp, cmd.set).sends = 0 /\ MutationOp(nextOp + 1, ManualOff).sends = 0
      BY DEF MutationOp
    <3>3. ~IsOrder(MutationOp(nextOp, cmd.set)) /\ ~IsOrder(MutationOp(nextOp + 1, ManualOff))
      BY DEF MutationOp, IsOrder
    <3>4. CASE gen = <<>>
      BY <3>4
    <3>5. CASE gen = <<MutationOp(nextOp, cmd.set)>>
      <4> HIDE DEF gen
      <4> QED BY <3>1, <3>2, <3>3, <3>5
    <3>6. CASE gen = <<MutationOp(nextOp, cmd.set), MutationOp(nextOp + 1, ManualOff)>>
      <4> HIDE DEF gen
      <4> QED BY <3>1, <3>2, <3>3, <3>6
    <3> QED BY <3>4, <3>5, <3>6 DEF Generation
  <2>2. ahead \in Nat
    <3>1. IsFiniteSet(1..Len(queue)) /\ DOMAIN queue = 1..Len(queue)
      BY <1>3, LenProperties, FS_Interval
    <3>2. IsFiniteSet({i \in DOMAIN queue : IsMutation(queue[i])})
      BY <3>1, FS_Subset
    <3> HIDE DEF gen
    <3> QED BY <2>1, <3>2, FS_CardinalityType
  <2>3. queue' = queue \o gen \o <<order>> /\ nextOp' = nextOp + Len(gen) + 1
    BY <1>6 DEF EnqueueOrder
  <2> HIDE DEF gen, ahead
  <2>4. order \in Op /\ IsOrder(order) /\ order.sends = 0 /\ order.at = cmd.at
    BY <1>2, <1>3, <2>1, <2>2 DEF OrderOp, Op, IsOrder
  <2> HIDE DEF order
  <2>5. <<order>> \in Seq(Op) /\ Len(<<order>>) = 1 /\ <<order>>[1] = order
    BY <2>4
  <2>6. /\ gen \o <<order>> \in Seq(Op)
        /\ Len(gen \o <<order>>) = Len(gen) + 1
        /\ \A i \in 1..(Len(gen) + 1) : (gen \o <<order>>)[i] =
             IF i <= Len(gen) THEN gen[i] ELSE <<order>>[i - Len(gen)]
    BY <2>1, <2>5, ConcatProperties
  <2>7. queue' = queue \o (gen \o <<order>>)
    BY <1>3, <2>1, <2>3, <2>5, ConcatAssociative
  <2>8. \A i \in 1..(Len(gen) + 1) :
          \/ (gen \o <<order>>)[i] = order
          \/ (gen \o <<order>>)[i].sends = 0 /\ ~IsOrder((gen \o <<order>>)[i])
    BY <2>1, <2>5, <2>6
  <2>9. ready /\ ~cmd.late
    BY <1>6 DEF Stale
  <2>10. Fresh(gen \o <<order>>)
    BY <1>6, <2>4, <2>6, <2>8, <2>9 DEF Fresh, cmd
  <2>11. nextOp' \in Nat
    BY <1>3, <2>1, <2>3
  <2> QED BY <2>7, <2>10, <2>11
<1>. QED
  BY <1>4, <1>5, <1>6 DEF TakeCommand, cmd

LEMMA GrowProperties ==
  ASSUME queue \in Seq(Op), NEW new, Fresh(new), queue' = queue \o new
  PROVE  /\ queue' \in Seq(Op) /\ new \in Seq(Op)
         /\ Len(queue') = Len(queue) + Len(new)
         /\ \A i \in 1..Len(queue) : queue'[i] = queue[i]
         /\ \A i \in (Len(queue) + 1)..Len(queue') : queue'[i] = new[i - Len(queue)]
<1>1. new \in Seq(Op)
  BY DEF Fresh
<1>2. Len(queue) \in Nat /\ Len(new) \in Nat
  BY <1>1, LenProperties
<1>3. /\ queue \o new \in Seq(Op)
      /\ Len(queue \o new) = Len(queue) + Len(new)
      /\ \A i \in 1..(Len(queue) + Len(new)) : (queue \o new)[i] =
           IF i <= Len(queue) THEN queue[i] ELSE new[i - Len(queue)]
  BY <1>1, ConcatProperties
<1>. QED
  BY <1>1, <1>2, <1>3

(* An operation with one more packet behind it is an operation, and       *)
(* everything else of it stands.                                           *)
LEMMA SendsNat ==
  ASSUME NEW op \in Op
  PROVE  op.sends \in Nat /\ op.sends + 1 \in Nat
<1>1. op.sends \in Nat
  BY DEF Op
<1>. QED
  BY <1>1

LEMMA OpWithSends ==
  ASSUME NEW op \in Op, NEW k \in Nat
  PROVE  /\ [op EXCEPT !.sends = k] \in Op
         /\ [op EXCEPT !.sends = k].kind = op.kind
         /\ [op EXCEPT !.sends = k].set = op.set
         /\ [op EXCEPT !.sends = k].at = op.at
         /\ [op EXCEPT !.sends = k].sends = k
  BY DEF Op

LEMMA CountedOp ==
  ASSUME NEW op \in Op
  PROVE  /\ [op EXCEPT !.sends = @ + 1] \in Op
         /\ [op EXCEPT !.sends = @ + 1].kind = op.kind
         /\ [op EXCEPT !.sends = @ + 1].set = op.set
         /\ [op EXCEPT !.sends = @ + 1].at = op.at
         /\ [op EXCEPT !.sends = @ + 1].sends = op.sends + 1
<1>1. op.sends + 1 \in Nat
  BY SendsNat
<1>2. [op EXCEPT !.sends = @ + 1] = [op EXCEPT !.sends = op.sends + 1]
  OBVIOUS
<1>. QED
  BY <1>1, <1>2, OpWithSends

(* Send counts the packet on the operations it concerns, and changes       *)
(* nothing else of them.                                                   *)
Counted(n) ==
  queue' = [i \in DOMAIN queue |->
              IF i <= n \/ IsOrder(queue[i])
                THEN [queue[i] EXCEPT !.sends = @ + 1]
                ELSE queue[i]]

LEMMA CountedProperties ==
  ASSUME queue \in Seq(Op), NEW n \in 1..Len(queue), Counted(n)
  PROVE  /\ queue' \in Seq(Op) /\ Len(queue') = Len(queue)
         /\ \A i \in 1..Len(queue) :
              /\ queue'[i] = IF i <= n \/ IsOrder(queue[i])
                               THEN [queue[i] EXCEPT !.sends = @ + 1] ELSE queue[i]
              /\ queue'[i].kind = queue[i].kind
              /\ queue'[i].set = queue[i].set
              /\ queue'[i].at = queue[i].at
              /\ queue'[i].sends =
                   IF i <= n \/ IsOrder(queue[i])
                     THEN queue[i].sends + 1 ELSE queue[i].sends
<1>1. DOMAIN queue = 1..Len(queue) /\ Len(queue) \in Nat
      /\ \A i \in 1..Len(queue) : queue[i] \in Op
  BY LenProperties, ElementOfSeq
<1> DEFINE counted(op) == [op EXCEPT !.sends = @ + 1]
<1>2. \A op \in Op : /\ counted(op) \in Op
                      /\ counted(op).kind = op.kind
                      /\ counted(op).set = op.set
                      /\ counted(op).at = op.at
                      /\ counted(op).sends = op.sends + 1
  BY CountedOp
<1>3. queue' \in [1..Len(queue) -> Op]
  BY <1>1, <1>2 DEF Counted
<1>4. queue' \in Seq(Op) /\ Len(queue') = Len(queue)
  BY <1>1, <1>3, TupleSeq
<1>5. \A i \in 1..Len(queue) : queue'[i] =
         IF i <= n \/ IsOrder(queue[i])
           THEN [queue[i] EXCEPT !.sends = @ + 1] ELSE queue[i]
  BY <1>1 DEF Counted
<1>. QED
  BY <1>1, <1>2, <1>4, <1>5

-----------------------------------------------------------------------------
(* Type correctness.  DriveConfirmed pops pending.count operations of the  *)
(* queue, so the types depend on PendingCoversPrefix; and that depends on  *)
(* the loop of next_action() running with no confirmation pending, since   *)
(* it pops the head too.                                                   *)

SettleClean == pc = "settle" => pending = NoPending /\ ~waiting

CoreInv == TypeOK /\ SettleClean /\ PendingCoversPrefix

LEMMA CoreInit == Init => CoreInv
<1> SUFFICES ASSUME Init PROVE CoreInv
  OBVIOUS
<1>1. <<>> \in Seq(Cmd) /\ <<>> \in Seq(Op) /\ <<>> \in Seq(DoneOp)
  BY EmptySeq
<1>2. core \in Settings /\ attempts \in 0..MaxAttempts
  BY FirstAssumption, AttemptsAssumption DEF Init
<1>3. TypeOK
  BY <1>1, <1>2 DEF Init, TypeOK
<1>. QED
  BY <1>3 DEF Init, CoreInv, SettleClean, PendingCoversPrefix

(* An action that leaves the serializer alone. *)
LEMMA SequenceUntouched ==
  ASSUME CoreInv, UNCHANGED <<queue, pending>>
  PROVE  PendingCoversPrefix'
  BY DEF CoreInv, PendingCoversPrefix, IsMutation

LEMMA CommandTyped ==
  ASSUME TypeOK, NEW kind \in {"edit", "temp", "order"}, NEW m \in Mutation,
         NEW order \in [sync : BOOLEAN, bare : BOOLEAN]
  PROVE  Command(kind, m, order) \in Cmd
  BY DEF Command, Cmd, TypeOK

LEMMA UiSendCore ==
  ASSUME CoreInv, NEW cmd \in Cmd, UiSend(cmd)
  PROVE  CoreInv'
<1>1. cmds' \in Seq(Cmd)
  BY AppendProperties DEF UiSend, CoreInv, TypeOK
<1>2. TypeOK'
  BY <1>1 DEF CoreInv, TypeOK, UiSend, seqVars, coreVars
<1>3. PendingCoversPrefix'
  BY SequenceUntouched DEF UiSend, seqVars
<1>. QED
  BY <1>2, <1>3 DEF CoreInv, SettleClean, UiSend, seqVars

(* A whole or partial rewrite of the commands' late flags. *)
LEMMA LateTyped ==
  ASSUME cmds \in Seq(Cmd)
  PROVE  /\ [i \in DOMAIN cmds |-> [cmds[i] EXCEPT !.late = TRUE]] \in Seq(Cmd)
         /\ \A i \in DOMAIN cmds : [cmds EXCEPT ![i].late = TRUE] \in Seq(Cmd)
<1>1. DOMAIN cmds = 1..Len(cmds) /\ Len(cmds) \in Nat
      /\ \A i \in 1..Len(cmds) : cmds[i] \in Cmd
  BY LenProperties, ElementOfSeq
<1>2. \A c \in Cmd : [c EXCEPT !.late = TRUE] \in Cmd
  BY DEF Cmd
<1>3. [i \in DOMAIN cmds |-> [cmds[i] EXCEPT !.late = TRUE]] \in [1..Len(cmds) -> Cmd]
  BY <1>1, <1>2
<1>4. \A i \in DOMAIN cmds : [cmds EXCEPT ![i].late = TRUE] \in [1..Len(cmds) -> Cmd]
  <2> TAKE i \in DOMAIN cmds
  <2>1. [cmds[i] EXCEPT !.late = TRUE] \in Cmd
    BY <1>1, <1>2
  <2>2. cmds \in [1..Len(cmds) -> Cmd]
    BY LenProperties
  <2> QED BY <2>1, <2>2
<1>. QED
  BY <1>1, <1>3, <1>4, TupleSeq

(* Popping n operations of the queue, the rest untouched. *)
LEMMA PopCore ==
  ASSUME TypeOK, NEW n \in 0..Len(queue), NEW how \in Hows, NEW settings,
         queue' = Drop(queue, n), Retire(n, how, settings)
  PROVE  queue' \in Seq(Op) /\ done' \in Seq(DoneOp)
  BY DropProperties, RetireProperties DEF TypeOK

(* The steps of the loop that pop the head. *)
LEMMA PopHeadCore ==
  ASSUME CoreInv, pc = "settle", queue # <<>>, NEW how \in Hows,
         queue' = Tail(queue), attempts' \in 0..MaxAttempts, Retire(1, how, view),
         UNCHANGED <<loopVars, waiting, overdue, pending, coreVars, countVars, nextOp>>
  PROVE  CoreInv'
<1>1. queue \in Seq(Op) /\ TypeOK
  BY DEF CoreInv, TypeOK
<1>2. 1 \in 0..Len(queue) /\ queue' = Drop(queue, 1)
  BY <1>1, TailProperties
<1>3. queue' \in Seq(Op) /\ done' \in Seq(DoneOp)
  BY <1>1, <1>2, PopCore
<1>4. TypeOK'
  BY <1>1, <1>3 DEF TypeOK, loopVars, coreVars, countVars
<1>5. pending' = NoPending
  BY DEF CoreInv, SettleClean
<1>. QED
  BY <1>4, <1>5 DEF CoreInv, SettleClean, PendingCoversPrefix, loopVars

LEMMA EnqueueCore ==
  ASSUME CoreInv, TakeCommand
  PROVE  CoreInv'
<1>1. TypeOK
  BY DEF CoreInv
<1>2. PICK new : Fresh(new) /\ queue' = queue \o new
  BY <1>1, EnqueueEffect
<1>3. nextOp' \in Nat
  BY <1>1, EnqueueEffect
<1>4. queue \in Seq(Op) /\ Len(queue) \in Nat
  BY <1>1, LenProperties DEF TypeOK
<1>5. /\ queue' \in Seq(Op) /\ new \in Seq(Op)
      /\ Len(queue') = Len(queue) + Len(new)
      /\ \A i \in 1..Len(queue) : queue'[i] = queue[i]
  BY <1>2, <1>4, GrowProperties
<1>6. cmds' \in Seq(Cmd)
  BY <1>1, HeadTailProperties DEF TakeCommand, TypeOK
<1>7. TypeOK'
  BY <1>1, <1>3, <1>5, <1>6 DEF TypeOK, TakeCommand, coreVars, countVars
<1>8. Len(new) \in Nat
  BY <1>5, LenProperties
<1>9. PendingCoversPrefix'
  <2>1. pending' = pending
    BY DEF TakeCommand
  <2>2. SUFFICES ASSUME pending # NoPending
                 PROVE  PendingCoversPrefix'
    BY <2>1 DEF PendingCoversPrefix
  <2>3. pending.count \in 1..Len(queue) /\ pending.count \in 1..Len(queue')
    BY <1>4, <1>5, <1>8, <2>2 DEF CoreInv, PendingCoversPrefix
  <2>4. \A i \in 1..pending.count : queue'[i] = queue[i]
    BY <1>4, <1>5, <2>3
  <2>5. \A i \in 1..pending.count : \A j \in (i + 1)..pending.count : queue'[j] = queue[j]
    BY <2>3, <2>4
  <2> QED BY <2>1, <2>2, <2>3, <2>4, <2>5 DEF CoreInv, PendingCoversPrefix, IsMutation
<1>. QED
  BY <1>7, <1>9 DEF CoreInv, SettleClean, TakeCommand

(* drive() enters the loop with no confirmation pending. *)
LEMMA StartCore ==
  ASSUME CoreInv, DriveStart, waiting' = FALSE, overdue' \in BOOLEAN,
         attempts' \in 0..MaxAttempts, queue' \in Seq(Op), done' \in Seq(DoneOp)
  PROVE  CoreInv'
<1>1. TypeOK'
  BY DEF CoreInv, TypeOK, DriveStart, MayDrive, coreVars, countVars
<1>. QED
  BY <1>1 DEF CoreInv, SettleClean, PendingCoversPrefix, DriveStart

LEMMA SendCore ==
  ASSUME CoreInv, Send
  PROVE  CoreInv'
<1>1. queue \in Seq(Op) /\ Len(queue) \in Nat /\ view \in Settings /\ TypeOK
      /\ attempts \in 0..MaxAttempts /\ attempts < MaxAttempts
  BY LenProperties DEF CoreInv, TypeOK, Send, MustSend, AtMutation
<1>2. PICK n \in 1..Len(queue) :
        /\ IsPrefix(queue, n)
        /\ slot' = Apply(view, queue, n)
        /\ pending' = [settings |-> Apply(view, queue, n),
                       checked |-> Checked(queue, n), count |-> n]
        /\ Counted(n)
  BY DEF Send, Counted
<1>3. n \in 0..Len(queue) /\ n \in Nat
  BY <1>1, <1>2
<1>4. /\ Apply(view, queue, n) \in Settings
      /\ \A i \in 1..n : \A f \in DOMAIN queue[i].set :
           \/ Apply(view, queue, n)[f] = queue[i].set[f]
           \/ \E j \in (i + 1)..n : f \in DOMAIN queue[j].set
  BY <1>1, <1>3, ApplyProperties
<1>5. Checked(queue, n) \subseteq Fields
  BY DEF Checked, Fields
<1>6. /\ queue' \in Seq(Op) /\ Len(queue') = Len(queue)
      /\ \A i \in 1..Len(queue) : /\ queue'[i].kind = queue[i].kind
                                  /\ queue'[i].set = queue[i].set
  BY <1>1, <1>2, CountedProperties
<1>7. pending' \in Expectation
  BY <1>2, <1>3, <1>4, <1>5 DEF Expectation
<1>8. attempts' \in 0..MaxAttempts
  BY <1>1, AttemptsAssumption DEF Send
<1>9. TypeOK'
  BY <1>1, <1>2, <1>4, <1>6, <1>7, <1>8
     DEF TypeOK, Send, DriveReturns, countVars, MustSend, AtMutation
<1>10. \A i \in 1..n : IsMutation(queue[i]) /\ DOMAIN queue[i].set \subseteq Fields
  <2> TAKE i \in 1..n
  <2>1. queue[i] \in Op
    BY <1>1, <1>3, ElementOfSeq
  <2>2. queue[i].set \in Mutation
    BY <2>1 DEF Op
  <2> QED BY <1>2, <2>2, MutationFields DEF IsPrefix
<1>11. \A i \in 1..n : \A f \in DOMAIN queue[i].set : f \in Checked(queue, n)
  BY <1>10 DEF Checked, Fields
<1>12. PendingCoversPrefix'
  BY <1>2, <1>3, <1>4, <1>6, <1>10, <1>11 DEF PendingCoversPrefix, IsMutation
<1>13. SettleClean'
  BY DEF SettleClean, Send, DriveReturns
<1>. QED
  BY <1>9, <1>12, <1>13 DEF CoreInv

LEMMA ReconnectCore ==
  ASSUME CoreInv, PrepareReconnect, pc = "poll", core' \in Settings,
         UNCHANGED <<pc, cmds, view, countVars, nextOp>>,
         ready' \in BOOLEAN, dirty' \in BOOLEAN, updated' \in BOOLEAN,
         slot' \in Settings \cup {NoPacket}, retained' \in Settings \cup {NoSettings}
  PROVE  CoreInv'
<1>1. queue' \in Seq(Op) /\ done' \in Seq(DoneOp)
  BY DropAllProperties, EmptyQueue DEF CoreInv, TypeOK, PrepareReconnect
<1>2. attempts' \in 0..MaxAttempts
  BY AttemptsAssumption DEF PrepareReconnect
<1>3. TypeOK'
  BY <1>1, <1>2 DEF CoreInv, TypeOK, PrepareReconnect, countVars
<1>. QED
  BY <1>3 DEF CoreInv, SettleClean, PendingCoversPrefix, PrepareReconnect

(* One step per action. *)
LEMMA CoreStep ==
  ASSUME CoreInv, [Next]_vars
  PROVE  CoreInv'
<1>1. TypeOK /\ queue \in Seq(Op) /\ Len(queue) \in Nat /\ done \in Seq(DoneOp)
      /\ attempts \in 0..MaxAttempts /\ 0 \in 0..MaxAttempts
  BY LenProperties, AttemptsAssumption DEF CoreInv, TypeOK
<1>2. CASE TakeCommand
  BY <1>2, EnqueueCore
<1>3. CASE Drive
  <2>1. CASE DriveNoSnapshot
    <3>1. TypeOK'
      BY <1>1, <2>1 DEF TypeOK, DriveNoSnapshot, MayDrive, seqVars, coreVars, countVars
    <3> QED BY <2>1, <3>1, SequenceUntouched DEF CoreInv, SettleClean, DriveNoSnapshot, seqVars
  <2>2. CASE DriveBlocked
    <3>1. TypeOK'
      BY <1>1, <2>2 DEF TypeOK, DriveBlocked, MayDrive, seqVars, coreVars, countVars
    <3> QED BY <2>2, <3>1, SequenceUntouched DEF CoreInv, SettleClean, DriveBlocked, seqVars
  <2>3. CASE DriveExpired
    BY <1>1, <2>3, StartCore DEF DriveExpired
  <2>4. CASE DriveConfirmed
    <3>1. pending.count \in 0..Len(queue)
      BY <1>1, <2>4 DEF CoreInv, PendingCoversPrefix, DriveConfirmed
    <3>2. queue' \in Seq(Op) /\ done' \in Seq(DoneOp)
      BY <1>1, <2>4, <3>1, PopCore DEF DriveConfirmed, Hows
    <3> QED BY <1>1, <2>4, <3>2, StartCore DEF DriveConfirmed, TypeOK
  <2>5. CASE DriveUnconfirmed
    BY <1>1, <2>5, StartCore DEF DriveUnconfirmed, TypeOK
  <2> QED BY <1>3, <2>1, <2>2, <2>3, <2>4, <2>5 DEF Drive
<1>4. CASE Settle
  <2>1. CASE RetireSatisfied
    BY <1>1, <2>1, PopHeadCore DEF RetireSatisfied, AtMutation, Hows
  <2>2. CASE Abandon
    BY <1>1, <2>2, PopHeadCore DEF Abandon, AtMutation, Hows
  <2>3. CASE Send
    BY <2>3, SendCore
  <2>4. CASE SendFails
    <3>1. TypeOK'
      BY <1>1, <2>4 DEF TypeOK, SendFails, DriveReturns, seqVars, coreVars, countVars
    <3> QED BY <2>4, <3>1, SequenceUntouched
            DEF CoreInv, SettleClean, SendFails, DriveReturns, seqVars
  <2>5. CASE PlaceOrder
    BY <1>1, <2>5, PopHeadCore DEF PlaceOrder, AtOrder, Hows
  <2>6. CASE DriveDone
    <3>1. TypeOK'
      BY <1>1, <2>6 DEF TypeOK, DriveDone, DriveReturns, seqVars, coreVars, countVars
    <3> QED BY <2>6, <3>1, SequenceUntouched
            DEF CoreInv, SettleClean, DriveDone, DriveReturns, seqVars
  <2> QED BY <1>4, <2>1, <2>2, <2>3, <2>4, <2>5, <2>6 DEF Settle
<1>5. CASE ClientSettingsUpdated
  <2>1. TypeOK'
    BY <1>1, <1>5 DEF TypeOK, ClientSettingsUpdated, countVars
  <2> QED BY <1>5, <2>1, SequenceUntouched DEF CoreInv, SettleClean, ClientSettingsUpdated
<1>6. CASE Lifecycle
  <2>1. CASE BecomeReady
    <3>1. cmds' \in Seq(Cmd)
      BY <1>1, <2>1, LateTyped DEF TypeOK, BecomeReady
    <3>2. TypeOK'
      BY <1>1, <2>1, <3>1 DEF TypeOK, BecomeReady, seqVars
    <3> QED BY <2>1, <3>2, SequenceUntouched DEF CoreInv, SettleClean, BecomeReady, seqVars
  <2>2. CASE LoseConnection
    BY <1>1, <2>2, ReconnectCore DEF LoseConnection, coreVars, TypeOK
  <2>3. CASE ServerRestart
    BY <1>1, <2>3, ReconnectCore, FirstAssumption DEF ServerRestart, coreVars, TypeOK
  <2>4. CASE NewRun
    BY <1>1, <2>4, ReconnectCore DEF NewRun, TypeOK
  <2> QED BY <1>6, <2>1, <2>2, <2>3, <2>4 DEF Lifecycle
<1>7. CASE Environment
  <2>1. NoOrder \in [sync : BOOLEAN, bare : BOOLEAN]
    BY DEF NoOrder
  <2>2. CASE UiEdit
    <3>1. PICK m \in Edits \cup Exits : UiSend(Command("edit", m, NoOrder))
      BY <2>2 DEF UiEdit
    <3>2. m \in Mutation
      BY <3>1, MutationsAssumption
    <3> QED BY <1>1, <2>1, <3>1, <3>2, CommandTyped, UiSendCore
  <2>3. CASE UiTempEdit
    <3>1. PICK m \in TempEdits : UiSend(Command("temp", m, NoOrder))
      BY <2>3 DEF UiTempEdit
    <3>2. m \in Mutation
      BY <3>1, MutationsAssumption
    <3> QED BY <1>1, <2>1, <3>1, <3>2, CommandTyped, UiSendCore
  <2>4. CASE UiOrder
    <3>1. PICK exit \in Exits, order \in Orders : UiSend(Command("order", exit, order))
      BY <2>4 DEF UiOrder
    <3>2. exit \in Mutation /\ order \in [sync : BOOLEAN, bare : BOOLEAN]
      BY <3>1, MutationsAssumption
    <3> QED BY <1>1, <3>1, <3>2, CommandTyped, UiSendCore
  <2>5. CASE CommandAges
    <3>1. cmds' \in Seq(Cmd)
      BY <1>1, <2>5, LateTyped DEF TypeOK, CommandAges
    <3>2. TypeOK'
      BY <1>1, <2>5, <3>1 DEF TypeOK, CommandAges, seqVars, coreVars, countVars
    <3> QED BY <2>5, <3>2, SequenceUntouched DEF CoreInv, SettleClean, CommandAges, seqVars
  <2>6. CASE EchoDeadline
    <3>1. TypeOK'
      BY <1>1, <2>6 DEF TypeOK, EchoDeadline, loopVars, coreVars, countVars
    <3> QED BY <2>6, <3>1, SequenceUntouched DEF CoreInv, SettleClean, EchoDeadline, loopVars
  <2>7. CASE CoreTakes
    <3>1. core \in Settings /\ slot \in Settings
      BY <1>1, <2>7 DEF TypeOK, CoreTakes
    <3>2. core' \in Settings
      BY <2>7, <3>1 DEF CoreTakes, Settings
    <3>3. TypeOK'
      BY <1>1, <2>7, <3>2 DEF TypeOK, CoreTakes, loopVars, seqVars, countVars
    <3> QED BY <2>7, <3>3, SequenceUntouched DEF CoreInv, SettleClean, CoreTakes, loopVars, seqVars
  <2>8. CASE PacketLost
    <3>1. TypeOK'
      BY <1>1, <2>8 DEF TypeOK, PacketLost, loopVars, seqVars, countVars
    <3> QED BY <2>8, <3>1, SequenceUntouched DEF CoreInv, SettleClean, PacketLost, loopVars, seqVars
  <2>9. CASE CoreRewrites
    <3>1. PICK f \in CoreOwned, v \in Values : core' = [core EXCEPT ![f] = v]
      BY <2>9 DEF CoreRewrites
    <3>2. core' \in Settings
      BY <1>1, <3>1 DEF TypeOK, Settings
    <3>3. TypeOK'
      BY <1>1, <2>9, <3>2 DEF TypeOK, CoreRewrites, loopVars, seqVars
    <3> QED BY <2>9, <3>3, SequenceUntouched DEF CoreInv, SettleClean, CoreRewrites, loopVars, seqVars
  <2>10. CASE Publish
    <3>1. TypeOK'
      BY <1>1, <2>10 DEF TypeOK, Publish, loopVars, seqVars, countVars
    <3> QED BY <2>10, <3>1, SequenceUntouched DEF CoreInv, SettleClean, Publish, loopVars, seqVars
  <2> QED BY <1>7, <2>2, <2>3, <2>4, <2>5, <2>6, <2>7, <2>8, <2>9, <2>10 DEF Environment
<1>8. CASE UNCHANGED vars
  <2>1. TypeOK'
    BY <1>1, <1>8 DEF TypeOK, vars, loopVars, seqVars, coreVars, countVars
  <2> QED BY <1>8, <2>1, SequenceUntouched DEF CoreInv, SettleClean, vars, loopVars, seqVars
<1>. QED
  BY <1>2, <1>3, <1>4, <1>5, <1>6, <1>7, <1>8 DEF Next

THEOREM CoreInvariant == Spec => []CoreInv
<1>1. Init => CoreInv
  BY CoreInit
<1>2. CoreInv /\ [Next]_vars => CoreInv'
  BY CoreStep
<1>. QED
  BY <1>1, <1>2, PTL DEF Spec

(* Every variable of the serializer, the feed loop and the link keeps its  *)
(* type: in particular the retry counter never passes MAX_EXIT_ATTEMPTS    *)
(* and drive() never pops what is not in the queue.                        *)
THEOREM TypeCorrect == Spec => []TypeOK
<1>1. CoreInv => TypeOK
  BY DEF CoreInv
<1>. QED
  BY <1>1, CoreInvariant, PTL

(* The packet whose echo is awaited covers a run of mutations at the head  *)
(* of the queue, however commands, echoes and disconnects interleave.      *)
THEOREM PendingCorrect == Spec => []PendingCoversPrefix
<1>1. CoreInv => PendingCoversPrefix
  BY DEF CoreInv
<1>. QED
  BY <1>1, CoreInvariant, PTL

-----------------------------------------------------------------------------
(* The retry budget, the barrier and the connection of an order.  Only a   *)
(* few steps touch the queue, the budget or the record of what left.       *)

Quiet    == UNCHANGED <<queue, attempts, done>>
PopsHead == RetireSatisfied \/ Abandon \/ PlaceOrder
Ends     == LoseConnection \/ ServerRestart \/ NewRun

LEMMA StepKinds ==
  ASSUME [Next]_vars
  PROVE  TakeCommand \/ DriveConfirmed \/ PopsHead \/ Send \/ Ends \/ Quiet
<1>1. CASE Drive
  BY <1>1 DEF Drive, DriveNoSnapshot, DriveBlocked, DriveExpired, DriveUnconfirmed,
              seqVars, Quiet
<1>2. CASE Settle
  BY <1>2 DEF Settle, PopsHead, SendFails, DriveDone, seqVars, Quiet
<1>3. CASE ClientSettingsUpdated
  BY <1>3 DEF ClientSettingsUpdated, Quiet
<1>4. CASE Lifecycle
  BY <1>4 DEF Lifecycle, Ends, BecomeReady, seqVars, Quiet
<1>5. CASE Environment
  BY <1>5 DEF Environment, UiEdit, UiTempEdit, UiOrder, UiSend, CommandAges,
              EchoDeadline, CoreTakes, PacketLost, CoreRewrites, Publish, seqVars, Quiet
<1>6. CASE UNCHANGED vars
  BY <1>6 DEF vars, seqVars, Quiet
<1>. QED
  BY <1>1, <1>2, <1>3, <1>4, <1>5, <1>6 DEF Next

LEMMA QueueTyped ==
  ASSUME CoreInv
  PROVE  /\ queue \in Seq(Op) /\ done \in Seq(DoneOp) /\ conn \in Nat
         /\ Len(queue) \in Nat /\ Len(done) \in Nat
         /\ DOMAIN queue = 1..Len(queue) /\ DOMAIN done = 1..Len(done)
         /\ \A i \in 1..Len(queue) : queue[i] \in Op
         /\ queue # <<>> => Head(queue) = queue[1] /\ Len(queue) >= 1
         /\ attempts \in 0..MaxAttempts
  BY LenProperties, ElementOfSeq, EmptyQueue DEF CoreInv, TypeOK

LEMMA PopsHeadEffect ==
  ASSUME CoreInv, PopsHead
  PROVE  /\ queue # <<>>
         /\ queue' \in Seq(Op) /\ Len(queue') = Len(queue) - 1
         /\ \A i \in 1..(Len(queue) - 1) : queue'[i] = queue[i + 1]
         /\ done' \in Seq(DoneOp) /\ Len(done') = Len(done) + 1
         /\ \A i \in 1..Len(done) : done'[i] = done[i]
         /\ \E how \in Hows :
              /\ done'[Len(done) + 1] = Retired(queue[1], how, view)
              /\ how = "placed" <=> PlaceOrder
              /\ how = "abandoned" <=> Abandon
<1>1. queue # <<>>
  BY DEF PopsHead, RetireSatisfied, Abandon, PlaceOrder, AtMutation, AtOrder
<1>2. PICK how \in Hows : /\ Retire(1, how, view)
                          /\ how = "placed" <=> PlaceOrder
                          /\ how = "abandoned" <=> Abandon
  <2>1. IsMutation(Head(queue)) => ~IsOrder(Head(queue))
    BY DEF IsMutation, IsOrder
  <2>2. CASE RetireSatisfied
    BY <2>1, <2>2 DEF RetireSatisfied, Abandon, PlaceOrder, AtMutation, AtOrder, Hows
  <2>3. CASE Abandon
    BY <2>1, <2>3 DEF RetireSatisfied, Abandon, PlaceOrder, AtMutation, AtOrder, Hows
  <2>4. CASE PlaceOrder
    BY <2>1, <2>4 DEF RetireSatisfied, Abandon, PlaceOrder, AtMutation, AtOrder, Hows
  <2> QED BY <2>2, <2>3, <2>4 DEF PopsHead
<1>3. queue' = Tail(queue)
  BY DEF PopsHead, RetireSatisfied, Abandon, PlaceOrder
<1>4. 1 \in 0..Len(queue) /\ queue' = Drop(queue, 1)
  BY <1>1, <1>3, QueueTyped, TailProperties
<1>5. /\ queue' \in Seq(Op) /\ Len(queue') = Len(queue) - 1
      /\ \A i \in 1..(Len(queue) - 1) : queue'[i] = queue[i + 1]
  BY <1>4, QueueTyped, DropProperties
<1>6. /\ done' \in Seq(DoneOp) /\ Len(done') = Len(done) + 1
      /\ \A i \in 1..Len(done) : done'[i] = done[i]
      /\ \A i \in 1..1 : done'[Len(done) + i] = Retired(queue[i], how, view)
  BY <1>2, <1>4, QueueTyped, RetireProperties
<1>. QED
  BY <1>1, <1>2, <1>5, <1>6

LEMMA ConfirmedEffect ==
  ASSUME CoreInv, DriveConfirmed
  PROVE  \E n \in 0..Len(queue) :
           /\ queue' \in Seq(Op) /\ Len(queue') = Len(queue) - n
           /\ \A i \in 1..(Len(queue) - n) : queue'[i] = queue[i + n]
           /\ done' \in Seq(DoneOp) /\ Len(done') = Len(done) + n
           /\ \A i \in 1..Len(done) : done'[i] = done[i]
           /\ \A i \in 1..n : done'[Len(done) + i] = Retired(queue[i], "confirmed", retained)
<1> DEFINE n == pending.count
<1>1. n \in 0..Len(queue)
  BY QueueTyped DEF CoreInv, PendingCoversPrefix, DriveConfirmed
<1>2. queue' = Drop(queue, n) /\ Retire(n, "confirmed", retained)
  BY DEF DriveConfirmed
<1> HIDE DEF n
<1>3. /\ queue' \in Seq(Op) /\ Len(queue') = Len(queue) - n
      /\ \A i \in 1..(Len(queue) - n) : queue'[i] = queue[i + n]
  BY <1>1, <1>2, QueueTyped, DropProperties
<1>4. "confirmed" \in Hows
  BY DEF Hows
<1>5. /\ done' \in Seq(DoneOp) /\ Len(done') = Len(done) + n
      /\ \A i \in 1..Len(done) : done'[i] = done[i]
      /\ \A i \in 1..n : done'[Len(done) + i] = Retired(queue[i], "confirmed", retained)
  BY <1>1, <1>2, <1>4, QueueTyped, RetireProperties
<1>. QED
  BY <1>1, <1>3, <1>5

LEMMA EndsEffect ==
  ASSUME CoreInv, Ends
  PROVE  /\ queue' = <<>> /\ attempts' = 0
         /\ done' \in Seq(DoneOp) /\ Len(done') = Len(done) + Len(queue)
         /\ \A i \in 1..Len(done) : done'[i] = done[i]
         /\ \A i \in 1..Len(queue) : done'[Len(done) + i].how = "dropped"
<1>1. PrepareReconnect
  BY DEF Ends, LoseConnection, ServerRestart, NewRun
<1>2. queue' = <<>> /\ attempts' = 0 /\ DropAll
  BY <1>1 DEF PrepareReconnect
<1>3. /\ done' \in Seq(DoneOp)
      /\ Len(done') = Len(done) + Len(queue)
      /\ \A i \in 1..Len(done) : done'[i] = done[i]
      /\ \A i \in 1..Len(queue) :
           done'[Len(done) + i] =
             [op |-> queue[i], how |-> "dropped", shown |-> FALSE, conn |-> conn]
  BY <1>2, QueueTyped, DropAllProperties
<1>4. \A i \in 1..Len(queue) : done'[Len(done) + i].how = "dropped"
  <2> TAKE i \in 1..Len(queue)
  <2>1. done'[Len(done) + i] =
          [op |-> queue[i], how |-> "dropped", shown |-> FALSE, conn |-> conn]
    BY <1>3
  <2> QED BY <2>1
<1>. QED
  BY <1>2, <1>3, <1>4

LEMMA GrowEffect ==
  ASSUME CoreInv, TakeCommand
  PROVE  /\ queue' \in Seq(Op) /\ Len(queue) <= Len(queue')
         /\ \A i \in 1..Len(queue) : queue'[i] = queue[i]
         /\ \A i \in (Len(queue) + 1)..Len(queue') :
              /\ queue'[i].sends = 0
              /\ IsOrder(queue'[i]) => /\ Head(cmds).kind = "order"
                                       /\ ready /\ ~Head(cmds).late
                                       /\ queue'[i].at = Head(cmds).at
         /\ UNCHANGED <<attempts, done, ready, conn>>
<1>1. PICK new : Fresh(new) /\ queue' = queue \o new
  BY EnqueueEffect DEF CoreInv
<1>2. /\ queue' \in Seq(Op) /\ new \in Seq(Op)
      /\ Len(queue') = Len(queue) + Len(new)
      /\ \A i \in 1..Len(queue) : queue'[i] = queue[i]
      /\ \A i \in (Len(queue) + 1)..Len(queue') : queue'[i] = new[i - Len(queue)]
  BY <1>1, QueueTyped, GrowProperties
<1>3. Len(new) \in Nat /\ Len(queue) \in Nat
  BY <1>2, QueueTyped, LenProperties
<1>4. \A i \in (Len(queue) + 1)..Len(queue') : i - Len(queue) \in 1..Len(new)
  BY <1>2, <1>3
<1>5. \A i \in (Len(queue) + 1)..Len(queue') :
        /\ queue'[i].sends = 0
        /\ IsOrder(queue'[i]) => /\ Head(cmds).kind = "order"
                                 /\ ready /\ ~Head(cmds).late
                                 /\ queue'[i].at = Head(cmds).at
  BY <1>1, <1>2, <1>4 DEF Fresh, IsOrder
<1>. QED
  BY <1>2, <1>3, <1>5 DEF TakeCommand, countVars

LEMMA SendEffect ==
  ASSUME CoreInv, Send
  PROVE  /\ queue # <<>> /\ IsMutation(Head(queue)) /\ attempts < MaxAttempts
         /\ attempts' = attempts + 1
         /\ UNCHANGED <<done, ready, conn, cmds>>
         /\ \E n \in 1..Len(queue) :
              /\ IsPrefix(queue, n)
              /\ queue' \in Seq(Op) /\ Len(queue') = Len(queue)
              /\ \A i \in 1..Len(queue) :
                   /\ queue'[i].kind = queue[i].kind
                   /\ queue'[i].at = queue[i].at
                   /\ queue'[i].sends =
                        IF i <= n \/ IsOrder(queue[i])
                          THEN queue[i].sends + 1 ELSE queue[i].sends
<1>1. PICK n \in 1..Len(queue) : IsPrefix(queue, n) /\ Counted(n)
  BY DEF Send, Counted
<1>2. /\ queue' \in Seq(Op) /\ Len(queue') = Len(queue)
      /\ \A i \in 1..Len(queue) :
           /\ queue'[i].kind = queue[i].kind
           /\ queue'[i].at = queue[i].at
           /\ queue'[i].sends =
                IF i <= n \/ IsOrder(queue[i])
                  THEN queue[i].sends + 1 ELSE queue[i].sends
  BY <1>1, QueueTyped, CountedProperties
<1>3. /\ queue # <<>> /\ IsMutation(Head(queue)) /\ attempts < MaxAttempts
      /\ attempts' = attempts + 1 /\ UNCHANGED <<done, ready, conn, cmds>>
  BY DEF Send, MustSend, AtMutation, countVars
<1>. QED
  BY <1>1, <1>2, <1>3

-----------------------------------------------------------------------------
(* The retry budget. *)

BudgetInv == BudgetIsHeads /\ AbandonedAfterBudget

LEMMA BudgetStep ==
  ASSUME CoreInv, CoreInv', BudgetInv, [Next]_vars
  PROVE  BudgetInv'
<1>1. /\ queue \in Seq(Op) /\ queue' \in Seq(Op)
      /\ done \in Seq(DoneOp) /\ done' \in Seq(DoneOp)
      /\ Len(queue) \in Nat /\ Len(done) \in Nat /\ Len(done') \in Nat
      /\ DOMAIN done = 1..Len(done) /\ DOMAIN done' = 1..Len(done')
      /\ attempts \in 0..MaxAttempts /\ attempts' \in 0..MaxAttempts
      /\ MaxAttempts \in Nat
      /\ queue # <<>> => Head(queue) = queue[1] /\ Len(queue) >= 1
      /\ queue' # <<>> => Head(queue') = queue'[1]
      /\ \A i \in 1..Len(queue) : queue[i] \in Op
  BY LenProperties, EmptyQueue, QueueTyped, AttemptsAssumption DEF CoreInv, TypeOK
<1>2. CASE TakeCommand
  <2>1. /\ Len(queue) <= Len(queue') /\ UNCHANGED <<attempts, done>>
        /\ \A i \in 1..Len(queue) : queue'[i] = queue[i]
    BY <1>2, GrowEffect
  <2>2. queue # <<>> => queue' # <<>> /\ Head(queue') = Head(queue)
    BY <1>1, <2>1, EmptyQueue
  <2> QED BY <2>1, <2>2 DEF BudgetInv, BudgetIsHeads, AbandonedAfterBudget
<1>3. CASE DriveConfirmed
  <2>1. PICK n \in 0..Len(queue) :
           /\ Len(done') = Len(done) + n
           /\ \A i \in 1..Len(done) : done'[i] = done[i]
           /\ \A i \in 1..n : done'[Len(done) + i] = Retired(queue[i], "confirmed", retained)
    BY <1>3, ConfirmedEffect
  <2>2. \A i \in 1..n : done'[Len(done) + i].how = "confirmed"
    <3> TAKE i \in 1..n
    <3>1. done'[Len(done) + i] = Retired(queue[i], "confirmed", retained)
      BY <2>1
    <3> QED BY <3>1 DEF Retired
  <2>3. \A i \in (Len(done) + 1)..Len(done') : done'[i].how = "confirmed"
    <3> TAKE i \in (Len(done) + 1)..Len(done')
    <3>1. i - Len(done) \in 1..n /\ i = Len(done) + (i - Len(done))
      BY <1>1, <2>1
    <3> QED BY <2>2, <3>1
  <2>4. \A i \in 1..Len(done) : done'[i] = done[i]
    BY <2>1
  <2>5. AbandonedAfterBudget'
    <3> SUFFICES ASSUME NEW i \in 1..Len(done'), done'[i].how = "abandoned"
                 PROVE  done'[i].op.sends >= MaxAttempts
      BY <1>1 DEF AbandonedAfterBudget
    <3>1. i \in 1..Len(done)
      BY <1>1, <2>3
    <3>2. done'[i] = done[i]
      BY <2>4, <3>1
    <3> QED BY <1>1, <3>1, <3>2 DEF BudgetInv, AbandonedAfterBudget
  <2> QED BY <1>3, <2>5 DEF BudgetInv, BudgetIsHeads, DriveConfirmed
<1>4. CASE PopsHead
  <2>1. PICK how \in Hows :
           /\ done'[Len(done) + 1] = Retired(queue[1], how, view)
           /\ how = "placed" <=> PlaceOrder
           /\ how = "abandoned" <=> Abandon
    BY <1>4, PopsHeadEffect
  <2>2. /\ queue # <<>> /\ Len(done') = Len(done) + 1
        /\ \A i \in 1..Len(done) : done'[i] = done[i]
    BY <1>4, PopsHeadEffect
  <2>3. attempts' = 0
    <3>1. CASE PlaceOrder
      BY <1>1, <3>1 DEF PlaceOrder, AtOrder, IsOrder, IsMutation, BudgetInv, BudgetIsHeads
    <3>2. CASE RetireSatisfied \/ Abandon
      BY <3>2 DEF RetireSatisfied, Abandon
    <3> QED BY <1>4, <3>1, <3>2 DEF PopsHead
  <2>4. Abandon => queue[1].sends >= MaxAttempts
    <3> SUFFICES ASSUME Abandon PROVE queue[1].sends >= MaxAttempts
      OBVIOUS
    <3>1. attempts >= MaxAttempts /\ MaxAttempts > 0
      BY AttemptsAssumption DEF Abandon
    <3>2. attempts <= queue[1].sends /\ queue[1].sends \in Nat
      BY <1>1, <2>2, <3>1 DEF BudgetInv, BudgetIsHeads, Op
    <3> QED BY <1>1, <3>1, <3>2
  <2>5. done'[Len(done) + 1].how = how /\ done'[Len(done) + 1].op = queue[1]
    BY <2>1 DEF Retired
  <2>6. AbandonedAfterBudget'
    BY <1>1, <2>1, <2>2, <2>4, <2>5 DEF BudgetInv, AbandonedAfterBudget
  <2> QED BY <2>3, <2>6 DEF BudgetInv, BudgetIsHeads
<1>5. CASE Send
  <2>1. /\ queue # <<>> /\ IsMutation(Head(queue)) /\ attempts < MaxAttempts
        /\ attempts' = attempts + 1 /\ UNCHANGED done
    BY <1>5, SendEffect
  <2>2. PICK n \in 1..Len(queue) :
          /\ Len(queue') = Len(queue)
          /\ \A i \in 1..Len(queue) :
               /\ queue'[i].kind = queue[i].kind
               /\ queue'[i].sends =
                    IF i <= n \/ IsOrder(queue[i])
                      THEN queue[i].sends + 1 ELSE queue[i].sends
    BY <1>5, SendEffect
  <2>3. 1 \in 1..Len(queue) /\ queue[1].sends \in Nat
    <3>1. queue[1] \in Op /\ 1 \in 1..Len(queue)
      BY <1>1, <2>1
    <3> QED BY <3>1 DEF Op
  <2>4. queue'[1].kind = queue[1].kind /\ queue'[1].sends = queue[1].sends + 1
    BY <2>2, <2>3
  <2>5. queue' # <<>> /\ Head(queue') = queue'[1]
    BY <1>1, <2>2, <2>3, EmptyQueue
  <2>6. attempts <= queue[1].sends
    BY <1>1, <2>1, <2>3 DEF BudgetInv, BudgetIsHeads
  <2>7. BudgetIsHeads'
    BY <1>1, <2>1, <2>3, <2>4, <2>5, <2>6 DEF BudgetIsHeads, IsMutation
  <2> QED BY <2>1, <2>7 DEF BudgetInv, AbandonedAfterBudget
<1>6. CASE Ends
  <2>1. /\ attempts' = 0 /\ Len(done') = Len(done) + Len(queue)
        /\ \A i \in 1..Len(done) : done'[i] = done[i]
        /\ \A i \in 1..Len(queue) : done'[Len(done) + i].how = "dropped"
    BY <1>6, EndsEffect
  <2>2. \A i \in (Len(done) + 1)..Len(done') : done'[i].how = "dropped"
    <3> TAKE i \in (Len(done) + 1)..Len(done')
    <3>1. i - Len(done) \in 1..Len(queue) /\ i = Len(done) + (i - Len(done))
      BY <1>1, <2>1
    <3> QED BY <2>1, <3>1
  <2>3. AbandonedAfterBudget'
    BY <1>1, <2>1, <2>2 DEF BudgetInv, AbandonedAfterBudget
  <2> QED BY <2>1, <2>3 DEF BudgetInv, BudgetIsHeads
<1>7. CASE Quiet
  BY <1>7 DEF Quiet, BudgetInv, BudgetIsHeads, AbandonedAfterBudget
<1>. QED
  BY <1>2, <1>3, <1>4, <1>5, <1>6, <1>7, StepKinds

(* The retry budget is the head's own, and a mutation is given up only     *)
(* after MAX_EXIT_ATTEMPTS packets of it: whatever popped the mutations    *)
(* before it, none of their budget is spent on it.                         *)
THEOREM BudgetCorrect == Spec => [](BudgetIsHeads /\ AbandonedAfterBudget)
<1>1. Init => BudgetInv
  BY DEF Init, BudgetInv, BudgetIsHeads, AbandonedAfterBudget
<1>2. CoreInv /\ CoreInv' /\ BudgetInv /\ [Next]_vars => BudgetInv'
  BY BudgetStep
<1>. QED
  BY <1>1, <1>2, CoreInvariant, PTL DEF Spec, BudgetInv

-----------------------------------------------------------------------------
(* The barrier. *)

LEMMA NoOvertakingDropped ==
  ASSUME CoreInv, NoOvertaking, NEW n \in 0..Len(queue), queue' \in Seq(Op),
         Len(queue') = Len(queue) - n,
         \A i \in 1..(Len(queue) - n) : queue'[i] = queue[i + n]
  PROVE  NoOvertaking'
<1>1. DOMAIN queue' = 1..(Len(queue) - n) /\ DOMAIN queue = 1..Len(queue)
      /\ Len(queue) \in Nat
  BY LenProperties, QueueTyped
<1>2. SUFFICES ASSUME NEW i \in 1..(Len(queue) - n), NEW j \in 1..(Len(queue) - n),
                      i < j, IsOrder(queue'[i]), IsMutation(queue'[j])
               PROVE  queue'[j].sends = 0
  BY <1>1 DEF NoOvertaking
<1>3. i + n < j + n /\ i + n \in 1..Len(queue) /\ j + n \in 1..Len(queue)
  BY <1>1, <1>2
<1>4. IsOrder(queue[i + n]) /\ IsMutation(queue[j + n])
  BY <1>2
<1>. QED
  BY <1>1, <1>3, <1>4 DEF NoOvertaking

LEMMA NoOvertakingStep ==
  ASSUME CoreInv, NoOvertaking, [Next]_vars
  PROVE  NoOvertaking'
<1>1. Len(queue) \in Nat /\ DOMAIN queue = 1..Len(queue)
      /\ \A i \in 1..Len(queue) : queue[i] \in Op
  BY QueueTyped
<1>2. CASE TakeCommand
  <2>1. /\ queue' \in Seq(Op) /\ Len(queue) <= Len(queue')
        /\ \A i \in 1..Len(queue) : queue'[i] = queue[i]
        /\ \A i \in (Len(queue) + 1)..Len(queue') : queue'[i].sends = 0
    BY <1>2, GrowEffect
  <2>2. DOMAIN queue' = 1..Len(queue') /\ Len(queue') \in Nat
    BY <2>1, LenProperties
  <2>3. \A i, j \in 1..Len(queue') :
          i < j => \/ j \in (Len(queue) + 1)..Len(queue')
                   \/ i \in 1..Len(queue) /\ j \in 1..Len(queue)
    BY <1>1, <2>1, <2>2
  <2> QED BY <1>1, <2>1, <2>2, <2>3 DEF NoOvertaking, IsOrder, IsMutation
<1>3. CASE DriveConfirmed
  BY <1>3, ConfirmedEffect, NoOvertakingDropped
<1>4. CASE PopsHead
  <2>1. /\ queue # <<>> /\ queue' \in Seq(Op) /\ Len(queue') = Len(queue) - 1
        /\ \A i \in 1..(Len(queue) - 1) : queue'[i] = queue[i + 1]
    BY <1>4, PopsHeadEffect
  <2>2. 1 \in 0..Len(queue)
    BY <1>1, <2>1, QueueTyped
  <2> QED BY <2>1, <2>2, NoOvertakingDropped
<1>5. CASE Send
  <2>1. PICK n \in 1..Len(queue) :
          /\ IsPrefix(queue, n)
          /\ queue' \in Seq(Op) /\ Len(queue') = Len(queue)
          /\ \A i \in 1..Len(queue) :
               /\ queue'[i].kind = queue[i].kind
               /\ queue'[i].sends =
                    IF i <= n \/ IsOrder(queue[i])
                      THEN queue[i].sends + 1 ELSE queue[i].sends
    BY <1>5, SendEffect
  <2>2. DOMAIN queue' = 1..Len(queue)
    BY <2>1, LenProperties
  <2>3. SUFFICES ASSUME NEW i \in 1..Len(queue), NEW j \in 1..Len(queue), i < j,
                        IsOrder(queue'[i]), IsMutation(queue'[j])
                 PROVE  queue'[j].sends = 0
    BY <2>2 DEF NoOvertaking
  <2>4. IsOrder(queue[i]) /\ IsMutation(queue[j]) /\ ~IsOrder(queue[j])
    BY <2>1, <2>3 DEF IsOrder, IsMutation
  <2>5. ~(i <= n)
    BY <2>1, <2>4 DEF IsPrefix, IsOrder, IsMutation
  <2>6. ~(j <= n)
    BY <1>1, <2>1, <2>3, <2>5
  <2>7. queue[j].sends = 0
    BY <1>1, <2>3, <2>4 DEF NoOvertaking
  <2> QED BY <2>1, <2>4, <2>6, <2>7
<1>6. CASE Ends
  BY <1>6, EndsEffect DEF NoOvertaking
<1>7. CASE Quiet
  BY <1>7 DEF Quiet, NoOvertaking, IsOrder, IsMutation
<1>. QED
  BY <1>2, <1>3, <1>4, <1>5, <1>6, <1>7, StepKinds

(* A settings generation queued behind a waiting order is in no packet.    *)
THEOREM OvertakingCorrect == Spec => []NoOvertaking
<1>1. Init => NoOvertaking
  BY DEF Init, NoOvertaking
<1>2. CoreInv /\ NoOvertaking /\ [Next]_vars => NoOvertaking'
  BY NoOvertakingStep
<1>. QED
  BY <1>1, <1>2, CoreInvariant, PTL DEF Spec

-----------------------------------------------------------------------------
(* The connection of an order.  Three buffers outlive a disconnect; the    *)
(* invariant says what each may hold of the connection at hand.            *)

OrdersHere ==
  \A i \in DOMAIN queue : IsOrder(queue[i]) => ready /\ queue[i].at = conn

ClicksHere ==
  \A i \in DOMAIN cmds :
    ready /\ cmds[i].kind = "order" /\ ~cmds[i].late => cmds[i].at = conn

ConnectionInv == OrdersHere /\ ClicksHere /\ NoStaleOrder

LinkQuiet == UNCHANGED <<cmds, ready, conn>>

LEMMA LinkKinds ==
  ASSUME [Next]_vars
  PROVE  \/ LinkQuiet \/ TakeCommand \/ BecomeReady \/ Ends \/ CommandAges
         \/ \E kind, m, order : UiSend(Command(kind, m, order))
<1>1. CASE Drive
  BY <1>1 DEF Drive, DriveNoSnapshot, DriveBlocked, DriveStart, DriveExpired,
              DriveConfirmed, DriveUnconfirmed, countVars, LinkQuiet
<1>2. CASE Settle
  BY <1>2 DEF Settle, RetireSatisfied, Abandon, Send, SendFails, PlaceOrder, DriveDone,
              loopVars, countVars, LinkQuiet
<1>3. CASE ClientSettingsUpdated
  BY <1>3 DEF ClientSettingsUpdated, countVars, LinkQuiet
<1>4. CASE Lifecycle
  BY <1>4 DEF Lifecycle, Ends
<1>5. CASE UiEdit \/ UiTempEdit \/ UiOrder
  BY <1>5 DEF UiEdit, UiTempEdit, UiOrder
<1>6. CASE EchoDeadline \/ CoreTakes \/ PacketLost \/ CoreRewrites \/ Publish
  BY <1>6 DEF EchoDeadline, CoreTakes, PacketLost, CoreRewrites, Publish, loopVars,
              countVars, LinkQuiet
<1>7. CASE UNCHANGED vars
  BY <1>7 DEF vars, loopVars, countVars, LinkQuiet
<1>. QED
  BY <1>1, <1>2, <1>3, <1>4, <1>5, <1>6, <1>7 DEF Next, Environment

LEMMA CommandsTyped ==
  ASSUME CoreInv
  PROVE  /\ cmds \in Seq(Cmd) /\ DOMAIN cmds = 1..Len(cmds) /\ Len(cmds) \in Nat
         /\ \A i \in 1..Len(cmds) : cmds[i] \in Cmd
         /\ cmds # <<>> => Head(cmds) = cmds[1] /\ 1 \in DOMAIN cmds
         /\ ready \in BOOLEAN
<1>1. cmds \in Seq(Cmd) /\ ready \in BOOLEAN
  BY DEF CoreInv, TypeOK
<1>. QED
  BY <1>1, LenProperties, ElementOfSeq, EmptySeq

LEMMA ClicksStep ==
  ASSUME CoreInv, ClicksHere, [Next]_vars
  PROVE  ClicksHere'
<1>1. /\ cmds \in Seq(Cmd) /\ DOMAIN cmds = 1..Len(cmds) /\ Len(cmds) \in Nat
      /\ \A i \in 1..Len(cmds) : cmds[i] \in Cmd
  BY CommandsTyped
<1>2. CASE LinkQuiet
  BY <1>2 DEF LinkQuiet, ClicksHere
<1>3. CASE TakeCommand
  <2>1. cmds # <<>> /\ cmds' = Tail(cmds) /\ UNCHANGED <<ready, conn>>
    BY <1>3 DEF TakeCommand, countVars
  <2>2. /\ Tail(cmds) \in Seq(Cmd) /\ Len(Tail(cmds)) = Len(cmds) - 1
        /\ \A i \in 1..Len(Tail(cmds)) : Tail(cmds)[i] = cmds[i + 1]
    BY <1>1, <2>1, HeadTailProperties
  <2>3. DOMAIN cmds' = 1..(Len(cmds) - 1)
        /\ \A i \in 1..(Len(cmds) - 1) : cmds'[i] = cmds[i + 1] /\ i + 1 \in DOMAIN cmds
    BY <1>1, <2>1, <2>2, LenProperties
  <2> QED BY <2>1, <2>3 DEF ClicksHere
<1>4. CASE BecomeReady
  <2>1. cmds' = [i \in DOMAIN cmds |-> [cmds[i] EXCEPT !.late = TRUE]]
    BY <1>4 DEF BecomeReady
  <2>2. \A c \in Cmd : [c EXCEPT !.late = TRUE].late = TRUE
    BY DEF Cmd
  <2>3. \A i \in DOMAIN cmds' : cmds'[i].late = TRUE
    BY <1>1, <2>1, <2>2
  <2> QED BY <2>3 DEF ClicksHere
<1>5. CASE Ends
  <2>1. ~ready'
    BY <1>5 DEF Ends, LoseConnection, ServerRestart, NewRun
  <2> QED BY <2>1 DEF ClicksHere
<1>6. CASE CommandAges
  <2>1. UNCHANGED <<ready, conn>>
    BY <1>6 DEF CommandAges, countVars
  <2>2. PICK k \in DOMAIN cmds : cmds' = [cmds EXCEPT ![k].late = TRUE]
    BY <1>6 DEF CommandAges
  <2>3. DOMAIN cmds' = DOMAIN cmds
    BY <2>2
  <2>4. \A c \in Cmd : [c EXCEPT !.late = TRUE].late = TRUE
    BY DEF Cmd
  <2>5. cmds'[k].late = TRUE
    BY <1>1, <2>2, <2>4
  <2>6. \A i \in DOMAIN cmds : i # k => cmds'[i] = cmds[i]
    BY <2>2
  <2> QED BY <2>1, <2>3, <2>5, <2>6 DEF ClicksHere
<1>7. ASSUME NEW kind, NEW m, NEW order, UiSend(Command(kind, m, order))
      PROVE  ClicksHere'
  <2> DEFINE c == Command(kind, m, order)
  <2>1. cmds' = Append(cmds, c) /\ UNCHANGED <<ready, conn>>
    BY <1>7 DEF UiSend
  <2>2. ready => c.at = conn
    BY DEF Command
  <2> HIDE DEF c
  <2>3. DOMAIN cmds' = 1..(Len(cmds) + 1) /\ cmds'[Len(cmds) + 1] = c
        /\ \A i \in 1..Len(cmds) : cmds'[i] = cmds[i]
    BY <1>1, <2>1
  <2>4. \A i \in DOMAIN cmds' : i \in 1..Len(cmds) \/ i = Len(cmds) + 1
    BY <1>1, <2>3
  <2> QED BY <1>1, <2>1, <2>2, <2>3, <2>4 DEF ClicksHere
<1>. QED
  BY <1>2, <1>3, <1>4, <1>5, <1>6, <1>7, LinkKinds

LEMMA OrdersDropped ==
  ASSUME CoreInv, OrdersHere, NEW n \in 0..Len(queue), queue' \in Seq(Op),
         Len(queue') = Len(queue) - n,
         \A i \in 1..(Len(queue) - n) : queue'[i] = queue[i + n],
         UNCHANGED <<ready, conn>>
  PROVE  OrdersHere'
<1>1. DOMAIN queue' = 1..(Len(queue) - n) /\ DOMAIN queue = 1..Len(queue)
      /\ Len(queue) \in Nat
  BY LenProperties, QueueTyped
<1>2. \A i \in 1..(Len(queue) - n) : i + n \in DOMAIN queue /\ queue'[i] = queue[i + n]
  BY <1>1
<1>. QED
  BY <1>1, <1>2 DEF OrdersHere, IsOrder

LEMMA OrdersStep ==
  ASSUME CoreInv, OrdersHere, ClicksHere, [Next]_vars
  PROVE  OrdersHere'
<1>1. Len(queue) \in Nat /\ DOMAIN queue = 1..Len(queue) /\ ready \in BOOLEAN
  BY QueueTyped, CommandsTyped
<1>2. CASE TakeCommand
  <2>1. /\ queue' \in Seq(Op) /\ Len(queue) <= Len(queue')
        /\ \A i \in 1..Len(queue) : queue'[i] = queue[i]
        /\ \A i \in (Len(queue) + 1)..Len(queue') :
              IsOrder(queue'[i]) => /\ Head(cmds).kind = "order"
                                   /\ ready /\ ~Head(cmds).late
                                   /\ queue'[i].at = Head(cmds).at
        /\ UNCHANGED <<ready, conn>>
    BY <1>2, GrowEffect
  <2>2. DOMAIN queue' = 1..Len(queue') /\ Len(queue') \in Nat
    BY <2>1, LenProperties
  <2>3. ready /\ Head(cmds).kind = "order" /\ ~Head(cmds).late => Head(cmds).at = conn
    BY <1>2, CommandsTyped DEF TakeCommand, ClicksHere
  <2>4. \A i \in 1..Len(queue') : i \in 1..Len(queue) \/ i \in (Len(queue) + 1)..Len(queue')
    BY <1>1, <2>1, <2>2
  <2>5. \A i \in (Len(queue) + 1)..Len(queue') :
          IsOrder(queue'[i]) => ready /\ queue'[i].at = conn
    BY <2>1, <2>3
  <2> QED BY <1>1, <2>1, <2>2, <2>4, <2>5 DEF OrdersHere, IsOrder
<1>3. CASE DriveConfirmed
  <2>1. UNCHANGED <<ready, conn>>
    BY <1>3 DEF DriveConfirmed, DriveStart, countVars
  <2> QED BY <1>3, <2>1, ConfirmedEffect, OrdersDropped
<1>4. CASE PopsHead
  <2>1. /\ queue # <<>> /\ queue' \in Seq(Op) /\ Len(queue') = Len(queue) - 1
        /\ \A i \in 1..(Len(queue) - 1) : queue'[i] = queue[i + 1]
    BY <1>4, PopsHeadEffect
  <2>2. 1 \in 0..Len(queue)
    BY <1>1, <2>1, QueueTyped
  <2>3. UNCHANGED <<ready, conn>>
    BY <1>4 DEF PopsHead, RetireSatisfied, Abandon, PlaceOrder, loopVars, countVars
  <2> QED BY <2>1, <2>2, <2>3, OrdersDropped
<1>5. CASE Send
  <2>1. PICK n \in 1..Len(queue) :
          /\ queue' \in Seq(Op) /\ Len(queue') = Len(queue)
          /\ \A i \in 1..Len(queue) : queue'[i].kind = queue[i].kind
                                      /\ queue'[i].at = queue[i].at
    BY <1>5, SendEffect
  <2>2. UNCHANGED <<ready, conn>>
    BY <1>5, SendEffect
  <2>3. DOMAIN queue' = 1..Len(queue)
    BY <2>1, LenProperties
  <2> QED BY <1>1, <2>1, <2>2, <2>3 DEF OrdersHere, IsOrder
<1>6. CASE Ends
  BY <1>6, EndsEffect DEF OrdersHere
<1>7. CASE Quiet /\ ~Ends /\ ~TakeCommand
  <2>1. queue' = queue
    BY <1>7 DEF Quiet
  <2>2. CASE BecomeReady
    <3>1. ~ready
      BY <2>2 DEF BecomeReady
    <3> QED BY <2>1, <3>1 DEF OrdersHere, IsOrder
  <2>3. CASE UNCHANGED <<ready, conn>>
    BY <2>1, <2>3 DEF OrdersHere, IsOrder
  <2>4. CASE LinkQuiet
    BY <2>3, <2>4 DEF LinkQuiet
  <2>5. CASE CommandAges
    BY <2>3, <2>5 DEF CommandAges, countVars
  <2>6. CASE \E kind, m, order : UiSend(Command(kind, m, order))
    BY <2>3, <2>6 DEF UiSend
  <2> QED BY <1>7, <2>2, <2>4, <2>5, <2>6, LinkKinds
<1>. QED
  BY <1>2, <1>3, <1>4, <1>5, <1>6, <1>7, StepKinds

LEMMA PlacedHereStep ==
  ASSUME CoreInv, OrdersHere, NoStaleOrder, [Next]_vars
  PROVE  NoStaleOrder'
<1>1. Len(queue) \in Nat /\ DOMAIN queue = 1..Len(queue)
      /\ Len(done) \in Nat /\ DOMAIN done = 1..Len(done)
  BY QueueTyped
(* What an episode adds to the record is not a placement, or it is one of  *)
(* an order of this connection.                                            *)
<1>2. ASSUME NEW k \in Nat, done' \in Seq(DoneOp), Len(done') = Len(done) + k,
             \A i \in 1..Len(done) : done'[i] = done[i],
             \A i \in 1..k : done'[Len(done) + i].how = "placed" =>
                done'[Len(done) + i].op.at = done'[Len(done) + i].conn
      PROVE  NoStaleOrder'
  <2>1. DOMAIN done' = 1..(Len(done) + k)
    BY <1>2, LenProperties
  <2>2. \A i \in (Len(done) + 1)..(Len(done) + k) :
          done'[i].how = "placed" => done'[i].op.at = done'[i].conn
    <3> TAKE i \in (Len(done) + 1)..(Len(done) + k)
    <3>1. i - Len(done) \in 1..k /\ i = Len(done) + (i - Len(done))
      BY <1>1
    <3> QED BY <1>2, <3>1
  <2>3. \A i \in 1..(Len(done) + k) : i \in 1..Len(done) \/ i \in (Len(done) + 1)..(Len(done) + k)
    BY <1>1, <1>2
  <2> QED BY <1>1, <1>2, <2>1, <2>2, <2>3 DEF NoStaleOrder
<1>3. CASE DriveConfirmed
  <2>1. PICK n \in 0..Len(queue) :
           /\ done' \in Seq(DoneOp) /\ Len(done') = Len(done) + n
           /\ \A i \in 1..Len(done) : done'[i] = done[i]
           /\ \A i \in 1..n : done'[Len(done) + i] = Retired(queue[i], "confirmed", retained)
    BY <1>3, ConfirmedEffect
  <2>2. \A i \in 1..n : done'[Len(done) + i].how = "confirmed"
    <3> TAKE i \in 1..n
    <3>1. done'[Len(done) + i] = Retired(queue[i], "confirmed", retained)
      BY <2>1
    <3> QED BY <3>1 DEF Retired
  <2>3. n \in Nat
    BY <1>1, <2>1
  <2>4. \A i \in 1..n : done'[Len(done) + i].how = "placed" =>
           done'[Len(done) + i].op.at = done'[Len(done) + i].conn
    BY <2>2
  <2>5. /\ done' \in Seq(DoneOp) /\ Len(done') = Len(done) + n
        /\ \A i \in 1..Len(done) : done'[i] = done[i]
    BY <2>1
  <2> QED BY <1>2, <2>3, <2>4, <2>5
<1>4. CASE PopsHead
  <2>1. PICK how \in Hows :
           /\ done'[Len(done) + 1] = Retired(queue[1], how, view)
           /\ how = "placed" <=> PlaceOrder
    BY <1>4, PopsHeadEffect
  <2>2. /\ queue # <<>> /\ done' \in Seq(DoneOp) /\ Len(done') = Len(done) + 1
        /\ \A i \in 1..Len(done) : done'[i] = done[i]
    BY <1>4, PopsHeadEffect
  <2>3. done'[Len(done) + 1].how = how /\ done'[Len(done) + 1].op = queue[1]
        /\ done'[Len(done) + 1].conn = conn
    BY <2>1 DEF Retired
  <2>4. PlaceOrder => queue[1].at = conn
    BY <1>1, <2>2, QueueTyped DEF PlaceOrder, AtOrder, OrdersHere
  <2> QED BY <1>2, <2>1, <2>2, <2>3, <2>4
<1>5. CASE Ends
  BY <1>1, <1>2, <1>5, EndsEffect
<1>6. CASE UNCHANGED done
  BY <1>6 DEF NoStaleOrder
<1>. QED
  BY <1>3, <1>4, <1>5, <1>6, StepKinds, GrowEffect, SendEffect DEF Quiet

(* No order is placed on a connection other than the one it was clicked    *)
(* on: neither the command channel, nor the queue, nor a snapshot left     *)
(* from before carries it across a disconnect, a restart or a new run.     *)
THEOREM StaleOrderCorrect == Spec => []NoStaleOrder
<1>1. Init => ConnectionInv
  BY DEF Init, ConnectionInv, OrdersHere, ClicksHere, NoStaleOrder
<1>2. CoreInv /\ ConnectionInv /\ [Next]_vars => ConnectionInv'
  BY OrdersStep, ClicksStep, PlacedHereStep DEF ConnectionInv
<1>3. ConnectionInv => NoStaleOrder
  BY DEF ConnectionInv
<1>. QED
  BY <1>1, <1>2, <1>3, CoreInvariant, PTL DEF Spec

=============================================================================
