----------------------- MODULE ReportReplica_proofs -----------------------
(***************************************************************************)
(* Proofs about ReportReplica, for every value of its constants: the types *)
(* of the variables; that while a deleted replica waits for its first page *)
(* nothing durable claims any history (AwaitedFromZero); and that no row   *)
(* is older than the database its checkpoint names (NoStaleContent).       *)
(***************************************************************************)
EXTENDS ReportReplica, SequenceFacts, FiniteSetTheorems

USE IdAssumption, CalmAssumption

-----------------------------------------------------------------------------
(* Sets of row ids have a greatest and a least member. *)

LEMMA MaxOfIds ==
  ASSUME NEW S \in SUBSET Ids, S # {}
  PROVE  Max(S) \in S
<1>1. \E x \in S : \A y \in S : y <= x
  BY LastPosition DEF Ids
<1>2. \E x \in S : \A y \in S : x >= y
  BY <1>1 DEF Ids
<1> QED BY <1>2 DEF Max

LEMMA MinOfIds ==
  ASSUME NEW S \in SUBSET Ids, S # {}
  PROVE  Min(S) \in S /\ \A i \in S : Min(S) <= i
<1>1. S \in SUBSET Nat
  BY DEF Ids
<1>2. \E x \in S : \A y \in S : x =< y
  BY <1>1, LeastElement
<1> QED BY <1>2 DEF Min

LEMMA IdsCardinality ==
  ASSUME NEW S \in SUBSET Ids
  PROVE  Cardinality(S) \in Nat
<1>1. IsFiniteSet(1 .. MaxId)
  BY FS_Interval
<1>2. IsFiniteSet(S)
  BY <1>1, FS_Subset DEF Ids
<1> QED BY <1>2, FS_CardinalityType

-----------------------------------------------------------------------------
(* What the database operations return. *)

LEMMA RowsAreIds ==
  ASSUME NEW d
  PROVE  Rows(d) \in SUBSET Ids
  BY DEF Rows

LEMMA RecordFrontierTyped ==
  ASSUME NEW d \in DbSet, NEW last \in Int
  PROVE  RecordFrontier(d, last) \in DbSet
  BY DEF RecordFrontier, DbSet

LEMMA UpsertedTyped ==
  ASSUME NEW d \in DbSet, NEW i \in Ids, NEW of \in Nat, NEW hide \in BOOLEAN
  PROVE  Upserted(d, i, of, hide) \in DbSet
  BY DEF Upserted, DbSet

LEMMA DeletedTyped ==
  ASSUME NEW d \in DbSet, NEW i \in Ids
  PROVE  Deleted(d, i) \in DbSet
  BY DEF Deleted, DbSet

LEMMA SetDeletedTyped ==
  ASSUME NEW d \in DbSet, NEW i \in Ids, NEW hide \in BOOLEAN
  PROVE  SetDeleted(d, i, hide) \in DbSet
<1>1. d.of[i] \in Nat
  BY DEF DbSet
<1> QED BY <1>1, UpsertedTyped DEF SetDeleted

LEMMA ResetTyped ==
  ASSUME NEW d
  PROVE  ResetReplica(d) \in DbSet
  BY DEF ResetReplica, DbSet, NoRows, CheckpointSet, NoCheckpoint

LEMMA NoteLiveRowTyped ==
  ASSUME NEW d \in DbSet
  PROVE  NoteLiveRow(d) \in DbSet
  BY DEF NoteLiveRow, DbSet

LEMMA PageRowsTyped ==
  ASSUME NEW d \in DbSet, NEW m \in Pages
  PROVE  PageRows(d, m) \in DbSet
<1>1. m.row \in Ids \cup {0} /\ m.of \in Nat /\ m.hide \in BOOLEAN
  BY DEF Pages, Databases
<1> QED BY <1>1, UpsertedTyped DEF PageRows

LEMMA AppliedPageTyped ==
  ASSUME NEW d \in DbSet, NEW m \in Pages
  PROVE  AppliedPage(d, m) \in DbSet
<1>1. m.row \in Int
  BY DEF Pages, Ids
<1>2. PageRows(d, m) \in DbSet /\ PageRows(ResetReplica(d), m) \in DbSet
  BY PageRowsTyped, ResetTyped
<1> QED BY <1>1, <1>2, RecordFrontierTyped DEF AppliedPage

AliveMaps == [type : {"AliveMap"}, epoch : Databases, next : Nat \ {0}, max : Nat,
              alive : SUBSET Ids]

LEMMA AppliedMapTyped ==
  ASSUME NEW d \in DbSet, NEW m \in AliveMaps
  PROVE  AppliedMap(d, m) \in DbSet
<1>1. Rows(d) \in SUBSET Ids
  BY RowsAreIds
<1>2. (d.hidden \ 1 .. m.max) \cup ((Rows(d) \cap 1 .. m.max) \ m.alive) \in SUBSET Ids
  BY <1>1 DEF DbSet
<1>3. [epoch |-> m.epoch, next |-> m.next] \in CheckpointSet
  BY DEF AliveMaps, CheckpointSet
<1> QED BY <1>2, <1>3 DEF AppliedMap, DbSet

LEMMA StartsTyped ==
  /\ Fresh \in StartSet /\ Wiped \in StartSet
  /\ \A n \in Nat \ {0} : Resume(n) \in StartSet
  /\ \A c \in CheckpointSet \ {NoCheckpoint} : Checkpoint(c) \in StartSet
  BY DEF Fresh, Wiped, Resume, Checkpoint, StartSet, CheckpointSet, Databases

LEMMA StartupTyped ==
  ASSUME NEW d \in DbSet
  PROVE  StartupStart(d) \in StartSet
<1>1. CASE Rows(d) = {}
  BY <1>1, StartsTyped DEF StartupStart
<1>2. CASE Rows(d) # {} /\ d.checkpoint # NoCheckpoint
  <2>1. d.checkpoint \in CheckpointSet \ {NoCheckpoint}
    BY <1>2 DEF DbSet
  <2> QED BY <1>2, <2>1, StartsTyped DEF StartupStart
<1>3. CASE Rows(d) # {} /\ d.checkpoint = NoCheckpoint /\ d.frontier # NoFrontier
  <2>1. d.frontier + 1 \in Nat \ {0}
    BY <1>3 DEF DbSet
  <2> QED BY <1>3, <2>1, StartsTyped DEF StartupStart
<1>4. CASE Rows(d) # {} /\ d.checkpoint = NoCheckpoint /\ d.frontier = NoFrontier
  <2>1. Max(Rows(d)) + 1 \in Nat \ {0}
    BY <1>4, RowsAreIds, MaxOfIds DEF Ids
  <2> QED BY <1>4, <2>1, StartsTyped DEF StartupStart
<1> QED BY <1>1, <1>2, <1>3, <1>4

LEMMA OpenedTyped ==
  ASSUME NEW d \in DbSet
  PROVE  Opened(d) \in DbSet
<1>1. StartupStart(d).next - 1 \in Int
  BY StartupTyped DEF StartSet
<1> QED BY <1>1, RecordFrontierTyped DEF Opened

-----------------------------------------------------------------------------
(* What a message does to the candidate state. *)

LEMMA TxFields ==
  ASSUME NEW t \in TxSet
  PROVE  /\ t.db \in DbSet /\ t.awaiting \in Nat \cup {NotAwaited}
         /\ t.states \in Seq(StartSet) /\ t.acks \in Seq(Pages) /\ t.resyncs \in Seq(Nat)
         /\ \A d \in DbSet : [t EXCEPT !.db = d] \in TxSet
         /\ \A n \in Nat \cup {NotAwaited} : [t EXCEPT !.awaiting = n] \in TxSet
         /\ \A q \in Seq(Pages) : [t EXCEPT !.acks = q] \in TxSet
         /\ \A q \in Seq(Nat) : [t EXCEPT !.resyncs = q] \in TxSet
         /\ [t EXCEPT !.open = TRUE] \in TxSet
  BY DEF TxSet

LEMMA PublishingTyped ==
  ASSUME NEW t \in TxSet, NEW s \in StartSet
  PROVE  Publishing(t, s) \in TxSet
<1>1. Append(t.states, s) \in Seq(StartSet)
  BY TxFields, AppendProperties
<1> QED BY <1>1 DEF Publishing, TxSet

LEMMA ApplyPageTyped ==
  ASSUME TypeOK, NEW m \in Pages
  PROVE  ApplyPage(m) \in TxSet
<1> DEFINE acked == [tx EXCEPT !.acks = Append(@, m)]
           kept  == [acked EXCEPT !.db = AppliedPage(@, m), !.awaiting = NotAwaited]
<1>1. tx \in TxSet /\ m.row + 1 \in Nat \ {0} /\ m.run \in Nat
  BY DEF TypeOK, Pages, Ids
<1>2. acked \in TxSet
  BY <1>1, TxFields, AppendProperties
<1>3. AppliedPage(acked.db, m) \in DbSet
  BY <1>2, TxFields, AppliedPageTyped
<1>4. kept \in TxSet
  <2> HIDE DEF acked
  <2>1. NotAwaited \in Nat \cup {NotAwaited}
    OBVIOUS
  <2> QED BY <1>2, <1>3, <2>1 DEF TxSet
<1>5. Publishing(kept, Resume(m.row + 1)) \in TxSet
  <2> HIDE DEF kept
  <2> QED BY <1>1, <1>4, StartsTyped, PublishingTyped
<1>6. [Publishing(kept, Fresh) EXCEPT !.resyncs = Append(@, m.run)] \in TxSet
  <2>1. Publishing(kept, Fresh) \in TxSet
    <3> HIDE DEF kept
    <3> QED BY <1>4, StartsTyped, PublishingTyped
  <2> QED BY <1>1, <2>1, TxFields, AppendProperties
<1> QED BY <1>2, <1>5, <1>6 DEF ApplyPage

LEMMA ApplyAliveMapTyped ==
  ASSUME TypeOK, NEW m \in AliveMaps
  PROVE  ApplyAliveMap(m) \in TxSet
<1>1. tx \in TxSet
  BY DEF TypeOK
<1>2. [tx EXCEPT !.db = AppliedMap(@, m)] \in TxSet
  BY <1>1, TxFields, AppliedMapTyped
<1>3. Checkpoint([epoch |-> m.epoch, next |-> m.next]) \in StartSet
  BY StartsTyped DEF AliveMaps, CheckpointSet, NoCheckpoint, Databases
<1> QED BY <1>1, <1>2, <1>3, PublishingTyped DEF ApplyAliveMap

LEMMA ResetTxTyped ==
  ASSUME TypeOK, NEW s \in StartSet
  PROVE  [Publishing(tx, s) EXCEPT !.db = ResetReplica(@)] \in TxSet
  BY PublishingTyped, ResetTyped, TxFields DEF TypeOK

LEMMA ApplyRecreatedTyped ==
  ASSUME TypeOK, NEW run \in Nat, NEW m, m.run = run
  PROVE  ApplyRecreated(m) \in TxSet
<1> DEFINE t == Publishing(tx, Fresh)
<1>1. t \in TxSet
  BY PublishingTyped, StartsTyped DEF TypeOK
<1>2. ResetReplica(t.db) \in DbSet /\ Append(t.resyncs, m.run) \in Seq(Nat)
  BY <1>1, ResetTyped, TxFields, AppendProperties
<1>3. [t EXCEPT !.db = ResetReplica(@), !.resyncs = Append(@, m.run)] \in TxSet
  <2> HIDE DEF t
  <2> QED BY <1>1, <1>2 DEF TxSet
<1> QED BY <1>3 DEF ApplyRecreated

LEMMA ApplyForgetCoreTyped ==
  ASSUME TypeOK, NEW run \in Nat, NEW m, m.run = run
  PROVE  ApplyForgetCore(m) \in TxSet
<1> DEFINE t == Publishing(tx, Wiped)
           a == IF m.run # NoRun THEN Undeclared ELSE t.awaiting
           r == IF m.run # NoRun THEN Append(t.resyncs, m.run) ELSE t.resyncs
<1>1. t \in TxSet
  BY PublishingTyped, StartsTyped DEF TypeOK
<1>2. /\ ResetReplica(t.db) \in DbSet
      /\ a \in Nat \cup {NotAwaited}
      /\ r \in Seq(Nat)
  BY <1>1, ResetTyped, TxFields, AppendProperties DEF Undeclared
<1>3. [t EXCEPT !.db = ResetReplica(@), !.awaiting = a, !.resyncs = r] \in TxSet
  <2> HIDE DEF t, a, r
  <2> QED BY <1>1, <1>2 DEF TxSet
<1> QED BY <1>3 DEF ApplyForgetCore

LEMMA ApplyMsgTyped ==
  ASSUME TypeOK, NEW m \in MessageSet
  PROVE  ApplyMsg(m) \in TxSet
<1>0. tx \in TxSet /\ tx.db \in DbSet
  BY TxFields DEF TypeOK
<1>1. CASE m \in [type : {"Upsert"}, row : Ids, of : Databases]
  <2>1. m.type = "Upsert" /\ m.row \in Ids /\ m.of \in Nat
    BY <1>1 DEF Databases
  <2>2. NoteLiveRow(Upserted(tx.db, m.row, m.of, FALSE)) \in DbSet
    BY <1>0, <2>1, UpsertedTyped, NoteLiveRowTyped
  <2> QED BY <1>0, <2>1, <2>2, TxFields DEF ApplyMsg
<1>2. CASE m \in [type : {"Delete"}, row : Ids]
  <2>1. m.type = "Delete" /\ Deleted(tx.db, m.row) \in DbSet
    BY <1>0, <1>2, DeletedTyped
  <2> QED BY <1>0, <2>1, TxFields DEF ApplyMsg
<1>3. CASE m \in [type : {"SetDeleted"}, row : Ids, hide : BOOLEAN]
  <2>1. m.type = "SetDeleted" /\ SetDeleted(tx.db, m.row, m.hide) \in DbSet
    BY <1>0, <1>3, SetDeletedTyped
  <2> QED BY <1>0, <2>1, TxFields DEF ApplyMsg
<1>4. CASE m \in Pages
  <2>1. m.type = "Page"
    BY <1>4 DEF Pages
  <2> QED BY <1>4, <2>1, ApplyPageTyped DEF ApplyMsg
<1>5. CASE m \in AliveMaps
  <2>1. m.type = "AliveMap"
    BY <1>5 DEF AliveMaps
  <2> QED BY <1>5, <2>1, ApplyAliveMapTyped DEF ApplyMsg
<1>6. CASE m \in [type : {"Recreated"}, run : Nat]
  <2>1. m.type = "Recreated" /\ m.run \in Nat
    BY <1>6
  <2> QED BY <2>1, ApplyRecreatedTyped DEF ApplyMsg
<1>7. CASE m \in [type : {"ForgetCore"}, run : Nat]
  <2>1. m.type = "ForgetCore" /\ m.run \in Nat
    BY <1>7
  <2> QED BY <2>1, ApplyForgetCoreTyped DEF ApplyMsg
<1>8. CASE m \in [type : {"Recheck"}]
  <2>1. m.type = "Recheck"
    BY <1>8
  <2> QED BY <1>0, <2>1, TxFields DEF ApplyMsg
<1> QED BY <1>1, <1>2, <1>3, <1>4, <1>5, <1>6, <1>7, <1>8 DEF MessageSet, AliveMaps

-----------------------------------------------------------------------------
(* The types of the variables. *)

LEMMA SendTyped ==
  ASSUME TypeOK, NEW m \in MessageSet, Send(m)
  PROVE  chan' \in Seq(MessageSet)
<1>1. chan \in Seq(MessageSet)
  BY DEF TypeOK
<1>2. Append(chan, m) \in Seq(MessageSet)
  BY <1>1, AppendProperties
<1> QED BY <1>1, <1>2 DEF Send

LEMMA ClosedTyped ==
  ASSUME NEW d \in DbSet, NEW a \in Nat \cup {NotAwaited}
  PROVE  Closed(d, a) \in TxSet
  BY DEF Closed, TxSet

LEMMA SpendTyped ==
  ASSUME TypeOK, NEW b \in Bounded, Spend(b)
  PROVE  left' \in [Bounded \cup {"legacy"} -> Nat]
  BY DEF Spend, TypeOK

LEMMA DeclaredTyped ==
  ASSUME TypeOK, NEW s \in StartSet
  PROVE  Declared(s) \in SyncSet
<1>1. given.syncs \in Nat /\ s.next \in Nat \ {0} /\ s.epoch \in Nat
  BY DEF TypeOK, StartSet, GivenSet
<1> QED BY <1>1 DEF Declared, SyncSet

LEMMA NoClientTyped == NoClient \in ClientSet
  BY DEF NoClient, ClientSet, SyncSet, NoRun, NoSync

(* What is known of a completed catch-up stays, once its map is asked for. *)
LEMMA UnblockedParts ==
  ASSUME TypeOK
  PROVE  /\ Unblocked \in Completions \cup {NoPending}
         /\ Unblocked = NoPending <=> pending = NoPending
         /\ pending.at = "none" <=> pending = NoPending
         /\ pending.at \in {"none", "unread", "behind", "asked"}
         /\ Unblocked.id = pending.id /\ Unblocked.epoch = pending.epoch
         /\ Unblocked.next = pending.next
         /\ Unblocked.at = IF pending.at = "behind" THEN "asked" ELSE pending.at
<1>1. pending \in Completions \cup {NoPending}
  BY DEF TypeOK
<1>2. CASE pending = NoPending
  BY <1>2 DEF Unblocked, NoPending
<1>3. CASE pending \in Completions
  BY <1>3 DEF Unblocked, Completions, NoPending
<1> QED BY <1>1, <1>2, <1>3

LEMMA NothingTyped == Nothing \in PostSet
  BY DEF Nothing, PostSet

LEMMA InitTyped == Init => TypeOK
<1> SUFFICES ASSUME Init PROVE TypeOK
  OBVIOUS
<1>1. left \in [Bounded \cup {"legacy"} -> Nat] /\ left.legacy \in Nat /\ left.legacy <= MaxId
  BY ScenarioAssumption DEF Init, Bounded
<1>2. core \in CoreSet
  <2>1. 1 .. left.legacy \in SUBSET Ids
    BY <1>1 DEF Ids
  <2> QED BY <1>1, <2>1 DEF Init, CoreSet, Databases
<1>3. db \in DbSet
  <2>1. [of |-> [i \in Ids |-> IF i <= left.legacy THEN 1 ELSE 0], hidden |-> {},
         checkpoint |-> NoCheckpoint, frontier |-> NoFrontier] \in DbSet
    BY DEF DbSet, CheckpointSet
  <2> QED BY <2>1, OpenedTyped DEF Init
<1>4. starts \in StartSet
  BY <1>3, StartupTyped DEF Init
<1>5. tx \in TxSet /\ awaiting \in Nat \cup {NotAwaited}
  BY <1>3, ClosedTyped DEF Init
<1>6. chan \in Seq(MessageSet) /\ post \in PostSet /\ client \in ClientSet
  BY NoClientTyped, NothingTyped DEF Init
<1>7. pending = NoPending /\ writer = "up"
      /\ deleting \in [phase : {"none", "taken", "sent"}, run : Nat]
      /\ given \in GivenSet
  BY DEF Init, NoDelete, NoRun, GivenSet
<1> QED BY <1>1, <1>2, <1>3, <1>4, <1>5, <1>6, <1>7 DEF TypeOK

LEMMA CoreStepTyped ==
  ASSUME TypeOK,
         \/ OpenTrade \/ Recreate
         \/ \E i \in Ids : HideRow(i) \/ RestoreRow(i) \/ RetireRow(i)
  PROVE  TypeOK'
<1>0. core \in CoreSet /\ chan \in Seq(MessageSet)
  BY DEF TypeOK
<1>1. CASE OpenTrade
  <2>1. core.top + 1 \in Ids /\ core.db \in Databases
    BY <1>0, <1>1 DEF OpenTrade, CoreSet
  <2>2. core' \in CoreSet
    <3>1. core.top + 1 \in Nat /\ core.visible \cup {core.top + 1} \in SUBSET Ids
      BY <1>0, <2>1 DEF CoreSet
    <3>2. core' = [core EXCEPT !.top = core.top + 1, !.visible = @ \cup {core.top + 1}]
      BY <1>1 DEF OpenTrade
    <3> QED BY <1>0, <3>1, <3>2 DEF CoreSet
  <2>3. [type |-> "Upsert", row |-> core.top + 1, of |-> core.db] \in MessageSet
    BY <2>1 DEF MessageSet
  <2>4. chan' \in Seq(MessageSet)
    BY <1>0, <1>1, <2>3, SendTyped DEF OpenTrade, Broadcast
  <2>5. left' \in [Bounded \cup {"legacy"} -> Nat]
    BY <1>1, SpendTyped DEF OpenTrade, Change, Bounded
  <2> QED BY <1>1, <2>2, <2>4, <2>5 DEF OpenTrade, Change, TypeOK
<1>2. CASE Recreate
  <2>1. core' \in CoreSet
    BY <1>0, <1>2 DEF Recreate, CoreSet, Databases
  <2>2. left' \in [Bounded \cup {"legacy"} -> Nat]
    BY <1>2, SpendTyped DEF Recreate, Bounded
  <2> QED BY <1>2, <2>1, <2>2 DEF Recreate, TypeOK
<1>3. ASSUME NEW i \in Ids, HideRow(i) PROVE TypeOK'
  <2>1. core' \in CoreSet
    BY <1>0, <1>3 DEF HideRow, CoreSet
  <2>2. [type |-> "SetDeleted", row |-> i, hide |-> TRUE] \in MessageSet
    BY DEF MessageSet
  <2>3. chan' \in Seq(MessageSet)
    BY <1>0, <1>3, <2>2, SendTyped DEF HideRow, Broadcast
  <2>4. left' \in [Bounded \cup {"legacy"} -> Nat]
    BY <1>3, SpendTyped DEF HideRow, Change, Bounded
  <2> QED BY <1>3, <2>1, <2>3, <2>4 DEF HideRow, Change, TypeOK
<1>4. ASSUME NEW i \in Ids, RestoreRow(i) PROVE TypeOK'
  <2>1. core' \in CoreSet
    BY <1>0, <1>4 DEF RestoreRow, CoreSet
  <2>2. [type |-> "SetDeleted", row |-> i, hide |-> FALSE] \in MessageSet
    BY DEF MessageSet
  <2>3. chan' \in Seq(MessageSet)
    BY <1>0, <1>4, <2>2, SendTyped DEF RestoreRow, Broadcast
  <2>4. left' \in [Bounded \cup {"legacy"} -> Nat]
    BY <1>4, SpendTyped DEF RestoreRow, Change, Bounded
  <2> QED BY <1>4, <2>1, <2>3, <2>4 DEF RestoreRow, Change, TypeOK
<1>5. ASSUME NEW i \in Ids, RetireRow(i) PROVE TypeOK'
  <2>1. core' \in CoreSet
    BY <1>0, <1>5 DEF RetireRow, CoreSet
  <2>2. [type |-> "Delete", row |-> i] \in MessageSet
    BY DEF MessageSet
  <2>3. chan' \in Seq(MessageSet)
    BY <1>0, <1>5, <2>2, SendTyped DEF RetireRow, Broadcast
  <2>4. left' \in [Bounded \cup {"legacy"} -> Nat]
    BY <1>5, SpendTyped DEF RetireRow, Change, Bounded
  <2> QED BY <1>5, <2>1, <2>3, <2>4 DEF RetireRow, Change, TypeOK
<1> QED BY <1>1, <1>2, <1>3, <1>4, <1>5

LEMMA RecheckTyped == [type |-> "Recheck"] \in MessageSet
  BY DEF MessageSet

LEMMA FeedStepTyped ==
  ASSUME TypeOK, StartRun \/ StopRun \/ LinkUp \/ LinkDown
  PROVE  TypeOK'
<1>0. client \in ClientSet /\ given \in GivenSet
      /\ chan \in Seq(MessageSet)
  BY DEF TypeOK
<1>1. CASE StartRun
  <2>1. client' \in ClientSet
    <3>1. Declared(starts) \in SyncSet
      BY DeclaredTyped DEF TypeOK
    <3> QED BY <1>0, <1>1, <3>1 DEF StartRun, ClientSet, GivenSet
  <2>2. chan' \in Seq(MessageSet)
    BY <1>1, RecheckTyped, SendTyped DEF StartRun
  <2>3. given' \in GivenSet
    <3>1. given.runs + 1 \in Nat /\ given.syncs + 1 \in Nat
          /\ (given.overtaken \/ Overtaken) \in BOOLEAN
      BY <1>0 DEF GivenSet
    <3>2. given' = [given EXCEPT !.runs = given.runs + 1, !.syncs = given.syncs + 1,
                                 !.overtaken = @ \/ Overtaken]
      BY <1>1 DEF StartRun
    <3> HIDE DEF Overtaken
    <3> QED BY <1>0, <3>1, <3>2 DEF GivenSet
  <2> QED BY <1>1, <2>1, <2>2, <2>3 DEF StartRun, TypeOK
<1>2. CASE StopRun
  <2>1. left' \in [Bounded \cup {"legacy"} -> Nat]
    BY <1>2, SpendTyped DEF StopRun, Bounded
  <2> QED BY <1>2, <2>1, NoClientTyped DEF StopRun, TypeOK
<1>3. CASE LinkUp
  <2>1. client' \in ClientSet
    BY <1>0, <1>3 DEF LinkUp, ClientSet, SyncSet
  <2>2. chan' \in Seq(MessageSet)
    BY <1>0, <1>3, RecheckTyped, SendTyped DEF LinkUp
  <2> QED BY <1>3, <2>1, <2>2 DEF LinkUp, TypeOK
<1>4. CASE LinkDown
  <2>1. client' \in ClientSet
    BY <1>0, <1>4 DEF LinkDown, ClientSet
  <2>2. left' \in [Bounded \cup {"legacy"} -> Nat]
    BY <1>4, SpendTyped DEF LinkDown, Bounded
  <2> QED BY <1>4, <2>1, <2>2 DEF LinkDown, TypeOK
<1> QED BY <1>1, <1>2, <1>3, <1>4

(* The page the core answers with. *)
LEMMA ServedPage ==
  ASSUME TypeOK, ServePage
  PROVE  \E m \in Pages :
           /\ Send(m)
           /\ m.of = core.db /\ m.run = client.run /\ m.id = client.sync.id
           /\ m.recreated = SeenRecreated(client.sync)
           /\ m.row = 0 \/ m.row \in Served
           /\ \A i \in Served : i >= client.sync.from => m.row # 0 /\ m.row <= i
<1> DEFINE above == {i \in Served : i >= client.sync.from}
           row == IF above = {} THEN 0 ELSE Min(above)
           found == SeenRecreated(client.sync)
           page == [type |-> "Page", run |-> client.run, id |-> client.sync.id, row |-> row,
                    of |-> core.db, hide |-> row \in core.hidden, recreated |-> found,
                    last |-> Cardinality(above) <= 1, max |-> core.top]
<1>0. client \in ClientSet /\ core \in CoreSet
  BY DEF TypeOK
<1>1. above \in SUBSET Ids
  BY <1>0 DEF Served, CoreSet
<1>2. /\ row \in Ids \cup {0}
      /\ row = 0 \/ row \in Served
      /\ \A i \in Served : i >= client.sync.from => row # 0 /\ row <= i
  <2>1. above # {} => Min(above) \in above /\ \A i \in above : Min(above) <= i
    <3> HIDE DEF above
    <3> QED BY <1>1, MinOfIds
  <2>2. 0 \notin Ids
    BY DEF Ids
  <2> QED BY <1>1, <2>1, <2>2
<1>3. found \in BOOLEAN /\ (Cardinality(above) <= 1) \in BOOLEAN
  <2>1. Cardinality(above) \in Nat
    <3> HIDE DEF above
    <3> QED BY <1>1, IdsCardinality
  <2>2. (Cardinality(above) <= 1) \in BOOLEAN
    <3> HIDE DEF above
    <3> QED BY <2>1
  <2>3. found \in BOOLEAN
    BY Zenon DEF SeenRecreated
  <2> QED BY <2>2, <2>3
<1>4. page \in Pages
  <2>1. client.run \in Nat /\ client.sync.id \in Nat /\ core.db \in Databases
        /\ core.top \in Nat /\ (row \in core.hidden) \in BOOLEAN
    BY <1>0 DEF ClientSet, SyncSet, CoreSet
  <2> HIDE DEF above, row, found
  <2> QED BY <1>2, <1>3, <2>1 DEF Pages
<1>5. Send(page)
  BY DEF ServePage
<1>6. page.of = core.db /\ page.run = client.run /\ page.id = client.sync.id
      /\ page.recreated = found /\ page.row = row
  OBVIOUS
<1> HIDE DEF page, row, above
<1> QED BY <1>2, <1>4, <1>5, <1>6

LEMMA AskAliveMapTyped ==
  ASSUME TypeOK, AskAliveMap
  PROVE  TypeOK'
<1>1. pending \in Completions /\ given \in GivenSet
  BY DEF AskAliveMap, TypeOK, NoPending
<1>2. PICK after \in {"behind", "asked"} : pending' \in {[pending EXCEPT !.at = after], NoPending}
  BY DEF AskAliveMap
<1>3. pending' \in Completions \cup {NoPending}
  BY <1>1, <1>2 DEF Completions
<1>4. given' \in GivenSet
  <2>1. (given.late \/ pending.id # client.sync.id) \in BOOLEAN
    OBVIOUS
  <2> QED BY <1>1, <2>1 DEF AskAliveMap, GivenSet
<1> QED BY <1>3, <1>4 DEF AskAliveMap, TypeOK

LEMMA CatchUpStepTyped ==
  ASSUME TypeOK, ServePage \/ AnswerAliveMap \/ TakeDelete \/ SendDelete
  PROVE  TypeOK'
<1>0. client \in ClientSet /\ core \in CoreSet /\ chan \in Seq(MessageSet)
      /\ given \in GivenSet
  BY DEF TypeOK
<1>1. CASE ServePage
  <2>1. PICK m \in Pages : Send(m)
    BY <1>1, ServedPage
  <2>5. chan' \in Seq(MessageSet)
    BY <2>1, SendTyped DEF MessageSet, Pages
  <2>6. client' \in ClientSet
    BY <1>0, <1>1 DEF ServePage, ClientSet, SyncSet
  <2>7. given' \in GivenSet
    <3>1. PICK b : given' = [given EXCEPT !.blind = b]
            /\ b = (given.blind \/ (~SeenRecreated(client.sync) /\ Unverifiable(client.sync)))
      BY <1>1 DEF ServePage
    <3>2. b \in BOOLEAN
      BY <3>1
    <3> QED BY <1>0, <3>1, <3>2 DEF GivenSet
  <2>8. pending' \in Completions \cup {NoPending}
    BY <1>1, UnblockedParts DEF ServePage
  <2> QED BY <1>1, <2>5, <2>6, <2>7, <2>8 DEF ServePage, TypeOK
<1>2. CASE AnswerAliveMap
  <2>1. pending \in Completions
    BY <1>2 DEF AnswerAliveMap, TypeOK, NoPending
  <2>2. [type |-> "Recreated", run |-> client.run] \in MessageSet
    BY <1>0 DEF MessageSet, ClientSet
  <2>3. [type |-> "AliveMap", epoch |-> pending.epoch, next |-> pending.next,
         max |-> pending.max, alive |-> core.visible] \in MessageSet
    BY <1>0, <2>1 DEF Completions, MessageSet, CoreSet
  <2>4. chan' \in Seq(MessageSet)
    BY <1>2, <2>2, <2>3, SendTyped DEF AnswerAliveMap
  <2> QED BY <1>2, <2>4 DEF AnswerAliveMap, TypeOK
<1>3. CASE TakeDelete
  <2>1. left' \in [Bounded \cup {"legacy"} -> Nat]
    BY <1>3, SpendTyped DEF TakeDelete, Bounded
  <2>2. deleting' \in [phase : {"none", "taken", "sent"}, run : Nat]
    BY <1>0, <1>3 DEF TakeDelete, ClientSet
  <2> QED BY <1>3, <2>1, <2>2 DEF TakeDelete, TypeOK
<1>4. CASE SendDelete
  <2>1. deleting.run \in Nat /\ deleting' \in [phase : {"none", "taken", "sent"}, run : Nat]
    BY <1>4 DEF SendDelete, TypeOK
  <2>2. [type |-> "ForgetCore", run |-> deleting.run] \in MessageSet
    BY <2>1 DEF MessageSet
  <2>3. chan' \in Seq(MessageSet)
    BY <1>4, <2>2, SendTyped DEF SendDelete
  <2> QED BY <1>4, <2>1, <2>3 DEF SendDelete, TypeOK
<1> QED BY <1>1, <1>2, <1>3, <1>4

LEMMA WriterStepTyped ==
  ASSUME TypeOK, Apply \/ Commit \/ PublishState \/ WriterStops \/ Restart
  PROVE  TypeOK'
<1>0. /\ chan \in Seq(MessageSet) /\ db \in DbSet /\ tx \in TxSet /\ post \in PostSet
      /\ starts \in StartSet /\ awaiting \in Nat \cup {NotAwaited}
      /\ writer \in {"up", "stopped"}
  BY DEF TypeOK
<1>1. CASE Apply
  <2>1. Head(chan) \in MessageSet /\ Tail(chan) \in Seq(MessageSet)
    BY <1>0, <1>1, HeadTailProperties DEF Apply
  <2>2. tx' \in TxSet
    <3>1. ApplyMsg(Head(chan)) \in TxSet
      BY <2>1, ApplyMsgTyped
    <3> QED BY <1>1, <3>1, TxFields DEF Apply
  <2> QED BY <1>1, <2>1, <2>2 DEF Apply, TypeOK
<1>2. CASE Commit
  <2>1. /\ tx.db \in DbSet /\ tx.awaiting \in Nat \cup {NotAwaited}
        /\ post' \in PostSet
    BY <1>0, <1>2, TxFields DEF Commit, PostSet
  <2>2. tx' \in TxSet
    BY <1>2, <2>1, ClosedTyped DEF Commit
  <2> QED BY <1>2, <2>1, <2>2 DEF Commit, TypeOK
<1>3. CASE PublishState
  <2>1. Head(post.states) \in StartSet /\ Tail(post.states) \in Seq(StartSet)
    BY <1>0, <1>3, HeadTailProperties DEF PublishState, PostSet
  <2>2. starts' \in StartSet
    BY <1>0, <1>3, <2>1, StartsTyped DEF PublishState, Published
  <2>3. post' \in PostSet
    BY <1>0, <1>3, <2>1 DEF PublishState, PostSet
  <2>4. deleting' \in [phase : {"none", "taken", "sent"}, run : Nat]
    BY <1>3 DEF PublishState, NoDelete, NoRun, TypeOK
  <2> QED BY <1>3, <2>2, <2>3, <2>4 DEF PublishState, TypeOK
<1>4. CASE WriterStops
  <2>1. tx' \in TxSet /\ post' \in PostSet
    BY <1>0, <1>4, ClosedTyped, NothingTyped DEF WriterStops
  <2>2. left' \in [Bounded \cup {"legacy"} -> Nat]
    BY <1>4, SpendTyped DEF WriterStops, Bounded
  <2> QED BY <1>4, <2>1, <2>2 DEF WriterStops, TypeOK
<1>5. CASE Restart
  <2>1. db' \in DbSet /\ starts' \in StartSet
    BY <1>0, <1>5, OpenedTyped, StartupTyped DEF Restart
  <2>2. tx' \in TxSet /\ post' \in PostSet /\ client' \in ClientSet
    BY <1>5, <2>1, ClosedTyped, NothingTyped, NoClientTyped DEF Restart
  <2>3. left' \in [Bounded \cup {"legacy"} -> Nat]
    BY <1>5, SpendTyped DEF Restart, Bounded
  <2>4. deleting' \in [phase : {"none", "taken", "sent"}, run : Nat]
    BY <1>5 DEF Restart, NoDelete, NoRun
  <2> QED BY <1>5, <2>1, <2>2, <2>3, <2>4 DEF Restart, TypeOK
<1> QED BY <1>1, <1>2, <1>3, <1>4, <1>5

LEMMA AcknowledgeTyped ==
  ASSUME TypeOK, Acknowledge
  PROVE  TypeOK'
<1> DEFINE m == Head(post.acks)
           next == IF m.row = 0 THEN client.sync.from ELSE m.row + 1
<1>0. client \in ClientSet /\ post \in PostSet
  BY DEF TypeOK
<1>1. m \in Pages /\ Tail(post.acks) \in Seq(Pages)
  BY <1>0, HeadTailProperties DEF Acknowledge, PostSet
<1>2. client.sync \in SyncSet /\ client.sync.from \in Nat \ {0}
  BY <1>0 DEF ClientSet, SyncSet
<1>3. next \in Nat \ {0} /\ m.of \in Databases /\ m.max \in Nat
  BY SMTT(60), <1>1, <1>2 DEF Pages, Ids
<1>4. client' \in ClientSet
  <2>1. CASE client' = client
    BY <1>0, <2>1
  <2>2. CASE client' # client
    <3>1. PICK from \in {1, next}, phase \in {"done", "ask"} :
             client' = [client EXCEPT !.sync.from = from, !.sync.epoch = m.of,
                                      !.sync.phase = phase]
      BY <2>2 DEF Acknowledge
    <3>2. from \in Nat \ {0} /\ m.of \in Nat
      BY <1>3 DEF Databases
    <3> HIDE DEF m, next
    <3> QED BY <1>0, <3>1, <3>2 DEF ClientSet, SyncSet
  <2> QED BY <2>1, <2>2
<1>5. pending' \in Completions \cup {NoPending}
  <2>1. pending' \in {pending, [id |-> m.id, epoch |-> m.of, next |-> next, max |-> m.max,
                               at |-> "unread"]}
    BY DEF Acknowledge
  <2>2. m.id \in Nat
    BY <1>1 DEF Pages
  <2> HIDE DEF m, next
  <2> QED BY <1>3, <2>1, <2>2 DEF TypeOK, Completions
<1>6. post' \in PostSet
  BY <1>0, <1>1 DEF Acknowledge, PostSet
<1> QED BY <1>4, <1>5, <1>6 DEF Acknowledge, TypeOK

LEMMA RedeclareTyped ==
  ASSUME TypeOK, Redeclare
  PROVE  TypeOK'
<1>0. client \in ClientSet /\ post \in PostSet /\ tx \in TxSet
      /\ given \in GivenSet
  BY DEF TypeOK
<1>1. awaiting' \in Nat \cup {NotAwaited}
  BY <1>0 DEF Redeclare, GivenSet
<1>2. tx' \in TxSet
  BY <1>0, <1>1, TxFields DEF Redeclare
<1>3. client' \in ClientSet
  <2>1. Declared(Fresh) \in SyncSet
    BY DeclaredTyped, StartsTyped
  <2>2. client' \in {client, [client EXCEPT !.sync = Declared(Fresh)]}
    BY DEF Redeclare
  <2> QED BY <1>0, <2>1, <2>2 DEF ClientSet
<1>4. given' \in GivenSet
  <2>1. PICK b \in BOOLEAN :
           given' \in {[given EXCEPT !.unmasked = b], [given EXCEPT !.syncs = @ + 1]}
    <3>1. (given.unmasked \/ awaiting # NotAwaited) \in BOOLEAN
      OBVIOUS
    <3> QED BY <3>1 DEF Redeclare
  <2>2. given.syncs + 1 \in Nat
    BY <1>0 DEF GivenSet
  <2> QED BY <1>0, <2>1, <2>2 DEF GivenSet
<1>5. post' \in PostSet
  <2>1. Tail(post.resyncs) \in Seq(Nat)
    BY <1>0, HeadTailProperties DEF Redeclare, PostSet
  <2> QED BY <1>0, <2>1 DEF Redeclare, PostSet
<1>6. pending' \in Completions \cup {NoPending}
  BY UnblockedParts DEF Redeclare, TypeOK
<1> QED BY <1>1, <1>2, <1>3, <1>4, <1>5, <1>6 DEF Redeclare, TypeOK

LEMMA NextTyped == TypeOK /\ [Next]_vars => TypeOK'
<1> SUFFICES ASSUME TypeOK, [Next]_vars PROVE TypeOK'
  OBVIOUS
<1>1. CASE Next
  BY <1>1, CoreStepTyped, FeedStepTyped, CatchUpStepTyped, AskAliveMapTyped,
     WriterStepTyped, AcknowledgeTyped, RedeclareTyped DEF Next
<1>2. CASE UNCHANGED vars
  BY <1>2 DEF vars, TypeOK
<1> QED BY <1>1, <1>2

(* Every variable keeps its type: in particular a download begins at row 1 *)
(* or above whatever the database, and only pages are acknowledged.        *)
THEOREM ReportTypeCorrect == Spec => []TypeOK
<1>1. Init => TypeOK
  BY InitTyped
<1>2. TypeOK /\ [Next]_vars => TypeOK'
  BY NextTyped
<1> QED BY <1>1, <1>2, PTL DEF Spec

-----------------------------------------------------------------------------
(* While a deleted replica waits for its download nothing claims history.  *)

FromZero(d) == d.frontier = 0 /\ d.checkpoint = NoCheckpoint

(* The inductive invariant: the promise holds of the candidate state too,  *)
(* a closed transaction agrees with what is committed, and publication     *)
(* runs with the transaction closed.                                       *)
AwaitInv ==
  /\ tx.awaiting # NotAwaited => FromZero(tx.db)
  /\ awaiting # NotAwaited => FromZero(db)
  /\ ~tx.open => tx.db = db /\ tx.awaiting = awaiting
  /\ post # Nothing => ~tx.open

(* No message applied to a waiting candidate moves its frontier or gives   *)
(* it a checkpoint, unless it ends the wait.                               *)
LEMMA ApplyKeepsFromZero ==
  ASSUME TypeOK, NEW m \in MessageSet, tx.awaiting # NotAwaited => FromZero(tx.db)
  PROVE  ApplyMsg(m).awaiting # NotAwaited => FromZero(ApplyMsg(m).db)
<1>0. tx \in TxSet /\ tx.db \in DbSet
  BY TxFields DEF TypeOK
<1>1. CASE m \in [type : {"Upsert"}, row : Ids, of : Databases]
  <2> DEFINE d == NoteLiveRow(Upserted(tx.db, m.row, m.of, FALSE))
  <2>1. ApplyMsg(m) = [tx EXCEPT !.db = d]
    BY <1>1 DEF ApplyMsg
  <2>2. FromZero(tx.db) => FromZero(d)
    BY <1>0 DEF FromZero, NoteLiveRow, Upserted, DbSet, NoFrontier
  <2> HIDE DEF d
  <2> QED BY <1>0, <2>1, <2>2 DEF TxSet
<1>2. CASE m \in [type : {"Delete"}, row : Ids]
  <2> DEFINE d == Deleted(tx.db, m.row)
  <2>1. ApplyMsg(m) = [tx EXCEPT !.db = d]
    BY <1>2 DEF ApplyMsg
  <2>2. FromZero(tx.db) => FromZero(d)
    BY <1>0 DEF FromZero, Deleted, DbSet
  <2> HIDE DEF d
  <2> QED BY <1>0, <2>1, <2>2 DEF TxSet
<1>3. CASE m \in [type : {"SetDeleted"}, row : Ids, hide : BOOLEAN]
  <2> DEFINE d == SetDeleted(tx.db, m.row, m.hide)
  <2>1. ApplyMsg(m) = [tx EXCEPT !.db = d]
    BY <1>3 DEF ApplyMsg
  <2>2. FromZero(tx.db) => FromZero(d)
    BY <1>0 DEF FromZero, SetDeleted, Upserted, DbSet
  <2> HIDE DEF d
  <2> QED BY <1>0, <2>1, <2>2 DEF TxSet
<1>4. CASE m \in Pages
  <2>0. m.type = "Page"
    BY <1>4 DEF Pages
  <2>1. ApplyMsg(m) = ApplyPage(m)
    BY <2>0 DEF ApplyMsg
  <2> DEFINE acked == [tx EXCEPT !.acks = Append(@, m)]
  <2>2. CASE Superseded(m)
    <3>1. ApplyMsg(m) = acked
      BY <2>1, <2>2 DEF ApplyPage
    <3> QED BY <1>0, <3>1 DEF TxSet
  <2>3. CASE ~Superseded(m)
    <3>1. ApplyPage(m).awaiting = NotAwaited
      <4> DEFINE kept == [acked EXCEPT !.db = AppliedPage(@, m), !.awaiting = NotAwaited]
      <4>1. kept.awaiting = NotAwaited /\ DOMAIN kept = DOMAIN tx
        BY <1>0 DEF TxSet
      <4>2. ApplyPage(m) = IF m.recreated
                           THEN [Publishing(kept, Fresh) EXCEPT !.resyncs = Append(@, m.run)]
                           ELSE Publishing(kept, Resume(m.row + 1))
        BY <2>3 DEF ApplyPage
      <4> HIDE DEF kept
      <4> QED BY <4>1, <4>2 DEF Publishing
    <3> QED BY <2>1, <3>1
  <2> QED BY <2>2, <2>3
<1>5. CASE m \in AliveMaps
  <2>0. m.type = "AliveMap"
    BY <1>5 DEF AliveMaps
  <2>1. CASE tx.awaiting # NotAwaited
    BY <2>0, <2>1 DEF ApplyMsg, ApplyAliveMap
  <2>2. CASE tx.awaiting = NotAwaited
    <3>1. ApplyMsg(m) = Publishing([tx EXCEPT !.db = AppliedMap(@, m)],
                                   Checkpoint([epoch |-> m.epoch, next |-> m.next]))
      BY <2>0, <2>2 DEF ApplyMsg, ApplyAliveMap
    <3>2. ApplyMsg(m).awaiting = tx.awaiting
      BY <1>0, <3>1 DEF Publishing, TxSet
    <3> QED BY <2>2, <3>2
  <2> QED BY <2>1, <2>2
<1>6. CASE m \in [type : {"Recreated"}, run : Nat] \cup [type : {"ForgetCore"}, run : Nat]
  <2>1. ApplyMsg(m) = IF m.type = "Recreated" THEN ApplyRecreated(m) ELSE ApplyForgetCore(m)
    BY <1>6 DEF ApplyMsg
  <2>2. \A d : FromZero(ResetReplica(d))
    BY DEF FromZero, ResetReplica
  <2>3. \A s : "db" \in DOMAIN Publishing(tx, s)
    BY <1>0 DEF Publishing, TxSet
  <2>4. FromZero(ApplyRecreated(m).db)
    BY <2>2, <2>3 DEF ApplyRecreated
  <2>5. FromZero(ApplyForgetCore(m).db)
    BY <2>2, <2>3 DEF ApplyForgetCore
  <2> QED BY <2>1, <2>4, <2>5
<1>7. CASE m \in [type : {"Recheck"}]
  <2>1. ApplyMsg(m) = [tx EXCEPT !.awaiting = NotAwaited]
    BY <1>7 DEF ApplyMsg
  <2> QED BY <1>0, <2>1 DEF TxSet
<1> QED BY <1>1, <1>2, <1>3, <1>4, <1>5, <1>6, <1>7 DEF MessageSet, AliveMaps

LEMMA ClosedFields ==
  ASSUME NEW d, NEW a
  PROVE  ~Closed(d, a).open /\ Closed(d, a).db = d /\ Closed(d, a).awaiting = a
  BY DEF Closed

LEMMA AwaitInit == Init => AwaitInv
  BY ClosedFields DEF Init, AwaitInv

LEMMA AwaitStep ==
  ASSUME TypeOK, AwaitInv, [Next]_vars
  PROVE  AwaitInv'
<1>1. CASE UNCHANGED <<db, tx, post, awaiting>>
  BY <1>1 DEF AwaitInv
<1>2. CASE Apply
  <2>1. Head(chan) \in MessageSet
    BY <1>2, HeadTailProperties DEF Apply, TypeOK
  <2> DEFINE t == ApplyMsg(Head(chan))
  <2>2. t \in TxSet /\ (t.awaiting # NotAwaited => FromZero(t.db))
    BY <2>1, ApplyMsgTyped, ApplyKeepsFromZero DEF AwaitInv
  <2>3. tx' = [t EXCEPT !.open = TRUE] /\ post' = post /\ post = Nothing
        /\ db' = db /\ awaiting' = awaiting
    BY <1>2 DEF Apply
  <2> HIDE DEF t
  <2>4. tx'.open /\ tx'.awaiting = t.awaiting /\ tx'.db = t.db
    BY <2>2, <2>3 DEF TxSet
  <2> QED BY <2>2, <2>3, <2>4 DEF AwaitInv, FromZero
<1>3. CASE Commit
  BY <1>3, ClosedFields DEF Commit, AwaitInv, FromZero
<1>4. CASE PublishState
  <2>1. post # Nothing /\ UNCHANGED <<db, tx, awaiting>>
    BY <1>4 DEF PublishState, Nothing
  <2> QED BY <2>1 DEF AwaitInv, FromZero
<1>5. CASE Acknowledge
  <2>1. post # Nothing /\ UNCHANGED <<db, tx, awaiting>>
    BY <1>5 DEF Acknowledge, Nothing
  <2> QED BY <2>1 DEF AwaitInv, FromZero
<1>6. CASE Redeclare
  <2>1. post # Nothing /\ db' = db
    BY <1>6 DEF Redeclare, Nothing
  <2>2. tx' = [tx EXCEPT !.awaiting = awaiting'] /\ tx \in TxSet
    BY <1>6 DEF Redeclare, TypeOK
  <2>3. tx'.awaiting = awaiting' /\ tx'.db = tx.db /\ tx'.open = tx.open
    BY <2>2 DEF TxSet
  <2>4. awaiting' # NotAwaited => awaiting # NotAwaited
    BY <1>6 DEF Redeclare
  <2> QED BY <2>1, <2>3, <2>4 DEF AwaitInv, FromZero
<1>7. CASE WriterStops
  <2>1. tx' = Closed(db, awaiting) /\ post' = Nothing /\ UNCHANGED <<db, awaiting>>
    BY <1>7 DEF WriterStops
  <2>2. Nothing' = Nothing
    BY DEF Nothing
  <2> QED BY <2>1, <2>2, ClosedFields DEF AwaitInv, FromZero
<1>8. CASE Restart
  BY <1>8, ClosedFields DEF Restart, AwaitInv, FromZero
<1> QED BY <1>1, <1>2, <1>3, <1>4, <1>5, <1>6, <1>7, <1>8
        DEF Next, vars, OpenTrade, Change, Recreate, HideRow, RestoreRow, RetireRow, StartRun,
            StopRun, LinkUp, LinkDown, ServePage, AskAliveMap, AnswerAliveMap, TakeDelete,
            SendDelete

(* Whatever the connection does meanwhile, while the writer waits for the  *)
(* download that replaces a deleted replica the committed database claims  *)
(* none of the history (awaiting_resync, apply_forget_core).               *)
THEOREM AwaitedCorrect == Spec => []AwaitedFromZero
<1>1. Init => AwaitInv
  BY AwaitInit
<1>2. TypeOK /\ AwaitInv /\ [Next]_vars => AwaitInv'
  BY AwaitStep
<1>3. AwaitInv => AwaitedFromZero
  BY DEF AwaitInv, AwaitedFromZero, FromZero
<1> QED BY <1>1, <1>2, <1>3, ReportTypeCorrect, PTL DEF Spec
-----------------------------------------------------------------------------
(* Content and epochs.  The values of a row come from a message that names *)
(* the core's database of its moment.  The channel carries them in order,  *)
(* and a Recheck stands between the values of two databases: the core can  *)
(* be replaced only while the client is away.                              *)

Sourced(m) == m.type \in {"Upsert", "Page"}
RecheckIn(q, k, l) == \E j \in k .. l : q[j].type = "Recheck"

OfOrder ==
  \A k, l \in 1 .. Len(chan) :
    (k < l /\ Sourced(chan[k]) /\ Sourced(chan[l])) =>
      /\ chan[k].of <= chan[l].of
      /\ chan[l].of <= chan[k].of \/ RecheckIn(chan, k, l)

OfCurrent ==
  \A k \in 1 .. Len(chan) : Sourced(chan[k]) =>
    /\ chan[k].of <= core.db
    /\ Online => core.db <= chan[k].of \/ RecheckIn(chan, k, Len(chan))
    /\ client.link = "new" => RecheckIn(chan, k, Len(chan))

(* While the writer waits for the download that replaces a deleted replica *)
(* it holds no row older than the values that come before the next Recheck *)
(* (which ends the wait): a page it skips vouches for the rows all the     *)
(* same.                                                                   *)
AwaitedRows ==
  tx.awaiting # NotAwaited =>
    \A i \in Ids : tx.db.of[i] # 0 =>
      /\ \A l \in 1 .. Len(chan) : Sourced(chan[l]) =>
           chan[l].of <= tx.db.of[i] \/ RecheckIn(chan, 1, l)
      /\ Online => core.db <= tx.db.of[i] \/ RecheckIn(chan, 1, Len(chan))
      /\ client.link = "new" => RecheckIn(chan, 1, Len(chan))

(* Nothing the writer holds, or is still to be told, is older than e. *)
Floor(e, top, of, q) ==
  /\ e <= top
  /\ \A i \in Ids : of[i] # 0 => e <= of[i]
  /\ \A k \in 1 .. Len(q) : Sourced(q[k]) => e <= q[k].of

Vouched(e) == Floor(e, core.db, tx.db.of, chan)

(* Every epoch somebody may build on is vouched for: the start state and   *)
(* the client's position, the awaited alive map, the candidate's           *)
(* checkpoint, what the writer is to publish and to acknowledge, and what  *)
(* the channel brings.                                                     *)
PositionClaims ==
  /\ Vouched(starts.epoch)
  /\ Vouched(client.sync.epoch)
  /\ Vouched(pending.epoch)
  /\ Vouched(tx.db.checkpoint.epoch)

WriterClaims ==
  /\ \A k \in 1 .. Len(tx.states) : Vouched(tx.states[k].epoch)
  /\ \A k \in 1 .. Len(post.states) : Vouched(post.states[k].epoch)
  /\ \A k \in 1 .. Len(tx.acks) : Vouched(tx.acks[k].of)
  /\ \A k \in 1 .. Len(post.acks) : Vouched(post.acks[k].of)

ChannelClaims ==
  \A k \in 1 .. Len(chan) :
    /\ chan[k].type = "AliveMap" => Vouched(chan[k].epoch)
    /\ chan[k].type = "Page" /\ ~chan[k].recreated => Vouched(chan[k].of)

Claims == PositionClaims /\ WriterClaims /\ ChannelClaims

(* What is committed is no older than its own checkpoint. *)
Holds(d, top) ==
  /\ d.checkpoint.epoch <= top
  /\ \A i \in Ids : d.of[i] # 0 => d.checkpoint.epoch <= d.of[i]

OrderInv == OfOrder /\ OfCurrent /\ AwaitedRows

ContentInv ==
  /\ writer = "up" => OrderInv
  /\ writer = "up" /\ ~given.blind => Claims
  /\ ~given.blind => Holds(db, core.db)

-----------------------------------------------------------------------------
(* The channel. *)

LEMMA ChanTyped ==
  ASSUME TypeOK
  PROVE  /\ chan \in Seq(MessageSet) /\ Len(chan) \in Nat
         /\ \A k \in 1 .. Len(chan) : chan[k] \in MessageSet
<1>1. chan \in Seq(MessageSet)
  BY DEF TypeOK
<1> QED BY <1>1, ElementOfSeq, LenProperties

LEMMA SourcedTyped ==
  ASSUME NEW m \in MessageSet, Sourced(m)
  PROVE  m.of \in Nat /\ m.of # 0 /\ m.row \in Ids \cup {0}
  BY DEF Sourced, MessageSet, Pages, Databases

LEMMA MessageFields ==
  ASSUME NEW m \in MessageSet
  PROVE  /\ m.type = "Page" <=> m \in Pages
         /\ m.type = "AliveMap" <=> m \in AliveMaps
         /\ m.type = "Upsert" <=> m \in [type : {"Upsert"}, row : Ids, of : Databases]
  BY DEF MessageSet, Pages, AliveMaps

LEMMA AppendedMsg ==
  ASSUME TypeOK, NEW m \in MessageSet, chan' = Append(chan, m)
  PROVE  /\ Len(chan') = Len(chan) + 1 /\ Len(chan) \in Nat
         /\ \A k \in 1 .. Len(chan) : chan'[k] = chan[k]
         /\ chan'[Len(chan) + 1] = m
         /\ \A k \in 1 .. Len(chan') : k \in 1 .. Len(chan) \/ k = Len(chan) + 1
<1>1. chan \in Seq(MessageSet) /\ Len(chan) \in Nat
  BY ChanTyped
<1>2. /\ Len(chan') = Len(chan) + 1
      /\ \A k \in 1 .. Len(chan) : chan'[k] = chan[k]
      /\ chan'[Len(chan) + 1] = m
  BY <1>1, AppendProperties
<1> QED BY <1>1, <1>2

LEMMA RecheckAppended ==
  ASSUME TypeOK, NEW m \in MessageSet, chan' = Append(chan, m)
  PROVE  /\ \A k \in Nat : \A l \in 1 .. Len(chan) : 1 <= k /\ RecheckIn(chan, k, l) =>
              RecheckIn(chan', k, l) /\ RecheckIn(chan', k, Len(chan'))
         /\ \A k \in 1 .. Len(chan') : m.type = "Recheck" => RecheckIn(chan', k, Len(chan'))
<1> DEFINE n == Len(chan)
<1>1. /\ Len(chan') = n + 1 /\ n \in Nat
      /\ \A k \in 1 .. n : chan'[k] = chan[k]
      /\ chan'[n + 1] = m
  BY AppendedMsg
<1> HIDE DEF n
<1>2. ASSUME NEW k \in Nat, NEW l \in 1 .. n, 1 <= k, RecheckIn(chan, k, l)
      PROVE  RecheckIn(chan', k, l) /\ RecheckIn(chan', k, Len(chan'))
  <2>1. PICK j \in k .. l : chan[j].type = "Recheck"
    BY <1>2 DEF RecheckIn
  <2>2. j \in 1 .. n /\ j \in k .. Len(chan')
    BY <1>1, <1>2, <2>1
  <2> QED BY <1>1, <2>1, <2>2 DEF RecheckIn
<1>3. ASSUME NEW k \in 1 .. Len(chan'), m.type = "Recheck"
      PROVE  RecheckIn(chan', k, Len(chan'))
  <2>1. n + 1 \in k .. Len(chan')
    BY <1>1
  <2> QED BY <1>1, <1>3, <2>1 DEF RecheckIn
<1> QED BY <1>2, <1>3 DEF n

LEMMA HeadTail ==
  ASSUME TypeOK, chan # <<>>
  PROVE  /\ Head(chan) = chan[1] /\ 1 \in 1 .. Len(chan)
         /\ Len(Tail(chan)) = Len(chan) - 1 /\ Len(chan) \in Nat
         /\ \A k \in 1 .. Len(Tail(chan)) :
              k + 1 \in 1 .. Len(chan) /\ Tail(chan)[k] = chan[k + 1]
<1>1. chan \in Seq(MessageSet) /\ Len(chan) \in Nat
  BY ChanTyped
<1>2. Head(chan) = chan[1] /\ Len(chan) \in Nat \ {0}
  BY <1>1, TailIsSuffix
<1>3. /\ Len(Tail(chan)) = Len(chan) - 1
      /\ \A k \in 1 .. Len(Tail(chan)) : Tail(chan)[k] = chan[k + 1]
  BY <1>1, HeadTailProperties
<1>4. \A k \in 1 .. Len(Tail(chan)) : k + 1 \in 1 .. Len(chan)
  BY <1>1, <1>3
<1> QED BY <1>2, <1>3, <1>4

(* A Recheck that is not the head stays ahead. *)
LEMMA RecheckTail ==
  ASSUME TypeOK, chan # <<>>, NEW l \in 0 .. Len(Tail(chan))
  PROVE  /\ \A k \in 1 .. Len(Tail(chan)) :
              RecheckIn(chan, k + 1, l + 1) => RecheckIn(Tail(chan), k, l)
         /\ chan[1].type # "Recheck" /\ RecheckIn(chan, 1, l + 1) => RecheckIn(Tail(chan), 1, l)
<1> DEFINE q == Tail(chan)
<1>1. Len(q) = Len(chan) - 1 /\ Len(chan) \in Nat
      /\ \A j \in 1 .. Len(q) : q[j] = chan[j + 1]
  BY HeadTail
<1> HIDE DEF q
<1>2. ASSUME NEW k \in 1 .. l, NEW j \in (k + 1) .. (l + 1), chan[j].type = "Recheck"
      PROVE  RecheckIn(q, k, l)
  <2>1. j - 1 \in k .. l /\ j - 1 \in 1 .. Len(q) /\ (j - 1) + 1 = j
    BY <1>1 DEF q
  <2> QED BY <1>1, <1>2, <2>1 DEF RecheckIn
<1>3. ASSUME NEW k \in 1 .. Len(q), RecheckIn(chan, k + 1, l + 1)
      PROVE  RecheckIn(q, k, l)
  <2>1. PICK j \in (k + 1) .. (l + 1) : chan[j].type = "Recheck"
    BY <1>3 DEF RecheckIn
  <2>2. k \in 1 .. l
    BY <1>1, <2>1 DEF q
  <2> QED BY <1>2, <2>1, <2>2
<1>4. ASSUME chan[1].type # "Recheck", RecheckIn(chan, 1, l + 1)
      PROVE  RecheckIn(q, 1, l)
  <2>1. PICK j \in 1 .. (l + 1) : chan[j].type = "Recheck"
    BY <1>4 DEF RecheckIn
  <2>2. j \in (1 + 1) .. (l + 1) /\ 1 \in 1 .. l
    BY <1>1, <1>4, <2>1 DEF q
  <2> QED BY <1>2, <2>1, <2>2
<1> QED BY <1>3, <1>4 DEF q
-----------------------------------------------------------------------------
(* The core, the client and the feed: the channel keeps its order, and     *)
(* whatever is vouched for stays so.                                       *)

CoreGrows == core.db <= core'.db

FloorsKept ==
  \A e \in Nat : Floor(e, core.db, tx.db.of, chan) => Floor(e, core'.db, tx'.db.of, chan')

LEMMA CoreDbTyped ==
  ASSUME TypeOK
  PROVE  core.db \in Nat /\ core.db # 0
  BY DEF TypeOK, CoreSet, Databases

LEMMA CoreDbNext ==
  ASSUME TypeOK'
  PROVE  core'.db \in Nat /\ core'.db # 0
  BY DEF TypeOK, CoreSet, Databases

LEMMA OrderKept ==
  ASSUME TypeOK, TypeOK', OrderInv, UNCHANGED <<chan, tx>>, CoreGrows,
         client'.link = "up" => core'.db = core.db /\ client.link \in {"up", "new"},
         client'.link = "new" => client.link = "new"
  PROVE  OrderInv'
<1>1. OfOrder'
  BY DEF OrderInv, OfOrder
<1>2. OfCurrent'
  <2> SUFFICES ASSUME NEW k \in 1 .. Len(chan), Sourced(chan[k])
               PROVE  /\ chan[k].of <= core'.db
                      /\ client'.link = "up" =>
                           core'.db <= chan[k].of \/ RecheckIn(chan, k, Len(chan))
                      /\ client'.link = "new" => RecheckIn(chan, k, Len(chan))
    BY DEF OfCurrent, Online
  <2>1. chan[k].of \in Nat
    BY ChanTyped, SourcedTyped
  <2>2. chan[k].of <= core.db
    BY DEF OrderInv, OfCurrent
  <2>3. chan[k].of <= core'.db
    BY <2>1, <2>2, CoreDbTyped, CoreDbNext DEF CoreGrows
  <2> QED BY <2>3 DEF OrderInv, OfCurrent, Online
<1>3. AwaitedRows'
  BY DEF OrderInv, AwaitedRows, Online
<1> QED BY <1>1, <1>2, <1>3 DEF OrderInv

LEMMA OrderSent ==
  ASSUME TypeOK, OrderInv, NEW m \in MessageSet, chan' = Append(chan, m), UNCHANGED tx,
         core'.db = core.db,
         Sourced(m) => Online /\ m.of = core.db,
         client'.link = "up" => Online \/ m.type = "Recheck",
         client'.link = "new" => client.link = "new" \/ m.type = "Recheck",
         Sourced(m) => client'.link # "new"
  PROVE  OrderInv'
<1> DEFINE n == Len(chan)
<1>1. /\ Len(chan') = n + 1 /\ n \in Nat
      /\ \A k \in 1 .. n : chan'[k] = chan[k]
      /\ chan'[n + 1] = m
      /\ \A k \in 1 .. Len(chan') : k \in 1 .. n \/ k = n + 1
  BY AppendedMsg
<1>2. /\ \A k \in Nat : \A l \in 1 .. n : 1 <= k /\ RecheckIn(chan, k, l) =>
           RecheckIn(chan', k, l) /\ RecheckIn(chan', k, Len(chan'))
      /\ \A k \in 1 .. Len(chan') : m.type = "Recheck" => RecheckIn(chan', k, Len(chan'))
  BY RecheckAppended
<1>3. core.db \in Nat /\ \A k \in 1 .. n : Sourced(chan[k]) => chan[k].of \in Nat
  BY ChanTyped, SourcedTyped, CoreDbTyped
<1> HIDE DEF n
<1>4. \A k \in 1 .. n : k \in Nat /\ 1 <= k /\ n \in 1 .. n /\ k \in 1 .. Len(chan')
  BY <1>1
<1>5. OfOrder'
  <2> SUFFICES ASSUME NEW k \in 1 .. Len(chan'), NEW l \in 1 .. Len(chan'), k < l,
                      Sourced(chan'[k]), Sourced(chan'[l])
               PROVE  /\ chan'[k].of <= chan'[l].of
                      /\ chan'[l].of <= chan'[k].of \/ RecheckIn(chan', k, l)
    BY DEF OfOrder
  <2>1. k \in 1 .. n /\ k \in Nat /\ 1 <= k /\ n \in 1 .. n
    BY <1>1
  <2>2. CASE l \in 1 .. n
    BY <1>1, <1>2, <2>1, <2>2 DEF OrderInv, OfOrder, n
  <2>3. CASE l = n + 1
    <3>1. Online /\ chan'[l].of = core.db /\ l = Len(chan')
      BY <1>1, <2>3
    <3>2. chan[k].of <= core.db /\ (core.db <= chan[k].of \/ RecheckIn(chan, k, n))
      BY <1>1, <2>1, <3>1 DEF OrderInv, OfCurrent, n
    <3> QED BY <1>1, <1>2, <2>1, <3>1, <3>2
  <2> QED BY <1>1, <2>2, <2>3
<1>6. OfCurrent'
  <2> SUFFICES ASSUME NEW k \in 1 .. Len(chan'), Sourced(chan'[k])
               PROVE  /\ chan'[k].of <= core'.db
                      /\ client'.link = "up" =>
                           core'.db <= chan'[k].of \/ RecheckIn(chan', k, Len(chan'))
                      /\ client'.link = "new" => RecheckIn(chan', k, Len(chan'))
    BY DEF OfCurrent, Online
  <2>1. CASE k \in 1 .. n
    <3>1. /\ chan[k].of <= core.db
          /\ Online => core.db <= chan[k].of \/ RecheckIn(chan, k, n)
          /\ client.link = "new" => RecheckIn(chan, k, n)
      BY <1>1, <2>1 DEF OrderInv, OfCurrent, n
    <3> QED BY <1>1, <1>2, <1>4, <2>1, <3>1
  <2>2. CASE k = n + 1
    <3>1. chan'[k].of = core.db /\ client'.link # "new"
      BY <1>1, <2>2
    <3> QED BY <1>3, <3>1
  <2> QED BY <1>1, <2>1, <2>2
<1>7. AwaitedRows'
  <2> SUFFICES ASSUME tx.awaiting # NotAwaited, NEW i \in Ids, tx.db.of[i] # 0
               PROVE  /\ \A l \in 1 .. Len(chan') : Sourced(chan'[l]) =>
                           chan'[l].of <= tx.db.of[i] \/ RecheckIn(chan', 1, l)
                      /\ client'.link = "up" =>
                           core'.db <= tx.db.of[i] \/ RecheckIn(chan', 1, Len(chan'))
                      /\ client'.link = "new" => RecheckIn(chan', 1, Len(chan'))
    BY DEF AwaitedRows, Online
  <2>1. /\ \A l \in 1 .. n : Sourced(chan[l]) =>
             chan[l].of <= tx.db.of[i] \/ RecheckIn(chan, 1, l)
        /\ Online => core.db <= tx.db.of[i] \/ RecheckIn(chan, 1, n)
        /\ client.link = "new" => RecheckIn(chan, 1, n)
    BY DEF OrderInv, AwaitedRows, n
  <2>2. RecheckIn(chan, 1, n) => RecheckIn(chan', 1, Len(chan'))
    <3>1. ASSUME RecheckIn(chan, 1, n) PROVE n \in 1 .. n
      BY <1>1, <3>1 DEF RecheckIn
    <3> QED BY <1>2, <3>1
  <2>3. m.type = "Recheck" => RecheckIn(chan', 1, Len(chan'))
    <3>1. 1 \in 1 .. Len(chan')
      BY <1>1
    <3> QED BY <1>2, <3>1
  <2>4. ASSUME NEW l \in 1 .. Len(chan'), Sourced(chan'[l])
        PROVE  chan'[l].of <= tx.db.of[i] \/ RecheckIn(chan', 1, l)
    <3>1. CASE l \in 1 .. n
      BY <1>1, <1>2, <2>1, <2>4, <3>1
    <3>2. CASE l = n + 1
      BY <1>1, <2>1, <2>2, <2>4, <3>2
    <3> QED BY <1>1, <3>1, <3>2
  <2> QED BY <2>1, <2>2, <2>3, <2>4
<1> QED BY <1>5, <1>6, <1>7 DEF OrderInv

LEMMA FloorsUntouched ==
  ASSUME TypeOK, TypeOK', CoreGrows, UNCHANGED chan, tx'.db.of = tx.db.of
  PROVE  FloorsKept
<1>1. core.db \in Nat /\ core'.db \in Nat /\ core.db <= core'.db
  BY CoreDbTyped, CoreDbNext DEF CoreGrows
<1> QED BY <1>1 DEF FloorsKept, Floor

LEMMA FloorsSent ==
  ASSUME TypeOK, NEW m \in MessageSet, chan' = Append(chan, m), UNCHANGED tx,
         core'.db = core.db, Sourced(m) => m.of = core.db
  PROVE  FloorsKept
<1> SUFFICES ASSUME NEW e \in Nat, Floor(e, core.db, tx.db.of, chan)
             PROVE  \A k \in 1 .. Len(chan') : Sourced(chan'[k]) => e <= chan'[k].of
  BY DEF FloorsKept, Floor
<1>1. TAKE k \in 1 .. Len(chan')
<1>2. HAVE Sourced(chan'[k])
<1>3. CASE k \in 1 .. Len(chan)
  BY <1>2, <1>3, AppendedMsg DEF Floor
<1>4. CASE k = Len(chan) + 1
  BY <1>2, <1>4, AppendedMsg DEF Floor
<1> QED BY <1>3, <1>4, AppendedMsg

(* 0 is no epoch: the start of a fresh replica, no checkpoint, no map. *)
LEMMA FloorOfNothing ==
  ASSUME TypeOK, OfCurrent
  PROVE  Vouched(0)
<1>1. \A i \in Ids : 0 <= tx.db.of[i]
  BY DEF TypeOK, TxSet, DbSet
<1>2. \A k \in 1 .. Len(chan) : Sourced(chan[k]) => 0 <= chan[k].of
  BY ChanTyped, SourcedTyped
<1> QED BY <1>1, <1>2, CoreDbTyped DEF Vouched, Floor

LEMMA EpochsTyped ==
  ASSUME TypeOK
  PROVE  /\ starts.epoch \in Nat /\ client.sync.epoch \in Nat /\ pending.epoch \in Nat
         /\ tx.db.checkpoint.epoch \in Nat /\ db.checkpoint.epoch \in Nat
         /\ \A k \in 1 .. Len(tx.states) : tx.states[k].epoch \in Nat
         /\ \A k \in 1 .. Len(post.states) : post.states[k].epoch \in Nat
         /\ \A k \in 1 .. Len(tx.acks) : tx.acks[k] \in Pages /\ tx.acks[k].of \in Nat
         /\ \A k \in 1 .. Len(post.acks) : post.acks[k] \in Pages /\ post.acks[k].of \in Nat
         /\ \A k \in 1 .. Len(chan) :
              /\ chan[k].type = "AliveMap" => chan[k].epoch \in Nat
              /\ chan[k].type = "Page" => chan[k].of \in Nat
<1>1. starts.epoch \in Nat /\ client.sync.epoch \in Nat /\ pending.epoch \in Nat
  BY DEF TypeOK, StartSet, ClientSet, SyncSet, Completions, NoPending, Databases
<1>2. tx.db.checkpoint.epoch \in Nat /\ db.checkpoint.epoch \in Nat
  BY DEF TypeOK, TxSet, DbSet, CheckpointSet, NoCheckpoint, Databases
<1>3. /\ tx.states \in Seq(StartSet) /\ post.states \in Seq(StartSet)
      /\ tx.acks \in Seq(Pages) /\ post.acks \in Seq(Pages)
  BY DEF TypeOK, TxSet, PostSet
<1>4. /\ \A k \in 1 .. Len(tx.states) : tx.states[k] \in StartSet
      /\ \A k \in 1 .. Len(post.states) : post.states[k] \in StartSet
      /\ \A k \in 1 .. Len(tx.acks) : tx.acks[k] \in Pages
      /\ \A k \in 1 .. Len(post.acks) : post.acks[k] \in Pages
  BY <1>3, ElementOfSeq
<1>5. (\A s \in StartSet : s.epoch \in Nat) /\ (\A m \in Pages : m.of \in Nat)
  BY DEF StartSet, Pages, Databases
<1>6. (\A m \in AliveMaps : m.epoch \in Nat)
  BY DEF AliveMaps, Databases
<1>7. \A k \in 1 .. Len(chan) :
        /\ chan[k].type = "AliveMap" => chan[k].epoch \in Nat
        /\ chan[k].type = "Page" => chan[k].of \in Nat
  BY <1>5, <1>6, ChanTyped, MessageFields
<1> QED BY <1>1, <1>2, <1>4, <1>5, <1>7
(* A step of the core, the client or the feed takes its epochs from those  *)
(* that are vouched for, or none.                                          *)
LEMMA ClaimsCarried ==
  ASSUME TypeOK, TypeOK', OfCurrent, Claims, FloorsKept, UNCHANGED <<starts, tx, post>>,
         client'.sync.epoch \in {0, client.sync.epoch, starts.epoch},
         pending'.epoch \in {0, pending.epoch},
         NEW m \in MessageSet, chan' = chan \/ chan' = Append(chan, m),
         m.type = "AliveMap" => Vouched(m.epoch),
         m.type = "Page" /\ ~m.recreated => Vouched(m.of)
  PROVE  Claims'
<1>1. Vouched(0)
  BY FloorOfNothing
<1>2. \A e \in Nat : Vouched(e) => Floor(e, core'.db, tx'.db.of, chan')
  BY DEF FloorsKept, Vouched
<1>3. PositionClaims'
  <2>1. /\ starts.epoch \in Nat /\ client.sync.epoch \in Nat /\ pending.epoch \in Nat
        /\ tx.db.checkpoint.epoch \in Nat
    BY EpochsTyped
  <2>2. /\ Vouched(starts.epoch) /\ Vouched(client.sync.epoch) /\ Vouched(pending.epoch)
        /\ Vouched(tx.db.checkpoint.epoch)
    BY DEF Claims, PositionClaims
  <2>3. /\ Floor(starts'.epoch, core'.db, tx'.db.of, chan')
        /\ Floor(tx'.db.checkpoint.epoch, core'.db, tx'.db.of, chan')
    BY <1>2, <2>1, <2>2
  <2>4. Floor(client'.sync.epoch, core'.db, tx'.db.of, chan')
    BY <1>1, <1>2, <2>1, <2>2
  <2>5. Floor(pending'.epoch, core'.db, tx'.db.of, chan')
    BY <1>1, <1>2, <2>1, <2>2
  <2> QED BY <2>3, <2>4, <2>5 DEF PositionClaims, Vouched
<1>4. WriterClaims'
  <2>1. /\ \A k \in 1 .. Len(tx.states) :
             Floor(tx.states[k].epoch, core'.db, tx'.db.of, chan')
        /\ \A k \in 1 .. Len(post.states) :
             Floor(post.states[k].epoch, core'.db, tx'.db.of, chan')
    BY <1>2, EpochsTyped DEF Claims, WriterClaims
  <2>2. /\ \A k \in 1 .. Len(tx.acks) : Floor(tx.acks[k].of, core'.db, tx'.db.of, chan')
        /\ \A k \in 1 .. Len(post.acks) : Floor(post.acks[k].of, core'.db, tx'.db.of, chan')
    BY <1>2, EpochsTyped DEF Claims, WriterClaims
  <2> QED BY <2>1, <2>2 DEF WriterClaims, Vouched
<1>5. ChannelClaims'
  <2>1. \A k \in 1 .. Len(chan) :
          /\ chan[k].type = "AliveMap" =>
               Floor(chan[k].epoch, core'.db, tx'.db.of, chan')
          /\ chan[k].type = "Page" /\ ~chan[k].recreated =>
               Floor(chan[k].of, core'.db, tx'.db.of, chan')
    BY <1>2, EpochsTyped DEF Claims, ChannelClaims
  <2>2. CASE chan' = chan
    BY <2>1, <2>2 DEF ChannelClaims, Vouched
  <2>3. CASE chan' = Append(chan, m)
    <3>1. /\ m.type = "AliveMap" => Floor(m.epoch, core'.db, tx'.db.of, chan')
          /\ m.type = "Page" /\ ~m.recreated => Floor(m.of, core'.db, tx'.db.of, chan')
      <4>1. /\ m.type = "AliveMap" => m.epoch \in Nat
            /\ m.type = "Page" => m.of \in Nat
        BY MessageFields DEF AliveMaps, Pages, Databases
      <4> QED BY <1>2, <4>1
    <3>2. ASSUME NEW k \in 1 .. Len(chan')
          PROVE  /\ chan'[k].type = "AliveMap" =>
                      Floor(chan'[k].epoch, core'.db, tx'.db.of, chan')
                 /\ chan'[k].type = "Page" /\ ~chan'[k].recreated =>
                      Floor(chan'[k].of, core'.db, tx'.db.of, chan')
      <4>1. \/ k \in 1 .. Len(chan) /\ chan'[k] = chan[k]
            \/ chan'[k] = m
        BY <2>3, AppendedMsg
      <4> QED BY <2>1, <3>1, <4>1
    <3> QED BY <3>2 DEF ChannelClaims, Vouched
  <2> QED BY <2>2, <2>3
<1> QED BY <1>3, <1>4, <1>5 DEF Claims

LEMMA HoldsKept ==
  ASSUME TypeOK, TypeOK', CoreGrows, UNCHANGED db, Holds(db, core.db)
  PROVE  Holds(db', core'.db)
<1>1. core.db \in Nat /\ core'.db \in Nat /\ db.checkpoint.epoch \in Nat
      /\ core.db <= core'.db
  BY CoreDbTyped, CoreDbNext, EpochsTyped DEF CoreGrows
<1> QED BY <1>1 DEF Holds

(* Only a page, and only one of a database the terminal cannot identify,   *)
(* is sent without the epoch of its download.                              *)
LEMMA ServedVouched ==
  ASSUME TypeOK, OfCurrent, Claims, client.sync.epoch = 0 => ~Unverifiable(client.sync),
         ~SeenRecreated(client.sync)
  PROVE  Vouched(core.db)
<1>1. CASE client.sync.epoch # 0
  <2>1. client.sync.epoch = core.db
    BY <1>1 DEF SeenRecreated
  <2> QED BY <2>1 DEF Claims, PositionClaims
<1>2. CASE client.sync.epoch = 0 /\ core.db > 1
  <2>1. /\ \A i \in Ids : tx.db.of[i] \in {0, core.db}
        /\ \A k \in DOMAIN chan : Sourced(chan[k]) => chan[k].of = core.db
    BY <1>2 DEF Unverifiable, Sourced
  <2>2. DOMAIN chan = 1 .. Len(chan)
    BY ChanTyped, LenProperties
  <2>3. core.db \in Nat
    BY CoreDbTyped
  <2> QED BY <2>1, <2>2, <2>3 DEF Vouched, Floor
<1>3. CASE client.sync.epoch = 0 /\ ~(core.db > 1)
  <2>1. core.db = 1
    BY <1>3, CoreDbTyped
  <2>2. \A i \in Ids : tx.db.of[i] \in Nat
    BY DEF TypeOK, TxSet, DbSet
  <2>3. \A i \in Ids : tx.db.of[i] # 0 => 1 <= tx.db.of[i]
    BY <2>2
  <2>4. \A k \in 1 .. Len(chan) : Sourced(chan[k]) => chan[k].of \in Nat /\ chan[k].of # 0
    BY ChanTyped, SourcedTyped
  <2>5. \A k \in 1 .. Len(chan) : Sourced(chan[k]) => 1 <= chan[k].of
    BY <2>4
  <2> QED BY <2>1, <2>3, <2>5 DEF Vouched, Floor
<1> QED BY <1>1, <1>2, <1>3
Around == UNCHANGED <<db, tx, post, starts, writer>>

(* The channel is left alone. *)
LEMMA QuietStep ==
  ASSUME TypeOK, TypeOK', ContentInv, Around, UNCHANGED chan, CoreGrows,
         given'.blind = given.blind,
         client'.link = "up" => core'.db = core.db /\ client.link \in {"up", "new"},
         client'.link = "new" => client.link = "new",
         client'.sync.epoch \in {0, client.sync.epoch, starts.epoch},
         pending'.epoch \in {0, pending.epoch}
  PROVE  ContentInv'
<1>1. UNCHANGED <<db, tx, post, starts, writer>>
  BY DEF Around
<1>2. ASSUME writer = "up" PROVE OrderInv'
  BY <1>1, <1>2, OrderKept DEF ContentInv
<1>3. ASSUME writer = "up", ~given.blind PROVE Claims'
  <2>1. FloorsKept
    BY <1>1, FloorsUntouched
  <2>2. OfCurrent /\ Claims
    BY <1>3 DEF ContentInv, OrderInv
  <2>3. [type |-> "Recheck"] \in MessageSet
    BY DEF MessageSet
  <2> DEFINE m == [type |-> "Recheck"]
  <2>4. m.type = "Recheck" /\ m \in MessageSet
    BY <2>3
  <2> HIDE DEF m
  <2> QED BY <1>1, <2>1, <2>2, <2>4, ClaimsCarried
<1>4. ASSUME ~given.blind PROVE Holds(db', core'.db)
  BY <1>1, <1>4, HoldsKept DEF ContentInv
<1> QED BY <1>1, <1>2, <1>3, <1>4 DEF ContentInv

(* A message is sent. *)
LEMMA SentStep ==
  ASSUME TypeOK, TypeOK', ContentInv, Around, NEW m \in MessageSet, Send(m),
         UNCHANGED core, ~given'.blind => ~given.blind,
         Sourced(m) => Online /\ m.of = core.db,
         client'.link = "up" => Online \/ m.type = "Recheck",
         client'.link = "new" => client.link = "new" \/ m.type = "Recheck",
         Sourced(m) => client'.link # "new",
         client'.sync.epoch \in {0, client.sync.epoch, starts.epoch},
         pending'.epoch \in {0, pending.epoch},
         writer = "up" /\ ~given'.blind =>
           /\ m.type = "AliveMap" => Vouched(m.epoch)
           /\ m.type = "Page" /\ ~m.recreated => Vouched(m.of)
  PROVE  ContentInv'
<1>1. UNCHANGED <<db, tx, post, starts, writer>> /\ core'.db = core.db
  BY DEF Around
<1>2. writer = "up" => chan' = Append(chan, m)
  BY DEF Send
<1>3. ASSUME writer = "up" PROVE OrderInv'
  BY <1>1, <1>2, <1>3, OrderSent DEF ContentInv
<1>4. ASSUME writer = "up", ~given'.blind PROVE Claims'
  <2>1. FloorsKept
    BY <1>1, <1>2, <1>4, FloorsSent
  <2>2. OfCurrent /\ Claims
    BY <1>4 DEF ContentInv, OrderInv
  <2> QED BY <1>1, <1>2, <1>4, <2>1, <2>2, ClaimsCarried
<1>5. ASSUME ~given'.blind PROVE Holds(db', core'.db)
  <2>1. CoreGrows
    BY <1>1, CoreDbTyped DEF CoreGrows
  <2> QED BY <1>1, <1>5, <2>1, HoldsKept DEF ContentInv
<1> QED BY <1>1, <1>3, <1>4, <1>5 DEF ContentInv

(* A change is made in the core and sent, if the client hears it. *)
LEMMA BroadcastStep ==
  ASSUME TypeOK, TypeOK', ContentInv, Around, UNCHANGED <<client, pending, given>>,
         core'.db = core.db, NEW m \in MessageSet, Broadcast(m),
         Sourced(m) => m.of = core.db, m.type \notin {"AliveMap", "Page"}
  PROVE  ContentInv'
<1>1. CoreGrows
  BY CoreDbTyped DEF CoreGrows
<1>2. CASE chan' = chan
  BY <1>1, <1>2, QuietStep DEF Online, Broadcast
<1>3. CASE Online /\ writer = "up" /\ chan' = Append(chan, m)
  <2>1. UNCHANGED <<db, tx, post, starts, writer>>
    BY DEF Around
  <2>2. OrderInv'
    BY <1>3, <2>1, OrderSent DEF ContentInv, Online
  <2>3. ASSUME ~given.blind PROVE Claims'
    <3>1. FloorsKept
      BY <1>3, <2>1, FloorsSent
    <3>2. OfCurrent /\ Claims
      BY <1>3, <2>3 DEF ContentInv, OrderInv
    <3> QED BY <1>3, <2>1, <3>1, <3>2, ClaimsCarried
  <2>4. ASSUME ~given.blind PROVE Holds(db', core'.db)
    BY <1>1, <2>1, <2>4, HoldsKept DEF ContentInv
  <2> QED BY <1>3, <2>1, <2>2, <2>3, <2>4 DEF ContentInv
<1> QED BY <1>2, <1>3 DEF Broadcast, Send

LEMMA CoreContent ==
  ASSUME TypeOK, TypeOK', ContentInv,
         \/ OpenTrade \/ Recreate
         \/ \E i \in Ids : HideRow(i) \/ RestoreRow(i) \/ RetireRow(i)
  PROVE  ContentInv'
<1>0. core \in CoreSet /\ core.db \in Databases
  BY DEF TypeOK, CoreSet
<1>1. CASE OpenTrade
  <2> DEFINE m == [type |-> "Upsert", row |-> core.top + 1, of |-> core.db]
  <2>1. Broadcast(m) /\ Around /\ UNCHANGED <<client, pending, given>>
    BY <1>1 DEF OpenTrade, Change, Around
  <2>2. core'.db = core.db
    BY <1>0, <1>1 DEF OpenTrade, CoreSet
  <2>3. m \in MessageSet /\ m.of = core.db /\ m.type = "Upsert"
    BY <1>0, <1>1 DEF OpenTrade, MessageSet
  <2> HIDE DEF m
  <2> QED BY <2>1, <2>2, <2>3, BroadcastStep
<1>2. CASE Recreate
  <2>1. /\ Around /\ UNCHANGED <<client, pending, given, chan>>
        /\ client.link # "up" /\ core'.db = core.db + 1
    BY <1>2 DEF Recreate, Online, Around
  <2>2. CoreGrows
    BY <2>1, CoreDbTyped DEF CoreGrows
  <2> QED BY <2>1, <2>2, QuietStep
<1>3. ASSUME NEW i \in Ids, HideRow(i) \/ RestoreRow(i)
      PROVE  ContentInv'
  <2>1. PICK hide \in BOOLEAN :
          Broadcast([type |-> "SetDeleted", row |-> i, hide |-> hide])
    BY <1>3 DEF HideRow, RestoreRow
  <2> DEFINE m == [type |-> "SetDeleted", row |-> i, hide |-> hide]
  <2>2. Around /\ UNCHANGED <<client, pending, given>> /\ core'.db = core.db
    BY <1>0, <1>3 DEF HideRow, RestoreRow, Change, Around, CoreSet
  <2>3. m \in MessageSet /\ m.type = "SetDeleted"
    BY DEF MessageSet
  <2>4. Broadcast(m)
    BY <2>1
  <2> HIDE DEF m
  <2> QED BY <2>2, <2>3, <2>4, BroadcastStep DEF Sourced
<1>4. ASSUME NEW i \in Ids, RetireRow(i)
      PROVE  ContentInv'
  <2> DEFINE m == [type |-> "Delete", row |-> i]
  <2>2. Broadcast(m) /\ Around /\ UNCHANGED <<client, pending, given>> /\ core'.db = core.db
    BY <1>0, <1>4 DEF RetireRow, Change, Around, CoreSet
  <2>3. m \in MessageSet /\ m.type = "Delete"
    BY DEF MessageSet
  <2> HIDE DEF m
  <2> QED BY <2>2, <2>3, BroadcastStep DEF Sourced
<1> QED BY <1>1, <1>2, <1>3, <1>4

LEMMA FeedContent ==
  ASSUME TypeOK, TypeOK', ContentInv,
         StartRun \/ StopRun \/ LinkUp \/ LinkDown \/ TakeDelete \/ SendDelete
  PROVE  ContentInv'
<1>0. client \in ClientSet /\ (core' = core => CoreGrows)
  BY CoreDbTyped DEF TypeOK, CoreGrows
<1> DEFINE recheck == [type |-> "Recheck"]
<1>1. recheck \in MessageSet /\ recheck.type = "Recheck" /\ ~Sourced(recheck)
  BY DEF MessageSet, Sourced
<1> HIDE DEF recheck
<1>2. CASE StartRun
  <2>1. /\ Send(recheck) /\ Around /\ UNCHANGED <<core, pending>>
        /\ client'.link = "new" /\ client'.sync = Declared(starts)
    BY <1>2 DEF StartRun, Around, recheck
  <2>2. client'.sync.epoch = starts.epoch
    BY <2>1 DEF Declared
  <2>3. given'.blind = given.blind
    BY <1>2 DEF StartRun, TypeOK, GivenSet
  <2> QED BY <1>1, <2>1, <2>2, <2>3, SentStep
<1>3. CASE StopRun
  <2>1. /\ Around /\ UNCHANGED <<core, chan, given>>
        /\ client' = NoClient /\ pending' = NoPending
    BY <1>3 DEF StopRun, Around
  <2>2. client'.link = "none" /\ client'.sync.epoch = 0 /\ pending'.epoch = 0
    BY <2>1 DEF NoClient, NoPending
  <2> QED BY <1>0, <2>1, <2>2, QuietStep
<1>4. CASE LinkUp
  <2>1. /\ Around /\ UNCHANGED <<core, pending, given>>
        /\ client'.link = "up" /\ client'.sync.epoch = client.sync.epoch
    BY <1>0, <1>4 DEF LinkUp, Around, ClientSet, SyncSet, TypeOK
  <2>2. CASE client.link = "down"
    <3>1. Send(recheck)
      BY <1>4, <2>2 DEF LinkUp, recheck
    <3> QED BY <1>1, <2>1, <3>1, SentStep
  <2>3. CASE client.link = "new"
    <3>1. chan' = chan
      BY <1>4, <2>3 DEF LinkUp
    <3> QED BY <1>0, <2>1, <2>3, <3>1, QuietStep
  <2> QED BY <1>4, <2>2, <2>3 DEF LinkUp
<1>5. CASE LinkDown
  <2>1. /\ Around /\ UNCHANGED <<core, chan, given>>
        /\ client'.link = "down" /\ client'.sync.epoch = client.sync.epoch
        /\ pending' \in {pending, NoPending}
    BY <1>0, <1>5 DEF LinkDown, Around, ClientSet, TypeOK
  <2>2. pending'.epoch \in {0, pending.epoch}
    BY <2>1 DEF NoPending
  <2> QED BY <1>0, <2>1, <2>2, QuietStep
<1>6. CASE TakeDelete
  <2>1. Around /\ UNCHANGED <<core, client, pending, chan, given>>
    BY <1>6 DEF TakeDelete, Around
  <2> QED BY <1>0, <2>1, QuietStep
<1>7. CASE SendDelete
  <2> DEFINE m == [type |-> "ForgetCore", run |-> deleting.run]
  <2>1. Send(m) /\ Around /\ UNCHANGED <<core, client, pending, given>>
    BY <1>7 DEF SendDelete, Around
  <2>2. m \in MessageSet /\ m.type = "ForgetCore"
    BY DEF MessageSet, TypeOK
  <2> HIDE DEF m
  <2> QED BY <2>1, <2>2, SentStep DEF Sourced, Online
<1> QED BY <1>2, <1>3, <1>4, <1>5, <1>6, <1>7
LEMMA CatchUpContent ==
  ASSUME TypeOK, TypeOK', ContentInv, ServePage \/ AskAliveMap \/ AnswerAliveMap
  PROVE  ContentInv'
<1>1. CASE ServePage
  <2>1. PICK m \in Pages :
          /\ Send(m) /\ m.of = core.db
          /\ m.recreated = SeenRecreated(client.sync)
    BY <1>1, ServedPage
  <2>2. m \in MessageSet /\ m.type = "Page"
    BY DEF MessageSet, Pages
  <2>3. /\ Around /\ UNCHANGED core /\ Online /\ pending'.epoch = pending.epoch
        /\ client' = [client EXCEPT !.sync.phase = "page"]
        /\ given' = [given EXCEPT
              !.blind = @ \/ (~SeenRecreated(client.sync) /\ Unverifiable(client.sync))]
    BY <1>1, UnblockedParts DEF ServePage, Around
  <2>4. client'.link = client.link /\ client'.sync.epoch = client.sync.epoch
    BY <2>3 DEF TypeOK, ClientSet, SyncSet
  <2>5. ~given'.blind =>
          ~given.blind /\ (SeenRecreated(client.sync) \/ ~Unverifiable(client.sync))
    BY <2>3 DEF TypeOK, GivenSet
  <2>6. ASSUME writer = "up", ~given'.blind, ~m.recreated
        PROVE  Vouched(m.of)
    <3>1. OfCurrent /\ Claims
      BY <2>5, <2>6 DEF ContentInv, OrderInv
    <3> QED BY <2>1, <2>5, <2>6, <3>1, ServedVouched
  <2> QED BY <2>1, <2>2, <2>3, <2>4, <2>5, <2>6, SentStep DEF Online
<1>2. CASE AnswerAliveMap
  <2>0. /\ Around /\ UNCHANGED <<core, client, given>> /\ Online
        /\ pending' = NoPending /\ pending # NoPending
    BY <1>2 DEF AnswerAliveMap, Around, NoPending
  <2>1. pending'.epoch = 0
    BY <2>0 DEF NoPending
  <2>2. CASE pending.epoch # core.db
    <3> DEFINE m == [type |-> "Recreated", run |-> client.run]
    <3>1. Send(m) /\ m \in MessageSet /\ m.type = "Recreated"
      BY <1>2, <2>2 DEF AnswerAliveMap, MessageSet, TypeOK, ClientSet
    <3> HIDE DEF m
    <3> QED BY <2>0, <2>1, <3>1, SentStep DEF Sourced, Online
  <2>3. CASE pending.epoch = core.db
    <3> DEFINE m == [type |-> "AliveMap", epoch |-> pending.epoch, next |-> pending.next,
                     max |-> pending.max, alive |-> core.visible]
    <3>1. pending \in Completions /\ core \in CoreSet
      BY <2>0 DEF TypeOK
    <3>2. Send(m) /\ m \in MessageSet /\ m.type = "AliveMap" /\ m.epoch = pending.epoch
      BY <1>2, <2>3, <3>1 DEF AnswerAliveMap, Completions, MessageSet, CoreSet
    <3>3. ASSUME writer = "up", ~given.blind PROVE Vouched(m.epoch)
      BY <3>2, <3>3 DEF ContentInv, Claims, PositionClaims
    <3> HIDE DEF m
    <3> QED BY <2>0, <2>1, <3>2, <3>3, SentStep DEF Sourced, Online
  <2> QED BY <2>2, <2>3
<1>3. CASE AskAliveMap
  <2>1. Around /\ UNCHANGED <<core, client, chan>> /\ given'.blind = given.blind
    BY <1>3 DEF AskAliveMap, Around, TypeOK, GivenSet
  <2>2. pending'.epoch \in {0, pending.epoch}
    <3>1. PICK after \in {"behind", "asked"} :
            pending' \in {[pending EXCEPT !.at = after], NoPending}
      BY <1>3 DEF AskAliveMap
    <3>2. pending \in Completions
      BY <1>3 DEF AskAliveMap, TypeOK, NoPending
    <3> QED BY <3>1, <3>2 DEF Completions, NoPending
  <2>3. CoreGrows
    BY <2>1, CoreDbTyped DEF CoreGrows
  <2> QED BY <2>1, <2>2, <2>3, QuietStep
<1> QED BY <1>1, <1>2, <1>3
-----------------------------------------------------------------------------
(* What a message can do to the candidate: to its rows, its checkpoint,    *)
(* what is published and acknowledged, and the wait.                       *)

RowsFrom(t, m) ==
  \A i \in Ids : t.db.of[i] \in {0, tx.db.of[i]} \/ (Sourced(m) /\ t.db.of[i] = m.of)

EpochFrom(e, old, m) == e \in {0, old} \/ (m.type = "AliveMap" /\ e = m.epoch)

StatesFrom(t, m) ==
  \/ t.states = tx.states
  \/ \E s \in StartSet : t.states = Append(tx.states, s) /\ EpochFrom(s.epoch, 0, m)

AcksFrom(t, m) == t.acks = tx.acks \/ (m \in Pages /\ t.acks = Append(tx.acks, m))

WaitFrom(t, m) ==
  t.awaiting # NotAwaited =>
    m.type # "Recheck" /\ (tx.awaiting # NotAwaited \/ \A i \in Ids : t.db.of[i] = 0)

ResetFrom(t, m) ==
  m \in Pages /\ m.recreated =>
    \/ tx.awaiting # NotAwaited /\ t.db.of = tx.db.of
    \/ \A i \in Ids : t.db.of[i] \in {0, m.of}

ShapeFrom(t, m) ==
  /\ RowsFrom(t, m) /\ EpochFrom(t.db.checkpoint.epoch, tx.db.checkpoint.epoch, m)
  /\ StatesFrom(t, m) /\ AcksFrom(t, m) /\ WaitFrom(t, m) /\ ResetFrom(t, m)

LEMMA UpsertedFields ==
  ASSUME NEW d \in DbSet, NEW i \in Ids, NEW of \in Nat, NEW hide \in BOOLEAN
  PROVE  /\ Upserted(d, i, of, hide).checkpoint = d.checkpoint
         /\ Upserted(d, i, of, hide).frontier = d.frontier
         /\ Upserted(d, i, of, hide).of = [d.of EXCEPT ![i] = of]
  BY DEF Upserted, DbSet

LEMMA FrontierFields ==
  ASSUME NEW d \in DbSet, NEW last
  PROVE  /\ RecordFrontier(d, last).of = d.of
         /\ RecordFrontier(d, last).checkpoint = d.checkpoint
         /\ RecordFrontier(d, last).hidden = d.hidden
         /\ NoteLiveRow(d).of = d.of /\ NoteLiveRow(d).checkpoint = d.checkpoint
         /\ NoteLiveRow(d).hidden = d.hidden
  BY DEF RecordFrontier, NoteLiveRow, DbSet

LEMMA PageRowsFields ==
  ASSUME NEW d \in DbSet, NEW m \in Pages
  PROVE  /\ PageRows(d, m).checkpoint = d.checkpoint
         /\ PageRows(d, m).of
              = IF m.row = 0 THEN d.of ELSE [d.of EXCEPT ![m.row] = m.of]
<1>1. m.row \in Ids \cup {0} /\ m.of \in Nat /\ m.hide \in BOOLEAN
  BY DEF Pages, Databases
<1>2. CASE m.row = 0
  BY <1>2 DEF PageRows
<1>3. CASE m.row # 0
  <2>1. PageRows(d, m) = Upserted(d, m.row, m.of, m.hide) /\ m.row \in Ids
    BY <1>1, <1>3 DEF PageRows
  <2> QED BY <1>1, <1>3, <2>1, UpsertedFields
<1> QED BY <1>2, <1>3

LEMMA ResetFields ==
  ASSUME NEW d
  PROVE  /\ \A i \in Ids : ResetReplica(d).of[i] = 0
         /\ ResetReplica(d).checkpoint.epoch = 0 /\ ResetReplica(d).frontier = 0
         /\ ResetReplica(d).of \in [Ids -> Nat]
  BY DEF ResetReplica, NoRows, NoCheckpoint

(* A message that only writes the database. *)
LEMMA WriteShape ==
  ASSUME TypeOK, NEW m \in MessageSet, NEW d \in DbSet, ApplyMsg(m) = [tx EXCEPT !.db = d],
         m.type \notin {"Recheck", "AliveMap", "Page"}, d.checkpoint = tx.db.checkpoint,
         \A i \in Ids : d.of[i] \in {0, tx.db.of[i]} \/ (Sourced(m) /\ d.of[i] = m.of)
  PROVE  ShapeFrom(ApplyMsg(m), m)
<1> DEFINE t == ApplyMsg(m)
<1>1. /\ t.db = d /\ t.states = tx.states /\ t.acks = tx.acks /\ t.awaiting = tx.awaiting
  BY DEF TypeOK, TxSet
<1>2. m \notin Pages
  BY DEF Pages
<1> HIDE DEF t
<1>3. RowsFrom(t, m) /\ EpochFrom(t.db.checkpoint.epoch, tx.db.checkpoint.epoch, m)
  BY <1>1 DEF RowsFrom, EpochFrom
<1>4. StatesFrom(t, m) /\ AcksFrom(t, m) /\ WaitFrom(t, m) /\ ResetFrom(t, m)
  BY <1>1, <1>2 DEF StatesFrom, AcksFrom, WaitFrom, ResetFrom
<1> QED BY <1>3, <1>4 DEF ShapeFrom, t

LEMMA PageShape ==
  ASSUME TypeOK, NEW m \in Pages
  PROVE  ShapeFrom(ApplyMsg(m), m)
<1> DEFINE t == ApplyMsg(m)
           acked == [tx EXCEPT !.acks = Append(@, m)]
           kept == [acked EXCEPT !.db = AppliedPage(@, m), !.awaiting = NotAwaited]
<1> SUFFICES ShapeFrom(t, m)
  OBVIOUS
<1>0. tx \in TxSet /\ tx.db \in DbSet /\ m.type = "Page" /\ t = ApplyPage(m) /\ Sourced(m)
  BY TxFields DEF TypeOK, Pages, ApplyMsg, Sourced
<1>1. CASE Superseded(m)
  <2>1. t = acked
    BY <1>0, <1>1 DEF ApplyPage
  <2>2. /\ t.db = tx.db /\ t.states = tx.states /\ t.acks = Append(tx.acks, m)
        /\ t.awaiting = tx.awaiting /\ tx.awaiting # NotAwaited
    BY <1>0, <1>1, <2>1 DEF TxSet, Superseded
  <2> HIDE DEF t
  <2> QED BY <1>0, <2>2
          DEF ShapeFrom, RowsFrom, EpochFrom, StatesFrom, AcksFrom, WaitFrom, ResetFrom
<1>2. CASE ~Superseded(m)
  <2>1. /\ kept.db = AppliedPage(tx.db, m) /\ kept.states = tx.states
        /\ kept.acks = Append(tx.acks, m) /\ kept.awaiting = NotAwaited
        /\ DOMAIN kept = DOMAIN tx
    BY <1>0 DEF TxSet
  <2>2. t = IF m.recreated
            THEN [Publishing(kept, Fresh) EXCEPT !.resyncs = Append(@, m.run)]
            ELSE Publishing(kept, Resume(m.row + 1))
    BY <1>0, <1>2 DEF ApplyPage
  <2>3. m.row + 1 \in Nat \ {0}
    BY DEF Pages, Ids
  <2> HIDE DEF kept, t
  <2>4. PICK s \in StartSet :
          /\ t.states = Append(tx.states, s) /\ s.epoch = 0
          /\ t.db = AppliedPage(tx.db, m) /\ t.acks = Append(tx.acks, m)
          /\ t.awaiting = NotAwaited
    <3>1. Fresh \in StartSet /\ Fresh.epoch = 0
      BY StartsTyped DEF Fresh
    <3>2. Resume(m.row + 1) \in StartSet /\ Resume(m.row + 1).epoch = 0
      BY <2>3, StartsTyped DEF Resume
    <3>3. "states" \in DOMAIN kept
      BY <1>0, <2>1 DEF TxSet
    <3>4. \A s : /\ Publishing(kept, s).states = Append(kept.states, s)
                 /\ Publishing(kept, s).db = kept.db /\ Publishing(kept, s).acks = kept.acks
                 /\ Publishing(kept, s).awaiting = kept.awaiting
      BY <3>3 DEF Publishing
    <3> QED BY <2>1, <2>2, <3>1, <3>2, <3>4
  <2>5. PageRows(tx.db, m) \in DbSet /\ PageRows(ResetReplica(tx.db), m) \in DbSet
        /\ ResetReplica(tx.db) \in DbSet
    BY <1>0, PageRowsTyped, ResetTyped
  <2>6. CASE m.recreated
    <3>1. t.db = PageRows(ResetReplica(tx.db), m)
      BY <2>4, <2>6 DEF AppliedPage
    <3>2. /\ \A i \in Ids : t.db.of[i] \in {0, m.of}
          /\ t.db.checkpoint.epoch = 0
      <4> DEFINE r == ResetReplica(tx.db)
      <4>1. /\ \A i \in Ids : r.of[i] = 0
            /\ r.checkpoint.epoch = 0 /\ r.of \in [Ids -> Nat]
        BY ResetFields
      <4>2. /\ t.db.checkpoint = r.checkpoint
            /\ t.db.of = IF m.row = 0 THEN r.of ELSE [r.of EXCEPT ![m.row] = m.of]
        BY <2>5, <3>1, PageRowsFields
      <4> HIDE DEF r
      <4> QED BY <4>1, <4>2
    <3> QED BY <1>0, <2>4, <3>2
            DEF ShapeFrom, RowsFrom, EpochFrom, StatesFrom, AcksFrom, WaitFrom, ResetFrom
  <2>7. CASE ~m.recreated
    <3>1. t.db = RecordFrontier(PageRows(tx.db, m), m.row)
      BY <2>4, <2>7 DEF AppliedPage
    <3>2. /\ \A i \in Ids : t.db.of[i] \in {tx.db.of[i], m.of}
          /\ t.db.checkpoint = tx.db.checkpoint
      <4>1. /\ t.db.checkpoint = tx.db.checkpoint
            /\ t.db.of = IF m.row = 0 THEN tx.db.of ELSE [tx.db.of EXCEPT ![m.row] = m.of]
        BY <1>0, <2>5, <3>1, PageRowsFields, FrontierFields
      <4>2. tx.db.of \in [Ids -> Nat]
        BY <1>0 DEF DbSet
      <4> QED BY <4>1, <4>2
    <3> QED BY <1>0, <2>4, <2>7, <3>2
            DEF ShapeFrom, RowsFrom, EpochFrom, StatesFrom, AcksFrom, WaitFrom, ResetFrom
  <2> QED BY <2>6, <2>7
<1> QED BY <1>1, <1>2

LEMMA MapShape ==
  ASSUME TypeOK, NEW m \in AliveMaps
  PROVE  ShapeFrom(ApplyMsg(m), m)
<1> DEFINE t == ApplyMsg(m)
           d == AppliedMap(tx.db, m)
           s == Checkpoint([epoch |-> m.epoch, next |-> m.next])
<1> SUFFICES ShapeFrom(t, m)
  OBVIOUS
<1>0. /\ tx \in TxSet /\ tx.db \in DbSet /\ m.type = "AliveMap" /\ t = ApplyAliveMap(m)
      /\ m \notin Pages
  BY TxFields DEF TypeOK, AliveMaps, ApplyMsg, Pages
<1>1. CASE tx.awaiting # NotAwaited
  <2>1. t = tx
    BY <1>0, <1>1 DEF ApplyAliveMap
  <2> HIDE DEF t
  <2> QED BY <1>0, <2>1, <1>1
          DEF ShapeFrom, RowsFrom, EpochFrom, StatesFrom, AcksFrom, WaitFrom, ResetFrom
<1>2. CASE tx.awaiting = NotAwaited
  <2>1. t = Publishing([tx EXCEPT !.db = d], s)
    BY <1>0, <1>2 DEF ApplyAliveMap
  <2>2. /\ t.db = d /\ t.states = Append(tx.states, s) /\ t.acks = tx.acks
        /\ t.awaiting = NotAwaited
    BY <1>0, <1>2, <2>1 DEF Publishing, TxSet
  <2>3. d.of = tx.db.of /\ d.checkpoint.epoch = m.epoch
    BY <1>0 DEF AppliedMap, DbSet
  <2>4. s \in StartSet /\ s.epoch = m.epoch
    BY StartsTyped DEF AliveMaps, CheckpointSet, NoCheckpoint, Databases, Checkpoint
  <2> HIDE DEF t, d, s
  <2> QED BY <1>0, <2>2, <2>3, <2>4
          DEF ShapeFrom, RowsFrom, EpochFrom, StatesFrom, AcksFrom, WaitFrom, ResetFrom
<1> QED BY <1>1, <1>2

LEMMA ResetShape ==
  ASSUME TypeOK,
         NEW m \in [type : {"Recreated"}, run : Nat] \cup [type : {"ForgetCore"}, run : Nat]
  PROVE  ShapeFrom(ApplyMsg(m), m)
<1> DEFINE t == ApplyMsg(m)
<1> SUFFICES ShapeFrom(t, m)
  OBVIOUS
<1>0. /\ tx \in TxSet /\ m \notin Pages /\ m.type \notin {"AliveMap", "Page", "Recheck"}
      /\ t = IF m.type = "Recreated" THEN ApplyRecreated(m) ELSE ApplyForgetCore(m)
  BY DEF TypeOK, Pages, ApplyMsg
<1>1. PICK s \in {Fresh, Wiped} :
        /\ t.db = ResetReplica(tx.db) /\ t.states = Append(tx.states, s)
        /\ t.acks = tx.acks
  <2>1. \A s : /\ DOMAIN Publishing(tx, s) = DOMAIN tx
               /\ Publishing(tx, s).states = Append(tx.states, s)
               /\ Publishing(tx, s).db = tx.db /\ Publishing(tx, s).acks = tx.acks
    BY <1>0 DEF Publishing, TxSet
  <2>2. {"db", "states", "acks", "awaiting", "resyncs"} \subseteq DOMAIN tx
    BY <1>0 DEF TxSet
  <2>3. /\ ApplyRecreated(m).db = ResetReplica(tx.db)
        /\ ApplyRecreated(m).states = Append(tx.states, Fresh)
        /\ ApplyRecreated(m).acks = tx.acks
    BY <2>1, <2>2 DEF ApplyRecreated
  <2>4. /\ ApplyForgetCore(m).db = ResetReplica(tx.db)
        /\ ApplyForgetCore(m).states = Append(tx.states, Wiped)
        /\ ApplyForgetCore(m).acks = tx.acks
    BY <2>1, <2>2 DEF ApplyForgetCore
  <2> HIDE DEF t
  <2> QED BY <1>0, <2>3, <2>4
<1>2. s \in StartSet /\ s.epoch = 0
  BY StartsTyped DEF Fresh, Wiped
<1>3. (\A i \in Ids : t.db.of[i] = 0) /\ t.db.checkpoint.epoch = 0
  BY <1>1, ResetFields
<1> HIDE DEF t
<1> QED BY <1>0, <1>1, <1>2, <1>3
        DEF ShapeFrom, RowsFrom, EpochFrom, StatesFrom, AcksFrom, WaitFrom, ResetFrom

LEMMA ApplyShape ==
  ASSUME TypeOK, NEW m \in MessageSet
  PROVE  ShapeFrom(ApplyMsg(m), m)
<1>0. tx \in TxSet /\ tx.db \in DbSet
  BY TxFields DEF TypeOK
<1>1. CASE m \in [type : {"Upsert"}, row : Ids, of : Databases]
  <2> DEFINE u == Upserted(tx.db, m.row, m.of, FALSE)
             d == NoteLiveRow(u)
  <2>1. m.type = "Upsert" /\ m.row \in Ids /\ m.of \in Nat /\ Sourced(m)
    BY <1>1 DEF Databases, Sourced
  <2>2. ApplyMsg(m) = [tx EXCEPT !.db = d]
    BY <2>1 DEF ApplyMsg
  <2>3. u \in DbSet /\ d \in DbSet
    BY <1>0, <2>1, UpsertedTyped, NoteLiveRowTyped
  <2>4. d.checkpoint = tx.db.checkpoint /\ d.of = [tx.db.of EXCEPT ![m.row] = m.of]
    <3>1. u.checkpoint = tx.db.checkpoint /\ u.of = [tx.db.of EXCEPT ![m.row] = m.of]
      BY <1>0, <2>1 DEF Upserted, DbSet
    <3>2. d.checkpoint = u.checkpoint /\ d.of = u.of
      BY <2>3, FrontierFields
    <3> QED BY <3>1, <3>2
  <2>5. \A i \in Ids : d.of[i] \in {0, tx.db.of[i]} \/ (Sourced(m) /\ d.of[i] = m.of)
    BY <1>0, <2>1, <2>4 DEF DbSet
  <2> HIDE DEF d
  <2> QED BY <2>1, <2>2, <2>3, <2>4, <2>5, WriteShape
<1>2. CASE m \in [type : {"Delete"}, row : Ids]
  <2> DEFINE d == Deleted(tx.db, m.row)
  <2>1. m.type = "Delete" /\ ApplyMsg(m) = [tx EXCEPT !.db = d] /\ d \in DbSet
    BY <1>0, <1>2, DeletedTyped DEF ApplyMsg
  <2>2. d.checkpoint = tx.db.checkpoint /\ \A i \in Ids : d.of[i] \in {0, tx.db.of[i]}
    BY <1>0, <1>2 DEF Deleted, DbSet
  <2> HIDE DEF d
  <2> QED BY <2>1, <2>2, WriteShape
<1>3. CASE m \in [type : {"SetDeleted"}, row : Ids, hide : BOOLEAN]
  <2> DEFINE d == SetDeleted(tx.db, m.row, m.hide)
  <2>1. m.type = "SetDeleted" /\ ApplyMsg(m) = [tx EXCEPT !.db = d] /\ d \in DbSet
    BY <1>0, <1>3, SetDeletedTyped DEF ApplyMsg
  <2>2. d.checkpoint = tx.db.checkpoint /\ \A i \in Ids : d.of[i] \in {0, tx.db.of[i]}
    <3>1. tx.db.of \in [Ids -> Nat]
      BY <1>0 DEF DbSet
    <3> QED BY <1>0, <1>3, <3>1, UpsertedFields DEF SetDeleted
  <2> HIDE DEF d
  <2> QED BY <2>1, <2>2, WriteShape
<1>4. CASE m \in [type : {"Recheck"}]
  <2>1. ApplyMsg(m) = [tx EXCEPT !.awaiting = NotAwaited] /\ m.type = "Recheck" /\ m \notin Pages
    BY <1>4 DEF ApplyMsg, Pages
  <2> DEFINE t == ApplyMsg(m)
  <2>2. /\ t.db = tx.db /\ t.states = tx.states /\ t.acks = tx.acks
        /\ t.awaiting = NotAwaited
    BY <1>0, <2>1 DEF TxSet
  <2> HIDE DEF t
  <2>3. ShapeFrom(t, m)
    BY <2>1, <2>2
       DEF ShapeFrom, RowsFrom, EpochFrom, StatesFrom, AcksFrom, WaitFrom, ResetFrom
  <2> QED BY <2>3 DEF t
<1> QED BY <1>1, <1>2, <1>3, <1>4, PageShape, MapShape, ResetShape DEF MessageSet, AliveMaps
-----------------------------------------------------------------------------
(* The writer takes a message.                                             *)

LEMMA ApplyTail ==
  ASSUME TypeOK, Apply
  PROVE  \E t \in TxSet :
           /\ t = ApplyMsg(chan[1]) /\ chan[1] \in MessageSet /\ ShapeFrom(t, chan[1])
           /\ tx'.db = t.db /\ tx'.awaiting = t.awaiting /\ tx'.states = t.states
           /\ tx'.acks = t.acks
           /\ writer = "up" /\ chan # <<>> /\ chan' = Tail(chan)
           /\ UNCHANGED <<core, client, pending, db, post, starts, writer, given>>
<1>1. chan # <<>> /\ chan' = Tail(chan) /\ writer = "up"
      /\ tx' = [ApplyMsg(Head(chan)) EXCEPT !.open = TRUE]
      /\ UNCHANGED <<core, client, pending, db, post, starts, writer, given>>
  BY DEF Apply
<1>2. Head(chan) = chan[1] /\ 1 \in 1 .. Len(chan)
  BY <1>1, HeadTail
<1>3. chan[1] \in MessageSet
  BY <1>2, ChanTyped
<1> DEFINE t == ApplyMsg(chan[1])
<1>4. t \in TxSet /\ ShapeFrom(t, chan[1])
  BY <1>3, ApplyMsgTyped, ApplyShape
<1>5. tx' = [t EXCEPT !.open = TRUE]
  BY <1>1, <1>2
<1>6. t = ApplyMsg(chan[1])
  OBVIOUS
<1> HIDE DEF t
<1>7. tx'.db = t.db /\ tx'.awaiting = t.awaiting /\ tx'.states = t.states
      /\ tx'.acks = t.acks
  BY <1>4, <1>5 DEF TxSet
<1> QED BY <1>1, <1>3, <1>4, <1>6, <1>7

LEMMA ApplyOrder ==
  ASSUME TypeOK, OrderInv, Apply
  PROVE  OrderInv'
<1>1. PICK t \in TxSet :
           /\ t = ApplyMsg(chan[1]) /\ chan[1] \in MessageSet /\ ShapeFrom(t, chan[1])
           /\ tx'.db = t.db /\ tx'.awaiting = t.awaiting
           /\ chan # <<>> /\ chan' = Tail(chan)
           /\ UNCHANGED <<core, client>>
  BY ApplyTail
<1> DEFINE n == Len(chan')
<1>2. /\ n \in Nat /\ Len(chan) = n + 1 /\ 1 \in 1 .. Len(chan)
      /\ \A k \in 1 .. n : k + 1 \in 1 .. Len(chan) /\ chan'[k] = chan[k + 1]
  BY <1>1, HeadTail
<1>3. \A l \in 0 .. n :
         /\ \A k \in 1 .. n : RecheckIn(chan, k + 1, l + 1) => RecheckIn(chan', k, l)
         /\ chan[1].type # "Recheck" /\ RecheckIn(chan, 1, l + 1) => RecheckIn(chan', 1, l)
  BY <1>1, RecheckTail
<1> HIDE DEF n
<1>4. \A k \in 1 .. n : k \in 0 .. n /\ n \in 0 .. n /\ 0 < n
  BY <1>2
<1>5. OfOrder'
  <2> SUFFICES ASSUME NEW k \in 1 .. n, NEW l \in 1 .. n, k < l,
                      Sourced(chan'[k]), Sourced(chan'[l])
               PROVE  /\ chan'[k].of <= chan'[l].of
                      /\ chan'[l].of <= chan'[k].of \/ RecheckIn(chan', k, l)
    BY DEF OfOrder, n
  <2>1. k + 1 < l + 1
    BY <1>2
  <2>2. /\ chan[k + 1].of <= chan[l + 1].of
        /\ chan[l + 1].of <= chan[k + 1].of \/ RecheckIn(chan, k + 1, l + 1)
    BY <1>2, <2>1 DEF OrderInv, OfOrder
  <2> QED BY <1>2, <1>3, <1>4, <2>2
<1>6. OfCurrent'
  <2> SUFFICES ASSUME NEW k \in 1 .. n, Sourced(chan'[k])
               PROVE  /\ chan'[k].of <= core.db
                      /\ Online => core.db <= chan'[k].of \/ RecheckIn(chan', k, n)
                      /\ client.link = "new" => RecheckIn(chan', k, n)
    BY <1>1 DEF OfCurrent, Online, n
  <2>1. /\ chan[k + 1].of <= core.db
        /\ Online => core.db <= chan[k + 1].of \/ RecheckIn(chan, k + 1, n + 1)
        /\ client.link = "new" => RecheckIn(chan, k + 1, n + 1)
    BY <1>2 DEF OrderInv, OfCurrent
  <2> QED BY <1>2, <1>3, <1>4, <2>1
<1>7. AwaitedRows'
  <2> SUFFICES ASSUME t.awaiting # NotAwaited, NEW i \in Ids, t.db.of[i] # 0
               PROVE  /\ \A l \in 1 .. n : Sourced(chan'[l]) =>
                           chan'[l].of <= t.db.of[i] \/ RecheckIn(chan', 1, l)
                      /\ Online => core.db <= t.db.of[i] \/ RecheckIn(chan', 1, n)
                      /\ client.link = "new" => RecheckIn(chan', 1, n)
    BY <1>1 DEF AwaitedRows, Online, n
  <2>1. /\ chan[1].type # "Recheck" /\ tx.awaiting # NotAwaited
        /\ \/ t.db.of[i] = tx.db.of[i]
           \/ Sourced(chan[1]) /\ t.db.of[i] = chan[1].of
    BY <1>1 DEF ShapeFrom, WaitFrom, RowsFrom
  <2>2. /\ \A l \in 1 .. n : Sourced(chan[l + 1]) =>
             chan[l + 1].of <= t.db.of[i] \/ RecheckIn(chan, 1, l + 1)
        /\ Online => core.db <= t.db.of[i] \/ RecheckIn(chan, 1, n + 1)
        /\ client.link = "new" => RecheckIn(chan, 1, n + 1)
    <3>1. CASE t.db.of[i] = tx.db.of[i]
      BY <1>2, <2>1, <3>1 DEF OrderInv, AwaitedRows
    <3>2. CASE Sourced(chan[1]) /\ t.db.of[i] = chan[1].of
      <4>1. \A l \in 1 .. n : 1 < l + 1
        BY <1>2
      <4>2. \A l \in 1 .. n : Sourced(chan[l + 1]) =>
              chan[l + 1].of <= chan[1].of \/ RecheckIn(chan, 1, l + 1)
        BY <1>2, <3>2, <4>1 DEF OrderInv, OfOrder
      <4>3. /\ Online => core.db <= chan[1].of \/ RecheckIn(chan, 1, n + 1)
            /\ client.link = "new" => RecheckIn(chan, 1, n + 1)
        BY <1>2, <3>2 DEF OrderInv, OfCurrent
      <4> QED BY <3>2, <4>2, <4>3
    <3> QED BY <2>1, <3>1, <3>2
  <2>3. n \in 0 .. n
    BY <1>2
  <2> QED BY <1>2, <1>3, <1>4, <2>1, <2>2, <2>3
<1> QED BY <1>5, <1>6, <1>7 DEF OrderInv

(* A message adds no row older than the floor. *)
LEMMA ApplyFloors ==
  ASSUME TypeOK, Apply
  PROVE  FloorsKept
<1>1. PICK t \in TxSet :
           /\ chan[1] \in MessageSet /\ ShapeFrom(t, chan[1])
           /\ tx'.db = t.db /\ chan # <<>> /\ chan' = Tail(chan)
           /\ UNCHANGED core
  BY ApplyTail
<1>2. /\ 1 \in 1 .. Len(chan)
      /\ \A k \in 1 .. Len(chan') : k + 1 \in 1 .. Len(chan) /\ chan'[k] = chan[k + 1]
  BY <1>1, HeadTail
<1> SUFFICES ASSUME NEW e \in Nat, Floor(e, core.db, tx.db.of, chan)
             PROVE  Floor(e, core.db, t.db.of, chan')
  BY <1>1 DEF FloorsKept
<1>3. \A i \in Ids : t.db.of[i] # 0 => e <= t.db.of[i]
  BY <1>1, <1>2 DEF ShapeFrom, RowsFrom, Floor
<1>4. \A k \in 1 .. Len(chan') : Sourced(chan'[k]) => e <= chan'[k].of
  BY <1>2 DEF Floor
<1> QED BY <1>3, <1>4 DEF Floor

(* A page vouches for its database once it is applied, or skipped.         *)
LEMMA PageVouches ==
  ASSUME TypeOK, OrderInv, ChannelClaims, Apply, chan[1] \in Pages
  PROVE  Floor(chan[1].of, core'.db, tx'.db.of, chan')
<1>1. PICK t \in TxSet :
           /\ chan[1] \in MessageSet /\ ShapeFrom(t, chan[1])
           /\ tx'.db = t.db /\ chan # <<>> /\ chan' = Tail(chan)
           /\ UNCHANGED core
  BY ApplyTail
<1> DEFINE m == chan[1]
<1>2. /\ 1 \in 1 .. Len(chan) /\ Len(chan) \in Nat
      /\ \A k \in 1 .. Len(chan') : k + 1 \in 1 .. Len(chan) /\ chan'[k] = chan[k + 1]
                                    /\ 1 < k + 1
  BY <1>1, HeadTail
<1>3. m.type = "Page" /\ Sourced(m) /\ m.of \in Nat /\ m.recreated \in BOOLEAN
  BY DEF Pages, Sourced, Databases
<1>4. CASE ~m.recreated
  <2>1. Vouched(m.of)
    BY <1>2, <1>3, <1>4 DEF ChannelClaims
  <2> QED BY <1>3, <2>1, ApplyFloors DEF FloorsKept, Vouched
<1>5. CASE m.recreated
  <2>1. m.of <= core.db
    BY <1>2, <1>3 DEF OrderInv, OfCurrent
  <2>2. \A k \in 1 .. Len(chan') : Sourced(chan'[k]) => m.of <= chan'[k].of
    BY <1>2, <1>3 DEF OrderInv, OfOrder
  <2>3. \A i \in Ids : t.db.of[i] # 0 => m.of <= t.db.of[i]
    <3>1. CASE tx.awaiting # NotAwaited /\ t.db.of = tx.db.of
      <4>1. ~RecheckIn(chan, 1, 1)
        <5>1. \A j \in 1 .. 1 : j = 1
          OBVIOUS
        <5> QED BY <1>3, <5>1 DEF RecheckIn
      <4> QED BY <1>2, <1>3, <3>1, <4>1 DEF OrderInv, AwaitedRows
    <3>2. CASE \A i \in Ids : t.db.of[i] \in {0, m.of}
      BY <1>3, <3>2
    <3> QED BY <1>1, <1>5, <3>1, <3>2 DEF ShapeFrom, ResetFrom
  <2> QED BY <1>1, <2>1, <2>2, <2>3 DEF Floor
<1> QED BY <1>3, <1>4, <1>5

LEMMA ApplyContent ==
  ASSUME TypeOK, TypeOK', ContentInv, Apply
  PROVE  ContentInv'
<1>1. PICK t \in TxSet :
           /\ chan[1] \in MessageSet /\ ShapeFrom(t, chan[1])
           /\ tx'.db = t.db /\ tx'.states = t.states /\ tx'.acks = t.acks
           /\ writer = "up" /\ chan # <<>> /\ chan' = Tail(chan)
           /\ UNCHANGED <<core, client, pending, db, post, starts, writer, given>>
  BY ApplyTail
<1> DEFINE m == chan[1]
           Kept(e) == Floor(e, core'.db, tx'.db.of, chan')
<1>2. OrderInv'
  BY <1>1, ApplyOrder DEF ContentInv
<1>3. ASSUME ~given.blind PROVE Claims'
  <2>0. OrderInv /\ Claims /\ 1 \in 1 .. Len(chan)
    BY <1>1, <1>3, HeadTail DEF ContentInv
  <2>1. \A e \in Nat : Vouched(e) => Kept(e)
    BY ApplyFloors DEF FloorsKept, Vouched
  <2>2. Kept(0)
    BY <2>0, <2>1, FloorOfNothing DEF OrderInv
  <2>3. m.type = "AliveMap" => Kept(m.epoch)
    BY <2>0, <2>1, EpochsTyped DEF Claims, ChannelClaims
  <2>4. m \in Pages => Kept(m.of)
    BY <2>0, PageVouches DEF Claims
  <2> HIDE DEF Kept, m
  <2>5. \A e, old : EpochFrom(e, old, m) /\ Kept(old) => Kept(e)
    BY <2>2, <2>3 DEF EpochFrom
  <2>6. Kept(starts.epoch) /\ Kept(client.sync.epoch) /\ Kept(pending.epoch)
        /\ Kept(tx.db.checkpoint.epoch)
    BY <2>0, <2>1, EpochsTyped DEF Claims, PositionClaims
  <2>7. Kept(tx'.db.checkpoint.epoch)
    BY <1>1, <2>5, <2>6 DEF ShapeFrom, m
  <2>8. \A k \in 1 .. Len(tx'.states) : Kept(tx'.states[k].epoch)
    <3>1. \A k \in 1 .. Len(tx.states) : Kept(tx.states[k].epoch)
      BY <2>0, <2>1, EpochsTyped DEF Claims, WriterClaims
    <3>2. CASE t.states = tx.states
      BY <1>1, <3>1, <3>2
    <3>3. CASE \E s \in StartSet : t.states = Append(tx.states, s) /\ EpochFrom(s.epoch, 0, m)
      <4>1. PICK s \in StartSet : t.states = Append(tx.states, s) /\ EpochFrom(s.epoch, 0, m)
        BY <3>3
      <4>2. Kept(s.epoch)
        BY <2>2, <2>5, <4>1
      <4>3. tx.states \in Seq(StartSet)
        BY DEF TypeOK, TxSet
      <4>4. \A k \in 1 .. Len(t.states) : t.states[k] = s \/
                (k \in 1 .. Len(tx.states) /\ t.states[k] = tx.states[k])
        BY <4>1, <4>3, AppendProperties, LenProperties
      <4> QED BY <1>1, <3>1, <4>2, <4>4
    <3> QED BY <1>1, <3>2, <3>3 DEF ShapeFrom, StatesFrom, m
  <2>9. \A k \in 1 .. Len(tx'.acks) : Kept(tx'.acks[k].of)
    <3>1. \A k \in 1 .. Len(tx.acks) : Kept(tx.acks[k].of)
      BY <2>0, <2>1, EpochsTyped DEF Claims, WriterClaims
    <3>2. CASE t.acks = tx.acks
      BY <1>1, <3>1, <3>2
    <3>3. CASE m \in Pages /\ t.acks = Append(tx.acks, m)
      <4>1. tx.acks \in Seq(Pages)
        BY DEF TypeOK, TxSet
      <4>2. \A k \in 1 .. Len(t.acks) : t.acks[k] = m \/
                (k \in 1 .. Len(tx.acks) /\ t.acks[k] = tx.acks[k])
        BY <3>3, <4>1, AppendProperties, LenProperties
      <4> QED BY <1>1, <2>4, <3>1, <3>3, <4>2
    <3> QED BY <1>1, <3>2, <3>3 DEF ShapeFrom, AcksFrom, m
  <2>10. /\ \A k \in 1 .. Len(post.states) : Kept(post.states[k].epoch)
         /\ \A k \in 1 .. Len(post.acks) : Kept(post.acks[k].of)
    BY <2>0, <2>1, EpochsTyped DEF Claims, WriterClaims
  <2>11. \A k \in 1 .. Len(chan) :
           /\ chan[k].type = "AliveMap" => Kept(chan[k].epoch)
           /\ chan[k].type = "Page" /\ ~chan[k].recreated => Kept(chan[k].of)
    BY <2>0, <2>1, EpochsTyped DEF Claims, ChannelClaims
  <2>12. \A k \in 1 .. Len(chan') :
           /\ chan'[k].type = "AliveMap" => Kept(chan'[k].epoch)
           /\ chan'[k].type = "Page" /\ ~chan'[k].recreated => Kept(chan'[k].of)
    <3>1. \A k \in 1 .. Len(chan') : k + 1 \in 1 .. Len(chan) /\ chan'[k] = chan[k + 1]
      BY <1>1, HeadTail
    <3> QED BY <2>11, <3>1
  <2>13. PositionClaims'
    BY <1>1, <2>6, <2>7 DEF PositionClaims, Vouched, Kept
  <2>14. WriterClaims'
    BY <1>1, <2>8, <2>9, <2>10 DEF WriterClaims, Vouched, Kept
  <2>15. ChannelClaims'
    BY <2>12 DEF ChannelClaims, Vouched, Kept
  <2> QED BY <2>13, <2>14, <2>15 DEF Claims
<1> QED BY <1>1, <1>2, <1>3 DEF ContentInv
-----------------------------------------------------------------------------
(* The writer commits, publishes, acknowledges and declares again: every   *)
(* epoch it passes on is one that was vouched for.                         *)

In(x, q) == \E j \in 1 .. Len(q) : x = q[j]

LEMMA OrderWritten ==
  ASSUME OrderInv, UNCHANGED <<core, chan>>, tx'.db = tx.db, client'.link = client.link,
         tx'.awaiting # NotAwaited => tx.awaiting # NotAwaited
  PROVE  OrderInv'
<1>1. OfOrder' /\ OfCurrent'
  BY DEF OrderInv, OfOrder, OfCurrent, Online
<1>2. AwaitedRows'
  BY DEF OrderInv, AwaitedRows, Online
<1> QED BY <1>1, <1>2 DEF OrderInv

LEMMA ClaimsPassed ==
  ASSUME TypeOK, OfCurrent, Claims, UNCHANGED <<core, chan>>, tx'.db = tx.db,
         starts'.epoch \in {0, starts.epoch}
           \/ \E s \in StartSet : starts'.epoch = s.epoch /\ In(s, post.states),
         client'.sync.epoch \in {0, client.sync.epoch}
           \/ \E m \in Pages : client'.sync.epoch = m.of /\ In(m, post.acks),
         pending'.epoch \in {0, pending.epoch}
           \/ \E m \in Pages : pending'.epoch = m.of /\ In(m, post.acks),
         \A k \in 1 .. Len(tx'.states) : In(tx'.states[k], tx.states),
         \A k \in 1 .. Len(tx'.acks) : In(tx'.acks[k], tx.acks),
         \A k \in 1 .. Len(post'.states) :
           In(post'.states[k], tx.states) \/ In(post'.states[k], post.states),
         \A k \in 1 .. Len(post'.acks) :
           In(post'.acks[k], tx.acks) \/ In(post'.acks[k], post.acks)
  PROVE  Claims'
<1>1. Vouched(0)
  BY FloorOfNothing
<1>2. \A e : Vouched(e) => Floor(e, core'.db, tx'.db.of, chan')
  BY DEF Vouched
<1>3. /\ \A s : In(s, tx.states) \/ In(s, post.states) => Vouched(s.epoch)
      /\ \A m : In(m, tx.acks) \/ In(m, post.acks) => Vouched(m.of)
  BY DEF In, Claims, WriterClaims
<1>4. PositionClaims'
  <2>1. Vouched(starts.epoch) /\ Vouched(client.sync.epoch) /\ Vouched(pending.epoch)
        /\ Vouched(tx.db.checkpoint.epoch)
    BY DEF Claims, PositionClaims
  <2>2. Vouched(starts'.epoch)
    BY <1>1, <1>3, <2>1
  <2>3. Vouched(client'.sync.epoch)
    BY <1>1, <1>3, <2>1
  <2>4. Vouched(pending'.epoch)
    BY <1>1, <1>3, <2>1
  <2>5. Vouched(tx'.db.checkpoint.epoch)
    BY <2>1
  <2>6. /\ Floor(starts'.epoch, core'.db, tx'.db.of, chan')
        /\ Floor(client'.sync.epoch, core'.db, tx'.db.of, chan')
        /\ Floor(pending'.epoch, core'.db, tx'.db.of, chan')
        /\ Floor(tx'.db.checkpoint.epoch, core'.db, tx'.db.of, chan')
    BY <1>2, <2>2, <2>3, <2>4, <2>5
  <2> QED BY <2>6 DEF PositionClaims, Vouched
<1>5. WriterClaims'
  <2>1. /\ \A k \in 1 .. Len(tx'.states) : Vouched(tx'.states[k].epoch)
        /\ \A k \in 1 .. Len(tx'.acks) : Vouched(tx'.acks[k].of)
        /\ \A k \in 1 .. Len(post'.states) : Vouched(post'.states[k].epoch)
        /\ \A k \in 1 .. Len(post'.acks) : Vouched(post'.acks[k].of)
    BY <1>3
  <2>2. /\ \A k \in 1 .. Len(tx'.states) :
             Floor(tx'.states[k].epoch, core'.db, tx'.db.of, chan')
        /\ \A k \in 1 .. Len(tx'.acks) :
             Floor(tx'.acks[k].of, core'.db, tx'.db.of, chan')
        /\ \A k \in 1 .. Len(post'.states) :
             Floor(post'.states[k].epoch, core'.db, tx'.db.of, chan')
        /\ \A k \in 1 .. Len(post'.acks) :
             Floor(post'.acks[k].of, core'.db, tx'.db.of, chan')
    BY <1>2, <2>1
  <2> QED BY <2>2 DEF WriterClaims, Vouched
<1>6. ChannelClaims'
  BY DEF Claims, ChannelClaims, Vouched
<1> QED BY <1>4, <1>5, <1>6 DEF Claims

LEMMA InItself ==
  ASSUME NEW q, NEW k \in 1 .. Len(q)
  PROVE  In(q[k], q)
  BY DEF In

LEMMA InTail ==
  ASSUME NEW S, NEW q \in Seq(S), q # <<>>
  PROVE  /\ Head(q) \in S /\ In(Head(q), q)
         /\ \A k \in 1 .. Len(Tail(q)) : In(Tail(q)[k], q)
<1>1. Len(q) \in Nat
  BY LenProperties
<1>2. Head(q) = q[1] /\ Len(q) \in Nat \ {0} /\ Head(q) \in S
  BY TailIsSuffix, HeadTailProperties
<1>3. /\ Len(Tail(q)) = Len(q) - 1
      /\ \A k \in 1 .. Len(Tail(q)) : Tail(q)[k] = q[k + 1]
  BY HeadTailProperties
<1>4. 1 \in 1 .. Len(q) /\ \A k \in 1 .. Len(Tail(q)) : k + 1 \in 1 .. Len(q)
  BY <1>1, <1>2, <1>3
<1> QED BY <1>2, <1>3, <1>4 DEF In

LEMMA ClosedQueues ==
  ASSUME NEW d, NEW a
  PROVE  /\ \A k \in 1 .. Len(Closed(d, a).states) : FALSE
         /\ \A k \in 1 .. Len(Closed(d, a).acks) : FALSE
  BY DEF Closed

LEMMA NothingQueues ==
  /\ \A k \in 1 .. Len(Nothing.states) : FALSE
  /\ \A k \in 1 .. Len(Nothing.acks) : FALSE
  BY DEF Nothing

LEMMA HoldsOfClaims ==
  ASSUME Claims
  PROVE  Holds(tx.db, core.db)
  BY DEF Claims, PositionClaims, Vouched, Floor, Holds

LEMMA CommitContent ==
  ASSUME TypeOK, ContentInv, Commit
  PROVE  ContentInv'
<1>1. /\ writer = "up" /\ db' = tx.db /\ tx' = Closed(tx.db, tx.awaiting)
      /\ post' = [states |-> tx.states, acks |-> tx.acks, resyncs |-> tx.resyncs]
      /\ UNCHANGED <<core, client, pending, chan, starts, writer, given>>
  BY DEF Commit
<1>2. tx'.db = tx.db /\ tx'.awaiting = tx.awaiting
      /\ post'.states = tx.states /\ post'.acks = tx.acks
  BY <1>1, ClosedFields
<1>3. OrderInv'
  BY <1>1, <1>2, OrderWritten DEF ContentInv
<1>4. ASSUME ~given.blind PROVE Claims' /\ Holds(db', core'.db)
  <2>1. OrderInv /\ Claims
    BY <1>1, <1>4 DEF ContentInv
  <2>2. /\ \A k \in 1 .. Len(tx'.states) : In(tx'.states[k], tx.states)
        /\ \A k \in 1 .. Len(tx'.acks) : In(tx'.acks[k], tx.acks)
    BY <1>1, ClosedQueues
  <2>3. /\ \A k \in 1 .. Len(post'.states) : In(post'.states[k], tx.states)
        /\ \A k \in 1 .. Len(post'.acks) : In(post'.acks[k], tx.acks)
    BY <1>2, InItself
  <2>4. Claims'
    BY <1>1, <1>2, <2>1, <2>2, <2>3, ClaimsPassed DEF OrderInv
  <2>5. Holds(db', core'.db)
    BY <1>1, <2>1, HoldsOfClaims
  <2> QED BY <2>4, <2>5
<1> QED BY <1>1, <1>3, <1>4 DEF ContentInv

LEMMA PublishContent ==
  ASSUME TypeOK, ContentInv, PublishState
  PROVE  ContentInv'
<1>1. /\ writer = "up" /\ post.states # <<>> /\ starts' = Published(Head(post.states))
      /\ post' = [post EXCEPT !.states = Tail(@)]
      /\ UNCHANGED <<core, client, pending, chan, db, tx, writer, given>>
  BY DEF PublishState
<1>2. post \in PostSet /\ post.states \in Seq(StartSet)
  BY DEF TypeOK, PostSet
<1>3. post'.states = Tail(post.states) /\ post'.acks = post.acks
  BY <1>1, <1>2 DEF PostSet
<1>4. OrderInv'
  BY <1>1, OrderWritten DEF ContentInv
<1>5. ASSUME ~given.blind PROVE Claims'
  <2>1. OrderInv /\ Claims
    BY <1>1, <1>5 DEF ContentInv
  <2> DEFINE s == Head(post.states)
  <2>2. s \in StartSet /\ In(s, post.states)
        /\ \A k \in 1 .. Len(post'.states) : In(post'.states[k], post.states)
    BY <1>1, <1>2, <1>3, InTail
  <2> HIDE DEF s
  <2>3. Published(s) \in {Fresh, starts, s} /\ Fresh.epoch = 0
    BY DEF Published, Fresh
  <2>4. starts'.epoch \in {0, starts.epoch} \/ starts'.epoch = s.epoch
    BY <1>1, <2>3 DEF s
  <2>5. /\ \A k \in 1 .. Len(tx.states) : In(tx.states[k], tx.states)
        /\ \A k \in 1 .. Len(tx.acks) : In(tx.acks[k], tx.acks)
        /\ \A k \in 1 .. Len(post.acks) : In(post.acks[k], post.acks)
    BY InItself
  <2> QED BY <1>1, <1>3, <2>1, <2>2, <2>4, <2>5, ClaimsPassed DEF OrderInv
<1> QED BY <1>1, <1>4, <1>5 DEF ContentInv

LEMMA AcknowledgeContent ==
  ASSUME TypeOK, ContentInv, Acknowledge
  PROVE  ContentInv'
<1> DEFINE m == Head(post.acks)
<1>1. /\ writer = "up" /\ post.acks # <<>>
      /\ post' = [post EXCEPT !.acks = Tail(@)]
      /\ UNCHANGED <<core, chan, db, tx, starts, writer, given>>
  BY DEF Acknowledge
<1>2. post \in PostSet /\ post.acks \in Seq(Pages)
  BY DEF TypeOK, PostSet
<1>3. post'.acks = Tail(post.acks) /\ post'.states = post.states
  BY <1>1, <1>2 DEF PostSet
<1>4. m \in Pages /\ In(m, post.acks)
      /\ \A k \in 1 .. Len(post'.acks) : In(post'.acks[k], post.acks)
  BY <1>1, <1>2, <1>3, InTail
<1>5. \/ client' = client
      \/ \E from, phase : client' = [client EXCEPT !.sync.from = from, !.sync.epoch = m.of,
                                                   !.sync.phase = phase]
  BY DEF Acknowledge
<1>6. \/ pending' = pending
      \/ \E next : pending' = [id |-> m.id, epoch |-> m.of, next |-> next, max |-> m.max,
                               at |-> "unread"]
  BY DEF Acknowledge
<1> HIDE DEF m
<1>7. client'.link = client.link
      /\ (client'.sync.epoch = client.sync.epoch \/ client'.sync.epoch = m.of)
  <2>1. client \in ClientSet /\ client.sync \in SyncSet
    BY DEF TypeOK, ClientSet
  <2>2. ASSUME NEW from, NEW phase,
               client' = [client EXCEPT !.sync.from = from, !.sync.epoch = m.of,
                                        !.sync.phase = phase]
        PROVE  client'.link = client.link /\ client'.sync.epoch = m.of
    BY <2>1, <2>2 DEF ClientSet, SyncSet
  <2> QED BY <1>5, <2>2
<1>8. pending'.epoch = pending.epoch \/ pending'.epoch = m.of
  BY <1>6
<1>9. OrderInv'
  BY <1>1, <1>7, OrderWritten DEF ContentInv
<1>10. ASSUME ~given.blind PROVE Claims'
  <2>1. OrderInv /\ Claims
    BY <1>1, <1>10 DEF ContentInv
  <2>2. /\ \A k \in 1 .. Len(tx.states) : In(tx.states[k], tx.states)
        /\ \A k \in 1 .. Len(tx.acks) : In(tx.acks[k], tx.acks)
        /\ \A k \in 1 .. Len(post.states) : In(post.states[k], post.states)
    BY InItself
  <2>3. client'.sync.epoch \in {0, client.sync.epoch}
          \/ \E p \in Pages : client'.sync.epoch = p.of /\ In(p, post.acks)
    BY <1>4, <1>7
  <2>4. pending'.epoch \in {0, pending.epoch}
          \/ \E p \in Pages : pending'.epoch = p.of /\ In(p, post.acks)
    BY <1>4, <1>8
  <2> QED BY <1>1, <1>3, <1>4, <2>1, <2>2, <2>3, <2>4, ClaimsPassed DEF OrderInv
<1> QED BY <1>1, <1>9, <1>10 DEF ContentInv

LEMMA RedeclareContent ==
  ASSUME TypeOK, AwaitInv, ContentInv, Redeclare
  PROVE  ContentInv'
<1>1. /\ writer = "up" /\ post.resyncs # <<>> /\ tx' = [tx EXCEPT !.awaiting = awaiting']
      /\ post' = [post EXCEPT !.resyncs = Tail(@)]
      /\ client' = client \/ client' = [client EXCEPT !.sync = Declared(Fresh)]
      /\ \/ given' = [given EXCEPT !.unmasked = @ \/ awaiting # NotAwaited]
         \/ given' = [given EXCEPT !.syncs = @ + 1]
      /\ awaiting' # NotAwaited => awaiting # NotAwaited
      /\ UNCHANGED <<core, chan, db, starts, writer>>
      /\ pending'.epoch = pending.epoch
  BY UnblockedParts DEF Redeclare
<1>2. given'.blind = given.blind
  BY <1>1 DEF TypeOK, GivenSet
<1>3. tx'.db = tx.db /\ tx'.awaiting = awaiting' /\ tx'.states = tx.states
      /\ tx'.acks = tx.acks /\ post'.states = post.states /\ post'.acks = post.acks
  BY <1>1 DEF TypeOK, TxSet, PostSet
<1>4. tx'.awaiting # NotAwaited => tx.awaiting # NotAwaited
  <2>1. post # Nothing
    BY <1>1 DEF Nothing
  <2> QED BY <1>1, <1>3, <2>1 DEF AwaitInv
<1>5. client'.link = client.link /\ client'.sync.epoch \in {0, client.sync.epoch}
  <2>1. Declared(Fresh).epoch = 0
    BY DEF Declared, Fresh
  <2> HIDE DEF Declared
  <2> QED BY <1>1, <2>1 DEF TypeOK, ClientSet
<1>6. OrderInv'
  BY <1>1, <1>3, <1>4, <1>5, OrderWritten DEF ContentInv
<1>7. ASSUME ~given.blind PROVE Claims'
  <2>1. OrderInv /\ Claims
    BY <1>1, <1>7 DEF ContentInv
  <2>2. /\ \A k \in 1 .. Len(tx.states) : In(tx.states[k], tx.states)
        /\ \A k \in 1 .. Len(tx.acks) : In(tx.acks[k], tx.acks)
        /\ \A k \in 1 .. Len(post.states) : In(post.states[k], post.states)
        /\ \A k \in 1 .. Len(post.acks) : In(post.acks[k], post.acks)
    BY InItself
  <2> QED BY <1>1, <1>3, <1>5, <2>1, <2>2, ClaimsPassed DEF OrderInv
<1> QED BY <1>1, <1>2, <1>6, <1>7 DEF ContentInv

LEMMA StopContent ==
  ASSUME TypeOK, ContentInv, WriterStops
  PROVE  ContentInv'
<1>1. writer' = "stopped" /\ UNCHANGED <<core, db, given>>
  BY DEF WriterStops
<1> QED BY <1>1 DEF ContentInv

(* The database opened anew, with nothing held and nothing underway. *)
LEMMA OpenedClaims ==
  ASSUME NEW d \in DbSet, Holds(d, core'.db), TypeOK', chan' = <<>>, tx' = Closed(d, NotAwaited),
         post' = Nothing, starts'.epoch \in {0, d.checkpoint.epoch},
         client'.sync.epoch = 0, client'.link = "none", pending'.epoch = 0
  PROVE  OrderInv' /\ Claims'
<1>1. \A k \in 1 .. Len(chan') : FALSE
  OBVIOUS
<1>2. tx'.db = d /\ tx'.awaiting = NotAwaited
      /\ (\A k \in 1 .. Len(tx'.states) : FALSE) /\ (\A k \in 1 .. Len(tx'.acks) : FALSE)
  BY ClosedFields, ClosedQueues
<1>3. (\A k \in 1 .. Len(post'.states) : FALSE) /\ (\A k \in 1 .. Len(post'.acks) : FALSE)
  BY NothingQueues
<1>4. Floor(d.checkpoint.epoch, core'.db, d.of, chan')
  BY <1>1 DEF Holds, Floor
<1>5. Floor(0, core'.db, d.of, chan')
  <2>1. \A i \in Ids : 0 <= d.of[i]
    BY DEF DbSet
  <2> QED BY <1>1, <2>1, CoreDbNext DEF Floor
<1>6. PositionClaims'
  <2>1. Floor(starts'.epoch, core'.db, d.of, chan')
    BY <1>4, <1>5
  <2> QED BY <1>2, <1>4, <1>5, <2>1 DEF PositionClaims, Vouched
<1>7. WriterClaims' /\ ChannelClaims'
  BY <1>1, <1>2, <1>3 DEF WriterClaims, ChannelClaims
<1>8. OfOrder' /\ OfCurrent' /\ AwaitedRows'
  BY <1>1, <1>2 DEF OfOrder, OfCurrent, AwaitedRows
<1> QED BY <1>6, <1>7, <1>8 DEF Claims, OrderInv

LEMMA StartupEpoch ==
  ASSUME NEW d
  PROVE  StartupStart(d).epoch \in {0, d.checkpoint.epoch}
<1>1. Fresh.epoch = 0 /\ Checkpoint(d.checkpoint).epoch = d.checkpoint.epoch
      /\ \A n : Resume(n).epoch = 0
  BY DEF Fresh, Checkpoint, Resume
<1> QED BY <1>1 DEF StartupStart

LEMMA OpenedFields ==
  ASSUME NEW d \in DbSet
  PROVE  Opened(d).of = d.of /\ Opened(d).checkpoint = d.checkpoint
  BY FrontierFields DEF Opened

LEMMA RestartContent ==
  ASSUME TypeOK, TypeOK', ContentInv, Restart
  PROVE  ContentInv'
<1>1. /\ db' = Opened(db) /\ starts' = StartupStart(db) /\ client' = NoClient
      /\ pending' = NoPending /\ chan' = <<>> /\ tx' = Closed(db', NotAwaited)
      /\ post' = Nothing /\ UNCHANGED <<core, given>>
  BY DEF Restart
<1>2. db \in DbSet /\ db' \in DbSet
  BY DEF TypeOK
<1>3. db'.of = db.of /\ db'.checkpoint = db.checkpoint
  BY <1>1, <1>2, OpenedFields
<1>4. starts'.epoch \in {0, db'.checkpoint.epoch}
  BY <1>1, <1>3, StartupEpoch
<1>5. client'.sync.epoch = 0 /\ client'.link = "none" /\ pending'.epoch = 0
  BY <1>1 DEF NoClient, NoPending
<1>6. ASSUME ~given.blind PROVE Holds(db', core'.db)
  BY <1>1, <1>3, <1>6 DEF ContentInv, Holds
<1>7. OrderInv'
  <2>1. /\ \A k \in 1 .. Len(chan') : FALSE
        /\ tx'.awaiting = NotAwaited
    BY <1>1, ClosedFields
  <2> QED BY <2>1 DEF OrderInv, OfOrder, OfCurrent, AwaitedRows
<1>8. ASSUME ~given.blind PROVE Claims'
  BY <1>1, <1>2, <1>4, <1>5, <1>6, <1>8, OpenedClaims
<1> QED BY <1>1, <1>6, <1>7, <1>8 DEF ContentInv

LEMMA ContentInit == Init => ContentInv
<1> SUFFICES ASSUME Init PROVE ContentInv
  OBVIOUS
<1> DEFINE d == [of |-> [i \in Ids |-> IF i <= left.legacy THEN 1 ELSE 0],
                 hidden |-> {}, checkpoint |-> NoCheckpoint, frontier |-> NoFrontier]
<1>0. TypeOK
  BY InitTyped
<1>1. /\ db = Opened(d) /\ starts = StartupStart(db) /\ client = NoClient
      /\ pending = NoPending /\ chan = <<>> /\ tx = Closed(db, NotAwaited)
      /\ post = Nothing /\ core.db = 1
  BY DEF Init
<1>2. d \in DbSet
  BY DEF DbSet, CheckpointSet, NoFrontier
<1>3. d.checkpoint.epoch = 0
  BY DEF NoCheckpoint
<1> HIDE DEF d
<1>4. db.checkpoint.epoch = 0
  BY <1>1, <1>2, <1>3, OpenedFields
<1>5. db.of \in [Ids -> Nat]
  BY <1>0 DEF TypeOK, DbSet
<1>6. Holds(db, core.db)
  <2>1. \A i \in Ids : 0 <= db.of[i]
    BY <1>5
  <2> QED BY <1>1, <1>4, <2>1 DEF Holds
<1>7. starts.epoch = 0 /\ client.sync.epoch = 0 /\ client.link = "none" /\ pending.epoch = 0
  BY <1>1, <1>4, StartupEpoch DEF NoClient, NoPending
<1>8. \A k \in 1 .. Len(chan) : FALSE
  BY <1>1
<1>9. tx.db = db /\ tx.awaiting = NotAwaited
      /\ (\A k \in 1 .. Len(tx.states) : FALSE) /\ (\A k \in 1 .. Len(tx.acks) : FALSE)
      /\ (\A k \in 1 .. Len(post.states) : FALSE) /\ (\A k \in 1 .. Len(post.acks) : FALSE)
  BY <1>1, ClosedFields, ClosedQueues, NothingQueues
<1>10. OrderInv
  BY <1>8, <1>9 DEF OrderInv, OfOrder, OfCurrent, AwaitedRows
<1>11. Vouched(0)
  BY <1>0, <1>10, FloorOfNothing DEF OrderInv
<1>12. Claims
  BY <1>4, <1>7, <1>8, <1>9, <1>11 DEF Claims, PositionClaims, WriterClaims, ChannelClaims
<1> QED BY <1>6, <1>10, <1>12 DEF ContentInv

LEMMA ContentStep ==
  ASSUME TypeOK, TypeOK', AwaitInv, ContentInv, [Next]_vars
  PROVE  ContentInv'
<1>1. CASE OpenTrade \/ Recreate \/ \E i \in Ids : HideRow(i) \/ RestoreRow(i) \/ RetireRow(i)
  BY <1>1, CoreContent
<1>2. CASE StartRun \/ StopRun \/ LinkUp \/ LinkDown \/ TakeDelete \/ SendDelete
  BY <1>2, FeedContent
<1>3. CASE ServePage \/ AskAliveMap \/ AnswerAliveMap
  BY <1>3, CatchUpContent
<1>4. CASE Apply
  BY <1>4, ApplyContent
<1>5. CASE Commit \/ PublishState \/ Acknowledge \/ Redeclare
  BY <1>5, CommitContent, PublishContent, AcknowledgeContent, RedeclareContent
<1>6. CASE WriterStops \/ Restart
  BY <1>6, StopContent, RestartContent
<1>7. CASE UNCHANGED vars
  BY <1>7 DEF vars, ContentInv, OrderInv, OfOrder, OfCurrent, AwaitedRows, Online, Claims,
              PositionClaims, WriterClaims, ChannelClaims, Vouched
<1> QED BY <1>1, <1>2, <1>3, <1>4, <1>5, <1>6, <1>7 DEF Next

(* Rows of a replaced database never pass for the checkpoint's database:   *)
(* every epoch that reaches the checkpoint was vouched for on its way      *)
(* (commit_page, apply_alive_map, page_applied, startup_start).            *)
THEOREM StaleCorrect == Spec => []NoStaleContent
<1>1. Init => AwaitInv /\ ContentInv
  BY AwaitInit, ContentInit
<1>2. TypeOK /\ TypeOK' /\ AwaitInv /\ ContentInv /\ [Next]_vars => (AwaitInv /\ ContentInv)'
  BY AwaitStep, ContentStep
<1>3. TypeOK /\ ContentInv => NoStaleContent
  BY DEF ContentInv, Holds, NoStaleContent, TypeOK, DbSet
<1> QED BY <1>1, <1>2, <1>3, ReportTypeCorrect, PTL DEF Spec
=============================================================================
