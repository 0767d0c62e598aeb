----------------------- MODULE ReportHistory_proofs -----------------------
(***************************************************************************)
(* NoHole of ReportReplica, for every number of rows and every scenario    *)
(* with CalmDeletes: nothing below a point where the next download may     *)
(* begin is missing from the committed replica, unless an alive map was    *)
(* asked for after its download had been replaced (Timely).                *)
(*                                                                         *)
(* A position n is claimed by whoever may turn it into such a point: the   *)
(* client's cursor, the catch-up whose alive map is awaited, a page or an  *)
(* alive map in the channel, a page to be acknowledged, a start state to   *)
(* be published or published, the checkpoint and the frontier of the       *)
(* candidate and of the committed database. The invariant says of each     *)
(* claimant that every row served below n is in the database (Held) or     *)
(* comes from a message applied before the claim is (Covered), and when    *)
(* the claim binds nobody: it speaks for another database (Valid, Speaks), *)
(* the page is skipped, or a delete will mask it (Void). That rests on the *)
(* order in which things reach the writer (Era, Content, Retired), on one  *)
(* answer being under way per download (Book), and on a reset coming only  *)
(* where nothing of the present database was promised (Clear).             *)
(***************************************************************************)
EXTENDS ReportReplica_proofs

(* None of the exceptions has happened that bear on single claims only.    *)
Trusted == ~given.blind /\ ~given.overtaken /\ ~given.unmasked
Up == writer = "up"

(* What the writer holds of a batch, applied or committed. *)
Told == IF tx.open THEN tx.states ELSE post.states
Acked == IF tx.open THEN tx.acks ELSE post.acks
Asked == IF tx.open THEN tx.resyncs ELSE post.resyncs

(* A message that empties the replica, because the core's database was     *)
(* replaced or because the user asked for it.                              *)
Resets(m) == m.type = "Recreated" \/ (m.type = "Page" /\ m.recreated)
Wipes(m) == m.type = "ForgetCore" \/ Resets(m)
Unwiped(q, j, k) == \A l \in (j + 1) .. k : ~Wipes(q[l])

(* The message at k meets a delete: w is the wait before the first message *)
(* of q. A skipped page is acknowledged only, an ignored map not at all.   *)
ForgetBefore(q, k) == \E l \in 1 .. (k - 1) : q[l].type = "ForgetCore"
Skipped(q, w, k) == ForgetBefore(q, k) \/ (w # NotAwaited /\ q[k].id # w)
Ignored(q, w, k) == ForgetBefore(q, k) \/ w # NotAwaited

(* Row i of database e is written by the message at j; and it is there     *)
(* once the first k messages have been applied to a database with rows of. *)
Lands(q, w, e, i, j) ==
  /\ Sourced(q[j]) /\ q[j].of = e /\ q[j].row = i
  /\ q[j].type = "Page" => ~Skipped(q, w, j)
Comes(q, of, w, e, i, k) ==
  \/ of[i] = e /\ Unwiped(q, 0, k)
  \/ \E j \in 1 .. k : Lands(q, w, e, i, j) /\ Unwiped(q, j, k)

(* All rows served below n are within the first k messages, or held by d.  *)
Within(n) == n - 1 <= core.top
Covered(n, k) ==
  /\ Within(n)
  /\ \A i \in Served : i < n => Comes(chan, tx.db.of, tx.awaiting, core.db, i, k)
Held(d, n) == Within(n) /\ \A i \in Served : i < n => d.of[i] = core.db

(* A delete is under way: the download it replaces claims nothing.         *)
Void ==
  tx.awaiting # NotAwaited \/ \E k \in 1 .. Len(chan) : chan[k].type = "ForgetCore"

(* A core that never replaced its database confirms any epoch, also none.  *)
Valid(x) == x = core.db \/ core.db = 1
Old(x) == x # 0 /\ x # core.db
Matching(m) == m.run = client.run /\ m.id = client.sync.id
Answer(m) == m.type = "Page" /\ Matching(m)
Speaks(s) == core.db = IF s.kind = "Checkpoint" THEN s.epoch ELSE 1
-----------------------------------------------------------------------------
(* Nothing is younger than the core's database, nor above its last row.    *)
EraRows(d) == \A i \in Ids : d.of[i] <= core.db /\ (d.of[i] = core.db => i <= core.top)
EraDb(d) == EraRows(d) /\ d.checkpoint.epoch <= core.db
EraMsg(m) ==
  /\ Sourced(m) => m.of <= core.db /\ (m.of = core.db => m.row <= core.top)
  /\ m.type = "AliveMap" => m.epoch <= core.db
EraStart(s) == s.epoch <= core.db /\ (s.epoch # 0 <=> s.kind = "Checkpoint")

Era ==
  /\ \A i \in Served : i <= core.top
  /\ EraDb(db) /\ EraDb(tx.db)
  /\ EraStart(starts) /\ starts.kind # "Wiped"
  /\ client.sync.epoch <= core.db /\ pending.epoch <= core.db
  /\ \A k \in 1 .. Len(chan) : EraMsg(chan[k])
  /\ \A k \in 1 .. Len(Told) : EraStart(Told[k])
  /\ \A k \in 1 .. Len(Acked) : EraMsg(Acked[k])

(* One batch at a time: applied, or committed and not yet published.       *)
Batch ==
  /\ ~tx.open => tx.states = <<>> /\ tx.acks = <<>> /\ tx.resyncs = <<>>
  /\ tx.open => post = Nothing

(* Rows of the served database come last: nothing older is behind one.     *)
Content ==
  /\ \A i \in Ids : tx.db.of[i] = core.db =>
       \A k \in 1 .. Len(chan) : Sourced(chan[k]) => chan[k].of = core.db
  /\ \A j, k \in 1 .. Len(chan) :
       (j < k /\ Sourced(chan[j]) /\ Sourced(chan[k]) /\ chan[j].of = core.db)
         => chan[k].of = core.db

(* A delete on its way is of a row the core no longer serves, or of a row  *)
(* of an earlier database.                                                 *)
Retired ==
  \A k \in 1 .. Len(chan) : (chan[k].type = "Delete" /\ chan[k].row \in Served) =>
    /\ tx.db.of[chan[k].row] # core.db
    /\ \A j \in 1 .. (k - 1) :
         (Sourced(chan[j]) /\ chan[j].row = chan[k].row) => chan[j].of # core.db
-----------------------------------------------------------------------------
(* Without a run nothing is declared, and nothing awaits an alive map.     *)
Idle ==
  /\ client.link = "none" <=> client.run = NoRun
  /\ client.run = NoRun => client = NoClient /\ pending = NoPending

(* Pages and declarations carry numbers that were given out, and the page  *)
(* of the declared download the present run.                               *)
Owned(m) == m.id = client.sync.id => m.run = client.run
Ranged(m) == m.run # NoRun /\ m.id # NoSync /\ m.id <= given.syncs
Numbers ==
  /\ \A k \in 1 .. Len(chan) :
       /\ chan[k].type = "Page" => Ranged(chan[k]) /\ Owned(chan[k])
       /\ chan[k].type = "Recreated" => chan[k].run # NoRun
  /\ \A k \in 1 .. Len(Acked) : Ranged(Acked[k])
  /\ \A k \in 1 .. Len(Asked) : Asked[k] # NoRun
  /\ client.sync.id <= given.syncs
  /\ client.run # NoRun => client.sync.id # NoSync

(* The client asks for a page when it has heard of the one before.         *)
OneAnswer ==
  /\ \A k, l \in 1 .. Len(chan) : Answer(chan[k]) /\ Answer(chan[l]) => k = l
  /\ \A k, l \in 1 .. Len(Acked) : Matching(Acked[k]) /\ Matching(Acked[l]) => k = l
  /\ \A k \in 1 .. Len(chan), l \in 1 .. Len(Acked) :
       ~(Answer(chan[k]) /\ Matching(Acked[l]))
InFlight ==
  \/ \E k \in 1 .. Len(chan) : Answer(chan[k])
  \/ \E k \in 1 .. Len(Acked) : Matching(Acked[k])
(* The completion a map is due for, and the page that follows it, speak of *)
(* one database, or the page and the map both report another.              *)
Confirms(m) == m.of = pending.epoch \/ (m.recreated /\ Old(pending.epoch))
Phases ==
  /\ InFlight => client.sync.phase \in {"page", "repeat"}
  /\ pending # NoPending =>
       /\ client.run # NoRun /\ pending.id <= given.syncs
       /\ \/ client.sync.epoch = pending.epoch
          \/ client.sync.from = 1 /\ (client.sync.epoch = 0 \/ Old(pending.epoch))
  /\ pending.at \in {"unread", "behind"} /\ pending.id = client.sync.id =>
       client.sync.epoch = pending.epoch
  /\ pending.at = "unread" => client.sync.phase \in {"ask", "done"}
  /\ pending.at = "behind" => client.sync.phase = "ask" /\ pending.id = client.sync.id
  /\ pending.at = "asked" /\ client.sync.phase \in {"page", "repeat"} =>
       /\ client.sync.epoch = pending.epoch /\ pending.id = client.sync.id
       /\ \A k \in 1 .. Len(chan) : Answer(chan[k]) => Confirms(chan[k])
       /\ \A k \in 1 .. Len(Acked) : Matching(Acked[k]) => Confirms(Acked[k])

(* The wait for a number is the wait for the declared download: nothing of *)
(* it has been acknowledged, and nothing of another follows its first      *)
(* page.                                                                   *)
Awaiting ==
  tx.awaiting \notin {NotAwaited, Undeclared} =>
    /\ client.sync.id = tx.awaiting /\ client.sync.from = 1 /\ client.sync.epoch = 0
    /\ client.sync.phase \in {"ask", "page", "repeat"}
    /\ pending.id # client.sync.id
    /\ \A k \in 1 .. Len(Acked) : ~Matching(Acked[k])
    /\ \A k \in 1 .. Len(chan) : Answer(chan[k]) =>
         /\ pending = NoPending
         /\ \A l \in (k + 1) .. Len(chan) : chan[l].type \notin {"Page", "AliveMap"}

(* A Recheck would end the wait; no connection change meets a delete.      *)
NoRecheck ==
  /\ tx.awaiting # NotAwaited => \A k \in 1 .. Len(chan) : chan[k].type # "Recheck"
  /\ \A k, l \in 1 .. Len(chan) :
       k < l /\ chan[k].type = "ForgetCore" => chan[l].type # "Recheck"

(* One delete at a time, from the user's click to its publication.         *)
OneDelete ==
  /\ deleting.phase # "none" => deleting.run = client.run
  /\ \A k \in 1 .. Len(chan) : chan[k].type = "ForgetCore" =>
       /\ deleting.phase = "sent" /\ chan[k].run = deleting.run
       /\ chan[k].run = NoRun => k = Len(chan)
  /\ \A k \in 1 .. Len(Told) : Told[k].kind = "Wiped" => deleting.phase = "sent"
  /\ \A k, l \in 1 .. Len(chan) :
       chan[k].type = "ForgetCore" /\ chan[l].type = "ForgetCore" => k = l
  /\ \A k, l \in 1 .. Len(Told) :
       Told[k].kind = "Wiped" /\ Told[l].kind = "Wiped" => k = l
  /\ \A k \in 1 .. Len(chan), l \in 1 .. Len(Told) :
       ~(chan[k].type = "ForgetCore" /\ Told[l].kind = "Wiped")
  /\ tx.awaiting # NotAwaited => awaiting # NotAwaited \/ deleting.phase = "sent"
-----------------------------------------------------------------------------
(* The terminal has, or is about to have, a checkpoint of the served       *)
(* database.                                                               *)
Learned ==
  \/ \E k \in 1 .. Len(chan) : chan[k].type = "AliveMap" /\ chan[k].epoch = core.db
  \/ \E k \in 1 .. Len(Told) : Told[k].epoch = core.db
  \/ starts.epoch = core.db
(* The declared download began without knowing it.                         *)
Ignorant ==
  \/ Old(client.sync.epoch) \/ Old(pending.epoch)
  \/ client.sync.epoch = 0 /\ ~Within(client.sync.from)
  \/ \E k \in 1 .. Len(chan) : Answer(chan[k]) /\ Old(chan[k].of)
  \/ \E k \in 1 .. Len(Acked) : Matching(Acked[k]) /\ Old(Acked[k].of)
(* Whoever is ignorant will be told of a replaced database, and the        *)
(* replica then has no checkpoint to lose: the case that overtaken         *)
(* excepts.                                                                *)
Knowledge ==
  /\ Ignorant => ~Learned /\ core.db # 1
  /\ \A k \in 1 .. Len(chan) : Resets(chan[k]) =>
       /\ core.db # 1 /\ starts.epoch # core.db
       /\ \A j \in 1 .. Len(Told) : Told[j].epoch # core.db
       /\ \A j \in 1 .. (k - 1) : chan[j].type = "AliveMap" => chan[j].epoch # core.db

(* A page taken for one of the served database is not followed by a reset. *)
Genuine(m) == ~m.recreated /\ m.of = core.db
Undisputed ==
  /\ \A k \in 1 .. Len(chan) : Answer(chan[k]) /\ Genuine(chan[k]) =>
       /\ \A l \in (k + 1) .. Len(chan) : ~Resets(chan[l])
       /\ client.sync.from = 1 \/ Valid(client.sync.epoch)
  /\ \A k \in 1 .. Len(Acked) : Matching(Acked[k]) /\ Genuine(Acked[k]) =>
       client.sync.from = 1 \/ Valid(client.sync.epoch)
-----------------------------------------------------------------------------
(* The claims of the client and of the messages in the channel.            *)
SyncClaim ==
  Valid(client.sync.epoch) =>
    /\ Within(client.sync.from)
    /\ ~Void => Covered(client.sync.from, Len(chan))
PendingClaim ==
  pending # NoPending /\ pending.epoch = core.db =>
    /\ Within(pending.next)
    /\ ~Void => Covered(pending.next, Len(chan))
PageClaims ==
  \A k \in 1 .. Len(chan) :
    (chan[k].type = "Page" /\ Genuine(chan[k]) /\ ~Skipped(chan, tx.awaiting, k))
      => Covered(chan[k].row + 1, k)
MapClaims ==
  \A k \in 1 .. Len(chan) :
    (chan[k].type = "AliveMap" /\ chan[k].epoch = core.db /\ ~Ignored(chan, tx.awaiting, k))
      => Covered(chan[k].next, k)
AckClaims ==
  \A k \in 1 .. Len(Acked) :
    (Matching(Acked[k]) /\ Genuine(Acked[k]) /\ ~Void) => Covered(Acked[k].row + 1, Len(chan))

(* The claims of the start state, published or to be, and of a database.   *)
StartClaim ==
  deleting.phase # "sent" /\ Speaks(starts) => Held(db, starts.next) /\ Held(tx.db, starts.next)
ToldClaims ==
  \A j \in 1 .. Len(Told) :
    (Speaks(Told[j]) /\ \A l \in (j + 1) .. Len(Told) : Told[l].kind # "Wiped")
      => Held(tx.db, Told[j].next)
Kept(d) ==
  /\ d.checkpoint.epoch = core.db => Held(d, d.checkpoint.next)
  /\ core.db = 1 /\ d.checkpoint = NoCheckpoint => Held(d, d.frontier + 1)
(* A database that claims nothing is empty, and known to be fresh.         *)
Unclaimed(d) == d.checkpoint = NoCheckpoint /\ d.frontier = NoFrontier
Blank(d) == Unclaimed(d) => Rows(d) = {} /\ starts.kind = "Fresh"
Blanks ==
  /\ Blank(db) /\ Blank(tx.db)
  /\ Unclaimed(tx.db) => \A k \in 1 .. Len(Told) : Told[k].kind = "Resume" /\ Told[k].next = 1

Book ==
  /\ Content /\ Retired /\ Idle /\ Numbers /\ OneAnswer /\ Phases
  /\ Awaiting /\ NoRecheck /\ OneDelete
Clear == Knowledge /\ Undisputed
Claimed == SyncClaim /\ PendingClaim /\ PageClaims /\ MapClaims /\ AckClaims
Remembered == StartClaim /\ ToldClaims /\ Kept(db) /\ Kept(tx.db)

(* What the stopped writer was told no longer matters; what is committed   *)
(* and published does.                                                     *)
HistoryInv ==
  /\ Era /\ Batch /\ Blanks
  /\ Up => Book
  /\ Up /\ Trusted => Clear /\ Claimed
  /\ Trusted => Remembered

(* Nothing is said once an alive map was asked for too late.               *)
Timely == ~given.late => HistoryInv

-----------------------------------------------------------------------------
(* Types of the parts the proof speaks of. *)

LEMMA CoreParts ==
  ASSUME TypeOK
  PROVE  /\ core.db \in Nat /\ core.db # 0 /\ core.top \in Nat
         /\ Served \in SUBSET Ids /\ \A i \in Ids : i \in Nat /\ i # 0
         /\ core.visible \in SUBSET Ids /\ core.hidden \in SUBSET Ids
         /\ Served = core.visible \cup core.hidden
  BY DEF TypeOK, CoreSet, Databases, Served, Ids

LEMMA ClientParts ==
  ASSUME TypeOK
  PROVE  /\ client.run \in Nat /\ client.sync.id \in Nat
         /\ client.sync.from \in Nat /\ client.sync.from # 0 /\ client.sync.epoch \in Nat
         /\ client.link \in {"none", "new", "up", "down"}
         /\ client.sync.phase \in {"none", "ask", "page", "repeat", "done"}
         /\ given.syncs \in Nat /\ given.runs \in Nat
         /\ given.blind \in BOOLEAN /\ given.overtaken \in BOOLEAN /\ given.unmasked \in BOOLEAN
         /\ pending.epoch \in Nat /\ pending.next \in Nat /\ pending.id \in Nat
         /\ pending = NoPending \/ (pending.epoch # 0 /\ pending.next # 0)
         /\ pending.at = "none" <=> pending = NoPending
         /\ pending.at \in {"none", "unread", "behind", "asked"}
         /\ tx.awaiting \in Nat \cup {-1} /\ awaiting \in Nat \cup {-1}
<1>1. pending \in Completions \cup {NoPending}
  BY DEF TypeOK
<1>2. /\ pending.epoch \in Nat /\ pending.next \in Nat /\ pending.id \in Nat
      /\ pending = NoPending \/ (pending.epoch # 0 /\ pending.next # 0)
      /\ pending.at = "none" <=> pending = NoPending
      /\ pending.at \in {"none", "unread", "behind", "asked"}
  BY <1>1 DEF Completions, NoPending, NoSync, Databases
<1> QED BY <1>2 DEF TypeOK, ClientSet, SyncSet, GivenSet, TxSet, NotAwaited

LEMMA DbParts ==
  ASSUME NEW d \in DbSet
  PROVE  /\ d.of \in [Ids -> Nat] /\ \A i \in Ids : d.of[i] \in Nat
         /\ d.checkpoint.epoch \in Nat /\ d.checkpoint.next \in Nat
         /\ d.checkpoint = NoCheckpoint <=> d.checkpoint.epoch = 0
         /\ d.frontier \in Nat \cup {-1} /\ d.frontier \in Int
         /\ d.hidden \in SUBSET Ids
  BY DEF DbSet, CheckpointSet, NoCheckpoint, Databases, NoFrontier

LEMMA StartParts ==
  ASSUME NEW s \in StartSet
  PROVE  /\ s.epoch \in Nat /\ s.next \in Nat /\ s.next # 0
         /\ s.kind \in {"Fresh", "Resume", "Checkpoint", "Wiped"}
  BY DEF StartSet

LEMMA PageParts ==
  ASSUME NEW m \in Pages
  PROVE  /\ m \in MessageSet /\ m.type = "Page" /\ m.row \in Nat /\ m.row \in Ids \cup {0}
         /\ m.of \in Nat /\ m.of # 0 /\ m.run \in Nat /\ m.id \in Nat
         /\ m.recreated \in BOOLEAN /\ m.last \in BOOLEAN
  BY DEF MessageSet, Pages, Ids, Databases

LEMMA HandParts ==
  ASSUME TypeOK
  PROVE  /\ db \in DbSet /\ tx.db \in DbSet /\ starts \in StartSet
         /\ Told \in Seq(StartSet) /\ Len(Told) \in Nat
         /\ \A k \in 1 .. Len(Told) : Told[k] \in StartSet
         /\ Acked \in Seq(Pages) /\ Len(Acked) \in Nat
         /\ \A k \in 1 .. Len(Acked) : Acked[k] \in Pages
         /\ Asked \in Seq(Nat) /\ Len(Asked) \in Nat
         /\ \A k \in 1 .. Len(Asked) : Asked[k] \in Nat
<1>1. db \in DbSet /\ tx.db \in DbSet /\ starts \in StartSet
  BY DEF TypeOK, TxSet
<1>2. Told \in Seq(StartSet) /\ Acked \in Seq(Pages) /\ Asked \in Seq(Nat)
  BY DEF TypeOK, TxSet, PostSet, Told, Acked, Asked
<1> QED BY <1>1, <1>2, ElementOfSeq, LenProperties

LEMMA ChanParts ==
  ASSUME TypeOK
  PROVE  /\ Len(chan) \in Nat
         /\ \A k \in 1 .. Len(chan) :
              /\ chan[k] \in MessageSet
              /\ Sourced(chan[k]) => chan[k].of \in Nat /\ chan[k].of # 0 /\ chan[k].row \in Nat
              /\ chan[k].type = "Page" => chan[k] \in Pages
              /\ chan[k].type = "AliveMap" =>
                   /\ chan[k] \in AliveMaps
                   /\ chan[k].epoch \in Nat /\ chan[k].epoch # 0
                   /\ chan[k].next \in Nat /\ chan[k].next # 0
<1>1. Len(chan) \in Nat /\ \A k \in 1 .. Len(chan) : chan[k] \in MessageSet
  BY ChanTyped
<1>2. ASSUME NEW m \in MessageSet
      PROVE  /\ Sourced(m) => m.of \in Nat /\ m.of # 0 /\ m.row \in Nat
             /\ m.type = "Page" => m \in Pages
             /\ m.type = "AliveMap" =>
                  m \in AliveMaps /\ m.epoch \in Nat /\ m.epoch # 0
                    /\ m.next \in Nat /\ m.next # 0
  BY MessageFields, SourcedTyped DEF Ids, AliveMaps, Databases
<1> QED BY <1>1, <1>2
-----------------------------------------------------------------------------
(* The channel grows by a message, or loses its first. *)

Grown(m) == chan' = chan \/ chan' = Append(chan, m)

LEMMA GrownChan ==
  ASSUME TypeOK, NEW m \in MessageSet, Grown(m)
  PROVE  /\ Len(chan) \in Nat /\ Len(chan') \in Nat /\ Len(chan) <= Len(chan')
         /\ \A k \in 1 .. Len(chan) : k \in 1 .. Len(chan') /\ chan'[k] = chan[k]
         /\ \A k \in 1 .. Len(chan') :
              k \in 1 .. Len(chan) \/ (k = Len(chan) + 1 /\ chan'[k] = m /\ Len(chan') = k)
<1>1. Len(chan) \in Nat
  BY ChanTyped
<1>2. CASE chan' = chan
  BY <1>1, <1>2
<1>3. CASE chan' = Append(chan, m)
  <2>1. /\ Len(chan') = Len(chan) + 1
        /\ \A k \in 1 .. Len(chan) : chan'[k] = chan[k]
        /\ chan'[Len(chan) + 1] = m
    BY <1>3, AppendedMsg
  <2> QED BY <1>1, <2>1
<1> QED BY <1>2, <1>3 DEF Grown

LEMMA SendGrows ==
  ASSUME NEW m, Send(m)
  PROVE  Grown(m) /\ (Up => chan' = Append(chan, m)) /\ (~Up => chan' = chan)
  BY DEF Send, Grown, Up

LEMMA AppendedFacts ==
  ASSUME TypeOK, NEW m \in MessageSet, chan' = Append(chan, m)
  PROVE  /\ Len(chan) \in Nat /\ Len(chan') = Len(chan) + 1
         /\ \A k \in 1 .. Len(chan) : chan'[k] = chan[k]
         /\ chan'[Len(chan) + 1] = m
  BY AppendedMsg

LEMMA TailFacts ==
  ASSUME TypeOK, chan # <<>>, chan' = Tail(chan)
  PROVE  /\ Len(chan) \in Nat /\ Len(chan') = Len(chan) - 1 /\ Len(chan') \in Nat
         /\ 1 \in 1 .. Len(chan)
         /\ \A k \in 1 .. Len(chan') : k + 1 \in 1 .. Len(chan) /\ chan'[k] = chan[k + 1]
<1>1. /\ Head(chan) = chan[1] /\ 1 \in 1 .. Len(chan)
      /\ Len(chan') = Len(chan) - 1 /\ Len(chan) \in Nat
      /\ \A k \in 1 .. Len(chan') : k + 1 \in 1 .. Len(chan) /\ chan'[k] = chan[k + 1]
  BY HeadTail
<1> QED BY <1>1
-----------------------------------------------------------------------------
(* What a row's coming depends on. *)

(* Messages behind position k do not matter. *)
LEMMA ComesPrefix ==
  ASSUME NEW q, NEW r, NEW of, NEW w, NEW e, NEW i, NEW k \in Nat,
         \A j \in 1 .. k : r[j] = q[j], Comes(q, of, w, e, i, k)
  PROVE  Comes(r, of, w, e, i, k)
<1>1. CASE of[i] = e /\ Unwiped(q, 0, k)
  BY <1>1 DEF Comes, Unwiped
<1>2. ASSUME NEW j \in 1 .. k, Lands(q, w, e, i, j), Unwiped(q, j, k)
      PROVE  Comes(r, of, w, e, i, k)
  <2>1. Unwiped(r, j, k)
    BY <1>2 DEF Unwiped
  <2>2. r[j] = q[j] /\ (ForgetBefore(r, j) => ForgetBefore(q, j))
    BY <1>2 DEF ForgetBefore
  <2>3. Lands(r, w, e, i, j)
    BY <1>2, <2>2 DEF Lands, Skipped
  <2> QED BY <1>2, <2>1, <2>3 DEF Comes
<1> QED BY <1>1, <1>2 DEF Comes

(* A message that wipes nothing takes nothing away. *)
LEMMA ComesLonger ==
  ASSUME NEW q, NEW of, NEW w, NEW e, NEW i, NEW k \in Nat,
         ~Wipes(q[k + 1]), Comes(q, of, w, e, i, k)
  PROVE  Comes(q, of, w, e, i, k + 1)
<1>1. \A j \in 0 .. k : Unwiped(q, j, k) => Unwiped(q, j, k + 1)
  BY DEF Unwiped
<1> QED BY <1>1 DEF Comes

LEMMA ComesFurther ==
  ASSUME NEW q, NEW of, NEW w, NEW e, NEW i, NEW k \in Nat, NEW n \in Nat, k <= n,
         \A l \in (k + 1) .. n : ~Wipes(q[l]), Comes(q, of, w, e, i, k)
  PROVE  Comes(q, of, w, e, i, n)
<1>1. \A j \in 0 .. k : Unwiped(q, j, k) => Unwiped(q, j, n)
  BY DEF Unwiped
<1> QED BY <1>1 DEF Comes
-----------------------------------------------------------------------------
(* Steps of the core, the feed and the user leave the writer's side alone. *)

Aside == UNCHANGED <<db, tx, post, awaiting, starts, writer>>

LEMMA AsideHands ==
  ASSUME Aside
  PROVE  /\ Told' = Told /\ Acked' = Acked /\ Asked' = Asked /\ Up' = Up
         /\ db' = db /\ tx' = tx /\ post' = post /\ awaiting' = awaiting
         /\ starts' = starts /\ writer' = writer
  BY DEF Aside, Told, Acked, Asked, Up

(* The core serves the same database: rows leave, or appear on top. *)
SameCore ==
  /\ core'.db = core.db /\ core.top <= core'.top
  /\ \A i \in Served' : i \in Served \/ i > core.top

LEMMA CoverGrown ==
  ASSUME TypeOK, TypeOK', NEW m \in MessageSet, Grown(m), UNCHANGED tx, SameCore,
         NEW n \in Nat, NEW k \in Nat, k <= Len(chan), Covered(n, k)
  PROVE  Covered(n, k)'
<1>1. /\ \A j \in 1 .. k : chan'[j] = chan[j]
  BY GrownChan
<1>2. core'.db = core.db /\ core.top <= core'.top /\ n - 1 <= core.top
      /\ core.top \in Nat
  BY CoreParts DEF SameCore, Covered, Within
<1>2a. core'.top \in Nat
  BY DEF TypeOK, CoreSet
<1>3. Within(n)'
  BY <1>2, <1>2a DEF Within
<1>4. ASSUME NEW i \in Served', i < n
      PROVE  Comes(chan', tx'.db.of, tx'.awaiting, core'.db, i, k)
  <2>1. i \in Nat
    BY DEF TypeOK, CoreSet, Served, Ids
  <2>2. i \in Served
    BY <1>2, <1>4, <2>1 DEF SameCore
  <2>3. Comes(chan, tx.db.of, tx.awaiting, core.db, i, k)
    BY <1>4, <2>2 DEF Covered
  <2>4. Comes(chan', tx.db.of, tx.awaiting, core.db, i, k)
    BY <1>1, <2>3, ComesPrefix
  <2> QED BY <1>2, <2>4
<1> QED BY <1>3, <1>4 DEF Covered

LEMMA CoverLonger ==
  ASSUME TypeOK, TypeOK', NEW m \in MessageSet, Grown(m), UNCHANGED tx, SameCore,
         chan' = chan \/ ~Wipes(m), NEW n \in Nat, Covered(n, Len(chan))
  PROVE  Covered(n, Len(chan))'
<1>1. Len(chan) \in Nat
  BY ChanParts
<1>2. CASE chan' = chan
  BY <1>1, <1>2, CoverGrown
<1>3. CASE chan' = Append(chan, m) /\ chan' # chan
  <2>1. Len(chan') = Len(chan) + 1 /\ chan'[Len(chan) + 1] = m
    BY <1>3, AppendedFacts
  <2> DEFINE L == Len(chan)
  <2>2. L \in Nat /\ Covered(n, L)
    BY <1>1
  <2>2a. Len(chan') = L + 1 /\ ~Wipes(chan'[L + 1]) /\ L <= Len(chan)
    BY <1>1, <1>3, <2>1
  <2> HIDE DEF L
  <2>3. Within(n)' /\ \A i \in Served' : i < n =>
             Comes(chan', tx'.db.of, tx'.awaiting, core'.db, i, L)
    BY <2>2, <2>2a, CoverGrown DEF Covered
  <2>4. \A i \in Served' : i < n => Comes(chan', tx'.db.of, tx'.awaiting, core'.db, i, L + 1)
    BY <2>2, <2>2a, <2>3, ComesLonger
  <2> QED BY <2>2a, <2>3, <2>4 DEF Covered
<1> QED BY <1>2, <1>3 DEF Grown

LEMMA EraGrown ==
  ASSUME TypeOK, TypeOK', Era, Aside, NEW m \in MessageSet, Grown(m),
         core'.db = core.db, core.top <= core'.top, \A i \in Served' : i <= core'.top,
         EraMsg(m)', client'.sync.epoch <= core.db, pending'.epoch <= core.db
  PROVE  Era'
<1>1. core.db \in Nat /\ core.top \in Nat /\ core'.top \in Nat /\ \A i \in Ids : i \in Nat
  BY CoreParts DEF TypeOK, CoreSet
<1>2. Told' = Told /\ Acked' = Acked /\ db' = db /\ tx' = tx /\ starts' = starts
  BY AsideHands
<1>3. EraDb(db)' /\ EraDb(tx.db)'
  BY <1>1, <1>2 DEF Era, EraDb, EraRows
<1>4. \A k \in 1 .. Len(chan') : EraMsg(chan[k])'
  <2>1. ASSUME NEW k \in 1 .. Len(chan), EraMsg(chan[k]) PROVE EraMsg(chan[k])'
    <3>1. chan'[k] = chan[k]
      BY GrownChan
    <3>2. Sourced(chan[k]) => chan[k].row \in Nat
      BY ChanParts
    <3> QED BY <1>1, <2>1, <3>1, <3>2 DEF EraMsg, Sourced
  <2>2. ASSUME NEW k \in 1 .. Len(chan'), chan'[k] = m PROVE EraMsg(chan[k])'
    BY <2>2 DEF EraMsg, Sourced
  <2> QED BY <2>1, <2>2, GrownChan DEF Era
<1>5. \A k \in 1 .. Len(Acked') : EraMsg(Acked[k])'
  <2>1. \A k \in 1 .. Len(Acked) : Acked[k].row \in Nat
    BY HandParts, PageParts
  <2> QED BY <1>1, <1>2, <2>1 DEF Era, EraMsg, Sourced
<1> QED BY <1>1, <1>2, <1>3, <1>4, <1>5 DEF Era, EraStart
-----------------------------------------------------------------------------
(* What a step aside of the writer keeps, invariant by invariant. *)

SameSync ==
  /\ client'.run = client.run /\ client'.sync.id = client.sync.id
  /\ client'.sync.from = client.sync.from /\ client'.sync.epoch = client.sync.epoch

LEMMA ContentGrown ==
  ASSUME TypeOK, Content, UNCHANGED tx, NEW m \in MessageSet, Grown(m), core'.db = core.db,
         Sourced(m) => m.of = core.db
  PROVE  Content'
<1>1. \A i \in Ids : tx'.db.of[i] = core'.db =>
        \A k \in 1 .. Len(chan') : Sourced(chan'[k]) => chan'[k].of = core'.db
  BY GrownChan DEF Content
<1>2. \A j, k \in 1 .. Len(chan') :
        (j < k /\ Sourced(chan'[j]) /\ Sourced(chan'[k]) /\ chan'[j].of = core'.db)
          => chan'[k].of = core'.db
  BY GrownChan DEF Content
<1> QED BY <1>1, <1>2 DEF Content, Sourced

LEMMA RetiredGrown ==
  ASSUME TypeOK, TypeOK', Era, Retired, UNCHANGED tx, NEW m \in MessageSet, Grown(m), SameCore,
         m.type = "Delete" => m.row \notin Served'
  PROVE  Retired'
<1>1. core'.db = core.db /\ core.top \in Nat /\ \A i \in Served' : i \in Ids /\ i \in Nat
  BY CoreParts DEF SameCore, TypeOK, CoreSet, Served, Ids
<1>2. ASSUME NEW k \in 1 .. Len(chan'), chan'[k].type = "Delete", chan'[k].row \in Served'
      PROVE  /\ tx'.db.of[chan'[k].row] # core'.db
             /\ \A j \in 1 .. (k - 1) :
                  (Sourced(chan'[j]) /\ chan'[j].row = chan'[k].row) => chan'[j].of # core'.db
  <2>1. k \in 1 .. Len(chan) /\ chan'[k] = chan[k]
    BY <1>2, GrownChan
  <2>2. \A j \in 1 .. (k - 1) : j \in 1 .. Len(chan) /\ chan'[j] = chan[j]
    BY <2>1, GrownChan
  <2>3. CASE chan[k].row \in Served
    BY <1>1, <1>2, <2>1, <2>2, <2>3 DEF Retired
  <2>4. CASE chan[k].row > core.top
    <3>1. tx.db.of[chan[k].row] # core.db
      BY <1>1, <1>2, <2>1, <2>4 DEF Era, EraDb, EraRows
    <3>2. \A j \in 1 .. (k - 1) :
            (Sourced(chan[j]) /\ chan[j].row = chan[k].row) => chan[j].of # core.db
      BY <1>1, <1>2, <2>1, <2>2, <2>4 DEF Era, EraMsg
    <3> QED BY <1>1, <2>1, <2>2, <3>1, <3>2
  <2> QED BY <1>2, <2>1, <2>3, <2>4 DEF SameCore
<1> QED BY <1>2 DEF Retired, Sourced

LEMMA NumbersGrown ==
  ASSUME TypeOK, TypeOK', Numbers, Aside, NEW m \in MessageSet, Grown(m),
         given.syncs <= given'.syncs,
         m.type = "Page" => Ranged(m)' /\ Owned(m)', m.type = "Recreated" => m.run # NoRun,
         \/ client'.run = client.run /\ client'.sync.id = client.sync.id
         \/ client'.sync.id \notin 1 .. given.syncs,
         client'.sync.id <= given'.syncs,
         client'.run # NoRun => client'.sync.id # NoSync
  PROVE  Numbers'
<1>1. Acked' = Acked /\ Asked' = Asked
  BY AsideHands
<1>2. given.syncs \in Nat /\ given'.syncs \in Nat
  BY ClientParts DEF TypeOK, GivenSet
<1>3. \A k \in 1 .. Len(chan) : chan[k].type = "Page" => chan[k].id \in Nat
  BY ChanParts, PageParts
<1>4. \A k \in 1 .. Len(Acked) : Acked[k].id \in Nat
  BY HandParts, PageParts
<1>5. \A k \in 1 .. Len(chan') :
        /\ chan'[k].type = "Page" => Ranged(chan[k])' /\ Owned(chan[k])'
        /\ chan'[k].type = "Recreated" => chan'[k].run # NoRun
  <2>1. ASSUME NEW k \in 1 .. Len(chan)
        PROVE  /\ chan'[k].type = "Page" => Ranged(chan[k])' /\ Owned(chan[k])'
               /\ chan'[k].type = "Recreated" => chan'[k].run # NoRun
    <3>1. chan'[k] = chan[k]
      BY GrownChan
    <3> QED BY <1>2, <1>3, <3>1 DEF Numbers, Ranged, Owned, NoSync
  <2>2. ASSUME NEW k \in 1 .. Len(chan'), chan'[k] = m
        PROVE  /\ chan'[k].type = "Page" => Ranged(chan[k])' /\ Owned(chan[k])'
               /\ chan'[k].type = "Recreated" => chan'[k].run # NoRun
    BY <2>2 DEF Ranged, Owned
  <2> QED BY <2>1, <2>2, GrownChan
<1>6. \A k \in 1 .. Len(Acked') : Ranged(Acked[k])'
  BY <1>1, <1>2, <1>4 DEF Numbers, Ranged
<1> QED BY <1>1, <1>5, <1>6 DEF Numbers

(* No page of the present download is on its way. *)
LEMMA NoneInFlight ==
  ASSUME ~InFlight
  PROVE  /\ OneAnswer
         /\ \A k \in 1 .. Len(chan) : ~Answer(chan[k])
         /\ \A k \in 1 .. Len(Acked) : ~Matching(Acked[k])
  BY DEF InFlight, OneAnswer

LEMMA AnswersGrown ==
  ASSUME TypeOK, Aside, NEW m \in MessageSet, Grown(m), m.type # "Page",
         client'.run = client.run, client'.sync.id = client.sync.id
  PROVE  /\ \A k \in 1 .. Len(chan') : Answer(chan[k])' =>
              k \in 1 .. Len(chan) /\ chan'[k] = chan[k] /\ Answer(chan[k])
         /\ \A k \in 1 .. Len(Acked') : Matching(Acked[k])' =>
              k \in 1 .. Len(Acked) /\ Acked'[k] = Acked[k] /\ Matching(Acked[k])
         /\ InFlight' => InFlight
         /\ OneAnswer => OneAnswer'
<1>1. \A k \in 1 .. Len(chan') : Answer(chan[k])' =>
        k \in 1 .. Len(chan) /\ chan'[k] = chan[k] /\ Answer(chan[k])
  BY GrownChan DEF Answer, Matching
<1>2. Acked' = Acked
  BY AsideHands
<1>3. \A k \in 1 .. Len(Acked') : Matching(Acked[k])' => k \in 1 .. Len(Acked) /\ Matching(Acked[k])
  BY <1>2 DEF Matching
<1>4. InFlight' => InFlight
  BY <1>1, <1>3 DEF InFlight
<1>5. OneAnswer => OneAnswer'
  BY <1>1, <1>3 DEF OneAnswer
<1> QED BY <1>1, <1>2, <1>3, <1>4, <1>5

LEMMA AwaitingGrown ==
  ASSUME TypeOK, Awaiting, Aside, NEW m \in MessageSet, Grown(m), SameSync,
         m.type \notin {"Page", "AliveMap"}, pending' \in {pending, NoPending},
         client.sync.phase \in {"ask", "page", "repeat"} =>
           client'.sync.phase \in {"ask", "page", "repeat"}
  PROVE  Awaiting'
<1> SUFFICES ASSUME tx'.awaiting \notin {NotAwaited, Undeclared}
             PROVE  /\ client'.sync.id = tx'.awaiting /\ client'.sync.from = 1
                    /\ client'.sync.epoch = 0
                    /\ client'.sync.phase \in {"ask", "page", "repeat"}
                    /\ pending'.id # client'.sync.id
                    /\ \A k \in 1 .. Len(Acked') : ~Matching(Acked[k])'
                    /\ \A k \in 1 .. Len(chan') : Answer(chan[k])' =>
                         /\ pending' = NoPending
                         /\ \A l \in (k + 1) .. Len(chan') :
                              chan'[l].type \notin {"Page", "AliveMap"}
  BY DEF Awaiting
<1>1. tx.awaiting \notin {NotAwaited, Undeclared} /\ tx' = tx
  BY AsideHands
<1>2. /\ client.sync.id = tx.awaiting /\ client.sync.from = 1 /\ client.sync.epoch = 0
      /\ client.sync.phase \in {"ask", "page", "repeat"}
      /\ \A k \in 1 .. Len(Acked) : ~Matching(Acked[k])
      /\ \A k \in 1 .. Len(chan) : Answer(chan[k]) =>
           /\ pending = NoPending
           /\ \A l \in (k + 1) .. Len(chan) : chan[l].type \notin {"Page", "AliveMap"}
  BY <1>1 DEF Awaiting
<1>2a. pending'.id # client'.sync.id
  BY <1>1, <1>2 DEF Awaiting, SameSync, NoPending, NoSync, Undeclared
<1>3. \A k \in 1 .. Len(Acked') : ~Matching(Acked[k])'
  BY <1>2, AnswersGrown DEF SameSync
<1>4. ASSUME NEW k \in 1 .. Len(chan'), Answer(chan[k])'
      PROVE  /\ pending' = NoPending
             /\ \A l \in (k + 1) .. Len(chan') : chan'[l].type \notin {"Page", "AliveMap"}
  <2>1. k \in 1 .. Len(chan) /\ Answer(chan[k])
    BY <1>4, AnswersGrown DEF SameSync
  <2>2. \A l \in (k + 1) .. Len(chan') : l \in 1 .. Len(chan')
    BY <2>1
  <2> QED BY <1>2, <2>1, <2>2, GrownChan
<1> QED BY <1>1, <1>2, <1>2a, <1>3, <1>4 DEF SameSync

LEMMA NoRecheckGrown ==
  ASSUME TypeOK, NoRecheck, UNCHANGED tx, NEW m \in MessageSet, Grown(m),
         chan' # chan /\ m.type = "Recheck" =>
           tx.awaiting = NotAwaited /\ \A k \in 1 .. Len(chan) : chan[k].type # "ForgetCore"
  PROVE  NoRecheck'
<1>1. tx'.awaiting # NotAwaited => \A k \in 1 .. Len(chan') : chan'[k].type # "Recheck"
  BY GrownChan DEF NoRecheck
<1>2. \A k, l \in 1 .. Len(chan') :
        k < l /\ chan'[k].type = "ForgetCore" => chan'[l].type # "Recheck"
  BY GrownChan DEF NoRecheck
<1> QED BY <1>1, <1>2 DEF NoRecheck

LEMMA OneDeleteGrown ==
  ASSUME TypeOK, OneDelete, Aside, NEW m \in MessageSet, Grown(m),
         m.type # "ForgetCore", chan' = chan \/ client.run # NoRun,
         deleting.phase # "none" => deleting' = deleting /\ client'.run = client.run,
         deleting'.phase \in {"none", "taken", "sent"},
         deleting'.phase # "none" => deleting'.run = client'.run
  PROVE  OneDelete'
<1>1. Told' = Told /\ tx' = tx /\ awaiting' = awaiting
  BY AsideHands
<1>2. \A k \in 1 .. Len(chan') : chan'[k].type = "ForgetCore" =>
        k \in 1 .. Len(chan) /\ chan'[k] = chan[k]
  BY GrownChan
<1>3. ASSUME NEW k \in 1 .. Len(chan'), chan'[k].type = "ForgetCore"
      PROVE  /\ deleting'.phase = "sent" /\ chan'[k].run = deleting'.run
             /\ chan'[k].run = NoRun => k = Len(chan')
  <2>1. k \in 1 .. Len(chan) /\ chan'[k] = chan[k] /\ chan[k].type = "ForgetCore"
    BY <1>2, <1>3
  <2>2. /\ deleting.phase = "sent" /\ chan[k].run = deleting.run /\ deleting.run = client.run
        /\ chan[k].run = NoRun => k = Len(chan)
    BY <2>1 DEF OneDelete
  <2> QED BY <2>1, <2>2
<1>4. \A k \in 1 .. Len(Told') : Told'[k].kind = "Wiped" => deleting'.phase = "sent"
  BY <1>1 DEF OneDelete
<1>5. /\ \A k, l \in 1 .. Len(chan') :
           chan'[k].type = "ForgetCore" /\ chan'[l].type = "ForgetCore" => k = l
      /\ \A k, l \in 1 .. Len(Told') : Told'[k].kind = "Wiped" /\ Told'[l].kind = "Wiped" => k = l
      /\ \A k \in 1 .. Len(chan'), l \in 1 .. Len(Told') :
           ~(chan'[k].type = "ForgetCore" /\ Told'[l].kind = "Wiped")
  BY <1>1, <1>2 DEF OneDelete
<1>6. tx'.awaiting # NotAwaited => awaiting' # NotAwaited \/ deleting'.phase = "sent"
  BY <1>1 DEF OneDelete
<1> QED BY <1>3, <1>4, <1>5, <1>6 DEF OneDelete

LEMMA KnowledgeGrown ==
  ASSUME TypeOK, TypeOK', Knowledge, Aside, NEW m \in MessageSet, Grown(m), SameCore, SameSync,
         m.type \notin {"Page", "AliveMap", "Recreated"}, pending' \in {pending, NoPending}
  PROVE  Knowledge'
<1>0. /\ core'.db = core.db /\ core.top <= core'.top /\ core.top \in Nat /\ core'.top \in Nat
      /\ core.db \in Nat /\ core.db # 0 /\ client.sync.from \in Nat
  BY CoreParts, ClientParts DEF SameCore, TypeOK, CoreSet
<1>1. Told' = Told /\ starts' = starts
  BY AsideHands
<1>2. ASSUME Ignorant' PROVE Ignorant
  <2>1. CASE Old(client.sync.epoch)' \/ Old(pending.epoch)'
    BY <1>0, <2>1 DEF Old, SameSync, Ignorant, NoPending
  <2>2. CASE client'.sync.epoch = 0 /\ ~Within(client.sync.from)'
    BY <1>0, <2>2 DEF SameSync, Within, Ignorant
  <2>3. CASE \E k \in 1 .. Len(chan') : Answer(chan[k])' /\ Old(chan[k].of)'
    <3>1. PICK k \in 1 .. Len(chan') : Answer(chan[k])' /\ Old(chan[k].of)'
      BY <2>3
    <3>2. k \in 1 .. Len(chan) /\ chan'[k] = chan[k] /\ Answer(chan[k])
      BY <3>1, AnswersGrown DEF SameSync
    <3>3. Old(chan[k].of)
      BY <1>0, <3>1, <3>2 DEF Old
    <3> QED BY <3>2, <3>3 DEF Ignorant
  <2>4. CASE \E k \in 1 .. Len(Acked') : Matching(Acked[k])' /\ Old(Acked[k].of)'
    <3>1. PICK k \in 1 .. Len(Acked') : Matching(Acked[k])' /\ Old(Acked[k].of)'
      BY <2>4
    <3>2. k \in 1 .. Len(Acked) /\ Acked'[k] = Acked[k] /\ Matching(Acked[k])
      BY <3>1, AnswersGrown DEF SameSync
    <3>3. Old(Acked[k].of)
      BY <1>0, <3>1, <3>2 DEF Old
    <3> QED BY <3>2, <3>3 DEF Ignorant
  <2> QED BY <1>2, <2>1, <2>2, <2>3, <2>4 DEF Ignorant
<1>3. Learned' => Learned
  BY <1>0, <1>1, GrownChan DEF Learned
<1>4. ASSUME NEW k \in 1 .. Len(chan'), Resets(chan[k])'
      PROVE  /\ core'.db # 1 /\ starts'.epoch # core'.db
             /\ \A j \in 1 .. Len(Told') : Told'[j].epoch # core'.db
             /\ \A j \in 1 .. (k - 1) : chan'[j].type = "AliveMap" => chan'[j].epoch # core'.db
  <2>1. k \in 1 .. Len(chan) /\ chan'[k] = chan[k]
    BY <1>4, GrownChan DEF Resets
  <2>2. \A j \in 1 .. (k - 1) : chan'[j] = chan[j]
    BY <2>1, GrownChan
  <2> QED BY <1>0, <1>1, <1>4, <2>1, <2>2 DEF Knowledge, Resets
<1> QED BY <1>0, <1>2, <1>3, <1>4 DEF Knowledge

LEMMA UndisputedGrown ==
  ASSUME TypeOK, Undisputed, Aside, NEW m \in MessageSet, Grown(m), SameSync,
         core'.db = core.db, m.type # "Page",
         Resets(m) => \A k \in 1 .. Len(chan) : Answer(chan[k]) => ~Genuine(chan[k])
  PROVE  Undisputed'
<1>1. ASSUME NEW k \in 1 .. Len(chan'), Answer(chan[k])', Genuine(chan[k])'
      PROVE  /\ \A l \in (k + 1) .. Len(chan') : ~Resets(chan'[l])
             /\ client'.sync.from = 1 \/ Valid(client.sync.epoch)'
  <2>1. k \in 1 .. Len(chan) /\ chan'[k] = chan[k] /\ Answer(chan[k])
    BY <1>1, AnswersGrown DEF SameSync
  <2>2. Genuine(chan[k])
    BY <1>1, <2>1 DEF Genuine
  <2>3. \A l \in (k + 1) .. Len(chan') : l \in 1 .. Len(chan')
    BY <2>1
  <2>4. \A l \in (k + 1) .. Len(chan') : ~Resets(chan'[l])
    BY <2>1, <2>2, <2>3, GrownChan DEF Undisputed
  <2> QED BY <2>1, <2>2, <2>4 DEF Undisputed, SameSync, Valid
<1>2. ASSUME NEW k \in 1 .. Len(Acked'), Matching(Acked[k])', Genuine(Acked[k])'
      PROVE  client'.sync.from = 1 \/ Valid(client.sync.epoch)'
  <2>1. k \in 1 .. Len(Acked) /\ Acked'[k] = Acked[k] /\ Matching(Acked[k])
    BY <1>2, AnswersGrown DEF SameSync
  <2> QED BY <1>2, <2>1 DEF Undisputed, SameSync, Valid, Genuine
<1> QED BY <1>1, <1>2 DEF Undisputed, Resets

LEMMA VoidGrown ==
  ASSUME TypeOK, UNCHANGED tx, NEW m \in MessageSet, Grown(m)
  PROVE  Void => Void'
  BY GrownChan DEF Void

LEMMA WithinGrown ==
  ASSUME TypeOK, TypeOK', SameCore, NEW n \in Nat, Within(n)
  PROVE  Within(n)'
  BY CoreParts DEF SameCore, Within, TypeOK, CoreSet

(* A claim about the whole channel outlives a message that resets nothing, *)
(* as long as no delete is on its way.                                     *)
LEMMA CoverSent ==
  ASSUME TypeOK, TypeOK', NEW m \in MessageSet, Grown(m), UNCHANGED tx, SameCore,
         chan' = chan \/ ~Resets(m), ~Void', NEW n \in Nat,
         ~Void => Covered(n, Len(chan))
  PROVE  Covered(n, Len(chan))'
<1>1. ~Void
  BY VoidGrown
<1>2. chan' = chan \/ m.type # "ForgetCore"
  <2>1. ASSUME chan' = Append(chan, m), m.type = "ForgetCore" PROVE FALSE
    <3>1. Len(chan) + 1 \in 1 .. Len(chan') /\ chan'[Len(chan) + 1] = m
      BY <2>1, AppendedFacts
    <3> QED BY <2>1, <3>1 DEF Void
  <2> QED BY <2>1 DEF Grown
<1> QED BY <1>1, <1>2, CoverLonger DEF Wipes

LEMMA SyncClaimGrown ==
  ASSUME TypeOK, TypeOK', SyncClaim, UNCHANGED tx, NEW m \in MessageSet, Grown(m), SameCore,
         client'.sync.from = client.sync.from, client'.sync.epoch = client.sync.epoch,
         chan' = chan \/ ~Resets(m)
  PROVE  SyncClaim'
<1> SUFFICES ASSUME Valid(client.sync.epoch)'
             PROVE  Within(client.sync.from)'
                    /\ (~Void' => Covered(client.sync.from, Len(chan))')
  BY DEF SyncClaim
<1>1. PICK n \in Nat : n = client.sync.from
  BY ClientParts
<1>2. Within(n) /\ (~Void => Covered(n, Len(chan)))
  BY <1>1 DEF SyncClaim, SameCore, Valid
<1>3. Within(n)'
  BY <1>2, WithinGrown
<1>4. ~Void' => Covered(n, Len(chan))'
  BY <1>2, CoverSent
<1> QED BY <1>1, <1>3, <1>4

LEMMA PendingClaimGrown ==
  ASSUME TypeOK, TypeOK', PendingClaim, UNCHANGED tx, NEW m \in MessageSet, Grown(m), SameCore,
         pending' # NoPending =>
           pending # NoPending /\ pending'.epoch = pending.epoch /\ pending'.next = pending.next,
         chan' = chan \/ ~Resets(m)
  PROVE  PendingClaim'
<1> SUFFICES ASSUME pending' # NoPending, pending'.epoch = core'.db
             PROVE  Within(pending.next)' /\ (~Void' => Covered(pending.next, Len(chan))')
  BY DEF PendingClaim
<1>1. PICK n \in Nat : n = pending.next
  BY ClientParts
<1>2. pending'.next = n /\ Within(n) /\ (~Void => Covered(n, Len(chan)))
  BY <1>1 DEF PendingClaim, SameCore
<1>3. Within(n)'
  BY <1>2, WithinGrown
<1>4. ~Void' => Covered(n, Len(chan))'
  BY <1>2, CoverSent
<1> QED BY <1>1, <1>2, <1>3, <1>4

LEMMA SkipsGrown ==
  ASSUME TypeOK, UNCHANGED tx, NEW m \in MessageSet, Grown(m), NEW k \in 1 .. Len(chan)
  PROVE  /\ Skipped(chan, tx.awaiting, k)' <=> Skipped(chan, tx.awaiting, k)
         /\ Ignored(chan, tx.awaiting, k)' <=> Ignored(chan, tx.awaiting, k)
<1>1. chan'[k] = chan[k] /\ \A l \in 1 .. (k - 1) : chan'[l] = chan[l]
  BY GrownChan
<1> QED BY <1>1 DEF Skipped, Ignored, ForgetBefore

LEMMA PageClaimsGrown ==
  ASSUME TypeOK, TypeOK', PageClaims, UNCHANGED tx, NEW m \in MessageSet, Grown(m), SameCore,
         NEW k \in 1 .. Len(chan), chan[k].type = "Page", Genuine(chan[k]),
         ~Skipped(chan, tx.awaiting, k)'
  PROVE  Covered(chan[k].row + 1, k)'
<1>1. chan[k].row + 1 \in Nat /\ k \in Nat /\ k <= Len(chan) /\ chan'[k] = chan[k]
  BY GrownChan, ChanParts, PageParts
<1>2. PICK n \in Nat : n = chan[k].row + 1
  BY <1>1
<1>3. Covered(n, k)
  BY <1>2, SkipsGrown DEF PageClaims
<1>4. Covered(n, k)'
  BY <1>1, <1>3, CoverGrown
<1> QED BY <1>1, <1>2, <1>4

LEMMA MapClaimsGrown ==
  ASSUME TypeOK, TypeOK', MapClaims, UNCHANGED tx, NEW m \in MessageSet, Grown(m), SameCore,
         NEW k \in 1 .. Len(chan), chan[k].type = "AliveMap", chan[k].epoch = core.db,
         ~Ignored(chan, tx.awaiting, k)'
  PROVE  Covered(chan[k].next, k)'
<1>1. chan[k].next \in Nat /\ k \in Nat /\ k <= Len(chan) /\ chan'[k] = chan[k]
  BY GrownChan, ChanParts
<1>2. PICK n \in Nat : n = chan[k].next
  BY <1>1
<1>3. Covered(n, k)
  BY <1>2, SkipsGrown DEF MapClaims
<1>4. Covered(n, k)'
  BY <1>1, <1>3, CoverGrown
<1> QED BY <1>1, <1>2, <1>4

LEMMA OtherClaimsGrown ==
  ASSUME TypeOK, TypeOK', PageClaims, MapClaims, UNCHANGED tx, NEW m \in MessageSet, Grown(m),
         SameCore
  PROVE  /\ m.type # "Page" => PageClaims'
         /\ m.type # "AliveMap" => MapClaims'
<1>1. core'.db = core.db
  BY DEF SameCore
<1>2. ASSUME m.type # "Page", NEW k \in 1 .. Len(chan'),
             chan'[k].type = "Page", Genuine(chan[k])', ~Skipped(chan, tx.awaiting, k)'
      PROVE  Covered(chan[k].row + 1, k)'
  <2>1. k \in 1 .. Len(chan) /\ chan'[k] = chan[k]
    BY <1>2, GrownChan
  <2> QED BY <1>1, <1>2, <2>1, PageClaimsGrown DEF Genuine
<1>3. ASSUME m.type # "AliveMap", NEW k \in 1 .. Len(chan'),
             chan'[k].type = "AliveMap", chan'[k].epoch = core'.db,
             ~Ignored(chan, tx.awaiting, k)'
      PROVE  Covered(chan[k].next, k)'
  <2>1. k \in 1 .. Len(chan) /\ chan'[k] = chan[k]
    BY <1>3, GrownChan
  <2> QED BY <1>1, <1>3, <2>1, MapClaimsGrown
<1> QED BY <1>2, <1>3 DEF PageClaims, MapClaims

LEMMA AckClaimsGrown ==
  ASSUME TypeOK, TypeOK', AckClaims, Aside, NEW m \in MessageSet, Grown(m), SameCore,
         client'.run = client.run, client'.sync.id = client.sync.id,
         chan' = chan \/ ~Resets(m)
  PROVE  AckClaims'
<1> SUFFICES ASSUME NEW k \in 1 .. Len(Acked'), Matching(Acked[k])', Genuine(Acked[k])', ~Void'
             PROVE  Covered(Acked[k].row + 1, Len(chan))'
  BY DEF AckClaims
<1>1. Acked' = Acked /\ tx' = tx
  BY AsideHands
<1>2. Matching(Acked[k]) /\ Genuine(Acked[k]) /\ Acked[k].row + 1 \in Nat
  BY <1>1, HandParts, PageParts DEF Matching, Genuine, SameCore
<1>3. PICK n \in Nat : n = Acked[k].row + 1
  BY <1>2
<1>4. ~Void => Covered(n, Len(chan))
  BY <1>1, <1>2, <1>3 DEF AckClaims
<1>5. Covered(n, Len(chan))'
  BY <1>1, <1>4, CoverSent
<1> QED BY <1>1, <1>3, <1>5

LEMMA HeldGrown ==
  ASSUME TypeOK, TypeOK', SameCore, NEW d, NEW n \in Nat, Held(d, n)
  PROVE  Held(d, n)'
<1>1. core.top \in Nat /\ \A i \in Served' : i \in Nat
  BY CoreParts DEF TypeOK, CoreSet, Served, Ids
<1>2. Within(n)'
  BY WithinGrown DEF Held
<1> QED BY <1>1, <1>2 DEF Held, Within, SameCore

LEMMA RememberedGrown ==
  ASSUME TypeOK, TypeOK', Remembered, Aside, SameCore,
         deleting'.phase # "sent" => deleting.phase # "sent"
  PROVE  Remembered'
<1>1. Told' = Told /\ db' = db /\ tx' = tx /\ starts' = starts /\ core'.db = core.db
  BY AsideHands DEF SameCore
<1>2. /\ starts.next \in Nat /\ \A k \in 1 .. Len(Told) : Told[k].next \in Nat
  BY HandParts, StartParts
<1>3. /\ db.checkpoint.next \in Nat /\ db.frontier + 1 \in Nat
      /\ tx.db.checkpoint.next \in Nat /\ tx.db.frontier + 1 \in Nat
  <2>1. \A n \in Nat \cup {-1} : n + 1 \in Nat
    OBVIOUS
  <2> QED BY <2>1, HandParts, DbParts
<1>4. \A n \in Nat : (Held(db, n) => Held(db, n)') /\ (Held(tx.db, n) => Held(tx.db, n)')
  BY <1>1, HeldGrown
<1>5. StartClaim'
  BY <1>1, <1>2, <1>4 DEF Remembered, StartClaim, Speaks
<1>6. ToldClaims'
  <2>1. ASSUME NEW j \in 1 .. Len(Told'), Speaks(Told[j])',
               \A l \in (j + 1) .. Len(Told') : Told'[l].kind # "Wiped"
        PROVE  Held(tx.db, Told[j].next)'
    <3>1. Held(tx.db, Told[j].next) /\ Told[j].next \in Nat
      BY <1>1, <1>2, <2>1 DEF Remembered, ToldClaims, Speaks
    <3> QED BY <1>1, <1>4, <3>1
  <2> QED BY <2>1 DEF ToldClaims
<1>7. Kept(db)' /\ Kept(tx.db)'
  BY <1>1, <1>3, <1>4 DEF Remembered, Kept
<1> QED BY <1>5, <1>6, <1>7 DEF Remembered

-----------------------------------------------------------------------------
(* A step aside that sends at most a live change or a Recheck, and leaves  *)
(* the declared download where it was.                                     *)

LEMMA AsideBatch ==
  ASSUME Aside, Batch, Blanks
  PROVE  Batch' /\ Blanks'
<1>1. Told' = Told /\ Acked' = Acked /\ Asked' = Asked /\ db' = db /\ tx' = tx
      /\ post' = post /\ starts' = starts
  BY AsideHands
<1>2. Batch'
  BY <1>1 DEF Batch
<1>3. Blanks'
  BY <1>1 DEF Blanks, Blank, Unclaimed, Rows
<1> QED BY <1>2, <1>3

SamePhase ==
  /\ client.sync.phase \in {"page", "repeat"} => client'.sync.phase \in {"page", "repeat"}
  /\ client.sync.phase \in {"ask", "done"} => client'.sync.phase \in {"ask", "done"}
  /\ client.sync.phase \in {"ask", "page", "repeat"} =>
       client'.sync.phase \in {"ask", "page", "repeat"}
  /\ client.sync.phase = "ask" => client'.sync.phase = "ask"
  /\ client.sync.phase \notin {"page", "repeat"} =>
       client'.sync.phase \notin {"page", "repeat"}

LEMMA PhasesGrown ==
  ASSUME TypeOK, Phases, Aside, NEW m \in MessageSet, Grown(m), m.type # "Page", SameSync,
         SamePhase, pending' \in {pending, NoPending}, core'.db = core.db,
         given'.syncs = given.syncs
  PROVE  Phases'
<1>1. InFlight' => InFlight
  BY AnswersGrown DEF SameSync
<1>2. pending' # NoPending \/ pending'.at # "none" => pending' = pending /\ pending # NoPending
  BY DEF NoPending
<1>3. CASE pending' = NoPending
  BY <1>1, <1>3 DEF Phases, SamePhase, NoPending
<1>4. CASE pending' = pending
  <2>1. ASSUME pending.at = "asked", client'.sync.phase \in {"page", "repeat"}
        PROVE  /\ \A k \in 1 .. Len(chan') : Answer(chan[k])' => Confirms(chan[k])'
               /\ \A k \in 1 .. Len(Acked') : Matching(Acked[k])' => Confirms(Acked[k])'
    <3>1. client.sync.phase \in {"page", "repeat"}
      BY <2>1 DEF SamePhase
    <3>2. \A k \in 1 .. Len(chan') : Answer(chan[k])' => Confirms(chan'[k])
      BY <2>1, <3>1, AnswersGrown DEF Phases, SameSync
    <3>3. \A k \in 1 .. Len(Acked') : Matching(Acked[k])' => Confirms(Acked'[k])
      BY <2>1, <3>1, AnswersGrown DEF Phases, SameSync
    <3> QED BY <1>4, <3>2, <3>3 DEF Confirms, Old
  <2> QED BY <1>1, <1>4, <2>1 DEF Phases, SamePhase, SameSync, Old
<1> QED BY <1>3, <1>4

LEMMA PlainStep ==
  ASSUME TypeOK, TypeOK', HistoryInv, Aside, NEW m \in MessageSet, Grown(m), SameCore, SameSync,
         UNCHANGED given,
         m.type \in {"Upsert", "Delete", "SetDeleted", "Recheck"},
         \A i \in Served' : i <= core'.top, EraMsg(m)',
         m.type = "Upsert" => m.of = core.db,
         m.type = "Delete" => m.row \notin Served',
         Up /\ chan' # chan /\ m.type = "Recheck" =>
           tx.awaiting = NotAwaited /\ \A k \in 1 .. Len(chan) : chan[k].type # "ForgetCore",
         chan' = chan \/ client.run # NoRun,
         pending' \in {pending, NoPending}, SamePhase,
         Up => (client'.link = "none" <=> client.link = "none")
               /\ (client.run = NoRun => client' = client),
         deleting.phase # "none" => deleting' = deleting,
         deleting'.phase # "none" => deleting'.run = client.run \/ deleting' = deleting,
         deleting'.phase = "sent" <=> deleting.phase = "sent"
  PROVE  HistoryInv'
<1>1. Era'
  <2>1. client'.sync.epoch <= core.db
    BY DEF HistoryInv, Era, SameSync
  <2>2. pending'.epoch <= core.db
    BY CoreParts DEF HistoryInv, Era, NoPending
  <2>3. core'.db = core.db /\ core.top <= core'.top
    BY DEF SameCore
  <2> QED BY <2>1, <2>2, <2>3, EraGrown DEF HistoryInv
<1>2. Batch' /\ Blanks'
  BY AsideBatch DEF HistoryInv
<1>3. Up' = Up /\ Trusted' = Trusted
  BY AsideHands DEF Trusted
<1>4. ~Resets(m) /\ ~Wipes(m) /\ m.type \notin {"Page", "AliveMap", "Recreated", "ForgetCore"}
  BY DEF Resets, Wipes
<1>5. ASSUME Up PROVE Book'
  <2>1. Book /\ tx' = tx /\ core'.db = core.db
    BY <1>5, AsideHands DEF HistoryInv, SameCore
  <2>2. Content'
    BY <1>4, <2>1, ContentGrown DEF Book, Sourced
  <2>3. Retired'
    BY <2>1, RetiredGrown DEF Book, HistoryInv
  <2>4. Idle'
    BY <1>5, <2>1 DEF Book, Idle, SameSync
  <2>5. Numbers'
    <3>1. given.syncs \in Nat /\ given'.syncs = given.syncs
      BY ClientParts
    <3>2. client'.sync.id <= given'.syncs /\ (client'.run # NoRun => client'.sync.id # NoSync)
      BY <2>1, <3>1 DEF Book, Numbers, SameSync
    <3> QED BY <1>4, <2>1, <3>1, <3>2, NumbersGrown DEF Book, SameSync
  <2>6. OneAnswer'
    BY <1>4, <2>1, AnswersGrown DEF Book, SameSync
  <2>7. Phases'
    <3>1. given'.syncs = given.syncs
      OBVIOUS
    <3> QED BY <1>4, <2>1, <3>1, PhasesGrown DEF Book
  <2>8. Awaiting'
    BY <1>4, <2>1, AwaitingGrown DEF Book, SamePhase
  <2>9. NoRecheck'
    BY <1>5, <2>1, NoRecheckGrown DEF Book
  <2>10. OneDelete'
    <3>1. deleting'.phase \in {"none", "taken", "sent"}
      BY DEF TypeOK
    <3>2. deleting'.phase # "none" => deleting'.run = client'.run
      BY <2>1 DEF Book, OneDelete, SameSync
    <3> QED BY <1>4, <2>1, <3>1, <3>2, OneDeleteGrown DEF Book, SameSync
  <2> QED BY <2>2, <2>3, <2>4, <2>5, <2>6, <2>7, <2>8, <2>9, <2>10 DEF Book
<1>6. ASSUME Up, Trusted PROVE Clear' /\ Claimed'
  <2>1. Clear /\ Claimed /\ tx' = tx /\ core'.db = core.db
    BY <1>6, AsideHands DEF HistoryInv, SameCore
  <2>2. Knowledge'
    BY <1>4, <2>1, KnowledgeGrown DEF Clear
  <2>3. Undisputed'
    BY <1>4, <2>1, UndisputedGrown DEF Clear
  <2>4. SyncClaim' /\ PendingClaim'
    BY <1>4, <2>1, SyncClaimGrown, PendingClaimGrown DEF Claimed, SameSync
  <2>5. PageClaims' /\ MapClaims'
    BY <1>4, <2>1, OtherClaimsGrown DEF Claimed
  <2>6. AckClaims'
    BY <1>4, <2>1, AckClaimsGrown DEF Claimed, SameSync
  <2> QED BY <2>2, <2>3, <2>4, <2>5, <2>6 DEF Clear, Claimed
<1>7. ASSUME Trusted PROVE Remembered'
  BY <1>7, RememberedGrown DEF HistoryInv
<1> QED BY <1>1, <1>2, <1>3, <1>5, <1>6, <1>7 DEF HistoryInv

(* A live change of the core: SameCore, broadcast over a live link. *)
LEMMA LiveStep ==
  ASSUME TypeOK, TypeOK', HistoryInv, NEW m \in MessageSet, Broadcast(m), Aside,
         UNCHANGED <<client, pending, deleting, given>>, SameCore,
         m.type \in {"Upsert", "Delete", "SetDeleted"},
         \A i \in Served' : i <= core'.top,
         m.type = "Upsert" => m.of = core.db /\ m.row <= core'.top,
         m.type = "Delete" => m.row \notin Served'
  PROVE  HistoryInv'
<1>1. Grown(m) /\ (chan' = chan \/ Online)
  BY SendGrows DEF Broadcast, Grown
<1>2. chan' = chan \/ client.run # NoRun
  <2>1. CASE Up
    BY <1>1, <2>1 DEF HistoryInv, Book, Idle, Online
  <2>2. CASE ~Up
    BY <2>2 DEF Broadcast, Send, Up
  <2> QED BY <2>1, <2>2
<1>3. EraMsg(m)'
  BY CoreParts DEF EraMsg, Sourced, SameCore
<1>4. SameSync /\ SamePhase
  BY DEF SameSync, SamePhase
<1> QED BY <1>1, <1>2, <1>3, <1>4, PlainStep

LEMMA LiveChanges ==
  ASSUME TypeOK, TypeOK', HistoryInv,
         OpenTrade \/ \E i \in Ids : HideRow(i) \/ RestoreRow(i) \/ RetireRow(i)
  PROVE  HistoryInv'
<1>0. core \in CoreSet /\ core.db \in Databases /\ core.top \in Nat
      /\ \A i \in Served : i \in Nat /\ i <= core.top
  BY CoreParts DEF TypeOK, CoreSet, HistoryInv, Era
<1>1. CASE OpenTrade
  <2> DEFINE m == [type |-> "Upsert", row |-> core.top + 1, of |-> core.db]
  <2>1. /\ Broadcast(m) /\ core.top + 1 \in Ids
        /\ core' = [core EXCEPT !.top = core.top + 1, !.visible = @ \cup {core.top + 1}]
        /\ Aside /\ UNCHANGED <<client, pending, deleting, given>>
    BY <1>1 DEF OpenTrade, Change, Aside
  <2>2. m \in MessageSet /\ m.type = "Upsert" /\ m.of = core.db /\ m.row = core.top + 1
    BY <1>0, <2>1 DEF MessageSet
  <2> HIDE DEF m
  <2>3. core'.db = core.db /\ core'.top = core.top + 1 /\ Served' = Served \cup {core.top + 1}
    BY <1>0, <2>1 DEF CoreSet, Served
  <2>4. SameCore /\ \A i \in Served' : i <= core'.top
    BY <1>0, <2>3 DEF SameCore
  <2>5. m.row <= core'.top
    BY <1>0, <2>2, <2>3
  <2> QED BY <2>1, <2>2, <2>4, <2>5, LiveStep
<1>2. ASSUME NEW i \in Ids, HideRow(i) PROVE HistoryInv'
  <2> DEFINE m == [type |-> "SetDeleted", row |-> i, hide |-> TRUE]
  <2>1. Broadcast(m) /\ Aside /\ UNCHANGED <<client, pending, deleting, given>>
    BY <1>2 DEF HideRow, Change, Aside
  <2>2. m \in MessageSet /\ m.type = "SetDeleted"
    BY DEF MessageSet
  <2> HIDE DEF m
  <2>3. core'.db = core.db /\ core'.top = core.top /\ Served' \subseteq Served
    BY <1>0, <1>2 DEF HideRow, CoreSet, Served
  <2>4. SameCore /\ \A j \in Served' : j <= core'.top
    BY <1>0, <2>3 DEF SameCore
  <2> QED BY <2>1, <2>2, <2>4, LiveStep
<1>3. ASSUME NEW i \in Ids, RestoreRow(i) PROVE HistoryInv'
  <2> DEFINE m == [type |-> "SetDeleted", row |-> i, hide |-> FALSE]
  <2>1. Broadcast(m) /\ Aside /\ UNCHANGED <<client, pending, deleting, given>>
    BY <1>3 DEF RestoreRow, Change, Aside
  <2>2. m \in MessageSet /\ m.type = "SetDeleted"
    BY DEF MessageSet
  <2> HIDE DEF m
  <2>3. core'.db = core.db /\ core'.top = core.top /\ Served' \subseteq Served
    BY <1>0, <1>3 DEF RestoreRow, CoreSet, Served
  <2>4. SameCore /\ \A j \in Served' : j <= core'.top
    BY <1>0, <2>3 DEF SameCore
  <2> QED BY <2>1, <2>2, <2>4, LiveStep
<1>4. ASSUME NEW i \in Ids, RetireRow(i) PROVE HistoryInv'
  <2> DEFINE m == [type |-> "Delete", row |-> i]
  <2>1. Broadcast(m) /\ Aside /\ UNCHANGED <<client, pending, deleting, given>>
    BY <1>4 DEF RetireRow, Change, Aside
  <2>2. m \in MessageSet /\ m.type = "Delete" /\ m.row = i
    BY DEF MessageSet
  <2> HIDE DEF m
  <2>3. core'.db = core.db /\ core'.top = core.top /\ Served' = Served \ {i}
    BY <1>0, <1>4 DEF RetireRow, CoreSet, Served
  <2>4. SameCore /\ (\A j \in Served' : j <= core'.top) /\ m.row \notin Served'
    BY <1>0, <2>2, <2>3 DEF SameCore
  <2> QED BY <2>1, <2>2, <2>4, LiveStep
<1> QED BY <1>1, <1>2, <1>3, <1>4

LEMMA StillCore ==
  ASSUME TypeOK, Era, UNCHANGED core
  PROVE  SameCore /\ (\A i \in Served' : i <= core'.top) /\ core'.db = core.db
         /\ core.top <= core'.top
  BY CoreParts DEF SameCore, Served, Era

LEMMA RecheckMsg ==
  ASSUME NEW m, m = [type |-> "Recheck"]
  PROVE  m \in MessageSet /\ m.type = "Recheck" /\ EraMsg(m)' /\ EraMsg(m) /\ ~Sourced(m)
  BY DEF MessageSet, EraMsg, Sourced

(* An environment without delete-and-reconnect: when the connection moves  *)
(* nothing of a delete is left with the writer.                            *)
LEMMA CalmFacts ==
  ASSUME CalmDeletes, TypeOK, HistoryInv, Up, Undisturbed
  PROVE  /\ deleting.phase = "none" /\ awaiting = NotAwaited /\ tx.awaiting = NotAwaited
         /\ \A k \in 1 .. Len(chan) : chan[k].type # "ForgetCore"
         /\ \A k \in 1 .. Len(Told) : Told[k].kind # "Wiped"
         /\ ~Void
<1>1. deleting.phase = "none" /\ awaiting = NotAwaited
  BY DEF Undisturbed
<1>2. OneDelete
  BY DEF HistoryInv, Book
<1> QED BY <1>1, <1>2 DEF OneDelete, Void

LEMMA LinkSteps ==
  ASSUME CalmDeletes, TypeOK, TypeOK', HistoryInv, LinkUp \/ LinkDown \/ TakeDelete
  PROVE  HistoryInv'
<1>0. client \in ClientSet
  BY DEF TypeOK
<1>1. PICK m : m = [type |-> "Recheck"]
  OBVIOUS
<1>2. m \in MessageSet /\ m.type = "Recheck" /\ EraMsg(m)'
  BY <1>1, RecheckMsg
<1>3. Era
  BY DEF HistoryInv
<1>4. CASE LinkUp
  <2>1. /\ client.link \in {"new", "down"} /\ Aside
        /\ UNCHANGED <<core, pending, deleting, given>>
        /\ client' = [client EXCEPT !.link = "up",
             !.sync.phase = CASE @ = "done" -> "ask" [] @ = "page" -> "repeat" [] OTHER -> @]
        /\ IF client.link = "down" THEN Undisturbed /\ Send(m) ELSE chan' = chan
    BY <1>1, <1>4 DEF LinkUp, Aside
  <2>2. Grown(m)
    BY <2>1, SendGrows DEF Grown
  <2>3. Up => client.run # NoRun /\ client'.link # "none" /\ client.link # "none"
    BY <1>0, <2>1 DEF HistoryInv, Book, Idle, ClientSet
  <2>4. SameSync
    BY <1>0, <2>1 DEF SameSync, ClientSet, SyncSet
  <2>5. client'.sync.phase = CASE client.sync.phase = "done" -> "ask"
                               [] client.sync.phase = "page" -> "repeat"
                               [] OTHER -> client.sync.phase
    BY <1>0, <2>1 DEF ClientSet, SyncSet
  <2>6. SamePhase
    BY <2>5 DEF SamePhase
  <2>7. chan' # chan => Up /\ Undisturbed
    BY <2>1 DEF Send, Up
  <2> QED BY <1>2, <1>3, <2>1, <2>2, <2>3, <2>4, <2>6, <2>7, StillCore, CalmFacts, PlainStep
<1>5. CASE LinkDown
  <2>1. /\ client.link = "up" /\ Aside /\ chan' = chan
        /\ UNCHANGED <<core, deleting, given>> /\ pending' \in {pending, NoPending}
        /\ client' = [client EXCEPT !.link = "down"]
    BY <1>5 DEF LinkDown, Online, Aside
  <2>2. Grown(m)
    BY <2>1 DEF Grown
  <2>3. Up => client.run # NoRun /\ client'.link # "none" /\ client.link # "none"
    BY <1>0, <2>1 DEF HistoryInv, Book, Idle, ClientSet
  <2>4. SameSync /\ SamePhase
    BY <1>0, <2>1 DEF SameSync, SamePhase, ClientSet, SyncSet
  <2> QED BY <1>2, <1>3, <2>1, <2>2, <2>3, <2>4, StillCore, PlainStep
<1>6. CASE TakeDelete
  <2>1. /\ deleting.phase = "none" /\ Aside /\ chan' = chan
        /\ UNCHANGED <<core, client, pending, given>>
        /\ deleting' = [phase |-> "taken", run |-> client.run]
    BY <1>6 DEF TakeDelete, Aside
  <2>2. Grown(m)
    BY <2>1 DEF Grown
  <2>3. SameSync /\ SamePhase
    BY <2>1 DEF SameSync, SamePhase
  <2>4. deleting'.phase = "taken" /\ deleting'.run = client.run
    BY <2>1
  <2> QED BY <1>2, <1>3, <2>1, <2>2, <2>3, <2>4, StillCore, PlainStep
<1> QED BY <1>4, <1>5, <1>6
-----------------------------------------------------------------------------
(* A new download: what the feed declares at the start of a run, or the    *)
(* none that is left when a run stops.  No page of it is on its way.       *)
LEMMA NewDownload ==
  ASSUME TypeOK, TypeOK', HistoryInv, CalmDeletes, Aside, UNCHANGED <<core, deleting>>,
         NEW m \in MessageSet, Grown(m), m.type = "Recheck", Up => Undisturbed,
         pending' \in {pending, NoPending}, Up => pending' = NoPending,
         given.syncs <= given'.syncs, client'.sync.id <= given'.syncs,
         Trusted' => Trusted, client'.sync.epoch <= core.db,
         chan' = chan \/ client.run = NoRun,
         \/ client' = NoClient
         \/ /\ client'.run # NoRun /\ client'.link # "none"
            /\ client'.sync.id = given.syncs + 1,
         Up /\ Trusted' => /\ SyncClaim'
                           /\ (\/ Old(client.sync.epoch)'
                               \/ client'.sync.epoch = 0 /\ ~Within(client.sync.from)')
                                => ~Learned /\ core.db # 1
  PROVE  HistoryInv'
<1>1. SameCore /\ (\A i \in Served' : i <= core'.top) /\ core'.db = core.db
      /\ core.top <= core'.top
  BY StillCore DEF HistoryInv
<1>2. ~Sourced(m) /\ EraMsg(m)' /\ ~Resets(m)
  BY DEF Sourced, EraMsg, Resets
<1>3. Era'
  BY <1>1, <1>2, EraGrown, CoreParts DEF HistoryInv, Era, NoPending
<1>4. Batch' /\ Blanks'
  BY AsideBatch DEF HistoryInv
<1>5. Told' = Told /\ Acked' = Acked /\ Up' = Up /\ tx' = tx /\ starts' = starts
  BY AsideHands
<1>6. given.syncs \in Nat /\ client'.sync.id \in Nat /\ client'.run \in Nat
  BY ClientParts DEF TypeOK, ClientSet, SyncSet
<1>7. client' = NoClient =>
        /\ client'.run = NoRun /\ client'.link = "none"
        /\ client'.sync.epoch = 0 /\ client'.sync.from = 1 /\ client'.sync.id = NoSync
  BY DEF NoClient
<1>8. ASSUME Up
      PROVE  /\ \A k \in 1 .. Len(chan') : ~Answer(chan[k])'
             /\ \A k \in 1 .. Len(Acked') : ~Matching(Acked[k])'
             /\ ~InFlight'
  <2>1. Numbers
    BY <1>8 DEF HistoryInv, Book
  <2>2. \A k \in 1 .. Len(chan') : ~Answer(chan[k])'
    <3> SUFFICES ASSUME NEW k \in 1 .. Len(chan'), Answer(chan[k])'
                 PROVE  FALSE
      OBVIOUS
    <3>1. k \in 1 .. Len(chan) /\ chan'[k] = chan[k] /\ chan[k].type = "Page"
      BY GrownChan DEF Answer
    <3>2. Ranged(chan[k]) /\ chan[k].id \in Nat
      BY <2>1, <3>1, ChanParts, PageParts DEF Numbers
    <3> QED BY <1>6, <1>7, <3>1, <3>2 DEF Answer, Matching, Ranged
  <2>3. \A k \in 1 .. Len(Acked') : ~Matching(Acked[k])'
    <3> SUFFICES ASSUME NEW k \in 1 .. Len(Acked'), Matching(Acked[k])'
                 PROVE  FALSE
      OBVIOUS
    <3>1. Ranged(Acked[k]) /\ Acked[k].id \in Nat
      BY <1>5, <2>1, HandParts, PageParts DEF Numbers
    <3> QED BY <1>5, <1>6, <1>7, <3>1 DEF Matching, Ranged
  <2> QED BY <2>2, <2>3 DEF InFlight
<1>9. ASSUME Up PROVE Book'
  <2>1. Book /\ pending' = NoPending
    BY <1>9 DEF HistoryInv
  <2>2. /\ deleting.phase = "none" /\ awaiting = NotAwaited /\ tx.awaiting = NotAwaited
        /\ \A k \in 1 .. Len(chan) : chan[k].type # "ForgetCore"
    BY <1>9, CalmFacts
  <2>3. Content' /\ Retired'
    BY <1>1, <1>2, <1>5, <2>1, ContentGrown, RetiredGrown DEF Book, HistoryInv
  <2>4. Idle'
    BY <1>7, <2>1 DEF Idle
  <2>5. Numbers'
    <3>1. client'.run # NoRun => client'.sync.id # NoSync
      BY <1>6, <1>7 DEF NoSync
    <3>2. client'.sync.id \notin 1 .. given.syncs
      BY <1>6, <1>7 DEF NoSync
    <3> QED BY <2>1, <3>1, <3>2, NumbersGrown DEF Book
  <2>6. OneAnswer'
    BY <1>8, <1>9 DEF OneAnswer
  <2>7. Phases'
    BY <1>8, <1>9, <2>1 DEF Phases, NoPending
  <2>8. Awaiting'
    BY <1>5, <2>2 DEF Awaiting
  <2>9. NoRecheck'
    BY <1>5, <2>1, <2>2, NoRecheckGrown DEF Book
  <2>10. OneDelete'
    <3>1. \A k \in 1 .. Len(chan') : chan'[k].type # "ForgetCore"
      BY <2>2, GrownChan
    <3>2. \A k \in 1 .. Len(Told') : Told'[k].kind # "Wiped"
      BY <1>5, <1>9, CalmFacts
    <3> QED BY <1>5, <2>2, <3>1, <3>2 DEF OneDelete
  <2> QED BY <2>3, <2>4, <2>5, <2>6, <2>7, <2>8, <2>9, <2>10 DEF Book
<1>10. ASSUME Up, Trusted' PROVE Clear' /\ Claimed'
  <2>1. Clear /\ Claimed /\ pending' = NoPending
    BY <1>10 DEF HistoryInv
  <2>2. Knowledge'
    <3>1. Learned' => Learned
      BY <1>1, <1>5, GrownChan DEF Learned
    <3>2. Ignorant' => ~Learned' /\ core'.db # 1
      BY <1>1, <1>8, <1>10, <2>1, <3>1 DEF Ignorant, Old, NoPending
    <3>3. ASSUME NEW k \in 1 .. Len(chan'), Resets(chan[k])'
          PROVE  /\ core'.db # 1 /\ starts'.epoch # core'.db
                 /\ \A j \in 1 .. Len(Told') : Told'[j].epoch # core'.db
                 /\ \A j \in 1 .. (k - 1) :
                      chan'[j].type = "AliveMap" => chan'[j].epoch # core'.db
      <4>1. k \in 1 .. Len(chan) /\ chan'[k] = chan[k]
        BY <1>2, <3>3, GrownChan DEF Resets
      <4>2. \A j \in 1 .. (k - 1) : chan'[j] = chan[j]
        BY <4>1, GrownChan
      <4> QED BY <1>1, <1>5, <2>1, <3>3, <4>1, <4>2 DEF Clear, Knowledge, Resets
    <3> QED BY <3>2, <3>3 DEF Knowledge
  <2>3. Undisputed'
    BY <1>8, <1>10 DEF Undisputed
  <2>4. PendingClaim'
    BY <2>1 DEF PendingClaim
  <2>5. PageClaims' /\ MapClaims'
    BY <1>1, <1>5, <2>1, OtherClaimsGrown DEF Claimed
  <2>6. AckClaims'
    BY <1>8, <1>10 DEF AckClaims
  <2> QED BY <1>10, <2>2, <2>3, <2>4, <2>5, <2>6 DEF Clear, Claimed
<1>11. Trusted' => Remembered'
  BY <1>1, RememberedGrown DEF HistoryInv
<1> QED BY <1>3, <1>4, <1>5, <1>9, <1>10, <1>11 DEF HistoryInv

LEMMA StopStep ==
  ASSUME CalmDeletes, TypeOK, TypeOK', HistoryInv, StopRun
  PROVE  HistoryInv'
<1>1. PICK m : m = [type |-> "Recheck"]
  OBVIOUS
<1>2. m \in MessageSet /\ m.type = "Recheck"
  BY <1>1, RecheckMsg
<1>3. /\ Undisturbed /\ Aside /\ UNCHANGED <<core, chan, deleting, given>>
      /\ client' = NoClient /\ pending' = NoPending
  BY DEF StopRun, Aside
<1>4. Grown(m)
  BY <1>3 DEF Grown
<1>5. /\ client'.sync.epoch = 0 /\ client'.sync.from = 1 /\ client'.sync.id = 0
  BY <1>3 DEF NoClient, NoSync
<1>6. /\ given.syncs \in Nat /\ given'.syncs = given.syncs
      /\ core.db \in Nat /\ core.db # 0 /\ core.top \in Nat /\ core' = core
  BY <1>3, ClientParts, CoreParts
<1>7. Trusted' = Trusted
  BY <1>3 DEF Trusted
<1>8. Within(client.sync.from)' /\ \A k : Covered(client.sync.from, k)'
  BY <1>5, <1>6, CoreParts DEF Within, Covered, Ids, Served
<1>9. SyncClaim'
  BY <1>8 DEF SyncClaim
<1>10. ~Old(client.sync.epoch)'
  BY <1>5 DEF Old
<1> QED BY <1>2, <1>3, <1>4, <1>5, <1>6, <1>7, <1>8, <1>9, <1>10, NewDownload

LEMMA StartStep ==
  ASSUME CalmDeletes, TypeOK, TypeOK', HistoryInv, StartRun
  PROVE  HistoryInv'
<1>1. PICK m : m = [type |-> "Recheck"]
  OBVIOUS
<1>2. m \in MessageSet /\ m.type = "Recheck"
  BY <1>1, RecheckMsg
<1>3. /\ client.run = NoRun /\ Undisturbed /\ Aside /\ UNCHANGED <<core, pending, deleting>>
      /\ client' = [run |-> given.runs + 1, link |-> "new", sync |-> Declared(starts)]
      /\ given' = [given EXCEPT !.runs = @ + 1, !.syncs = @ + 1,
                                !.overtaken = @ \/ Overtaken]
      /\ Send(m)
  BY <1>1 DEF StartRun, Aside
<1>4. Grown(m)
  BY <1>3, SendGrows
<1>5. /\ client'.sync.epoch = starts.epoch /\ client'.sync.from = starts.next
      /\ client'.sync.id = given.syncs + 1 /\ client'.run = given.runs + 1
      /\ client'.link = "new"
  BY <1>3 DEF Declared
<1>6. /\ given.syncs \in Nat /\ given.runs \in Nat /\ given'.syncs = given.syncs + 1
      /\ given'.blind = given.blind /\ given'.overtaken = (given.overtaken \/ Overtaken)
      /\ given'.unmasked = given.unmasked
  BY <1>3 DEF TypeOK, GivenSet
<1>7. Trusted' => Trusted /\ ~Overtaken
  BY <1>6 DEF Trusted
<1>8. /\ core.db \in Nat /\ core.db # 0 /\ core' = core /\ starts \in StartSet
      /\ starts.epoch \in Nat /\ starts.next \in Nat /\ starts.epoch <= core.db
      /\ (starts.epoch # 0 <=> starts.kind = "Checkpoint") /\ starts.kind # "Wiped"
  BY <1>3, CoreParts, HandParts, StartParts DEF HistoryInv, Era, EraStart
<1>9. Valid(starts.epoch) => Speaks(starts)
  BY <1>8 DEF Valid, Speaks
<1>10. ASSUME Up, Trusted'
       PROVE  /\ SyncClaim'
              /\ (\/ Old(client.sync.epoch)'
                  \/ client'.sync.epoch = 0 /\ ~Within(client.sync.from)')
                   => ~Learned /\ core.db # 1
  <2>1. Trusted /\ ~Overtaken /\ Knowledge /\ StartClaim
    BY <1>7, <1>10 DEF HistoryInv, Clear, Remembered
  <2>2. /\ deleting.phase = "none" /\ tx' = tx
        /\ \A k \in 1 .. Len(chan) : chan[k].type # "ForgetCore"
    BY <1>3, <1>10, CalmFacts DEF Aside
  <2>3. ASSUME Valid(starts.epoch)
        PROVE  Within(starts.next) /\ Covered(starts.next, Len(chan))
    <3>1. Held(tx.db, starts.next)
      BY <1>9, <2>1, <2>2, <2>3 DEF StartClaim
    <3>2. \A k \in 1 .. Len(chan) : ~Wipes(chan[k])
      BY <2>1, <2>2, <2>3 DEF Knowledge, Wipes, Valid
    <3>3. Unwiped(chan, 0, Len(chan))
      BY <3>2 DEF Unwiped
    <3> QED BY <3>1, <3>3 DEF Held, Covered, Comes
  <2>4. SyncClaim'
    <3> SUFFICES ASSUME Valid(client.sync.epoch)'
                 PROVE  Within(client.sync.from)' /\ Covered(client.sync.from, Len(chan))'
      BY DEF SyncClaim
    <3>1. PICK n \in Nat : n = starts.next
      BY <1>8
    <3>2. Within(n) /\ Covered(n, Len(chan))
      BY <1>5, <1>8, <2>3, <3>1 DEF Valid
    <3>3. Within(n)' /\ Covered(n, Len(chan))'
      <4>1. SameCore /\ ~Wipes(m) /\ UNCHANGED tx
        BY <1>2, <1>8, <2>2, StillCore DEF Wipes, Resets, HistoryInv
      <4> QED BY <1>2, <1>4, <3>2, <4>1, WithinGrown, CoverLonger
    <3> QED BY <1>5, <3>1, <3>3
  <2>5. ASSUME Old(starts.epoch) \/ (starts.epoch = 0 /\ ~Within(starts.next))
        PROVE  ~Learned /\ core.db # 1
    <3>1. starts.epoch # core.db
      BY <1>8, <2>5 DEF Old
    <3>2. starts # Fresh
      BY <1>8, <2>5, CoreParts DEF Fresh, Old, Within
    <3>3. core.db # 1
      <4>1. ASSUME core.db = 1 PROVE FALSE
        <5>1. starts.epoch = 0 /\ Within(starts.next)
          BY <1>8, <2>3, <3>1, <4>1 DEF Valid
        <5> QED BY <2>5, <5>1 DEF Old
      <4> QED BY <4>1
    <3>4. core.db > 1
      BY <1>8, <3>3
    <3>5. /\ \A k \in DOMAIN chan : ~(chan[k].type = "AliveMap" /\ chan[k].epoch = core.db)
          /\ \A k \in DOMAIN tx.states : tx.states[k].epoch # core.db
          /\ \A k \in DOMAIN post.states : post.states[k].epoch # core.db
      BY <2>1, <3>1, <3>2, <3>4 DEF Overtaken
    <3>6. /\ DOMAIN chan = 1 .. Len(chan) /\ DOMAIN Told = 1 .. Len(Told)
      BY HandParts DEF TypeOK
    <3>7. \A k \in 1 .. Len(Told) : Told[k].epoch # core.db
      BY <3>5, <3>6 DEF Told
    <3> QED BY <3>1, <3>3, <3>5, <3>6, <3>7 DEF Learned
  <2>6. (Old(client.sync.epoch)' <=> Old(starts.epoch))
        /\ (Within(client.sync.from)' <=> Within(starts.next))
    BY <1>5, <1>8 DEF Old, Within
  <2> QED BY <1>5, <2>4, <2>5, <2>6
<1>11. Up => pending = NoPending
  BY <1>3 DEF HistoryInv, Book, Idle
<1>12. given.syncs <= given'.syncs /\ client'.sync.id <= given'.syncs
       /\ client'.run # NoRun /\ client'.link # "none" /\ pending' = pending
  BY <1>3, <1>5, <1>6 DEF NoRun
<1> QED BY <1>2, <1>3, <1>4, <1>5, <1>7, <1>8, <1>10, <1>11, <1>12, NewDownload
-----------------------------------------------------------------------------
(* A new database of the core: nothing the terminal has speaks for it.     *)
LEMMA RecreateStep ==
  ASSUME TypeOK, TypeOK', HistoryInv, Recreate
  PROVE  HistoryInv'
<1>1. /\ core' = [db |-> core.db + 1, top |-> 0, visible |-> {}, hidden |-> {}]
      /\ UNCHANGED <<client, pending, chan, db, tx, post, awaiting, starts, deleting,
                     writer, given>>
  BY DEF Recreate
<1>2. /\ core'.db = core.db + 1 /\ core'.top = 0 /\ Served' = {}
      /\ core.db \in Nat /\ core.db # 0
  BY <1>1, CoreParts DEF Served
<1>3. /\ Told' = Told /\ Acked' = Acked /\ Asked' = Asked /\ Up' = Up /\ Trusted' = Trusted
      /\ chan' = chan /\ client' = client /\ pending' = pending /\ tx' = tx /\ db' = db
      /\ starts' = starts /\ given' = given /\ deleting' = deleting /\ awaiting' = awaiting
      /\ post' = post
  BY <1>1 DEF Told, Acked, Asked, Up, Trusted
<1>4. /\ \A i \in Ids : db.of[i] \in Nat /\ tx.db.of[i] \in Nat
      /\ db.checkpoint.epoch \in Nat /\ tx.db.checkpoint.epoch \in Nat
  BY HandParts, DbParts
<1>5. \A k \in 1 .. Len(chan) :
        /\ Sourced(chan[k]) => chan[k].of \in Nat
        /\ chan[k].type = "AliveMap" => chan[k].epoch \in Nat
  BY ChanParts
<1>6. \A k \in 1 .. Len(Acked) : Acked[k].of \in Nat /\ Sourced(Acked[k])
  BY HandParts, PageParts DEF Sourced
<1>7. \A k \in 1 .. Len(Told) : Told[k].epoch \in Nat
  BY HandParts, StartParts
<1>8. client.sync.epoch \in Nat /\ pending.epoch \in Nat /\ starts.epoch \in Nat
  BY ClientParts, HandParts, StartParts
<1>9. Era
  BY DEF HistoryInv
<1>10. Era'
  <2>1. EraDb(db)' /\ EraDb(tx.db)'
    BY <1>2, <1>3, <1>4, <1>9 DEF Era, EraDb, EraRows
  <2>2. \A k \in 1 .. Len(chan') : EraMsg(chan[k])'
    BY <1>2, <1>3, <1>5, <1>9 DEF Era, EraMsg, Sourced
  <2>3. \A k \in 1 .. Len(Acked') : EraMsg(Acked[k])'
    <3>1. \A k \in 1 .. Len(Acked) : Acked[k].type = "Page"
      BY HandParts, PageParts
    <3> QED BY <1>2, <1>3, <1>6, <1>9, <3>1 DEF Era, EraMsg, Sourced
  <2>4. \A k \in 1 .. Len(Told') : EraStart(Told[k])'
    BY <1>2, <1>3, <1>7, <1>9 DEF Era, EraStart
  <2> QED BY <1>2, <1>3, <1>8, <1>9, <2>1, <2>2, <2>3, <2>4 DEF Era, EraStart
<1>11. Batch' /\ Blanks'
  BY <1>3 DEF HistoryInv, Batch, Blanks, Blank, Unclaimed, Rows
<1>12. ASSUME Up PROVE Book'
  <2>1. Book
    BY <1>12 DEF HistoryInv
  <2>2. \A i \in Ids : tx.db.of[i] # core'.db
    BY <1>2, <1>4, <1>9 DEF Era, EraDb, EraRows
  <2>3. \A k \in 1 .. Len(chan) : Sourced(chan[k]) => chan[k].of # core'.db
    BY <1>2, <1>5, <1>9 DEF Era, EraMsg
  <2>4. Content' /\ Retired'
    BY <1>2, <1>3, <2>2, <2>3 DEF Content, Retired, Sourced
  <2>5. Idle' /\ Numbers' /\ OneAnswer'
    BY <1>3, <2>1 DEF Book, Idle, Numbers, Ranged, Owned, OneAnswer, Answer, Matching
  <2>6. Phases'
    <3>1. Old(pending.epoch) => Old(pending.epoch)'
      BY <1>2, <1>3, <1>8, <1>9 DEF Era, Old
    <3>2. /\ \A k \in 1 .. Len(chan) : Confirms(chan[k]) => Confirms(chan[k])'
          /\ \A k \in 1 .. Len(Acked) : Confirms(Acked[k]) => Confirms(Acked[k])'
      BY <1>3, <3>1 DEF Confirms
    <3> QED BY <1>3, <2>1, <3>1, <3>2 DEF Book, Phases, Answer, Matching, InFlight
  <2>7. Awaiting' /\ NoRecheck' /\ OneDelete'
    BY <1>3, <2>1 DEF Book, Awaiting, NoRecheck, OneDelete, Answer, Matching
  <2> QED BY <2>4, <2>5, <2>6, <2>7 DEF Book
<1>13. Clear' /\ Claimed'
  <2>1. core'.db # 1 /\ core'.db # 0 /\ core'.db \in Nat
    BY <1>2
  <2>2. \A k \in 1 .. Len(chan) :
          /\ Sourced(chan[k]) => chan[k].of # core'.db
          /\ chan[k].type = "AliveMap" => chan[k].epoch # core'.db
    BY <1>2, <1>5, <1>9 DEF Era, EraMsg
  <2>3. \A k \in 1 .. Len(Told) : Told[k].epoch # core'.db
    BY <1>2, <1>7, <1>9 DEF Era, EraStart
  <2>4. \A k \in 1 .. Len(Acked) : Acked[k].of # core'.db
    BY <1>2, <1>6, <1>9 DEF Era, EraMsg
  <2>5. /\ client.sync.epoch # core'.db /\ pending.epoch # core'.db
        /\ starts.epoch # core'.db
    BY <1>2, <1>8, <1>9 DEF Era, EraStart
  <2>6. Knowledge'
    BY <1>3, <2>1, <2>2, <2>3, <2>5 DEF Knowledge, Learned
  <2>7. Undisputed'
    BY <1>3, <2>2, <2>4 DEF Undisputed, Genuine, Answer, Sourced
  <2>8. SyncClaim' /\ PendingClaim'
    BY <1>3, <2>1, <2>5 DEF SyncClaim, PendingClaim, Valid
  <2>9. PageClaims' /\ MapClaims' /\ AckClaims'
    BY <1>3, <2>2, <2>4 DEF PageClaims, MapClaims, AckClaims, Genuine, Sourced
  <2> QED BY <2>6, <2>7, <2>8, <2>9 DEF Clear, Claimed
<1>14. Remembered'
  <2>1. core'.db # 1 /\ core'.db # 0
    BY <1>2
  <2>2. starts.epoch # core'.db /\ \A k \in 1 .. Len(Told) : Told[k].epoch # core'.db
    BY <1>2, <1>7, <1>8, <1>9 DEF Era, EraStart
  <2>3. db.checkpoint.epoch # core'.db /\ tx.db.checkpoint.epoch # core'.db
    BY <1>2, <1>4, <1>9 DEF Era, EraDb
  <2> QED BY <1>3, <2>1, <2>2, <2>3 DEF Remembered, StartClaim, ToldClaims, Kept, Speaks
<1> QED BY <1>3, <1>10, <1>11, <1>12, <1>13, <1>14 DEF HistoryInv

(* The user's message to forget the core, behind whatever is queued. *)
LEMMA DeleteStep ==
  ASSUME TypeOK, TypeOK', HistoryInv, SendDelete
  PROVE  HistoryInv'
<1>1. PICK m : m = [type |-> "ForgetCore", run |-> deleting.run]
  OBVIOUS
<1>2. /\ deleting.phase = "taken" /\ deleting' = [deleting EXCEPT !.phase = "sent"] /\ Send(m)
      /\ Aside /\ UNCHANGED <<core, client, pending, given>>
  BY <1>1 DEF SendDelete, Aside
<1>3. /\ m \in MessageSet /\ m.type = "ForgetCore" /\ m.run = deleting.run
      /\ ~Sourced(m) /\ EraMsg(m)' /\ ~Resets(m)
  BY <1>1 DEF TypeOK, MessageSet, Sourced, EraMsg, Resets
<1>4. Grown(m) /\ (Up => chan' = Append(chan, m))
  BY <1>2, SendGrows
<1>5. deleting'.phase = "sent" /\ deleting'.run = deleting.run
  BY <1>2 DEF TypeOK
<1>6. SameCore /\ (\A i \in Served' : i <= core'.top) /\ core'.db = core.db
      /\ core.top <= core'.top
  BY <1>2, StillCore DEF HistoryInv
<1>7. SameSync /\ SamePhase /\ client' = client /\ pending' = pending /\ given' = given
  BY <1>2 DEF SameSync, SamePhase
<1>8. Told' = Told /\ Acked' = Acked /\ Asked' = Asked /\ Up' = Up /\ tx' = tx
      /\ awaiting' = awaiting
  BY <1>2, AsideHands
<1>9. Trusted' = Trusted
  BY <1>7 DEF Trusted
<1>10. Era'
  <2>1. client'.sync.epoch <= core.db /\ pending'.epoch <= core.db
    BY <1>7 DEF HistoryInv, Era
  <2> QED BY <1>2, <1>3, <1>4, <1>6, <2>1, EraGrown DEF HistoryInv
<1>11. Batch' /\ Blanks'
  BY <1>2, AsideBatch DEF HistoryInv
<1>12. ASSUME Up PROVE Book'
  <2>1. Book
    BY <1>12 DEF HistoryInv
  <2>2. Content' /\ Retired'
    BY <1>3, <1>4, <1>6, <1>8, <2>1, ContentGrown, RetiredGrown DEF Book, HistoryInv
  <2>3. Idle'
    BY <1>7, <2>1 DEF Book, Idle
  <2>4. Numbers'
    <3>1. given.syncs \in Nat /\ given'.syncs = given.syncs
      BY <1>7, ClientParts
    <3>2. client'.sync.id <= given'.syncs /\ (client'.run # NoRun => client'.sync.id # NoSync)
      BY <1>7, <2>1 DEF Book, Numbers
    <3> QED BY <1>2, <1>3, <1>4, <2>1, <3>1, <3>2, NumbersGrown DEF Book
  <2>5. OneAnswer'
    BY <1>2, <1>3, <1>4, <1>7, <2>1, AnswersGrown DEF Book
  <2>6. Phases'
    <3>1. given'.syncs = given.syncs
      BY <1>7
    <3> QED BY <1>2, <1>3, <1>4, <1>6, <1>7, <2>1, <3>1, PhasesGrown DEF Book
  <2>7. Awaiting'
    BY <1>2, <1>3, <1>4, <1>7, <2>1, AwaitingGrown DEF Book
  <2>8. NoRecheck'
    BY <1>3, <1>4, <1>8, <2>1, NoRecheckGrown DEF Book
  <2>9. OneDelete'
    <3>1. chan' = Append(chan, m)
      BY <1>4, <1>12
    <3>2. /\ Len(chan) \in Nat /\ Len(chan') = Len(chan) + 1 /\ chan'[Len(chan) + 1] = m
          /\ \A k \in 1 .. Len(chan) : chan'[k] = chan[k] /\ chan[k].type # "ForgetCore"
      BY <1>2, <1>3, <2>1, <3>1, AppendedFacts DEF Book, OneDelete
    <3>3. \A k \in 1 .. Len(chan') : chan'[k].type = "ForgetCore" => k = Len(chan') /\ chan'[k] = m
      BY <3>2
    <3>4. \A k \in 1 .. Len(Told') : Told'[k].kind # "Wiped"
      BY <1>2, <1>8, <2>1 DEF Book, OneDelete
    <3>5. deleting'.run = client'.run
      BY <1>2, <1>5, <1>7, <2>1 DEF Book, OneDelete
    <3> QED BY <1>3, <1>5, <3>3, <3>4, <3>5 DEF OneDelete
  <2> QED BY <2>2, <2>3, <2>4, <2>5, <2>6, <2>7, <2>8, <2>9 DEF Book
<1>13. ASSUME Up, Trusted PROVE Clear' /\ Claimed'
  <2>1. Clear /\ Claimed
    BY <1>13 DEF HistoryInv
  <2>2. Knowledge'
    BY <1>2, <1>3, <1>4, <1>6, <1>7, <2>1, KnowledgeGrown DEF Clear
  <2>3. Undisputed'
    BY <1>2, <1>3, <1>4, <1>6, <1>7, <2>1, UndisputedGrown DEF Clear
  <2>4. SyncClaim' /\ PendingClaim'
    BY <1>3, <1>4, <1>6, <1>7, <1>8, <2>1, SyncClaimGrown, PendingClaimGrown DEF Claimed
  <2>5. PageClaims' /\ MapClaims'
    BY <1>3, <1>4, <1>6, <1>8, <2>1, OtherClaimsGrown DEF Claimed
  <2>6. AckClaims'
    BY <1>2, <1>3, <1>4, <1>6, <1>7, <2>1, AckClaimsGrown DEF Claimed
  <2> QED BY <2>2, <2>3, <2>4, <2>5, <2>6 DEF Clear, Claimed
<1>14. Trusted => Remembered'
  BY <1>2, <1>5, <1>6, RememberedGrown DEF HistoryInv
<1> QED BY <1>8, <1>9, <1>10, <1>11, <1>12, <1>13, <1>14 DEF HistoryInv
-----------------------------------------------------------------------------
(* The answer to the alive map the feed asked for. *)
LEMMA MapStep ==
  ASSUME TypeOK, TypeOK', HistoryInv, AnswerAliveMap
  PROVE  HistoryInv'
<1> DEFINE map == [type |-> "AliveMap", epoch |-> pending.epoch, next |-> pending.next,
                   max |-> pending.max, alive |-> core.visible]
           recreated == [type |-> "Recreated", run |-> client.run]
<1>1. PICK m : m = IF pending.epoch # core.db THEN recreated ELSE map
  OBVIOUS
<1>2. /\ Online /\ pending.at = "asked" /\ pending # NoPending /\ pending' = NoPending
      /\ Send(m) /\ Aside /\ UNCHANGED <<core, client, deleting, given>>
  BY <1>1 DEF AnswerAliveMap, Aside, NoPending
<1>3. /\ m \in MessageSet /\ ~Sourced(m)
      /\ \/ /\ pending.epoch # core.db /\ m.type = "Recreated" /\ m.run = client.run
         \/ /\ pending.epoch = core.db /\ m.type = "AliveMap"
            /\ m.epoch = pending.epoch /\ m.next = pending.next
  <2>1. pending.epoch \in Databases /\ pending.next \in Nat \ {0} /\ pending.max \in Nat
    BY <1>2 DEF TypeOK, Completions
  <2>2. client.run \in Nat /\ core.visible \in SUBSET Ids
    BY ClientParts, CoreParts
  <2>3. CASE pending.epoch # core.db
    BY <1>1, <2>2, <2>3 DEF MessageSet, Sourced
  <2>4. CASE pending.epoch = core.db
    BY <1>1, <2>1, <2>2, <2>4 DEF MessageSet, Sourced
  <2> QED BY <2>3, <2>4
<1> HIDE DEF map, recreated
<1>4. Grown(m) /\ (Up => chan' = Append(chan, m)) /\ (~Up => chan' = chan)
  BY <1>2, SendGrows
<1>5. SameCore /\ (\A i \in Served' : i <= core'.top) /\ core'.db = core.db
      /\ core.top <= core'.top
  BY <1>2, StillCore DEF HistoryInv
<1>6. SameSync /\ SamePhase /\ client' = client /\ given' = given /\ deleting' = deleting
  BY <1>2 DEF SameSync, SamePhase
<1>7. Told' = Told /\ Acked' = Acked /\ Asked' = Asked /\ Up' = Up /\ tx' = tx
      /\ starts' = starts /\ Trusted' = Trusted
  BY <1>2, AsideHands DEF Trusted
<1>8. pending.epoch \in Nat /\ pending.epoch # 0 /\ core.db \in Nat /\ core.db # 0
      /\ pending'.epoch = 0 /\ pending.epoch <= core.db /\ client.sync.epoch <= core.db
  BY <1>2, ClientParts, CoreParts DEF HistoryInv, Era, NoPending
<1>9. Era'
  <2>1. EraMsg(m)'
    BY <1>3, <1>5, <1>8 DEF EraMsg, Sourced
  <2>2. client'.sync.epoch <= core.db /\ pending'.epoch <= core.db
    BY <1>6, <1>8
  <2> QED BY <1>2, <1>3, <1>4, <1>5, <2>1, <2>2, EraGrown DEF HistoryInv
<1>10. Batch' /\ Blanks'
  BY <1>2, AsideBatch DEF HistoryInv
<1>11. Up => /\ client.run # NoRun
             /\ \/ client.sync.epoch = pending.epoch
                \/ client.sync.from = 1 /\ (client.sync.epoch = 0 \/ Old(pending.epoch))
             /\ \A k \in 1 .. Len(chan) : Answer(chan[k]) => Confirms(chan[k])
             /\ \A k \in 1 .. Len(Acked) : Matching(Acked[k]) => Confirms(Acked[k])
  BY <1>2 DEF HistoryInv, Book, Phases, InFlight
<1>12. ASSUME Up PROVE Book'
  <2>1. Book
    BY <1>12 DEF HistoryInv
  <2>2. Content' /\ Retired'
    BY <1>3, <1>4, <1>5, <1>7, <2>1, ContentGrown, RetiredGrown DEF Book, HistoryInv
  <2>3. Idle'
    BY <1>2, <1>6, <2>1 DEF Book, Idle
  <2>4. Numbers'
    <3>1. given.syncs \in Nat /\ given'.syncs = given.syncs
      BY <1>6, ClientParts
    <3>2. client'.sync.id <= given'.syncs /\ (client'.run # NoRun => client'.sync.id # NoSync)
      BY <1>6, <2>1 DEF Book, Numbers
    <3> QED BY <1>2, <1>3, <1>4, <1>11, <1>12, <2>1, <3>1, <3>2, NumbersGrown DEF Book
  <2>5. /\ OneAnswer' /\ (InFlight' => InFlight)
        /\ \A k \in 1 .. Len(chan') : Answer(chan[k])' =>
             k \in 1 .. Len(chan) /\ Answer(chan[k])
        /\ \A k \in 1 .. Len(Acked') : Matching(Acked[k])' =>
             k \in 1 .. Len(Acked) /\ Matching(Acked[k])
    BY <1>2, <1>3, <1>4, <1>6, <2>1, AnswersGrown DEF Book
  <2>6. Phases'
    BY <1>2, <1>6, <2>1, <2>5 DEF Book, Phases, NoPending
  <2>7. Awaiting'
    BY <1>2, <1>6, <1>7, <2>1, <2>5 DEF Book, Awaiting, NoPending, NoSync, Undeclared
  <2>8. NoRecheck'
    BY <1>3, <1>4, <1>7, <2>1, NoRecheckGrown DEF Book
  <2>9. OneDelete'
    <3>1. deleting'.phase \in {"none", "taken", "sent"}
      BY DEF TypeOK
    <3>2. deleting'.phase # "none" => deleting'.run = client'.run
      BY <1>6, <2>1 DEF Book, OneDelete
    <3> QED BY <1>2, <1>3, <1>4, <1>6, <1>11, <1>12, <2>1, <3>1, <3>2, OneDeleteGrown DEF Book
  <2> QED BY <2>2, <2>3, <2>4, <2>5, <2>6, <2>7, <2>8, <2>9 DEF Book
<1>13. ASSUME Up, Trusted PROVE Clear' /\ Claimed'
  <2>1. Clear /\ Claimed /\ chan' = Append(chan, m)
    BY <1>4, <1>13 DEF HistoryInv
  <2>2. /\ \A k \in 1 .. Len(chan') : Answer(chan[k])' =>
             k \in 1 .. Len(chan) /\ chan'[k] = chan[k] /\ Confirms(chan[k])
        /\ \A k \in 1 .. Len(Acked') : Matching(Acked[k])' =>
             k \in 1 .. Len(Acked) /\ Acked'[k] = Acked[k] /\ Confirms(Acked[k])
    BY <1>2, <1>3, <1>4, <1>6, <1>11, <1>13, AnswersGrown
  <2>3. /\ Len(chan) \in Nat /\ Len(chan') = Len(chan) + 1 /\ chan'[Len(chan) + 1] = m
        /\ \A k \in 1 .. Len(chan) : chan'[k] = chan[k]
    BY <1>3, <2>1, AppendedFacts
  <2>4. Undisputed'
    <3>1. Resets(m) => pending.epoch # core.db
      BY <1>3 DEF Resets
    <3>2. Resets(m) => \A k \in 1 .. Len(chan) : Answer(chan[k]) => ~Genuine(chan[k])
      BY <1>11, <1>13, <3>1 DEF Confirms, Genuine
    <3> QED BY <1>2, <1>3, <1>4, <1>5, <1>6, <2>1, <3>2, UndisputedGrown DEF Clear
  <2>5. PendingClaim'
    BY <1>2 DEF PendingClaim
  <2>6. CASE pending.epoch = core.db
    <3>1. m.type = "AliveMap" /\ m.epoch = core.db /\ m.next = pending.next
      BY <1>3, <2>6
    <3>2. ~Resets(m) /\ ~Wipes(m)
      BY <3>1 DEF Resets, Wipes
    <3>3. ~Ignorant'
      <4>1. client'.sync.epoch = core'.db \/ client'.sync.from = 1
        BY <1>5, <1>6, <1>11, <1>13, <2>6
      <4>2. core'.top \in Nat
        BY DEF TypeOK, CoreSet
      <4>3. ~Old(client.sync.epoch)' /\ ~Old(pending.epoch)'
        BY <1>5, <1>6, <1>8, <1>11, <1>13, <2>6 DEF Old
      <4>4. client'.sync.epoch = 0 => Within(client.sync.from)'
        <5>1. client'.sync.epoch = 0 => client'.sync.from = 1
          BY <1>5, <1>8, <4>1
        <5> QED BY <4>2, <5>1 DEF Within
      <4>5. /\ \A k \in 1 .. Len(chan') : Answer(chan[k])' => chan'[k].of = core'.db
            /\ \A k \in 1 .. Len(Acked') : Matching(Acked[k])' => Acked'[k].of = core'.db
        BY <1>5, <2>2, <2>6 DEF Confirms, Old
      <4> QED BY <4>3, <4>4, <4>5 DEF Ignorant, Old
    <3>4. Knowledge'
      <4>1. ASSUME NEW k \in 1 .. Len(chan'), Resets(chan[k])'
            PROVE  /\ core'.db # 1 /\ starts'.epoch # core'.db
                   /\ \A j \in 1 .. Len(Told') : Told'[j].epoch # core'.db
                   /\ \A j \in 1 .. (k - 1) :
                        chan'[j].type = "AliveMap" => chan'[j].epoch # core'.db
        <5>1. k \in 1 .. Len(chan) /\ chan'[k] = chan[k]
          BY <2>3, <3>2, <4>1 DEF Resets
        <5>2. \A j \in 1 .. (k - 1) : chan'[j] = chan[j]
          BY <2>3, <5>1
        <5> QED BY <1>5, <1>7, <2>1, <4>1, <5>1, <5>2 DEF Clear, Knowledge, Resets
      <4> QED BY <3>3, <4>1 DEF Knowledge
    <3>5. SyncClaim' /\ AckClaims'
      BY <1>2, <1>3, <1>4, <1>5, <1>6, <1>7, <2>1, <3>2, SyncClaimGrown, AckClaimsGrown
        DEF Claimed
    <3>6. PageClaims'
      BY <1>3, <1>4, <1>5, <1>7, <2>1, <3>1, OtherClaimsGrown DEF Claimed
    <3>7. MapClaims'
      <4>1. ASSUME NEW k \in 1 .. Len(chan'), chan'[k].type = "AliveMap",
                   chan'[k].epoch = core'.db, ~Ignored(chan, tx.awaiting, k)'
            PROVE  Covered(chan[k].next, k)'
        <5>1. CASE k \in 1 .. Len(chan)
          BY <1>3, <1>4, <1>5, <1>7, <2>1, <2>3, <4>1, <5>1, MapClaimsGrown DEF Claimed
        <5>2. CASE k = Len(chan) + 1
          <6>1. PICK n \in Nat : n = pending.next
            BY ClientParts
          <6>2. ~Void
            BY <1>7, <2>3, <4>1, <5>2 DEF Void, Ignored, ForgetBefore
          <6>3. Covered(n, Len(chan))
            BY <1>2, <2>1, <2>6, <6>1, <6>2 DEF Claimed, PendingClaim
          <6>4. Covered(n, Len(chan))'
            BY <1>3, <1>4, <1>5, <1>7, <3>2, <6>3, CoverLonger
          <6> QED BY <2>3, <3>1, <5>2, <6>1, <6>4
        <5> QED BY <2>3, <5>1, <5>2
      <4> QED BY <4>1 DEF MapClaims
    <3> QED BY <2>1, <2>4, <2>5, <3>4, <3>5, <3>6, <3>7 DEF Clear, Claimed
  <2>7. CASE pending.epoch # core.db
    <3>1. m.type = "Recreated"
      BY <1>3, <2>7
    <3>2. Ignorant /\ ~Learned /\ core.db # 1
      BY <1>8, <2>1, <2>7 DEF Clear, Knowledge, Ignorant, Old
    <3>3. Knowledge'
      <4>1. Learned' => Learned
        BY <1>5, <1>7, <2>3, <3>1 DEF Learned
      <4>2. /\ starts'.epoch # core'.db
            /\ \A j \in 1 .. Len(Told') : Told'[j].epoch # core'.db
            /\ \A j \in 1 .. Len(chan') : chan'[j].type = "AliveMap" => chan'[j].epoch # core'.db
        BY <3>2, <4>1 DEF Learned
      <4>3. \A k \in 1 .. Len(chan') : \A j \in 1 .. (k - 1) : j \in 1 .. Len(chan')
        BY <2>3
      <4> QED BY <1>5, <3>2, <4>1, <4>2, <4>3 DEF Knowledge
    <3>4. SyncClaim'
      <4>1. CASE client.sync.epoch = pending.epoch
        <5>1. ~Valid(client.sync.epoch)'
          BY <1>5, <1>6, <2>7, <3>2, <4>1 DEF Valid
        <5> QED BY <5>1 DEF SyncClaim
      <4>2. CASE client.sync.from = 1
        <5>1. Within(client.sync.from)' /\ Covered(client.sync.from, Len(chan))'
          BY <1>6, <4>2, CoreParts DEF Within, Covered, TypeOK, CoreSet, Ids, Served
        <5> QED BY <5>1 DEF SyncClaim
      <4> QED BY <1>11, <1>13, <4>1, <4>2
    <3>5. AckClaims'
      BY <1>5, <2>2, <2>7 DEF AckClaims, Genuine, Confirms
    <3>6. PageClaims' /\ MapClaims'
      BY <1>3, <1>4, <1>5, <1>7, <2>1, <3>1, OtherClaimsGrown DEF Claimed
    <3> QED BY <2>1, <2>4, <2>5, <3>3, <3>4, <3>5, <3>6 DEF Clear, Claimed
  <2> QED BY <2>6, <2>7
<1>14. Trusted => Remembered'
  BY <1>2, <1>5, <1>6, RememberedGrown DEF HistoryInv
<1> QED BY <1>7, <1>9, <1>10, <1>12, <1>13, <1>14 DEF HistoryInv
-----------------------------------------------------------------------------
(* The feed asks for the alive map of the download that is still the       *)
(* declared one: behind the page the library has begun to ask for, or at   *)
(* once.                                                                   *)
LEMMA AskStep ==
  ASSUME TypeOK, TypeOK', HistoryInv, AskAliveMap, ~given'.late
  PROVE  HistoryInv'
<1>1. /\ pending.at = "unread" /\ pending.id = client.sync.id
      /\ \/ pending' = NoPending
         \/ pending' = [pending EXCEPT !.at = IF client.sync.phase = "ask" THEN "behind"
                                             ELSE "asked"]
      /\ given' = [given EXCEPT !.late = @ \/ pending.id # client.sync.id]
      /\ UNCHANGED <<core, client, chan, db, tx, post, awaiting, starts, deleting, writer>>
  BY DEF AskAliveMap, TypeOK, GivenSet
<1>2. pending \in Completions /\ pending # NoPending
  BY <1>1 DEF TypeOK, NoPending
<1>3. \/ pending' = NoPending
      \/ /\ pending'.id = pending.id /\ pending'.epoch = pending.epoch
         /\ pending'.next = pending.next
         /\ pending'.at = IF client.sync.phase = "ask" THEN "behind" ELSE "asked"
  BY <1>1, <1>2 DEF Completions
<1>4. NoPending.epoch = 0 /\ NoPending.at = "none"
  BY DEF NoPending
<1>5. /\ core' = core /\ client' = client /\ chan' = chan /\ tx' = tx /\ db' = db /\ post' = post
      /\ awaiting' = awaiting /\ starts' = starts /\ deleting' = deleting
      /\ Served' = Served /\ given'.syncs = given.syncs /\ Trusted' = Trusted /\ Up' = Up
      /\ Told' = Told /\ Acked' = Acked /\ Asked' = Asked
      /\ (\A x : Answer(x)' <=> Answer(x)) /\ (\A x : Matching(x)' <=> Matching(x))
  BY <1>1 DEF Served, Trusted, Up, Told, Acked, Asked, Answer, Matching, TypeOK, GivenSet
<1>6. core.db \in Nat /\ core.db # 0
  BY CoreParts
<1>7. Era'
  BY <1>3, <1>4, <1>5, <1>6 DEF HistoryInv, Era, EraDb, EraRows, EraMsg, EraStart
<1>8. Batch' /\ Blanks'
  BY <1>5 DEF HistoryInv, Batch, Blanks, Blank, Unclaimed, Rows
<1>9. ASSUME Up PROVE Book'
  <2>1. Book
    BY <1>9 DEF HistoryInv
  <2>2. Idle'
    BY <1>2, <1>5, <2>1 DEF Book, Idle
  <2>3. Phases'
    <3>1. InFlight' => InFlight
      BY <1>5 DEF InFlight
    <3>2. /\ client.sync.phase \in {"ask", "done"} /\ client.sync.epoch = pending.epoch
          /\ client.run # NoRun /\ pending.id <= given.syncs
          /\ InFlight => client.sync.phase \in {"page", "repeat"}
      BY <1>1, <1>2, <2>1 DEF Book, Phases
    <3> QED BY <1>1, <1>3, <1>4, <1>5, <3>1, <3>2 DEF Phases
  <2>4. Awaiting'
    BY <1>1, <1>5, <2>1 DEF Book, Awaiting
  <2>5. Content' /\ Retired' /\ Numbers' /\ OneAnswer' /\ NoRecheck' /\ OneDelete'
    BY <1>5, <2>1 DEF Book, Content, Retired, Numbers, Ranged, Owned, OneAnswer, NoRecheck,
                      OneDelete
  <2> QED BY <2>2, <2>3, <2>4, <2>5 DEF Book
<1>10. ASSUME Up, Trusted PROVE Clear' /\ Claimed'
  <2>1. Clear /\ Claimed
    BY <1>10 DEF HistoryInv
  <2>2. (Void' <=> Void) /\ (\A n : Within(n)' <=> Within(n))
        /\ (\A n, k : Covered(n, k)' <=> Covered(n, k))
    BY <1>5 DEF Void, Covered, Within
  <2>3. Ignorant' => Ignorant
    BY <1>3, <1>4, <1>5, <2>2 DEF Ignorant, Old, Within
  <2>4. Knowledge' /\ Undisputed'
    BY <1>5, <2>1, <2>3 DEF Clear, Knowledge, Learned, Undisputed, Genuine, Valid, Resets
  <2>5. PendingClaim'
    BY <1>2, <1>3, <1>5, <2>1, <2>2 DEF Claimed, PendingClaim, Within, Covered
  <2>6. SyncClaim' /\ AckClaims'
    BY <1>5, <2>1, <2>2 DEF Claimed, SyncClaim, AckClaims, Valid, Within, Genuine
  <2>7. PageClaims' /\ MapClaims'
    BY <1>5, <2>1, <2>2 DEF Claimed, PageClaims, MapClaims, Genuine, Skipped, Ignored
  <2> QED BY <2>4, <2>5, <2>6, <2>7 DEF Clear, Claimed
<1>11. Trusted => Remembered'
  BY <1>5 DEF HistoryInv, Remembered, StartClaim, ToldClaims, Kept, Speaks, Held, Within
<1> QED BY <1>5, <1>7, <1>8, <1>9, <1>10, <1>11 DEF HistoryInv
-----------------------------------------------------------------------------
(* The core's answer to a catch-up request: the next row it serves, and    *)
(* whether it is another database than the one the download began with.    *)
LEMMA PageStep ==
  ASSUME TypeOK, TypeOK', HistoryInv, ServePage
  PROVE  HistoryInv'
<1>1. PICK m \in Pages :
        /\ Send(m)
        /\ m.of = core.db /\ m.run = client.run /\ m.id = client.sync.id
        /\ m.recreated = SeenRecreated(client.sync)
        /\ m.row = 0 \/ m.row \in Served
        /\ \A i \in Served : i >= client.sync.from => m.row # 0 /\ m.row <= i
  BY ServedPage
<1>2. /\ Online /\ client.sync.phase = "ask" /\ pending.at \in {"none", "behind"}
      /\ pending' = Unblocked
      /\ client' = [client EXCEPT !.sync.phase = "page"] /\ Aside
      /\ given' = [given EXCEPT !.blind = @ \/
                     (~SeenRecreated(client.sync) /\ Unverifiable(client.sync))]
      /\ UNCHANGED <<core, deleting>>
  BY DEF ServePage, Aside
<1>3. /\ m \in MessageSet /\ m.type = "Page" /\ m.row \in Nat /\ m.recreated \in BOOLEAN
      /\ Sourced(m)
  BY PageParts DEF Sourced
<1>4. Grown(m) /\ (Up => chan' = Append(chan, m)) /\ (~Up => chan' = chan)
  BY <1>1, SendGrows
<1>5. SameCore /\ (\A i \in Served' : i <= core'.top) /\ core'.db = core.db
      /\ core.top <= core'.top /\ core' = core
  BY <1>2, StillCore DEF HistoryInv
<1>6. /\ SameSync /\ client'.link = client.link /\ client'.sync.phase = "page"
      /\ deleting' = deleting
      /\ pending'.id = pending.id /\ pending'.epoch = pending.epoch
      /\ pending'.next = pending.next /\ (pending' = NoPending <=> pending = NoPending)
      /\ pending # NoPending => pending.at = "behind" /\ pending'.at = "asked"
  BY <1>2, UnblockedParts DEF SameSync, TypeOK, ClientSet, SyncSet
<1>7. Told' = Told /\ Acked' = Acked /\ Asked' = Asked /\ Up' = Up /\ tx' = tx
      /\ starts' = starts
  BY <1>2, AsideHands
<1>8. /\ given'.syncs = given.syncs /\ given'.overtaken = given.overtaken
      /\ given'.unmasked = given.unmasked
      /\ given'.blind = (given.blind \/
           (~SeenRecreated(client.sync) /\ Unverifiable(client.sync)))
  BY <1>2 DEF TypeOK, GivenSet
<1>9. Trusted' => Trusted /\ (SeenRecreated(client.sync) \/ ~Unverifiable(client.sync))
  BY <1>8 DEF Trusted
<1>10. core.db \in Nat /\ core.db # 0 /\ core.top \in Nat /\ client.sync.from \in Nat
       /\ client.sync.from # 0 /\ client.sync.epoch \in Nat
       /\ \A i \in Served : i \in Nat /\ i # 0 /\ i <= core.top
  BY CoreParts, ClientParts DEF HistoryInv, Era
<1>11. Era'
  <2>1. EraMsg(m)'
    BY <1>1, <1>3, <1>5, <1>10 DEF EraMsg
  <2>2. client'.sync.epoch <= core.db /\ pending'.epoch <= core.db
    BY <1>6 DEF SameSync, HistoryInv, Era
  <2> QED BY <1>2, <1>3, <1>4, <1>5, <2>1, <2>2, EraGrown DEF HistoryInv
<1>12. Batch' /\ Blanks'
  BY <1>2, AsideBatch DEF HistoryInv
<1>13. Up => /\ client.run # NoRun /\ ~InFlight
             /\ pending # NoPending =>
                  client.sync.epoch = pending.epoch /\ pending.id = client.sync.id
  BY <1>2, <1>6 DEF HistoryInv, Book, Idle, Phases, Online
<1>14. ASSUME Up
       PROVE  /\ chan' = Append(chan, m)
              /\ Len(chan) \in Nat /\ Len(chan') = Len(chan) + 1 /\ chan'[Len(chan) + 1] = m
              /\ \A k \in 1 .. Len(chan) : chan'[k] = chan[k]
              /\ \A k \in 1 .. Len(chan') : Answer(chan[k])' => k = Len(chan')
              /\ \A k \in 1 .. Len(Acked') : ~Matching(Acked[k])'
  <2>1. /\ chan' = Append(chan, m) /\ Len(chan) \in Nat /\ Len(chan') = Len(chan) + 1
        /\ chan'[Len(chan) + 1] = m /\ \A k \in 1 .. Len(chan) : chan'[k] = chan[k]
    BY <1>3, <1>4, <1>14, AppendedFacts
  <2>2. \A k \in 1 .. Len(chan) : ~Answer(chan[k])'
    BY <1>6, <1>13, <1>14, <2>1, NoneInFlight DEF Answer, Matching, SameSync
  <2>3. \A k \in 1 .. Len(Acked') : ~Matching(Acked[k])'
    BY <1>6, <1>7, <1>13, <1>14, NoneInFlight DEF Matching, SameSync
  <2> QED BY <2>1, <2>2, <2>3
<1>15. ASSUME Up PROVE Book'
  <2>1. Book
    BY <1>15 DEF HistoryInv
  <2>2. Content' /\ Retired'
    BY <1>1, <1>3, <1>4, <1>5, <1>7, <2>1, ContentGrown, RetiredGrown DEF Book, HistoryInv
  <2>3. Idle'
    BY <1>2, <1>6, <1>13, <1>15 DEF Idle, SameSync, Online
  <2>4. Numbers'
    <3>1. given.syncs \in Nat /\ given'.syncs = given.syncs
      BY <1>8, ClientParts
    <3>2. client'.sync.id <= given'.syncs /\ (client'.run # NoRun => client'.sync.id # NoSync)
      BY <1>6, <2>1, <3>1 DEF Book, Numbers, SameSync
    <3>3. Ranged(m)'
      BY <1>1, <1>13, <1>15, <2>1, <3>1 DEF Book, Numbers, Ranged
    <3>4. Owned(m)'
      BY <1>1, <1>6 DEF Owned, SameSync
    <3> QED BY <1>2, <1>3, <1>4, <1>6, <2>1, <3>1, <3>2, <3>3, <3>4, NumbersGrown
            DEF Book, SameSync
  <2>5. OneAnswer'
    BY <1>14, <1>15 DEF OneAnswer
  <2>6. Phases'
    <3>1. pending.epoch \in Nat /\ (pending # NoPending => pending.epoch # 0)
          /\ (pending'.at = "none" <=> pending' = NoPending)
      BY <1>2, <1>6, ClientParts, UnblockedParts
    <3>2. pending # NoPending => Confirms(m)'
      BY <1>1, <1>5, <1>6, <1>13, <1>15, <3>1 DEF Confirms, Old, SeenRecreated
    <3>3. /\ pending # NoPending =>
               \A k \in 1 .. Len(chan') : Answer(chan[k])' => Confirms(chan[k])'
          /\ \A k \in 1 .. Len(Acked') : ~Matching(Acked[k])'
      BY <1>14, <1>15, <3>2 DEF Confirms
    <3>4. /\ pending' # NoPending => pending'.at = "asked"
          /\ pending' = NoPending => pending'.at = "none"
      BY <1>6, <3>1
    <3> QED BY <1>6, <1>8, <1>13, <1>15, <2>1, <3>3, <3>4 DEF Book, Phases, SameSync
  <2>7. Awaiting'
    <3> SUFFICES ASSUME tx'.awaiting \notin {NotAwaited, Undeclared}
                 PROVE  /\ client'.sync.id = tx'.awaiting /\ client'.sync.from = 1
                        /\ client'.sync.epoch = 0
                        /\ pending.id # client.sync.id
      <4>0. pending.id # client.sync.id => pending' = NoPending
        BY <1>6, <1>13, <1>15
      <4>1. pending.id # client.sync.id => \A k \in 1 .. Len(chan') : Answer(chan[k])' =>
              /\ pending' = NoPending
              /\ \A l \in (k + 1) .. Len(chan') : chan'[l].type \notin {"Page", "AliveMap"}
        <5>1. \A l \in (Len(chan') + 1) .. Len(chan') : FALSE
          BY <1>14, <1>15
        <5> QED BY <1>14, <1>15, <4>0, <5>1
      <4> QED BY <1>6, <1>14, <1>15, <4>1 DEF Awaiting, SameSync
    <3> QED BY <1>6, <1>7, <2>1 DEF Book, Awaiting, SameSync
  <2>8. NoRecheck'
    BY <1>3, <1>4, <1>7, <2>1, NoRecheckGrown DEF Book
  <2>9. OneDelete'
    <3>1. deleting'.phase \in {"none", "taken", "sent"}
      BY DEF TypeOK
    <3>2. deleting'.phase # "none" => deleting'.run = client'.run
      BY <1>6, <2>1 DEF Book, OneDelete, SameSync
    <3> QED BY <1>2, <1>3, <1>4, <1>6, <1>13, <1>15, <2>1, <3>1, <3>2, OneDeleteGrown
            DEF Book, SameSync
  <2> QED BY <2>2, <2>3, <2>4, <2>5, <2>6, <2>7, <2>8, <2>9 DEF Book
<1>16. ASSUME Up, Trusted' PROVE Clear' /\ Claimed'
  <2>1. Trusted /\ Clear /\ Claimed /\ Book
        /\ (SeenRecreated(client.sync) \/ ~Unverifiable(client.sync))
    BY <1>9, <1>16 DEF HistoryInv
  <2>2. Ignorant' => Ignorant
    <3>1. \A k \in 1 .. Len(chan') : Answer(chan[k])' => ~Old(chan[k].of)'
      BY <1>1, <1>5, <1>14, <1>16 DEF Old
    <3>2. \A k \in 1 .. Len(Acked') : ~Matching(Acked[k])'
      BY <1>14, <1>16
    <3> QED BY <1>5, <1>6, <3>1, <3>2 DEF Ignorant, Old, Within, SameSync
  <2>3. Learned' => Learned
    BY <1>3, <1>4, <1>5, <1>7, GrownChan DEF Learned
  <2>4. m.recreated => Ignorant
    <3> DEFINE reborn == Old(client.sync.epoch)
                           \/ (client.sync.epoch = 0 /\ ~Within(client.sync.from))
    <3>1. SeenRecreated(client.sync) => reborn
      BY <1>10 DEF SeenRecreated, Old, Within
    <3>2. reborn => Ignorant
      BY DEF Ignorant
    <3>3. m.recreated => SeenRecreated(client.sync)
      BY <1>1
    <3> QED BY <3>1, <3>2, <3>3
  <2>5. m.recreated => ~Learned /\ core.db # 1 /\ ~Valid(client.sync.epoch)
    <3>1. m.recreated => ~Learned /\ core.db # 1
      BY <2>1, <2>4 DEF Clear, Knowledge
    <3> QED BY <1>1, <1>10, <3>1 DEF SeenRecreated, Valid
  <2>6. ~m.recreated => client.sync.from = 1 \/ Valid(client.sync.epoch)
    BY <1>1, <1>10, <2>1 DEF SeenRecreated, Unverifiable, Valid
  <2>7. Knowledge'
    <3>1. ASSUME NEW k \in 1 .. Len(chan'), Resets(chan[k])'
          PROVE  /\ core'.db # 1 /\ starts'.epoch # core'.db
                 /\ \A j \in 1 .. Len(Told') : Told'[j].epoch # core'.db
                 /\ \A j \in 1 .. (k - 1) :
                      chan'[j].type = "AliveMap" => chan'[j].epoch # core'.db
      <4>1. CASE k \in 1 .. Len(chan)
        <5>1. chan'[k] = chan[k] /\ \A j \in 1 .. (k - 1) : chan'[j] = chan[j]
          BY <1>14, <1>16, <4>1
        <5> QED BY <1>5, <1>7, <2>1, <3>1, <4>1, <5>1 DEF Clear, Knowledge, Resets
      <4>2. CASE k = Len(chan) + 1
        <5>1. ~Learned' /\ core.db # 1
          BY <1>3, <1>14, <1>16, <2>3, <2>5, <3>1, <4>2 DEF Resets
        <5>2. \A j \in 1 .. (k - 1) : j \in 1 .. Len(chan')
          BY <1>14, <1>16, <4>2
        <5> QED BY <1>5, <5>1, <5>2 DEF Learned
      <4> QED BY <1>14, <1>16, <4>1, <4>2
    <3> QED BY <1>5, <2>1, <2>2, <2>3, <3>1 DEF Clear, Knowledge
  <2>8. Undisputed'
    <3>1. \A l \in (Len(chan') + 1) .. Len(chan') : FALSE
      BY <1>14, <1>16
    <3>2. ASSUME NEW k \in 1 .. Len(chan'), Answer(chan[k])', Genuine(chan[k])'
          PROVE  client'.sync.from = 1 \/ Valid(client.sync.epoch)'
      <4>1. ~m.recreated
        BY <1>14, <1>16, <3>2 DEF Genuine
      <4> QED BY <1>5, <1>6, <2>6, <4>1 DEF SameSync, Valid
    <3> QED BY <1>14, <1>16, <3>1, <3>2 DEF Undisputed
  <2>9. SyncClaim'
    <3>1. CASE m.recreated
      BY <1>5, <1>6, <2>5, <3>1 DEF SyncClaim, Valid, SameSync
    <3>2. CASE ~m.recreated
      <4>1. ~Resets(m)
        BY <1>3, <3>2 DEF Resets
      <4> QED BY <1>3, <1>4, <1>5, <1>6, <1>7, <2>1, <4>1, SyncClaimGrown DEF Claimed, SameSync
    <3> QED BY <3>1, <3>2
  <2>10. PendingClaim' /\ AckClaims'
    <3>1. AckClaims'
      BY <1>14, <1>16 DEF AckClaims
    <3>2. CASE pending # NoPending /\ pending.epoch = core.db
      <4>1. ~Resets(m)
        BY <1>1, <1>3, <1>10, <1>13, <1>16, <3>2 DEF Resets, SeenRecreated
      <4> QED BY <1>3, <1>4, <1>5, <1>6, <1>7, <2>1, <3>1, <3>2, <4>1, PendingClaimGrown
              DEF Claimed
    <3> QED BY <1>5, <1>6, <3>1, <3>2 DEF PendingClaim
  <2>11. MapClaims'
    BY <1>3, <1>4, <1>5, <1>7, <2>1, OtherClaimsGrown DEF Claimed
  <2>12. PageClaims'
    <3>1. ASSUME NEW k \in 1 .. Len(chan'), chan'[k].type = "Page", Genuine(chan[k])',
                 ~Skipped(chan, tx.awaiting, k)'
          PROVE  Covered(chan[k].row + 1, k)'
      <4>1. CASE k \in 1 .. Len(chan)
        <5>1. chan'[k] = chan[k] /\ Genuine(chan[k])
          BY <1>5, <1>14, <1>16, <3>1, <4>1 DEF Genuine
        <5> QED BY <1>3, <1>4, <1>5, <1>7, <2>1, <3>1, <4>1, <5>1, PageClaimsGrown DEF Claimed
      <4>2. CASE k = Len(chan) + 1
        <5> DEFINE L == Len(chan)
        <5>1. /\ L \in Nat /\ Len(chan') = L + 1 /\ chan'[L + 1] = m /\ k = L + 1
              /\ \A j \in 1 .. L : chan'[j] = chan[j]
          BY <1>14, <1>16, <4>2
        <5>2. ~m.recreated /\ ~Wipes(m)
          BY <1>3, <3>1, <5>1 DEF Genuine, Wipes, Resets
        <5>3. (\A j \in 1 .. L : chan[j].type # "ForgetCore")
              /\ (tx.awaiting = NotAwaited \/ tx.awaiting = client.sync.id)
          BY <1>1, <1>7, <3>1, <5>1 DEF Skipped, ForgetBefore
        <5>4. client.sync.from # 1 => Covered(client.sync.from, L)
          <6> SUFFICES ASSUME client.sync.from # 1 PROVE Covered(client.sync.from, L)
            OBVIOUS
          <6>1. Valid(client.sync.epoch)
            BY <2>6, <5>2
          <6>2. tx.awaiting = NotAwaited
            BY <1>13, <1>16, <2>1, <5>3 DEF Book, Awaiting, Numbers, NoSync, Undeclared
          <6>3. ~Void
            BY <5>3, <6>2 DEF Void
          <6> QED BY <2>1, <6>1, <6>3 DEF Claimed, SyncClaim
        <5>5. Within(m.row + 1)'
          BY <1>1, <1>3, <1>5, <1>10 DEF Within
        <5>6. ASSUME NEW i \in Served, i < m.row + 1
              PROVE  Comes(chan', tx.db.of, tx.awaiting, core.db, i, L + 1)
          <6>1. CASE i < client.sync.from
            <7> HIDE DEF L
            <7>1. Comes(chan, tx.db.of, tx.awaiting, core.db, i, L)
              BY <1>10, <5>4, <6>1 DEF Covered
            <7>2. Comes(chan', tx.db.of, tx.awaiting, core.db, i, L)
              BY <5>1, <7>1, ComesPrefix
            <7> QED BY <5>1, <5>2, <7>2, ComesLonger
          <6>2. CASE i >= client.sync.from
            <7> HIDE DEF L
            <7>1. m.row = i
              BY <1>1, <1>3, <1>10, <5>6, <6>2
            <7>2. Lands(chan', tx.awaiting, core.db, i, L + 1)
              BY <1>1, <1>3, <1>7, <3>1, <5>1, <7>1 DEF Lands
            <7>3. Unwiped(chan', L + 1, L + 1)
              BY <5>1 DEF Unwiped
            <7> QED BY <5>1, <7>2, <7>3 DEF Comes
          <6> QED BY <1>10, <6>1, <6>2
        <5>7. Served' = Served /\ core'.db = core.db
          BY <1>5 DEF Served
        <5> HIDE DEF L
        <5> QED BY <1>7, <5>1, <5>5, <5>6, <5>7 DEF Covered
      <4> QED BY <1>14, <1>16, <4>1, <4>2
    <3> QED BY <3>1 DEF PageClaims
  <2> QED BY <2>7, <2>8, <2>9, <2>10, <2>11, <2>12 DEF Clear, Claimed
<1>17. Trusted' => Remembered'
  BY <1>2, <1>5, <1>6, <1>9, RememberedGrown DEF HistoryInv
<1> QED BY <1>7, <1>11, <1>12, <1>15, <1>16, <1>17 DEF HistoryInv
-----------------------------------------------------------------------------
(* The writer stops: what it had not committed is gone, and nothing it     *)
(* told or was told matters any more.                                      *)
LEMMA StopsStep ==
  ASSUME TypeOK, HistoryInv, WriterStops
  PROVE  HistoryInv'
<1>1. /\ writer' = "stopped" /\ chan' = <<>> /\ tx' = Closed(db, awaiting) /\ post' = Nothing
      /\ UNCHANGED <<core, client, pending, db, awaiting, starts, deleting, given>>
  BY DEF WriterStops
<1>2. /\ ~tx'.open /\ tx'.db = db /\ tx'.states = <<>> /\ tx'.acks = <<>> /\ tx'.resyncs = <<>>
      /\ post'.states = <<>> /\ post'.acks = <<>> /\ post'.resyncs = <<>>
  BY <1>1 DEF Closed, Nothing
<1>3. Told' = <<>> /\ Acked' = <<>> /\ ~Up' /\ Trusted' = Trusted
  BY <1>1, <1>2 DEF Told, Acked, Up, Trusted
<1>4. (\A k \in 1 .. Len(chan') : FALSE) /\ (\A k \in 1 .. Len(Told') : FALSE)
      /\ (\A k \in 1 .. Len(Acked') : FALSE)
  BY <1>1, <1>3
<1>5. Era'
  BY <1>1, <1>2, <1>4 DEF HistoryInv, Era, EraDb, EraRows, EraStart, Served
<1>6. Batch' /\ Blanks'
  BY <1>1, <1>2, <1>4 DEF Batch, HistoryInv, Blanks, Blank, Unclaimed, Rows
<1>7. Trusted => Remembered'
  <2>1. Trusted => StartClaim' /\ Kept(db)' /\ Kept(tx.db)'
    BY <1>1, <1>2
       DEF HistoryInv, Remembered, StartClaim, Kept, Held, Within, Speaks, Served
  <2> QED BY <1>4, <2>1 DEF Remembered, ToldClaims
<1> QED BY <1>3, <1>5, <1>6, <1>7 DEF HistoryInv

(* The start state derived from a database, and what it claims. *)
LEMMA StartupFacts ==
  ASSUME TypeOK, NEW d \in DbSet, EraDb(d), Unclaimed(d) => Rows(d) = {}
  PROVE  /\ EraStart(StartupStart(d)) /\ StartupStart(d).kind # "Wiped"
         /\ Unclaimed(d) => StartupStart(d).kind = "Fresh"
         /\ Opened(d) = d
         /\ Kept(d) /\ Speaks(StartupStart(d)) => Held(d, StartupStart(d).next)
<1>1. /\ core.db \in Nat /\ core.db # 0 /\ core.top \in Nat
      /\ \A i \in Served : i \in Nat /\ i # 0
  BY CoreParts
<1>2. Held(d, 1)
  BY <1>1 DEF Held, Within
<1>3. d.checkpoint.epoch <= core.db /\ (d.checkpoint = NoCheckpoint <=> d.checkpoint.epoch = 0)
      /\ d.frontier \in Int
  BY DbParts DEF EraDb
<1>4. CASE Rows(d) = {}
  BY <1>1, <1>2, <1>4 DEF StartupStart, Fresh, EraStart, Opened
<1>5. CASE Rows(d) # {} /\ d.checkpoint # NoCheckpoint
  <2>1. StartupStart(d) = [kind |-> "Checkpoint", epoch |-> d.checkpoint.epoch,
                           next |-> d.checkpoint.next]
    BY <1>5 DEF StartupStart, Checkpoint
  <2> QED BY <1>3, <1>5, <2>1 DEF EraStart, Speaks, Opened, Unclaimed, Kept
<1>6. CASE Rows(d) # {} /\ d.checkpoint = NoCheckpoint
  <2>1. d.frontier # NoFrontier
    BY <1>6 DEF Unclaimed
  <2>2. StartupStart(d) = [kind |-> "Resume", epoch |-> 0, next |-> d.frontier + 1]
    BY <1>6, <2>1 DEF StartupStart, Resume
  <2> QED BY <1>1, <1>6, <2>1, <2>2 DEF EraStart, Speaks, Opened, Unclaimed, Kept
<1> QED BY <1>4, <1>5, <1>6

(* The terminal starts anew from what is committed. *)
LEMMA RestartStep ==
  ASSUME TypeOK, TypeOK', HistoryInv, Restart
  PROVE  HistoryInv'
<1>1. /\ db' = Opened(db) /\ starts' = StartupStart(db) /\ client' = NoClient
      /\ pending' = NoPending /\ chan' = <<>> /\ tx' = Closed(db', NotAwaited)
      /\ post' = Nothing /\ awaiting' = NotAwaited /\ deleting' = NoDelete /\ writer' = "up"
      /\ UNCHANGED <<core, given>>
  BY DEF Restart
<1>2. /\ ~tx'.open /\ tx'.db = db' /\ tx'.awaiting = NotAwaited
      /\ tx'.states = <<>> /\ tx'.acks = <<>> /\ tx'.resyncs = <<>>
      /\ post'.states = <<>> /\ post'.acks = <<>> /\ post'.resyncs = <<>>
  BY <1>1 DEF Closed, Nothing
<1>3. Told' = <<>> /\ Acked' = <<>> /\ Asked' = <<>> /\ Trusted' = Trusted
  BY <1>1, <1>2 DEF Told, Acked, Asked, Trusted
<1>4. /\ \A k \in 1 .. Len(chan') : FALSE
      /\ \A k \in 1 .. Len(Told') : FALSE
      /\ \A k \in 1 .. Len(Acked') : FALSE
      /\ \A k \in 1 .. Len(Asked') : FALSE
  BY <1>1, <1>3
<1>5. /\ client'.run = NoRun /\ client'.link = "none" /\ client'.sync.id = NoSync
      /\ client'.sync.from = 1 /\ client'.sync.epoch = 0
      /\ pending'.epoch = 0 /\ deleting'.phase = "none"
  BY <1>1 DEF NoClient, NoPending, NoDelete
<1>6. /\ core' = core /\ Served' = Served /\ core.db \in Nat /\ core.db # 0 /\ core.top \in Nat
      /\ \A i \in Served : i \in Nat /\ i # 0
  BY <1>1, CoreParts DEF Served
<1>7. Era /\ Blank(db)
  BY DEF HistoryInv, Blanks
<1>8. /\ EraStart(StartupStart(db)) /\ StartupStart(db).kind # "Wiped"
      /\ Unclaimed(db) => StartupStart(db).kind = "Fresh"
      /\ Opened(db) = db
  BY <1>7, HandParts, StartupFacts DEF Era, Blank
<1>9. db' = db /\ tx'.db = db
  BY <1>1, <1>2, <1>8
<1>10. Era'
  <2>2. EraDb(db)' /\ EraDb(tx.db)'
    BY <1>6, <1>7, <1>9 DEF Era, EraDb, EraRows
  <2>3. EraStart(starts)' /\ starts'.kind # "Wiped"
    BY <1>1, <1>6, <1>8 DEF EraStart
  <2> QED BY <1>4, <1>5, <1>6, <1>7, <2>2, <2>3 DEF Era
<1>11. Batch' /\ Blanks'
  BY <1>1, <1>2, <1>4, <1>7, <1>8, <1>9 DEF Batch, Blanks, Blank, Unclaimed, Rows
<1>12. Book'
  <2>1. Content' /\ Retired' /\ Idle' /\ OneAnswer' /\ Phases'
    BY <1>1, <1>4, <1>5 DEF Content, Retired, Idle, OneAnswer, Phases, InFlight, NoPending
  <2>2. Numbers'
    BY <1>1, <1>4, <1>5, ClientParts DEF Numbers, NoSync
  <2>3. Awaiting' /\ NoRecheck' /\ OneDelete'
    BY <1>2, <1>4, <1>5 DEF Awaiting, NoRecheck, OneDelete
  <2> QED BY <2>1, <2>2, <2>3 DEF Book
<1>13. Clear' /\ Claimed'
  <2>1. Within(client.sync.from)' /\ \A k : Covered(client.sync.from, k)'
    BY <1>5, <1>6 DEF Within, Covered
  <2>2. ~Ignorant'
    BY <1>4, <1>5, <2>1 DEF Ignorant, Old
  <2>3. Knowledge' /\ Undisputed'
    BY <1>4, <2>2 DEF Knowledge, Undisputed
  <2>4. SyncClaim' /\ PendingClaim' /\ PageClaims' /\ MapClaims' /\ AckClaims'
    BY <1>1, <1>4, <2>1 DEF SyncClaim, PendingClaim, PageClaims, MapClaims, AckClaims
  <2> QED BY <2>3, <2>4 DEF Clear, Claimed
<1>14. ASSUME Trusted PROVE Remembered'
  <2>1. Kept(db) /\ EraDb(db) /\ (Unclaimed(db) => Rows(db) = {})
    BY <1>7, <1>14 DEF HistoryInv, Remembered, Era, Blank
  <2>2. Speaks(StartupStart(db)) => Held(db, StartupStart(db).next)
    BY <2>1, HandParts, StartupFacts
  <2>3. StartClaim'
    BY <1>1, <1>6, <1>9, <2>2 DEF StartClaim, Speaks, Held, Within
  <2>4. ToldClaims'
    BY <1>4 DEF ToldClaims
  <2>5. Kept(db)' /\ Kept(tx.db)'
    BY <1>6, <1>9, <2>1 DEF Kept, Held, Within
  <2> QED BY <2>3, <2>4, <2>5 DEF Remembered
<1> QED BY <1>3, <1>10, <1>11, <1>12, <1>13, <1>14 DEF HistoryInv
-----------------------------------------------------------------------------
(* The commit hands the batch from the transaction to the publisher. *)
LEMMA CommitStep ==
  ASSUME TypeOK, HistoryInv, Commit
  PROVE  HistoryInv'
<1>1. /\ writer = "up" /\ tx.open /\ db' = tx.db /\ awaiting' = tx.awaiting
      /\ post' = [states |-> tx.states, acks |-> tx.acks, resyncs |-> tx.resyncs]
      /\ tx' = Closed(tx.db, tx.awaiting)
      /\ UNCHANGED <<core, client, pending, chan, starts, deleting, writer, given>>
  BY DEF Commit
<1>2. /\ ~tx'.open /\ tx'.db = tx.db /\ tx'.awaiting = tx.awaiting
      /\ tx'.states = <<>> /\ tx'.acks = <<>> /\ tx'.resyncs = <<>>
      /\ post'.states = tx.states /\ post'.acks = tx.acks /\ post'.resyncs = tx.resyncs
  BY <1>1 DEF Closed
<1>3. /\ Told' = Told /\ Acked' = Acked /\ Asked' = Asked /\ Up /\ Up' /\ Trusted' = Trusted
  BY <1>1, <1>2 DEF Told, Acked, Asked, Up, Trusted
<1>4. /\ core' = core /\ client' = client /\ pending' = pending /\ chan' = chan
      /\ starts' = starts /\ deleting' = deleting /\ given' = given /\ Served' = Served
  BY <1>1 DEF Served
<1>5. Era'
  BY <1>1, <1>2, <1>3, <1>4 DEF HistoryInv, Era, EraDb, EraRows, EraStart, EraMsg
<1>6. Batch' /\ Blanks'
  BY <1>1, <1>2, <1>3, <1>4 DEF Batch, HistoryInv, Blanks, Blank, Unclaimed, Rows
<1>7. Book'
  <2>1. Book
    BY <1>3 DEF HistoryInv
  <2>2. Content' /\ Retired'
    BY <1>2, <1>4, <2>1 DEF Book, Content, Retired
  <2>3. Idle' /\ Numbers' /\ OneAnswer' /\ Phases'
    BY <1>3, <1>4, <2>1
       DEF Book, Idle, Numbers, Ranged, Owned, OneAnswer, Phases, InFlight, Answer, Matching,
           Confirms, Old
  <2>4. Awaiting' /\ NoRecheck' /\ OneDelete'
    BY <1>1, <1>2, <1>3, <1>4, <2>1
       DEF Book, Awaiting, NoRecheck, OneDelete, Answer, Matching
  <2> QED BY <2>2, <2>3, <2>4 DEF Book
<1>8. ASSUME Trusted PROVE Clear' /\ Claimed'
  <2>1. Clear /\ Claimed
    BY <1>3, <1>8 DEF HistoryInv
  <2>2. Knowledge' /\ Undisputed'
    BY <1>3, <1>4, <2>1
       DEF Clear, Knowledge, Learned, Ignorant, Undisputed, Genuine, Answer, Matching, Old,
           Within, Valid
  <2>3. (Void' <=> Void) /\ \A n, k : Covered(n, k)' <=> Covered(n, k)
    BY <1>2, <1>4 DEF Void, Covered, Within
  <2>4. SyncClaim' /\ PendingClaim' /\ AckClaims'
    BY <1>3, <1>4, <2>1, <2>3
       DEF Claimed, SyncClaim, PendingClaim, AckClaims, Valid, Within, Matching, Genuine
  <2>5. PageClaims' /\ MapClaims'
    BY <1>2, <1>4, <2>1, <2>3
       DEF Claimed, PageClaims, MapClaims, Genuine, Skipped, Ignored
  <2> QED BY <2>2, <2>4, <2>5 DEF Clear, Claimed
<1>9. Trusted => Remembered'
  BY <1>1, <1>2, <1>3, <1>4
     DEF HistoryInv, Remembered, StartClaim, ToldClaims, Kept, Speaks, Held, Within
<1> QED BY <1>3, <1>5, <1>6, <1>7, <1>8, <1>9 DEF HistoryInv

(* The start state of the batch is published: the claim becomes the one of *)
(* the next run. *)
LEMMA PublishStep ==
  ASSUME TypeOK, AwaitInv, HistoryInv, PublishState
  PROVE  HistoryInv'
<1>1. /\ writer = "up" /\ post.states # <<>> /\ starts' = Published(Head(post.states))
      /\ deleting' = IF Head(post.states).kind = "Wiped" THEN NoDelete ELSE deleting
      /\ post' = [post EXCEPT !.states = Tail(@)]
      /\ UNCHANGED <<core, client, pending, chan, db, tx, awaiting, writer, given>>
  BY DEF PublishState
<1>2. post # Nothing /\ ~tx.open /\ tx.db = db /\ tx.awaiting = awaiting
  BY <1>1 DEF AwaitInv, Nothing
<1>3. /\ post.states \in Seq(StartSet)
      /\ post'.states = Tail(post.states) /\ post'.acks = post.acks /\ post'.resyncs = post.resyncs
  BY <1>1 DEF TypeOK, PostSet
<1>4. /\ Told = post.states /\ Told' = Tail(post.states) /\ Acked' = Acked /\ Asked' = Asked
      /\ Up /\ Up' /\ Trusted' = Trusted
  BY <1>1, <1>2, <1>3 DEF Told, Acked, Asked, Up, Trusted
<1>5. PICK s \in StartSet : s = Head(post.states) /\ s = Told[1]
  BY <1>1, <1>3, <1>4, TailIsSuffix, HeadTailProperties
<1>6. /\ 1 \in 1 .. Len(Told) /\ Len(Told) \in Nat /\ Len(Told') = Len(Told) - 1
      /\ \A k \in 1 .. Len(Told') : k + 1 \in 1 .. Len(Told) /\ Told'[k] = Told[k + 1]
  <2>1. Len(Told) \in Nat \ {0} /\ Len(Told') = Len(Told) - 1
        /\ \A k \in 1 .. Len(Told') : Told'[k] = Told[k + 1]
    BY <1>1, <1>3, <1>4, TailIsSuffix, HeadTailProperties
  <2> QED BY <2>1
<1>7. /\ core' = core /\ client' = client /\ pending' = pending /\ chan' = chan
      /\ tx' = tx /\ db' = db /\ given' = given /\ Served' = Served /\ awaiting' = awaiting
  BY <1>1 DEF Served
<1>8. /\ starts' \in {Fresh, starts, s}
      /\ s.kind = "Wiped" => starts' = Fresh /\ deleting' = NoDelete
      /\ s.kind # "Wiped" => deleting' = deleting
      /\ starts' = Fresh \/ starts' = starts \/ s.kind # "Wiped"
  BY <1>1, <1>5 DEF Published
<1>9. /\ Fresh.epoch = 0 /\ Fresh.kind = "Fresh" /\ Fresh.next = 1
      /\ core.db \in Nat /\ core.db # 0 /\ core.top \in Nat
      /\ \A i \in Served : i \in Nat /\ i # 0
  BY CoreParts DEF Fresh
<1>10. Era'
  <2>1. \A k \in 1 .. Len(Told') : EraStart(Told[k])'
    BY <1>6, <1>7 DEF HistoryInv, Era, EraStart
  <2>2. EraStart(starts)' /\ starts'.kind # "Wiped"
    <3>1. EraStart(s) /\ EraStart(starts) /\ starts.kind # "Wiped"
      BY <1>5, <1>6 DEF HistoryInv, Era
    <3> QED BY <1>7, <1>8, <1>9, <3>1 DEF EraStart
  <2> QED BY <1>4, <1>7, <2>1, <2>2 DEF HistoryInv, Era, EraDb, EraRows, EraMsg
<1>11. Batch'
  BY <1>2, <1>7, <1>1 DEF Batch, HistoryInv
<1>12. Blanks'
  <2>1. ASSUME Unclaimed(tx.db)
        PROVE  /\ Rows(tx.db) = {} /\ starts'.kind = "Fresh"
               /\ \A k \in 1 .. Len(Told') : Told'[k].kind = "Resume" /\ Told'[k].next = 1
    <3>1. /\ Rows(tx.db) = {} /\ starts.kind = "Fresh"
          /\ \A k \in 1 .. Len(Told) : Told[k].kind = "Resume" /\ Told[k].next = 1
      BY <2>1 DEF HistoryInv, Blanks, Blank
    <3>2. Published(s) = starts
      BY <1>5, <1>6, <3>1 DEF Published
    <3> QED BY <1>1, <1>5, <1>6, <3>1, <3>2
  <2> QED BY <1>2, <1>7, <2>1 DEF Blanks, Blank, Unclaimed, Rows
<1>13. Book'
  <2>1. Book
    BY <1>4 DEF HistoryInv
  <2>2. Content' /\ Retired'
    BY <1>7, <2>1 DEF Book, Content, Retired
  <2>3. Idle' /\ Numbers' /\ OneAnswer' /\ Phases'
    BY <1>4, <1>7, <2>1
       DEF Book, Idle, Numbers, Ranged, Owned, OneAnswer, Phases, InFlight, Answer, Matching,
           Confirms, Old
  <2>4. Awaiting' /\ NoRecheck'
    BY <1>4, <1>7, <2>1 DEF Book, Awaiting, NoRecheck, Answer, Matching
  <2>5. OneDelete'
    <3>1. OneDelete
      BY <2>1 DEF Book
    <3>2. CASE s.kind = "Wiped"
      <4>1. \A k \in 1 .. Len(chan) : chan[k].type # "ForgetCore"
        BY <1>5, <1>6, <3>1, <3>2 DEF OneDelete
      <4>2. \A k \in 1 .. Len(Told') : Told'[k].kind # "Wiped"
        <5>1. ASSUME NEW k \in 1 .. Len(Told'), Told'[k].kind = "Wiped" PROVE FALSE
          <6>1. Told[k + 1].kind = "Wiped" /\ k + 1 \in 1 .. Len(Told) /\ k + 1 # 1
            BY <1>6, <5>1
          <6> QED BY <1>5, <1>6, <3>1, <3>2, <6>1 DEF OneDelete
        <5> QED BY <5>1
      <4>3. deleting'.phase = "none"
        BY <1>8, <3>2 DEF NoDelete
      <4> QED BY <1>2, <1>7, <4>1, <4>2, <4>3 DEF OneDelete
    <3>3. CASE s.kind # "Wiped"
      <4>1. \A k, l \in 1 .. Len(Told') :
              Told'[k].kind = "Wiped" /\ Told'[l].kind = "Wiped" => k = l
        <5>1. ASSUME NEW k \in 1 .. Len(Told'), NEW l \in 1 .. Len(Told'),
                     Told'[k].kind = "Wiped", Told'[l].kind = "Wiped"
              PROVE  k = l
          <6>1. k + 1 = l + 1
            BY <1>6, <3>1, <5>1 DEF OneDelete
          <6> QED BY <6>1
        <5> QED BY <5>1
      <4>2. \A k \in 1 .. Len(Told') : Told'[k].kind = "Wiped" =>
              /\ deleting.phase = "sent"
              /\ \A l \in 1 .. Len(chan) : chan[l].type # "ForgetCore"
        BY <1>6, <3>1 DEF OneDelete
      <4> QED BY <1>7, <1>8, <3>1, <3>3, <4>1, <4>2 DEF OneDelete
    <3> QED BY <3>2, <3>3
  <2> QED BY <2>2, <2>3, <2>4, <2>5 DEF Book
<1>14. ASSUME Trusted PROVE Clear' /\ Claimed'
  <2>1. Clear /\ Claimed
    BY <1>4, <1>14 DEF HistoryInv
  <2>2. Learned' => Learned
    BY <1>5, <1>6, <1>7, <1>8, <1>9 DEF Learned
  <2>3. Ignorant' => Ignorant
    BY <1>4, <1>7 DEF Ignorant, Answer, Matching, Old, Within
  <2>4. Knowledge'
    <3>1. ASSUME NEW k \in 1 .. Len(chan'), Resets(chan[k])'
          PROVE  /\ core'.db # 1 /\ starts'.epoch # core'.db
                 /\ \A j \in 1 .. Len(Told') : Told'[j].epoch # core'.db
                 /\ \A j \in 1 .. (k - 1) :
                      chan'[j].type = "AliveMap" => chan'[j].epoch # core'.db
      <4>1. /\ core.db # 1 /\ starts.epoch # core.db
            /\ \A j \in 1 .. Len(Told) : Told[j].epoch # core.db
            /\ \A j \in 1 .. (k - 1) : chan[j].type = "AliveMap" => chan[j].epoch # core.db
        BY <1>7, <2>1, <3>1 DEF Clear, Knowledge, Resets
      <4> QED BY <1>5, <1>6, <1>7, <1>8, <1>9, <4>1
    <3> QED BY <1>7, <2>1, <2>2, <2>3, <3>1 DEF Clear, Knowledge
  <2>5. Undisputed'
    BY <1>4, <1>7, <2>1 DEF Clear, Undisputed, Genuine, Answer, Matching, Valid
  <2>6. (Void' <=> Void) /\ \A n, k : Covered(n, k)' <=> Covered(n, k)
    BY <1>7 DEF Void, Covered, Within
  <2>7. SyncClaim' /\ PendingClaim' /\ AckClaims'
    BY <1>4, <1>7, <2>1, <2>6
       DEF Claimed, SyncClaim, PendingClaim, AckClaims, Valid, Within, Matching, Genuine
  <2>8. PageClaims' /\ MapClaims'
    BY <1>7, <2>1, <2>6 DEF Claimed, PageClaims, MapClaims, Genuine, Skipped, Ignored
  <2> QED BY <2>4, <2>5, <2>7, <2>8 DEF Clear, Claimed
<1>15. ASSUME Trusted PROVE Remembered'
  <2>1. Remembered /\ OneDelete
    BY <1>4, <1>15 DEF HistoryInv, Book
  <2>2. \A d, n : (Held(d, n)' <=> Held(d, n))
    BY <1>7 DEF Held, Within
  <2>3. StartClaim'
    <3>1. CASE starts' = Fresh
      <4>1. Held(db, 1) /\ Held(tx.db, 1)
        BY <1>9 DEF Held, Within
      <4> QED BY <1>7, <1>9, <2>2, <3>1, <4>1 DEF StartClaim
    <3>2. CASE starts' = starts /\ deleting' = deleting
      BY <1>7, <2>1, <2>2, <3>2 DEF Remembered, StartClaim, Speaks
    <3>3. CASE starts' = s /\ deleting' = deleting
      <4>1. deleting.phase # "sent" /\ Speaks(s) => Held(tx.db, s.next)
        <5>1. deleting.phase # "sent" => \A l \in 1 .. Len(Told) : Told[l].kind # "Wiped"
          BY <2>1 DEF OneDelete
        <5>2. \A l \in (1 + 1) .. Len(Told) : l \in 1 .. Len(Told)
          OBVIOUS
        <5> QED BY <1>5, <1>6, <2>1, <5>1, <5>2 DEF Remembered, ToldClaims
      <4> QED BY <1>2, <1>7, <2>2, <3>3, <4>1 DEF StartClaim, Speaks
    <3> QED BY <1>8, <3>1, <3>2, <3>3
  <2>4. ToldClaims'
    <3>1. ASSUME NEW j \in 1 .. Len(Told'), Speaks(Told[j])',
                 \A l \in (j + 1) .. Len(Told') : Told'[l].kind # "Wiped"
          PROVE  Held(tx.db, Told[j].next)'
      <4>1. j + 1 \in 1 .. Len(Told) /\ Told'[j] = Told[j + 1] /\ Speaks(Told[j + 1])
        BY <1>6, <1>7, <3>1 DEF Speaks
      <4>2. ASSUME NEW l \in ((j + 1) + 1) .. Len(Told) PROVE Told[l].kind # "Wiped"
        <5>1. l - 1 \in (j + 1) .. Len(Told') /\ l - 1 \in 1 .. Len(Told') /\ (l - 1) + 1 = l
          BY <1>6
        <5> QED BY <1>6, <3>1, <5>1
      <4>3. Held(tx.db, Told[j + 1].next)
        BY <2>1, <4>1, <4>2 DEF Remembered, ToldClaims
      <4> QED BY <1>7, <2>2, <4>1, <4>3
    <3> QED BY <3>1 DEF ToldClaims
  <2>5. Kept(db)' /\ Kept(tx.db)'
    BY <1>7, <2>1, <2>2 DEF Remembered, Kept
  <2> QED BY <2>3, <2>4, <2>5 DEF Remembered
<1> QED BY <1>4, <1>10, <1>11, <1>12, <1>13, <1>14, <1>15 DEF HistoryInv
-----------------------------------------------------------------------------
(* The acknowledgement of a page moves the download of its own run, and    *)
(* completes it with the last row: the claim of the page becomes the       *)
(* position of the catch-up, or of the alive map asked for.                *)
LEMMA AcknowledgeStep ==
  ASSUME TypeOK, TypeOK', AwaitInv, HistoryInv, Acknowledge
  PROVE  HistoryInv'
<1>1. /\ writer = "up" /\ post.states = <<>> /\ post.acks # <<>>
      /\ post' = [post EXCEPT !.acks = Tail(@)]
      /\ UNCHANGED <<core, chan, db, tx, awaiting, starts, deleting, writer, given>>
  BY DEF Acknowledge
<1>2. post # Nothing /\ ~tx.open
  BY <1>1 DEF AwaitInv, Nothing
<1>3. /\ post.acks \in Seq(Pages)
      /\ post'.acks = Tail(post.acks) /\ post'.states = post.states /\ post'.resyncs = post.resyncs
  BY <1>1 DEF TypeOK, PostSet
<1>4. /\ Acked = post.acks /\ Acked' = Tail(post.acks) /\ Told' = Told /\ Asked' = Asked
      /\ Up /\ Up' /\ Trusted' = Trusted
  BY <1>1, <1>2, <1>3 DEF Told, Acked, Asked, Up, Trusted
<1>5. PICK m \in Pages : m = Head(post.acks) /\ m = Acked[1]
  BY <1>1, <1>3, <1>4, TailIsSuffix, HeadTailProperties
<1>6. /\ 1 \in 1 .. Len(Acked) /\ Len(Acked) \in Nat /\ Len(Acked') = Len(Acked) - 1
      /\ \A k \in 1 .. Len(Acked') : k + 1 \in 1 .. Len(Acked) /\ Acked'[k] = Acked[k + 1]
  <2>1. Len(Acked) \in Nat \ {0} /\ Len(Acked') = Len(Acked) - 1
        /\ \A k \in 1 .. Len(Acked') : Acked'[k] = Acked[k + 1]
    BY <1>1, <1>3, <1>4, TailIsSuffix, HeadTailProperties
  <2> QED BY <2>1
<1>7. /\ core' = core /\ chan' = chan /\ tx' = tx /\ db' = db /\ given' = given
      /\ Served' = Served /\ awaiting' = awaiting /\ starts' = starts /\ deleting' = deleting
  BY <1>1 DEF Served
<1>8. /\ core.db \in Nat /\ core.db # 0 /\ core.top \in Nat
      /\ \A i \in Served : i \in Nat /\ i # 0
      /\ m.row \in Nat /\ m.of \in Nat /\ m.of # 0 /\ m.of <= core.db
      /\ (m.of = core.db => m.row <= core.top) /\ m.recreated \in BOOLEAN
      /\ client.sync.from \in Nat
  <2>1. EraMsg(m) /\ m.type = "Page"
    BY <1>5, <1>6, PageParts DEF HistoryInv, Era
  <2> QED BY <2>1, CoreParts, PageParts, ClientParts DEF EraMsg, Sourced
<1>9. Book
  BY <1>4 DEF HistoryInv
<1> DEFINE next == IF m.row = 0 THEN client.sync.from ELSE m.row + 1
           done == client.sync.phase = "page" /\ ~m.recreated /\ m.last
<1>10. Matching(m) =>
         /\ client'.run = client.run /\ client'.link = client.link
         /\ client'.sync.id = client.sync.id
         /\ client'.sync.from = IF m.recreated THEN 1 ELSE next
         /\ client'.sync.epoch = m.of
         /\ client'.sync.phase = IF done THEN "done" ELSE "ask"
         /\ IF done THEN /\ pending'.id = m.id /\ pending'.epoch = m.of
                         /\ pending'.next = next /\ pending'.at = "unread"
            ELSE pending' = pending
  <2> SUFFICES ASSUME Matching(m)
               PROVE  /\ client'.run = client.run /\ client'.link = client.link
                      /\ client'.sync.id = client.sync.id
                      /\ client'.sync.from = IF m.recreated THEN 1 ELSE next
                      /\ client'.sync.epoch = m.of
                      /\ client'.sync.phase = IF done THEN "done" ELSE "ask"
                      /\ IF done THEN /\ pending'.id = m.id /\ pending'.epoch = m.of
                                      /\ pending'.next = next /\ pending'.at = "unread"
                         ELSE pending' = pending
    OBVIOUS
  <2>1. client.sync.phase \in {"page", "repeat"}
    BY <1>5, <1>6, <1>9 DEF Book, Phases, InFlight
  <2>2. client' = [client EXCEPT !.sync.from = IF m.recreated THEN 1 ELSE next,
                                 !.sync.epoch = m.of,
                                 !.sync.phase = IF done THEN "done" ELSE "ask"]
        /\ pending' = IF done THEN [id |-> m.id, epoch |-> m.of, next |-> next,
                                    max |-> m.max, at |-> "unread"]
                      ELSE pending
    BY <1>5, <2>1 DEF Acknowledge, Matching
  <2> HIDE DEF next, done
  <2>3. client \in ClientSet /\ client.sync \in SyncSet
    BY DEF TypeOK, ClientSet
  <2>4. PICK from, phase : from = (IF m.recreated THEN 1 ELSE next)
                           /\ phase = (IF done THEN "done" ELSE "ask")
    OBVIOUS
  <2>5. client' = [client EXCEPT !.sync.from = from, !.sync.epoch = m.of, !.sync.phase = phase]
    BY <2>2, <2>4
  <2>6. /\ client'.run = client.run /\ client'.link = client.link
        /\ client'.sync.id = client.sync.id /\ client'.sync.from = from
        /\ client'.sync.epoch = m.of /\ client'.sync.phase = phase
    BY <2>3, <2>5 DEF ClientSet, SyncSet
  <2> QED BY <2>2, <2>4, <2>6
<1>11. ~Matching(m) => client' = client /\ pending' = pending
  BY <1>5 DEF Acknowledge, Matching
<1>12. client'.run = client.run /\ client'.sync.id = client.sync.id
       /\ (\A x : Matching(x)' <=> Matching(x)) /\ (\A x : Answer(x)' <=> Answer(x))
  <2>1. client'.run = client.run /\ client'.sync.id = client.sync.id
    BY <1>10, <1>11
  <2> QED BY <2>1 DEF Matching, Answer
<1>13. Matching(m) => /\ \A k \in 1 .. Len(chan) : ~Answer(chan[k])
                      /\ \A k \in 1 .. Len(Acked') : ~Matching(Acked'[k])
                      /\ client.run # NoRun /\ m.id <= given.syncs
                      /\ pending # NoPending => pending.at = "asked" /\ Confirms(m)
  <2> SUFFICES ASSUME Matching(m)
               PROVE  /\ \A k \in 1 .. Len(chan) : ~Answer(chan[k])
                      /\ \A k \in 1 .. Len(Acked') : ~Matching(Acked'[k])
                      /\ client.run # NoRun /\ m.id <= given.syncs
                      /\ pending # NoPending => pending.at = "asked" /\ Confirms(m)
    OBVIOUS
  <2>1. \A k \in 1 .. Len(chan) : ~Answer(chan[k])
    BY <1>5, <1>6, <1>9 DEF Book, OneAnswer
  <2>2. ASSUME NEW k \in 1 .. Len(Acked'), Matching(Acked'[k]) PROVE FALSE
    <3>1. k + 1 \in 1 .. Len(Acked) /\ Matching(Acked[k + 1]) /\ k + 1 # 1
      BY <1>6, <2>2
    <3> QED BY <1>5, <1>6, <1>9, <3>1 DEF Book, OneAnswer
  <2>3. pending # NoPending => pending.at = "asked" /\ Confirms(m)
    <3>1. client.sync.phase \in {"page", "repeat"}
      BY <1>5, <1>6, <1>9 DEF Book, Phases, InFlight
    <3>2. pending # NoPending => pending.at = "asked"
      BY <1>9, <3>1, ClientParts DEF Book, Phases
    <3> QED BY <1>5, <1>6, <1>9, <3>1, <3>2 DEF Book, Phases
  <2>4. client.run # NoRun /\ m.id <= given.syncs
    BY <1>5, <1>6, <1>9 DEF Book, Numbers, Ranged, Matching
  <2> QED BY <2>1, <2>2, <2>3, <2>4
<1> HIDE DEF next, done
<1>14. Era'
  <2>1. client'.sync.epoch <= core.db /\ pending'.epoch <= core.db
    <3>1. Era
      BY DEF HistoryInv
    <3> QED BY <1>8, <1>10, <1>11, <3>1 DEF Era
  <2>2. \A k \in 1 .. Len(Acked') : EraMsg(Acked[k])'
    BY <1>6, <1>7 DEF HistoryInv, Era, EraMsg
  <2> QED BY <1>4, <1>7, <2>1, <2>2 DEF HistoryInv, Era, EraDb, EraRows, EraMsg, EraStart
<1>15. Batch' /\ Blanks'
  BY <1>2, <1>4, <1>7 DEF HistoryInv, Batch, Blanks, Blank, Unclaimed, Rows
<1>16. Book'
  <2>1. Content' /\ Retired'
    BY <1>7, <1>9 DEF Book, Content, Retired
  <2>2. Idle'
    BY <1>9, <1>10, <1>11, <1>13 DEF Book, Idle
  <2>3. Numbers'
    BY <1>4, <1>6, <1>7, <1>9, <1>12 DEF Book, Numbers, Ranged, Owned
  <2>4. OneAnswer'
    <3>1. CASE Matching(m)
      BY <1>7, <1>12, <1>13, <3>1 DEF OneAnswer
    <3>2. ASSUME NEW k \in 1 .. Len(Acked'), NEW l \in 1 .. Len(Acked'),
                 Matching(Acked'[k]), Matching(Acked'[l])
          PROVE  k = l
      <4>1. k + 1 = l + 1
        BY <1>6, <1>9, <3>2 DEF Book, OneAnswer
      <4> QED BY <4>1
    <3>3. \A k \in 1 .. Len(chan), l \in 1 .. Len(Acked') :
            ~(Answer(chan[k]) /\ Matching(Acked'[l]))
      BY <1>6, <1>9 DEF Book, OneAnswer
    <3>4. \A k, l \in 1 .. Len(chan) : Answer(chan[k]) /\ Answer(chan[l]) => k = l
      BY <1>9 DEF Book, OneAnswer
    <3> QED BY <1>7, <1>12, <3>2, <3>3, <3>4 DEF OneAnswer
  <2>5. Phases'
    <3>1. CASE Matching(m)
      <4>1. ~InFlight'
        BY <1>7, <1>12, <1>13, <3>1 DEF InFlight
      <4>2. CASE done
        BY <1>7, <1>10, <1>13, <3>1, <4>1, <4>2 DEF Phases
      <4>3. CASE ~done
        <5>1. pending.id <= given.syncs \/ pending = NoPending
          BY <1>9 DEF Book, Phases
        <5>2. pending = NoPending => pending.at = "none"
          BY DEF NoPending
        <5>3. m.of = pending.epoch \/ (m.recreated /\ Old(pending.epoch))
                \/ pending = NoPending
          BY <1>13, <3>1 DEF Confirms
        <5>4. Old(pending.epoch)' <=> Old(pending.epoch)
          BY <1>7, <1>10, <3>1, <4>3 DEF Old
        <5> QED BY <1>7, <1>10, <1>13, <3>1, <4>1, <4>3, <5>1, <5>2, <5>3, <5>4 DEF Phases
      <4> QED BY <4>2, <4>3
    <3>2. CASE ~Matching(m)
      <4>1. InFlight' => InFlight
        BY <1>6, <1>7, <1>12 DEF InFlight
      <4>2. \A x : Confirms(x)' <=> Confirms(x)
        BY <1>7, <1>11, <3>2 DEF Confirms, Old
      <4>3. /\ \A k \in 1 .. Len(chan') : Answer(chan[k])' =>
                 k \in 1 .. Len(chan) /\ Answer(chan[k]) /\ chan'[k] = chan[k]
            /\ \A k \in 1 .. Len(Acked') : Matching(Acked[k])' =>
                 /\ k + 1 \in 1 .. Len(Acked) /\ Matching(Acked[k + 1])
                 /\ Acked'[k] = Acked[k + 1]
        BY <1>6, <1>7, <1>12
      <4> QED BY <1>7, <1>9, <1>11, <3>2, <4>1, <4>2, <4>3 DEF Book, Phases, Confirms, Old
    <3> QED BY <3>1, <3>2
  <2>6. Awaiting'
    <3>1. CASE Matching(m)
      BY <1>5, <1>6, <1>7, <1>9, <3>1 DEF Book, Awaiting
    <3>2. CASE ~Matching(m)
      BY <1>6, <1>7, <1>9, <1>11, <1>12, <3>2 DEF Book, Awaiting
    <3> QED BY <3>1, <3>2
  <2>7. NoRecheck' /\ OneDelete'
    BY <1>4, <1>7, <1>9, <1>12 DEF Book, NoRecheck, OneDelete
  <2> QED BY <2>1, <2>2, <2>3, <2>4, <2>5, <2>6, <2>7 DEF Book
<1>17. ASSUME Trusted PROVE Clear' /\ Claimed'
  <2>1. Clear /\ Claimed
    BY <1>4, <1>17 DEF HistoryInv
  <2>2. (Void' <=> Void) /\ (\A n : Within(n)' <=> Within(n))
        /\ (\A n, k : Covered(n, k)' <=> Covered(n, k))
        /\ (\A x : Valid(x)' <=> Valid(x)) /\ (\A x : Old(x)' <=> Old(x))
        /\ (\A x : Genuine(x)' <=> Genuine(x))
    BY <1>7 DEF Void, Covered, Within, Valid, Old, Genuine
  <2>3. Learned' => Learned
    BY <1>4, <1>7 DEF Learned
  <2>4. Ignorant' => Ignorant
    <3>1. ASSUME NEW k \in 1 .. Len(chan'), Answer(chan[k])', Old(chan[k].of)'
          PROVE  Ignorant
      BY <1>7, <1>12, <2>2, <3>1 DEF Ignorant, Old
    <3>2. ASSUME NEW k \in 1 .. Len(Acked'), Matching(Acked[k])', Old(Acked[k].of)'
          PROVE  Ignorant
      BY <1>6, <1>7, <1>12, <3>2 DEF Ignorant, Old
    <3>3. CASE Matching(m)
      <4>1. Old(m.of) => Ignorant
        BY <1>5, <1>6, <3>3 DEF Ignorant
      <4>2. client'.sync.epoch = m.of /\ (pending'.epoch = m.of \/ pending' = pending)
        BY <1>10, <3>3
      <4>3. ASSUME Old(client.sync.epoch)' \/ Old(pending.epoch)' PROVE Ignorant
        BY <1>7, <4>1, <4>2, <4>3 DEF Old, Ignorant
      <4> QED BY <1>8, <3>1, <3>2, <4>2, <4>3 DEF Ignorant
    <3>4. CASE ~Matching(m)
      <4>1. client' = client /\ pending' = pending
        BY <1>11, <3>4
      <4>2. ASSUME \/ Old(client.sync.epoch)' \/ Old(pending.epoch)'
                   \/ client'.sync.epoch = 0 /\ ~Within(client.sync.from)'
            PROVE  Ignorant
        BY <1>7, <4>1, <4>2 DEF Old, Within, Ignorant
      <4> QED BY <3>1, <3>2, <4>2 DEF Ignorant
    <3> QED BY <3>3, <3>4
  <2>5. Knowledge'
    BY <1>4, <1>7, <2>1, <2>3, <2>4 DEF Clear, Knowledge, Resets
  <2>6. Undisputed'
    <3>1. CASE Matching(m)
      BY <1>7, <1>12, <1>13, <3>1 DEF Undisputed
    <3>2. CASE ~Matching(m)
      BY <1>6, <1>7, <1>11, <1>12, <2>1, <3>2 DEF Clear, Undisputed, Genuine, Valid, Resets
    <3> QED BY <3>1, <3>2
  <2>7. ASSUME Matching(m), ~m.recreated, m.of = core.db
        PROVE  Within(next) /\ (~Void => Covered(next, Len(chan)))
    <3>1. Genuine(m)
      BY <2>7 DEF Genuine
    <3>2. CASE m.row # 0
      <4>1. next = m.row + 1
        BY <3>2 DEF next
      <4>2. ~Void => Covered(m.row + 1, Len(chan))
        BY <1>5, <1>6, <2>1, <2>7, <3>1 DEF Claimed, AckClaims
      <4> QED BY <1>8, <2>7, <4>1, <4>2 DEF Within
    <3>3. CASE m.row = 0
      <4>1. next = client.sync.from
        BY <3>3 DEF next
      <4>2. client.sync.from = 1 \/ Valid(client.sync.epoch)
        BY <1>5, <1>6, <2>1, <2>7, <3>1 DEF Clear, Undisputed
      <4>3. CASE client.sync.from = 1
        BY <1>8, <4>1, <4>3 DEF Within, Covered
      <4>4. CASE Valid(client.sync.epoch)
        BY <2>1, <4>1, <4>4 DEF Claimed, SyncClaim
      <4> QED BY <4>2, <4>3, <4>4
    <3> QED BY <3>2, <3>3
  <2>8. SyncClaim'
    <3>1. CASE Matching(m)
      <4> SUFFICES ASSUME Valid(client.sync.epoch)'
                   PROVE  Within(client.sync.from)'
                          /\ (~Void' => Covered(client.sync.from, Len(chan))')
        BY DEF SyncClaim
      <4>1. m.of = core.db
        BY <1>7, <1>8, <1>10, <3>1 DEF Valid
      <4>2. CASE m.recreated
        <5>1. client'.sync.from = 1
          BY <1>10, <3>1, <4>2
        <5> QED BY <1>7, <1>8, <5>1 DEF Within, Covered
      <4>3. CASE ~m.recreated
        <5>1. client'.sync.from = next
          BY <1>10, <3>1, <4>3
        <5>2. Within(next) /\ (~Void => Covered(next, Len(chan)))
          BY <2>7, <3>1, <4>1, <4>3
        <5> QED BY <1>7, <2>2, <5>1, <5>2 DEF Within, Covered
      <4> QED BY <4>2, <4>3
    <3>2. CASE ~Matching(m)
      BY <1>7, <1>11, <2>1, <2>2, <3>2 DEF Claimed, SyncClaim, Valid, Within
    <3> QED BY <3>1, <3>2
  <2>9. PendingClaim'
    <3>1. CASE Matching(m)
      <4> SUFFICES ASSUME pending' # NoPending, pending'.epoch = core'.db
                   PROVE  Within(pending.next)'
                          /\ (~Void' => Covered(pending.next, Len(chan))')
        BY DEF PendingClaim
      <4>1. CASE done
        <5>1. pending'.epoch = m.of /\ pending'.next = next
          BY <1>10, <3>1, <4>1
        <5>2. ~m.recreated /\ m.of = core.db
          BY <1>7, <4>1, <5>1 DEF done
        <5>3. Within(next) /\ (~Void => Covered(next, Len(chan)))
          BY <2>7, <3>1, <5>2
        <5> QED BY <1>7, <2>2, <5>1, <5>3 DEF Within, Covered
      <4>2. CASE ~done
        <5>1. pending' = pending
          BY <1>10, <3>1, <4>2
        <5> QED BY <1>7, <2>1, <2>2, <5>1 DEF Claimed, PendingClaim, Within
      <4> QED BY <4>1, <4>2
    <3>2. CASE ~Matching(m)
      BY <1>7, <1>11, <2>1, <2>2, <3>2 DEF Claimed, PendingClaim, Within
    <3> QED BY <3>1, <3>2
  <2>10. PageClaims' /\ MapClaims'
    BY <1>7, <2>1, <2>2 DEF Claimed, PageClaims, MapClaims, Genuine, Skipped, Ignored
  <2>11. AckClaims'
    <3>1. ASSUME NEW k \in 1 .. Len(Acked'), Matching(Acked'[k]), Genuine(Acked'[k]), ~Void
          PROVE  Covered(Acked'[k].row + 1, Len(chan))
      BY <1>6, <2>1, <3>1 DEF Claimed, AckClaims
    <3> QED BY <1>7, <1>12, <2>2, <3>1 DEF AckClaims, Genuine, Covered, Within
  <2> QED BY <2>5, <2>6, <2>8, <2>9, <2>10, <2>11 DEF Clear, Claimed
<1>18. Trusted => Remembered'
  BY <1>4, <1>7 DEF HistoryInv, Remembered, StartClaim, ToldClaims, Kept, Speaks, Held, Within
<1> QED BY <1>4, <1>14, <1>15, <1>16, <1>17, <1>18 DEF HistoryInv
-----------------------------------------------------------------------------
(* The full history is declared again: on a live client a new download     *)
(* from zero, of which nothing is on its way; on an ended one the wait of  *)
(* the core just ends, which takes the mask off only of what is unmasked.  *)
LEMMA RedeclareStep ==
  ASSUME TypeOK, TypeOK', AwaitInv, HistoryInv, Redeclare
  PROVE  HistoryInv'
<1>1. /\ writer = "up" /\ post.states = <<>> /\ post.acks = <<>> /\ post.resyncs # <<>>
      /\ tx' = [tx EXCEPT !.awaiting = awaiting']
      /\ post' = [post EXCEPT !.resyncs = Tail(@)]
      /\ UNCHANGED <<core, chan, db, starts, deleting, writer>>
  BY DEF Redeclare
<1>2. post # Nothing /\ ~tx.open /\ tx.awaiting = awaiting
  BY <1>1 DEF AwaitInv, Nothing
<1>3. /\ post.resyncs \in Seq(Nat)
      /\ post'.resyncs = Tail(post.resyncs) /\ post'.states = post.states /\ post'.acks = post.acks
      /\ tx'.awaiting = awaiting' /\ tx'.db = tx.db /\ tx'.open = tx.open
      /\ tx'.states = tx.states /\ tx'.acks = tx.acks /\ tx'.resyncs = tx.resyncs
  BY <1>1 DEF TypeOK, PostSet, TxSet
<1>4. /\ Told' = Told /\ Acked' = Acked /\ Acked = <<>> /\ Asked = post.resyncs
      /\ Asked' = Tail(post.resyncs) /\ Up /\ Up'
  BY <1>1, <1>2, <1>3 DEF Told, Acked, Asked, Up
<1>5. PICK r \in Nat : r = Head(post.resyncs) /\ r = Asked[1]
  BY <1>1, <1>3, <1>4, TailIsSuffix, HeadTailProperties
<1>6. /\ 1 \in 1 .. Len(Asked)
      /\ \A k \in 1 .. Len(Asked') : k + 1 \in 1 .. Len(Asked) /\ Asked'[k] = Asked[k + 1]
  <2>1. Len(Asked) \in Nat \ {0} /\ Len(Asked') = Len(Asked) - 1
        /\ \A k \in 1 .. Len(Asked') : Asked'[k] = Asked[k + 1]
    BY <1>1, <1>3, <1>4, TailIsSuffix, HeadTailProperties
  <2> QED BY <2>1
<1>7. /\ core' = core /\ chan' = chan /\ db' = db
      /\ Served' = Served /\ starts' = starts /\ deleting' = deleting
      /\ \A k \in 1 .. Len(Acked) : FALSE
  BY <1>1, <1>4 DEF Served
<1>8. /\ core.db \in Nat /\ core.db # 0 /\ core.top \in Nat
      /\ \A i \in Served : i \in Nat /\ i # 0
      /\ given.syncs \in Nat
  BY CoreParts, ClientParts
<1>9. Book /\ r # NoRun
  BY <1>4, <1>5, <1>6 DEF HistoryInv, Book, Numbers
<1>10. CASE client.run = r
  <2>1. /\ client' = [client EXCEPT !.sync = Declared(Fresh)] /\ pending' = Unblocked
        /\ awaiting' = IF awaiting = NotAwaited THEN NotAwaited ELSE given.syncs + 1
        /\ given' = [given EXCEPT !.syncs = @ + 1]
    BY <1>5, <1>10 DEF Redeclare
  <2>2. /\ client'.run = client.run /\ client'.link = client.link
        /\ client'.sync.id = given.syncs + 1 /\ client'.sync.from = 1
        /\ client'.sync.epoch = 0 /\ client'.sync.phase = "ask"
    BY <2>1 DEF TypeOK, ClientSet, Declared, Fresh
  <2>3. given'.syncs = given.syncs + 1 /\ Trusted' = Trusted
    BY <2>1 DEF TypeOK, GivenSet, Trusted
  <2>12. /\ pending'.id = pending.id /\ pending'.epoch = pending.epoch
         /\ pending'.next = pending.next /\ (pending' = NoPending <=> pending = NoPending)
         /\ pending'.at # "behind" /\ pending.id \in Nat
         /\ pending'.at # "none" => pending # NoPending
         /\ pending.id <= given.syncs
    BY <1>8, <1>9, <2>1, UnblockedParts, ClientParts DEF Book, Phases, NoPending, NoSync
  <2>4. /\ tx'.awaiting # NotAwaited <=> tx.awaiting # NotAwaited
        /\ tx'.awaiting # NotAwaited => tx'.awaiting = given.syncs + 1
    BY <1>2, <1>3, <1>8, <2>1 DEF NotAwaited
  <2>5. \A k \in 1 .. Len(chan) : ~Answer(chan[k])'
    <3>1. \A k \in 1 .. Len(chan) : chan[k].type = "Page" => chan[k].id \in Nat
      BY ChanParts, PageParts
    <3> QED BY <1>7, <1>8, <1>9, <2>2, <3>1 DEF Book, Numbers, Ranged, Answer, Matching
  <2>6. ~InFlight'
    BY <1>4, <1>7, <2>5 DEF InFlight
  <2>7. Era'
    BY <1>3, <1>4, <1>7, <1>8, <2>2, <2>12
       DEF HistoryInv, Era, EraDb, EraRows, EraMsg, EraStart
  <2>8. Batch' /\ Blanks'
    BY <1>2, <1>3, <1>4, <1>7 DEF HistoryInv, Batch, Blanks, Blank, Unclaimed, Rows
  <2>9. Book'
    <3>1. Content' /\ Retired'
      BY <1>3, <1>7, <1>9 DEF Book, Content, Retired
    <3>2. Idle'
      BY <1>7, <1>9, <1>10, <2>2 DEF Book, Idle
    <3>3. Numbers'
      <4>1. \A k \in 1 .. Len(chan) : chan[k].type = "Page" => chan[k].id \in Nat
        BY ChanParts, PageParts
      <4>2. \A k \in 1 .. Len(chan') : /\ chan'[k].type = "Page" => Ranged(chan[k])' /\ Owned(chan[k])'
                                       /\ chan'[k].type = "Recreated" => chan'[k].run # NoRun
        BY <1>7, <1>8, <1>9, <2>2, <2>3, <4>1 DEF Book, Numbers, Ranged, Owned
      <4>3. \A k \in 1 .. Len(Asked') : Asked'[k] # NoRun
        BY <1>6, <1>9 DEF Book, Numbers
      <4> QED BY <1>4, <1>7, <1>8, <2>2, <2>3, <4>2, <4>3 DEF Numbers, NoSync
    <3>4. OneAnswer'
      BY <1>4, <1>7, <2>5 DEF OneAnswer
    <3>5. Phases'
      BY <1>8, <1>9, <1>10, <2>2, <2>3, <2>12, <2>6 DEF Phases
    <3>6. Awaiting'
      BY <1>4, <1>7, <1>8, <2>2, <2>12, <2>4, <2>5 DEF Awaiting
    <3>7. NoRecheck' /\ OneDelete'
      BY <1>3, <1>4, <1>7, <1>9, <2>2, <2>4 DEF Book, NoRecheck, OneDelete
    <3> QED BY <3>1, <3>2, <3>3, <3>4, <3>5, <3>6, <3>7 DEF Book
  <2>10. ASSUME Trusted PROVE Clear' /\ Claimed'
    <3>1. Clear /\ Claimed
      BY <1>4, <2>10 DEF HistoryInv
    <3>2. (Void' <=> Void) /\ (\A n : Within(n)' <=> Within(n))
      BY <1>7, <2>4 DEF Void, Within
    <3>3. tx.awaiting = NotAwaited => \A n, k : Covered(n, k)' <=> Covered(n, k)
      BY <1>3, <1>7, <2>4 DEF Covered, Within
    <3>4. Ignorant' => Ignorant
      <4>1. Within(client.sync.from)'
        BY <1>7, <1>8, <2>2 DEF Within
      <4>2. Old(pending.epoch)' => Ignorant
        BY <1>7, <2>12 DEF Old, Ignorant
      <4> QED BY <1>4, <1>7, <2>2, <2>5, <4>1, <4>2 DEF Ignorant, Old
    <3>5. Knowledge'
      <4>1. Learned' => Learned
        BY <1>4, <1>7 DEF Learned
      <4> QED BY <1>4, <1>7, <3>1, <3>4, <4>1 DEF Clear, Knowledge, Resets
    <3>6. Undisputed' /\ AckClaims'
      BY <1>4, <1>7, <2>5 DEF Undisputed, AckClaims
    <3>7. SyncClaim'
      BY <1>7, <1>8, <2>2 DEF SyncClaim, Within, Covered
    <3>8. PendingClaim'
      <4>1. pending # NoPending /\ pending.epoch = core.db =>
              Within(pending.next) /\ (~Void => Covered(pending.next, Len(chan)))
        BY <3>1 DEF Claimed, PendingClaim
      <4>2. ~Void => tx.awaiting = NotAwaited
        BY DEF Void
      <4> QED BY <1>7, <2>12, <3>2, <3>3, <4>1, <4>2 DEF PendingClaim, Within, Covered
    <3>9. PageClaims'
      <4>1. ASSUME NEW k \in 1 .. Len(chan'), chan'[k].type = "Page", Genuine(chan[k])',
                   ~Skipped(chan, tx.awaiting, k)'
            PROVE  Covered(chan[k].row + 1, k)'
        <5>1. tx.awaiting = NotAwaited
          <6>1. Ranged(chan[k]) /\ chan[k].id \in Nat
            BY <1>7, <1>9, <4>1, ChanParts, PageParts DEF Book, Numbers
          <6> QED BY <1>7, <1>8, <2>4, <4>1, <6>1 DEF Skipped, Ranged
        <5>2. ~Skipped(chan, tx.awaiting, k) /\ Genuine(chan[k])
          BY <1>7, <4>1, <5>1 DEF Skipped, Genuine
        <5>3. Covered(chan[k].row + 1, k)
          BY <1>7, <3>1, <4>1, <5>2 DEF Claimed, PageClaims
        <5> QED BY <1>7, <3>3, <5>1, <5>3 DEF Covered, Within
      <4> QED BY <4>1 DEF PageClaims
    <3>10. MapClaims'
      <4>1. ASSUME NEW k \in 1 .. Len(chan'), chan'[k].type = "AliveMap",
                   chan'[k].epoch = core'.db, ~Ignored(chan, tx.awaiting, k)'
            PROVE  Covered(chan[k].next, k)'
        <5>1. tx.awaiting = NotAwaited /\ ~Ignored(chan, tx.awaiting, k)
          BY <1>7, <2>4, <4>1 DEF Ignored
        <5>2. Covered(chan[k].next, k)
          BY <1>7, <3>1, <4>1, <5>1 DEF Claimed, MapClaims
        <5> QED BY <1>7, <3>3, <5>1, <5>2 DEF Covered, Within
      <4> QED BY <4>1 DEF MapClaims
    <3> QED BY <3>5, <3>6, <3>7, <3>8, <3>9, <3>10 DEF Clear, Claimed
  <2>11. Trusted => Remembered'
    BY <1>3, <1>4, <1>7
       DEF HistoryInv, Remembered, StartClaim, ToldClaims, Kept, Speaks, Held, Within
  <2> QED BY <1>4, <2>3, <2>7, <2>8, <2>9, <2>10, <2>11 DEF HistoryInv
<1>11. CASE client.run # r
  <2>1. /\ client' = client /\ pending' = pending /\ awaiting' = NotAwaited
        /\ given' = [given EXCEPT !.unmasked = @ \/ awaiting # NotAwaited]
    BY <1>5, <1>11 DEF Redeclare
  <2>2. given'.syncs = given.syncs /\ (Trusted' => Trusted /\ tx.awaiting = NotAwaited)
    BY <1>2, <2>1 DEF TypeOK, GivenSet, Trusted
  <2>3. tx'.awaiting = NotAwaited
    BY <1>3, <2>1
  <2>4. Era'
    BY <1>3, <1>4, <1>7, <2>1 DEF HistoryInv, Era, EraDb, EraRows, EraMsg, EraStart
  <2>5. Batch' /\ Blanks'
    BY <1>2, <1>3, <1>4, <1>7 DEF HistoryInv, Batch, Blanks, Blank, Unclaimed, Rows
  <2>6. Book'
    <3>1. Content' /\ Retired' /\ Idle'
      BY <1>3, <1>7, <1>9, <2>1 DEF Book, Content, Retired, Idle
    <3>2. Numbers'
      <4>1. \A k \in 1 .. Len(Asked') : Asked'[k] # NoRun
        BY <1>6, <1>9 DEF Book, Numbers
      <4> QED BY <1>4, <1>7, <1>9, <2>1, <2>2, <4>1 DEF Book, Numbers, Ranged, Owned
    <3>3. OneAnswer' /\ Phases'
      BY <1>4, <1>7, <1>9, <2>1, <2>2
         DEF Book, OneAnswer, Phases, InFlight, Answer, Matching, Confirms, Old
    <3>4. Awaiting' /\ NoRecheck' /\ OneDelete'
      BY <1>4, <1>7, <1>9, <2>1, <2>3 DEF Book, Awaiting, NoRecheck, OneDelete
    <3> QED BY <3>1, <3>2, <3>3, <3>4 DEF Book
  <2>7. ASSUME Trusted' PROVE Clear' /\ Claimed'
    <3>1. Clear /\ Claimed /\ tx'.awaiting = tx.awaiting
      BY <1>4, <2>2, <2>3, <2>7 DEF HistoryInv
    <3>2. (Void' <=> Void) /\ (\A n, k : Covered(n, k)' <=> Covered(n, k))
      BY <1>3, <1>7, <3>1 DEF Void, Covered, Within
    <3>3. Knowledge' /\ Undisputed'
      BY <1>4, <1>7, <2>1, <3>1
         DEF Clear, Knowledge, Learned, Ignorant, Undisputed, Genuine, Answer, Matching, Old,
             Within, Valid
    <3>4. SyncClaim' /\ PendingClaim' /\ AckClaims'
      BY <1>4, <1>7, <2>1, <3>1, <3>2
         DEF Claimed, SyncClaim, PendingClaim, AckClaims, Valid, Within, Matching, Genuine
    <3>5. PageClaims' /\ MapClaims'
      BY <1>7, <3>1, <3>2 DEF Claimed, PageClaims, MapClaims, Genuine, Skipped, Ignored
    <3> QED BY <3>3, <3>4, <3>5 DEF Clear, Claimed
  <2>8. Trusted' => Remembered'
    BY <1>3, <1>4, <1>7, <2>2
       DEF HistoryInv, Remembered, StartClaim, ToldClaims, Kept, Speaks, Held, Within
  <2> QED BY <2>4, <2>5, <2>6, <2>7, <2>8 DEF HistoryInv
<1> QED BY <1>10, <1>11
-----------------------------------------------------------------------------
(* What the writer's taking of a message m does to the candidate state t. *)

Taken(m) == m.type = "Page" /\ ~Superseded(m)
Mapped(m) == m.type = "AliveMap" /\ tx.awaiting = NotAwaited
Empties(m) == m.type \in {"Recreated", "ForgetCore"} \/ (Taken(m) /\ m.recreated)
Waits(m) == m.type = "ForgetCore" /\ m.run # NoRun
Writes(m) == m.type = "Upsert" \/ (Taken(m) /\ m.row # 0)

NewRows(t, m) ==
  \A i \in Ids : t.db.of[i] =
    IF Writes(m) /\ i = m.row THEN m.of
    ELSE IF Empties(m) \/ (m.type = "Delete" /\ i = m.row) THEN 0
    ELSE tx.db.of[i]
NewWait(t, m) ==
  t.awaiting = IF Taken(m) \/ m.type = "Recheck" THEN NotAwaited
               ELSE IF Waits(m) THEN Undeclared ELSE tx.awaiting
Says(m) ==
  IF m.type = "ForgetCore" THEN Wiped
  ELSE IF Empties(m) THEN Fresh
  ELSE IF Taken(m) THEN Resume(m.row + 1)
  ELSE Checkpoint([epoch |-> m.epoch, next |-> m.next])
NewTold(t, m) ==
  t.states = IF Taken(m) \/ Mapped(m) \/ Empties(m) THEN Append(tx.states, Says(m)) ELSE tx.states
NewAcked(t, m) == t.acks = IF m.type = "Page" THEN Append(tx.acks, m) ELSE tx.acks
NewAsked(t, m) ==
  t.resyncs = IF (Empties(m) /\ m.type # "ForgetCore") \/ Waits(m)
              THEN Append(tx.resyncs, m.run) ELSE tx.resyncs
NewMarks(t, m) ==
  /\ t.db.checkpoint = IF Mapped(m) THEN [epoch |-> m.epoch, next |-> m.next]
                       ELSE IF Empties(m) THEN NoCheckpoint ELSE tx.db.checkpoint
  /\ t.db.frontier = IF Mapped(m) THEN NoFrontier
                     ELSE IF Empties(m) THEN 0
                     ELSE IF m.type = "Upsert" /\ starts.kind = "Fresh" /\ tx.db.frontier = NoFrontier
                     THEN 0
                     ELSE IF Taken(m) /\ m.row # 0 /\ tx.db.frontier < m.row
                     THEN m.row ELSE tx.db.frontier
Effects(t, m) ==
  /\ NewRows(t, m) /\ NewWait(t, m) /\ NewTold(t, m) /\ NewAcked(t, m)
  /\ NewAsked(t, m) /\ NewMarks(t, m)

LEMMA TxDatabase ==
  ASSUME TypeOK, NEW d
  PROVE  LET t == [tx EXCEPT !.db = d]
         IN  /\ t.db = d /\ t.awaiting = tx.awaiting /\ t.states = tx.states
             /\ t.acks = tx.acks /\ t.resyncs = tx.resyncs
  BY DEF TypeOK, TxSet

LEMMA PlainEffects ==
  ASSUME TypeOK, NEW m \in MessageSet, m.type \in {"Upsert", "Delete", "SetDeleted", "Recheck"}
  PROVE  Effects(ApplyMsg(m), m)
<1> DEFINE t == ApplyMsg(m)
<1> SUFFICES Effects(t, m)
  OBVIOUS
<1>1. tx \in TxSet /\ tx.db \in DbSet /\ tx.db.of \in [Ids -> Nat]
  BY TxFields DEF TypeOK, DbSet
<1>2. ~Taken(m) /\ ~Mapped(m) /\ ~Empties(m) /\ ~Waits(m) /\ (Writes(m) <=> m.type = "Upsert")
      /\ m.type # "Page"
  BY DEF Taken, Mapped, Empties, Waits, Writes
<1>3. CASE m.type = "Upsert"
  <2> DEFINE u == Upserted(tx.db, m.row, m.of, FALSE)
             d == NoteLiveRow(u)
  <2>1. m.row \in Ids /\ m.of \in Nat
    BY <1>3, SourcedTyped DEF Sourced, MessageSet, Pages, AliveMaps
  <2>2. t = [tx EXCEPT !.db = d]
    BY <1>3 DEF ApplyMsg
  <2>3. u \in DbSet /\ u.of = [tx.db.of EXCEPT ![m.row] = m.of]
        /\ u.checkpoint = tx.db.checkpoint /\ u.frontier = tx.db.frontier
    <3>1. u \in DbSet
      BY <1>1, <2>1, UpsertedTyped
    <3>2. \A hide \in BOOLEAN :
            /\ Upserted(tx.db, m.row, m.of, hide).checkpoint = tx.db.checkpoint
            /\ Upserted(tx.db, m.row, m.of, hide).frontier = tx.db.frontier
            /\ Upserted(tx.db, m.row, m.of, hide).of = [tx.db.of EXCEPT ![m.row] = m.of]
      BY <1>1, <2>1, UpsertedFields
    <3> QED BY <3>1, <3>2
  <2>4. d.of = u.of /\ d.checkpoint = u.checkpoint
        /\ d.frontier = IF starts.kind = "Fresh" /\ u.frontier = NoFrontier THEN 0 ELSE u.frontier
    <3> HIDE DEF u
    <3> QED BY <2>3, FrontierFields DEF NoteLiveRow, DbSet
  <2> HIDE DEF u, d
  <2>5. /\ t.db = d /\ t.awaiting = tx.awaiting /\ t.states = tx.states
        /\ t.acks = tx.acks /\ t.resyncs = tx.resyncs
    BY <2>2, TxDatabase
  <2> HIDE DEF t
  <2> QED BY <1>1, <1>2, <1>3, <2>1, <2>3, <2>4, <2>5
          DEF Effects, NewRows, NewWait, NewTold, NewAcked, NewAsked, NewMarks
<1>4. CASE m.type = "Delete"
  <2> DEFINE d == Deleted(tx.db, m.row)
  <2>1. m.row \in Ids
    BY <1>4, MessageFields DEF MessageSet, Pages
  <2>2. t = [tx EXCEPT !.db = d]
    BY <1>4 DEF ApplyMsg
  <2>3. d.of = [tx.db.of EXCEPT ![m.row] = 0]
        /\ d.checkpoint = tx.db.checkpoint /\ d.frontier = tx.db.frontier
    BY <1>1, <2>1 DEF Deleted, DbSet
  <2> HIDE DEF d
  <2>4. /\ t.db = d /\ t.awaiting = tx.awaiting /\ t.states = tx.states
        /\ t.acks = tx.acks /\ t.resyncs = tx.resyncs
    BY <2>2, TxDatabase
  <2> HIDE DEF t
  <2> QED BY <1>1, <1>2, <1>4, <2>1, <2>3, <2>4
          DEF Effects, NewRows, NewWait, NewTold, NewAcked, NewAsked, NewMarks
<1>5. CASE m.type = "SetDeleted"
  <2> DEFINE d == SetDeleted(tx.db, m.row, m.hide)
  <2>1. m.row \in Ids /\ m.hide \in BOOLEAN
    BY <1>5, MessageFields DEF MessageSet, Pages
  <2>2. t = [tx EXCEPT !.db = d]
    BY <1>5 DEF ApplyMsg
  <2>3. d.of = tx.db.of /\ d.checkpoint = tx.db.checkpoint /\ d.frontier = tx.db.frontier
    <3>1. tx.db.of[m.row] \in Nat /\ [tx.db.of EXCEPT ![m.row] = tx.db.of[m.row]] = tx.db.of
      BY <1>1, <2>1
    <3> QED BY <1>1, <2>1, <3>1, UpsertedFields DEF SetDeleted
  <2> HIDE DEF d
  <2>4. /\ t.db = d /\ t.awaiting = tx.awaiting /\ t.states = tx.states
        /\ t.acks = tx.acks /\ t.resyncs = tx.resyncs
    BY <2>2, TxDatabase
  <2> HIDE DEF t
  <2> QED BY <1>1, <1>2, <1>5, <2>3, <2>4
          DEF Effects, NewRows, NewWait, NewTold, NewAcked, NewAsked, NewMarks
<1>6. CASE m.type = "Recheck"
  <2>1. t = [tx EXCEPT !.awaiting = NotAwaited]
    BY <1>6 DEF ApplyMsg
  <2>2. /\ t.db = tx.db /\ t.awaiting = NotAwaited /\ t.states = tx.states
        /\ t.acks = tx.acks /\ t.resyncs = tx.resyncs
    BY <1>1, <2>1 DEF TxSet
  <2> HIDE DEF t
  <2> QED BY <1>1, <1>2, <1>6, <2>2
          DEF Effects, NewRows, NewWait, NewTold, NewAcked, NewAsked, NewMarks
<1> QED BY <1>3, <1>4, <1>5, <1>6

LEMMA PageEffects ==
  ASSUME TypeOK, NEW m \in Pages
  PROVE  Effects(ApplyMsg(m), m)
<1> DEFINE t == ApplyMsg(m)
           acked == [tx EXCEPT !.acks = Append(@, m)]
           kept == [acked EXCEPT !.db = AppliedPage(@, m), !.awaiting = NotAwaited]
<1> SUFFICES Effects(t, m)
  OBVIOUS
<1>1. tx \in TxSet /\ tx.db \in DbSet /\ tx.db.of \in [Ids -> Nat] /\ t = ApplyPage(m)
      /\ m.type = "Page" /\ m.row \in Nat /\ m.row \in Ids \cup {0} /\ m.of \in Nat
      /\ m.recreated \in BOOLEAN
  BY TxFields, PageParts DEF TypeOK, DbSet, ApplyMsg
<1>2. /\ ~Mapped(m) /\ ~Waits(m) /\ (Writes(m) <=> Taken(m) /\ m.row # 0)
      /\ (Taken(m) <=> ~Superseded(m)) /\ (Empties(m) <=> Taken(m) /\ m.recreated)
  BY <1>1 DEF Mapped, Waits, Writes, Taken, Empties
<1>3. CASE Superseded(m)
  <2>1. t = acked
    BY <1>1, <1>3 DEF ApplyPage
  <2>2. /\ t.db = tx.db /\ t.states = tx.states /\ t.acks = Append(tx.acks, m)
        /\ t.awaiting = tx.awaiting /\ t.resyncs = tx.resyncs
    BY <1>1, <2>1 DEF TxSet
  <2> HIDE DEF t
  <2> QED BY <1>1, <1>2, <1>3, <2>2
          DEF Effects, NewRows, NewWait, NewTold, NewAcked, NewAsked, NewMarks
<1>4. CASE ~Superseded(m)
  <2>1. /\ kept.db = AppliedPage(tx.db, m) /\ kept.states = tx.states
        /\ kept.acks = Append(tx.acks, m) /\ kept.awaiting = NotAwaited
        /\ kept.resyncs = tx.resyncs /\ DOMAIN kept = DOMAIN tx
    BY <1>1 DEF TxSet
  <2>2. t = IF m.recreated
            THEN [Publishing(kept, Fresh) EXCEPT !.resyncs = Append(@, m.run)]
            ELSE Publishing(kept, Resume(m.row + 1))
    BY <1>1, <1>4 DEF ApplyPage
  <2> HIDE DEF kept, t
  <2>3. "states" \in DOMAIN kept /\ "resyncs" \in DOMAIN kept
    BY <1>1, <2>1 DEF TxSet
  <2>4. \A s : /\ Publishing(kept, s).states = Append(kept.states, s)
               /\ Publishing(kept, s).db = kept.db /\ Publishing(kept, s).acks = kept.acks
               /\ Publishing(kept, s).awaiting = kept.awaiting
               /\ Publishing(kept, s).resyncs = kept.resyncs
               /\ DOMAIN Publishing(kept, s) = DOMAIN kept
    BY <2>3 DEF Publishing
  <2>5. /\ t.states = Append(tx.states, IF m.recreated THEN Fresh ELSE Resume(m.row + 1))
        /\ t.db = AppliedPage(tx.db, m) /\ t.acks = Append(tx.acks, m)
        /\ t.awaiting = NotAwaited
        /\ t.resyncs = IF m.recreated THEN Append(tx.resyncs, m.run) ELSE tx.resyncs
    BY <2>1, <2>2, <2>3, <2>4
  <2>6. NewWait(t, m) /\ NewTold(t, m) /\ NewAcked(t, m) /\ NewAsked(t, m)
    BY <1>1, <1>2, <1>4, <2>5 DEF NewWait, NewTold, NewAcked, NewAsked, Says
  <2>7. PageRows(tx.db, m) \in DbSet /\ PageRows(ResetReplica(tx.db), m) \in DbSet
        /\ ResetReplica(tx.db) \in DbSet
    BY <1>1, PageRowsTyped, ResetTyped
  <2>8. CASE m.recreated
    <3> DEFINE r == ResetReplica(tx.db)
    <3>1. t.db = PageRows(r, m)
      BY <2>5, <2>8 DEF AppliedPage
    <3>2. /\ \A i \in Ids : r.of[i] = 0
          /\ r.checkpoint = NoCheckpoint /\ r.frontier = 0 /\ r.of \in [Ids -> Nat]
      BY ResetFields DEF ResetReplica
    <3>3. /\ t.db.checkpoint = r.checkpoint /\ t.db.frontier = r.frontier
          /\ t.db.of = IF m.row = 0 THEN r.of ELSE [r.of EXCEPT ![m.row] = m.of]
      <4> HIDE DEF r
      <4>1. PageRows(r, m).frontier = r.frontier
        BY <1>1, <2>7 DEF PageRows, Upserted, DbSet, r
      <4> QED BY <2>7, <3>1, <4>1, PageRowsFields DEF r
    <3> HIDE DEF r
    <3>4. NewRows(t, m) /\ NewMarks(t, m)
      BY <1>1, <1>2, <1>4, <2>8, <3>2, <3>3 DEF NewRows, NewMarks
    <3> QED BY <2>6, <3>4 DEF Effects
  <2>9. CASE ~m.recreated
    <3> DEFINE r == PageRows(tx.db, m)
    <3>1. t.db = RecordFrontier(r, m.row)
      BY <2>5, <2>9 DEF AppliedPage
    <3>2. /\ r.checkpoint = tx.db.checkpoint /\ r.frontier = tx.db.frontier
          /\ r.of = IF m.row = 0 THEN tx.db.of ELSE [tx.db.of EXCEPT ![m.row] = m.of]
      <4>1. PageRows(tx.db, m).frontier = tx.db.frontier
        BY <1>1 DEF PageRows, Upserted, DbSet
      <4> QED BY <1>1, <4>1, PageRowsFields
    <3>3. r \in DbSet /\ r.frontier \in Int
      BY <2>7, DbParts
    <3> HIDE DEF r
    <3>4. /\ t.db.of = r.of /\ t.db.checkpoint = r.checkpoint
          /\ t.db.frontier = IF m.row # 0 /\ r.frontier < m.row THEN m.row ELSE r.frontier
      <4>1. "frontier" \in DOMAIN r
        BY <3>3 DEF DbSet
      <4> QED BY <1>1, <3>1, <3>3, <4>1, FrontierFields DEF RecordFrontier
    <3>5. NewRows(t, m) /\ NewMarks(t, m)
      BY <1>1, <1>2, <1>4, <2>9, <3>2, <3>4 DEF NewRows, NewMarks
    <3> QED BY <2>6, <3>5 DEF Effects
  <2> QED BY <2>8, <2>9
<1> QED BY <1>3, <1>4

LEMMA MapEffects ==
  ASSUME TypeOK, NEW m \in AliveMaps
  PROVE  Effects(ApplyMsg(m), m)
<1> DEFINE t == ApplyMsg(m)
           d == AppliedMap(tx.db, m)
           s == Checkpoint([epoch |-> m.epoch, next |-> m.next])
<1> SUFFICES Effects(t, m)
  OBVIOUS
<1>1. tx \in TxSet /\ tx.db \in DbSet /\ m.type = "AliveMap" /\ t = ApplyAliveMap(m)
  BY TxFields DEF TypeOK, AliveMaps, ApplyMsg
<1>2. ~Taken(m) /\ ~Empties(m) /\ ~Waits(m) /\ ~Writes(m)
      /\ (Mapped(m) <=> tx.awaiting = NotAwaited)
  BY <1>1 DEF Taken, Mapped, Empties, Waits, Writes
<1>3. CASE tx.awaiting # NotAwaited
  <2>1. t = tx
    BY <1>1, <1>3 DEF ApplyAliveMap
  <2> HIDE DEF t
  <2> QED BY <1>1, <1>2, <1>3, <2>1
          DEF Effects, NewRows, NewWait, NewTold, NewAcked, NewAsked, NewMarks
<1>4. CASE tx.awaiting = NotAwaited
  <2>1. t = Publishing([tx EXCEPT !.db = d], s)
    BY <1>1, <1>4 DEF ApplyAliveMap
  <2>2. /\ t.db = d /\ t.states = Append(tx.states, s) /\ t.acks = tx.acks
        /\ t.awaiting = tx.awaiting /\ t.resyncs = tx.resyncs
    BY <1>1, <2>1 DEF Publishing, TxSet
  <2>3. /\ d.of = tx.db.of /\ d.checkpoint = [epoch |-> m.epoch, next |-> m.next]
        /\ d.frontier = NoFrontier
    BY <1>1 DEF AppliedMap, DbSet
  <2>4. s = Says(m)
    BY <1>1, <1>2 DEF Says
  <2> HIDE DEF t, d, s
  <2> QED BY <1>1, <1>2, <1>4, <2>2, <2>3, <2>4
          DEF Effects, NewRows, NewWait, NewTold, NewAcked, NewAsked, NewMarks
<1> QED BY <1>3, <1>4

LEMMA ResetEffects ==
  ASSUME TypeOK, NEW m, m.type \in {"Recreated", "ForgetCore"}
  PROVE  Effects(ApplyMsg(m), m)
<1> DEFINE t == ApplyMsg(m)
<1> SUFFICES Effects(t, m)
  OBVIOUS
<1>1. /\ tx \in TxSet
      /\ t = IF m.type = "Recreated" THEN ApplyRecreated(m) ELSE ApplyForgetCore(m)
  BY DEF TypeOK, ApplyMsg
<1>2. /\ ~Taken(m) /\ ~Mapped(m) /\ Empties(m) /\ ~Writes(m)
      /\ Waits(m) <=> m.type = "ForgetCore" /\ m.run # NoRun
      /\ Says(m) = IF m.type = "ForgetCore" THEN Wiped ELSE Fresh
  BY DEF Taken, Mapped, Empties, Waits, Writes, Says
<1>3. \A s : /\ DOMAIN Publishing(tx, s) = DOMAIN tx
             /\ Publishing(tx, s).states = Append(tx.states, s)
             /\ Publishing(tx, s).db = tx.db /\ Publishing(tx, s).acks = tx.acks
             /\ Publishing(tx, s).awaiting = tx.awaiting
             /\ Publishing(tx, s).resyncs = tx.resyncs
  BY <1>1 DEF Publishing, TxSet
<1>4. {"db", "states", "acks", "awaiting", "resyncs"} \subseteq DOMAIN tx
  BY <1>1 DEF TxSet
<1>5. CASE m.type = "Recreated"
  <2>1. /\ t.db = ResetReplica(tx.db) /\ t.states = Append(tx.states, Fresh)
        /\ t.acks = tx.acks /\ t.awaiting = tx.awaiting
        /\ t.resyncs = Append(tx.resyncs, m.run)
    BY <1>1, <1>3, <1>4, <1>5 DEF ApplyRecreated
  <2> HIDE DEF t
  <2>2. (\A i \in Ids : t.db.of[i] = 0) /\ t.db.checkpoint = NoCheckpoint /\ t.db.frontier = 0
    BY <2>1, ResetFields DEF ResetReplica
  <2> QED BY <1>2, <1>5, <2>1, <2>2
          DEF Effects, NewRows, NewWait, NewTold, NewAcked, NewAsked, NewMarks
<1>6. CASE m.type = "ForgetCore"
  <2>1. /\ t.db = ResetReplica(tx.db) /\ t.states = Append(tx.states, Wiped)
        /\ t.acks = tx.acks
        /\ t.awaiting = IF m.run # NoRun THEN Undeclared ELSE tx.awaiting
        /\ t.resyncs = IF m.run # NoRun THEN Append(tx.resyncs, m.run) ELSE tx.resyncs
    BY <1>1, <1>3, <1>4, <1>6 DEF ApplyForgetCore
  <2> HIDE DEF t
  <2>2. (\A i \in Ids : t.db.of[i] = 0) /\ t.db.checkpoint = NoCheckpoint /\ t.db.frontier = 0
    BY <2>1, ResetFields DEF ResetReplica
  <2> QED BY <1>2, <1>6, <2>1, <2>2
          DEF Effects, NewRows, NewWait, NewTold, NewAcked, NewAsked, NewMarks
<1> QED BY <1>5, <1>6

LEMMA ApplyEffects ==
  ASSUME TypeOK, NEW m \in MessageSet
  PROVE  Effects(ApplyMsg(m), m)
<1>1. m.type = "Page" => m \in Pages
  BY MessageFields
<1>2. m.type = "AliveMap" => m \in AliveMaps
  BY MessageFields DEF AliveMaps
<1>3. m.type \in {"Upsert", "Delete", "SetDeleted", "Page", "AliveMap", "Recreated", "ForgetCore",
                  "Recheck"}
  BY DEF MessageSet, Pages
<1> QED BY <1>1, <1>2, <1>3, PlainEffects, PageEffects, MapEffects, ResetEffects

(* The step as the invariant sees it. *)
LEMMA ApplyHands ==
  ASSUME TypeOK, Batch, Apply
  PROVE  /\ chan # <<>> /\ chan' = Tail(chan) /\ chan[1] \in MessageSet
         /\ Up /\ Up' /\ Batch' /\ Effects(tx', chan[1])
         /\ Told = tx.states /\ Acked = tx.acks /\ Asked = tx.resyncs
         /\ Told' = tx'.states /\ Acked' = tx'.acks /\ Asked' = tx'.resyncs
         /\ core' = core /\ client' = client /\ pending' = pending /\ db' = db /\ post' = post
         /\ awaiting' = awaiting /\ starts' = starts /\ deleting' = deleting /\ given' = given
         /\ Served' = Served
<1>1. /\ writer = "up" /\ post = Nothing /\ chan # <<>> /\ chan' = Tail(chan)
      /\ tx' = [ApplyMsg(Head(chan)) EXCEPT !.open = TRUE]
      /\ UNCHANGED <<core, client, pending, db, post, awaiting, starts, deleting, writer, given>>
  BY DEF Apply
<1>2. Head(chan) = chan[1] /\ chan[1] \in MessageSet
  BY <1>1, HeadTail, ChanTyped
<1> DEFINE t == ApplyMsg(chan[1])
<1>3. t \in TxSet /\ Effects(t, chan[1])
  BY <1>2, ApplyMsgTyped, ApplyEffects
<1>4. tx' = [t EXCEPT !.open = TRUE]
  BY <1>1, <1>2
<1> HIDE DEF t
<1>5. /\ tx'.open = TRUE /\ tx'.db = t.db /\ tx'.awaiting = t.awaiting /\ tx'.states = t.states
      /\ tx'.acks = t.acks /\ tx'.resyncs = t.resyncs
  BY <1>3, <1>4 DEF TxSet
<1>6. Effects(tx', chan[1])
  BY <1>3, <1>5 DEF Effects, NewRows, NewWait, NewTold, NewAcked, NewAsked, NewMarks
<1>7. /\ Told = tx.states /\ Acked = tx.acks /\ Asked = tx.resyncs
      /\ Told' = tx'.states /\ Acked' = tx'.acks /\ Asked' = tx'.resyncs
  BY <1>1, <1>5 DEF Batch, Told, Acked, Asked, Nothing
<1>8. Batch'
  BY <1>1, <1>5 DEF Batch
<1> QED BY <1>1, <1>2, <1>6, <1>7, <1>8 DEF Up, Served
-----------------------------------------------------------------------------
(* What is still to come, once the first message is taken. *)

LEMMA FirstParts ==
  ASSUME TypeOK, Apply
  PROVE  /\ Len(chan) \in Nat /\ Len(chan') = Len(chan) - 1 /\ Len(chan') \in Nat
         /\ 1 \in 1 .. Len(chan)
         /\ \A k \in 1 .. Len(chan') : k + 1 \in 1 .. Len(chan) /\ chan'[k] = chan[k + 1]
  BY TailFacts DEF Apply

(* A present row of the served database stays, unless all rows go. *)
LEMMA RowStays ==
  ASSUME TypeOK, HistoryInv, Apply, ~Empties(chan[1]), NEW i \in Served, tx.db.of[i] = core.db
  PROVE  tx'.db.of[i] = core.db
<1>1. 1 \in 1 .. Len(chan) /\ Content /\ Retired /\ NewRows(tx', chan[1])
  BY FirstParts, ApplyHands DEF HistoryInv, Book, Effects
<1>2. i \in Ids /\ i # 0
  BY CoreParts
<1>3. Sourced(chan[1]) => chan[1].of = core.db
  BY <1>1, <1>2 DEF Content
<1>4. ~(chan[1].type = "Delete" /\ i = chan[1].row)
  BY <1>1 DEF Retired
<1>5. Writes(chan[1]) => Sourced(chan[1])
  BY DEF Writes, Taken, Sourced
<1> QED BY <1>1, <1>2, <1>3, <1>4, <1>5 DEF NewRows

LEMMA ForgetTail ==
  ASSUME TypeOK, Apply, NEW k \in 1 .. Len(chan')
  PROVE  /\ ForgetBefore(chan', k) => ForgetBefore(chan, k + 1)
         /\ ForgetBefore(chan, k + 1) => ForgetBefore(chan', k) \/ chan[1].type = "ForgetCore"
<1>1. /\ Len(chan') \in Nat /\ \A l \in 1 .. Len(chan') : chan'[l] = chan[l + 1]
  BY FirstParts
<1>2. ASSUME NEW l \in 1 .. (k - 1), chan'[l].type = "ForgetCore"
      PROVE  ForgetBefore(chan, k + 1)
  <2>1. l + 1 \in 1 .. ((k + 1) - 1) /\ chan[l + 1].type = "ForgetCore"
    BY <1>1, <1>2
  <2> QED BY <2>1 DEF ForgetBefore
<1>3. ASSUME NEW l \in 1 .. ((k + 1) - 1), chan[l].type = "ForgetCore", l # 1
      PROVE  ForgetBefore(chan', k)
  <2>1. (l - 1) \in 1 .. (k - 1) /\ (l - 1) \in 1 .. Len(chan') /\ (l - 1) + 1 = l
    BY <1>1, <1>3
  <2>2. chan'[l - 1] = chan[(l - 1) + 1]
    BY <1>1, <2>1
  <2>3. chan'[l - 1].type = "ForgetCore"
    BY <1>3, <2>1, <2>2
  <2> QED BY <2>1, <2>3 DEF ForgetBefore
<1> QED BY <1>2, <1>3 DEF ForgetBefore

(* The page that ends a wait answers the present download, and nothing of  *)
(* the catch-up is behind it. *)
LEMMA AwaitedPage ==
  ASSUME TypeOK, HistoryInv, Apply, Taken(chan[1]), tx.awaiting # NotAwaited
  PROVE  /\ Answer(chan[1]) /\ pending = NoPending
         /\ client.sync.from = 1 /\ client.sync.epoch = 0
         /\ \A k \in 1 .. Len(Acked) : ~Matching(Acked[k])
         /\ \A k \in 1 .. Len(chan') : chan'[k].type \notin {"Page", "AliveMap"}
<1>1. 1 \in 1 .. Len(chan) /\ Book /\ chan[1].type = "Page"
  BY FirstParts, ApplyHands DEF HistoryInv, Taken
<1>2. chan[1].id = tx.awaiting
  BY DEF Taken, Superseded
<1>3. tx.awaiting \notin {NotAwaited, Undeclared}
  BY <1>1, <1>2 DEF Book, Numbers, Ranged, NoSync, Undeclared
<1>4. Answer(chan[1])
  BY <1>1, <1>2, <1>3 DEF Book, Numbers, Owned, Awaiting, Answer, Matching
<1>5. \A l \in (1 + 1) .. Len(chan) : chan[l].type \notin {"Page", "AliveMap"}
  BY <1>1, <1>3, <1>4 DEF Book, Awaiting
<1>6. \A k \in 1 .. Len(chan') : chan'[k].type \notin {"Page", "AliveMap"}
  BY <1>5, FirstParts
<1> QED BY <1>1, <1>3, <1>4, <1>6 DEF Book, Awaiting

LEMMA SkipTail ==
  ASSUME TypeOK, HistoryInv, Apply, NEW k \in 1 .. Len(chan'), chan'[k].type = "Page"
  PROVE  Skipped(chan', tx'.awaiting, k) <=> Skipped(chan, tx.awaiting, k + 1)
<1>1. /\ 1 \in 1 .. Len(chan) /\ Len(chan) \in Nat
      /\ k + 1 \in 1 .. Len(chan) /\ chan'[k] = chan[k + 1] /\ Book
      /\ NewWait(tx', chan[1])
  BY FirstParts, ApplyHands DEF HistoryInv, Effects
<1>2. chan'[k].id # Undeclared
  BY <1>1 DEF Book, Numbers, Ranged, NoSync, Undeclared
<1>3. chan[1].type = "ForgetCore" => Waits(chan[1]) /\ tx'.awaiting = Undeclared
  <2>1. chan[1].type = "ForgetCore" /\ chan[1].run = NoRun => 1 = Len(chan)
    BY <1>1 DEF Book, OneDelete
  <2>2. chan[1].type = "ForgetCore" => ~Taken(chan[1])
    BY DEF Taken
  <2> QED BY <1>1, <2>1, <2>2 DEF Waits, NewWait
<1>4. ASSUME Skipped(chan, tx.awaiting, k + 1) PROVE Skipped(chan', tx'.awaiting, k)
  <2>1. CASE chan[1].type = "ForgetCore"
    BY <1>2, <1>3, <2>1 DEF Skipped, Undeclared, NotAwaited
  <2>2. CASE ForgetBefore(chan, k + 1) /\ chan[1].type # "ForgetCore"
    BY <2>2, ForgetTail DEF Skipped
  <2>3. CASE tx.awaiting # NotAwaited /\ chan[k + 1].id # tx.awaiting
             /\ chan[1].type # "ForgetCore"
    <3>1. ~Taken(chan[1])
      BY <2>3, AwaitedPage
    <3>2. chan[1].type # "Recheck"
      BY <1>1, <2>3 DEF Book, NoRecheck
    <3>3. tx'.awaiting = tx.awaiting
      BY <1>1, <2>3, <3>1, <3>2 DEF NewWait, Waits
    <3> QED BY <1>1, <2>3, <3>3 DEF Skipped
  <2> QED BY <1>4, <2>1, <2>2, <2>3 DEF Skipped
<1>5. ASSUME Skipped(chan', tx'.awaiting, k) PROVE Skipped(chan, tx.awaiting, k + 1)
  <2>1. CASE ForgetBefore(chan', k)
    BY <2>1, ForgetTail DEF Skipped
  <2>2. CASE tx'.awaiting # NotAwaited /\ chan'[k].id # tx'.awaiting
    <3>1. Waits(chan[1]) => ForgetBefore(chan, k + 1)
      BY <1>1 DEF Waits, ForgetBefore
    <3>2. ~Waits(chan[1]) => tx'.awaiting = tx.awaiting
      BY <1>1, <2>2 DEF NewWait
    <3> QED BY <1>1, <2>2, <3>1, <3>2 DEF Skipped
  <2> QED BY <1>5, <2>1, <2>2 DEF Skipped
<1> QED BY <1>4, <1>5

LEMMA IgnoreTail ==
  ASSUME TypeOK, HistoryInv, Apply, NEW k \in 1 .. Len(chan'), chan'[k].type = "AliveMap",
         ~Ignored(chan', tx'.awaiting, k)
  PROVE  ~Ignored(chan, tx.awaiting, k + 1)
<1>1. /\ 1 \in 1 .. Len(chan) /\ Len(chan) \in Nat
      /\ k + 1 \in 1 .. Len(chan) /\ chan'[k] = chan[k + 1] /\ Book
      /\ NewWait(tx', chan[1]) /\ tx'.awaiting = NotAwaited
  BY FirstParts, ApplyHands DEF HistoryInv, Effects, Ignored
<1>2. ~Waits(chan[1])
  BY <1>1 DEF NewWait, Waits, Taken, Undeclared, NotAwaited
<1>3. chan[1].type # "ForgetCore"
  BY <1>1, <1>2 DEF Book, OneDelete, Waits
<1>4. ~ForgetBefore(chan, k + 1)
  BY <1>3, ForgetTail DEF Ignored
<1>5. tx.awaiting = NotAwaited
  <2>1. tx.awaiting # NotAwaited => ~Taken(chan[1]) /\ chan[1].type # "Recheck"
    BY <1>1, AwaitedPage DEF Book, NoRecheck
  <2> QED BY <1>1, <1>2, <2>1 DEF NewWait
<1> QED BY <1>4, <1>5 DEF Ignored

LEMMA ComesTail ==
  ASSUME TypeOK, HistoryInv, Apply, NEW i \in Served, NEW k \in 1 .. Len(chan),
         Comes(chan, tx.db.of, tx.awaiting, core.db, i, k)
  PROVE  Comes(chan', tx'.db.of, tx'.awaiting, core.db, i, k - 1)
<1>1. /\ Len(chan) \in Nat /\ Len(chan') = Len(chan) - 1 /\ 1 \in 1 .. Len(chan)
      /\ \A l \in 1 .. Len(chan') : l + 1 \in 1 .. Len(chan) /\ chan'[l] = chan[l + 1]
  BY FirstParts
<1>2. \A j \in 1 .. k : Unwiped(chan, j, k) => Unwiped(chan', j - 1, k - 1)
  <2> SUFFICES ASSUME NEW j \in 1 .. k, Unwiped(chan, j, k), NEW l \in ((j - 1) + 1) .. (k - 1)
               PROVE  ~Wipes(chan'[l])
    BY DEF Unwiped
  <2>1. l \in 1 .. Len(chan') /\ l + 1 \in (j + 1) .. k
    BY <1>1
  <2> QED BY <1>1, <2>1 DEF Unwiped
<1>3. CASE tx.db.of[i] = core.db /\ Unwiped(chan, 0, k)
  <2>1. 1 \in (0 + 1) .. k /\ ~Wipes(chan[1])
    BY <1>3 DEF Unwiped
  <2>2. ~Empties(chan[1])
    BY <2>1 DEF Empties, Wipes, Resets, Taken
  <2>3. tx'.db.of[i] = core.db
    BY <1>3, <2>2, RowStays
  <2>4. Unwiped(chan, 1, k)
    BY <1>3 DEF Unwiped
  <2>5. Unwiped(chan', 0, k - 1)
    BY <1>2, <2>1, <2>4
  <2> QED BY <2>3, <2>5 DEF Comes
<1>4. ASSUME Lands(chan, tx.awaiting, core.db, i, 1), Unwiped(chan, 1, k)
      PROVE  Comes(chan', tx'.db.of, tx'.awaiting, core.db, i, k - 1)
  <2>1. Writes(chan[1]) /\ i = chan[1].row /\ chan[1].of = core.db
    <3>1. i # 0
      BY CoreParts
    <3>2. chan[1].type = "Page" => Taken(chan[1])
      BY <1>4 DEF Lands, Skipped, Taken, Superseded
    <3> QED BY <1>4, <3>1, <3>2 DEF Lands, Writes, Sourced
  <2>2. tx'.db.of[i] = core.db
    BY <2>1, ApplyHands, CoreParts DEF Effects, NewRows, HistoryInv
  <2>3. Unwiped(chan', 0, k - 1)
    BY <1>2, <1>4
  <2> QED BY <2>2, <2>3 DEF Comes
<1>5. ASSUME NEW j \in 1 .. k, j # 1, Lands(chan, tx.awaiting, core.db, i, j), Unwiped(chan, j, k)
      PROVE  Comes(chan', tx'.db.of, tx'.awaiting, core.db, i, k - 1)
  <2>1. j - 1 \in 1 .. Len(chan') /\ j - 1 \in 1 .. (k - 1) /\ (j - 1) + 1 = j
    BY <1>1, <1>5
  <2>2. chan'[j - 1] = chan[j]
    BY <1>1, <2>1
  <2>3. chan'[j - 1].type = "Page" => ~Skipped(chan', tx'.awaiting, j - 1)
    BY <1>5, <2>1, <2>2, SkipTail DEF Lands
  <2>4. Lands(chan', tx'.awaiting, core.db, i, j - 1) /\ Unwiped(chan', j - 1, k - 1)
    BY <1>2, <1>5, <2>2, <2>3 DEF Lands
  <2> QED BY <2>1, <2>4 DEF Comes
<1> QED BY <1>3, <1>4, <1>5 DEF Comes

LEMMA CoverTail ==
  ASSUME TypeOK, HistoryInv, Apply, NEW n, NEW k \in 1 .. Len(chan), Covered(n, k)
  PROVE  Covered(n, k - 1)'
<1>1. core' = core /\ Served' = Served
  BY ApplyHands DEF HistoryInv
<1> QED BY <1>1, ComesTail DEF Covered, Within

(* What is covered up to the message just taken is in the candidate state. *)
LEMMA CoverHeld ==
  ASSUME TypeOK, HistoryInv, Apply, NEW n, Covered(n, 1)
  PROVE  Held(tx.db, n)'
<1>1. Covered(n, 1 - 1)' /\ 1 - 1 = 0
  BY FirstParts, CoverTail
<1>2. Covered(n, 0)'
  BY <1>1
<1> QED BY <1>2 DEF Covered, Held, Comes

LEMMA HeldStays ==
  ASSUME TypeOK, HistoryInv, Apply, ~Empties(chan[1]), NEW n, Held(tx.db, n)
  PROVE  Held(tx.db, n)'
<1>1. core' = core /\ Served' = Served
  BY ApplyHands DEF HistoryInv
<1> QED BY <1>1, RowStays DEF Held, Within
-----------------------------------------------------------------------------
(* The writer takes a message: the invariant, part by part. *)

LEMMA GrownSeq ==
  ASSUME NEW S, NEW q \in Seq(S), NEW r, NEW x, r = q \/ (x \in S /\ r = Append(q, x))
  PROVE  /\ Len(q) \in Nat /\ Len(r) \in Nat /\ Len(q) <= Len(r)
         /\ \A k \in 1 .. Len(q) : k \in 1 .. Len(r) /\ r[k] = q[k]
         /\ \A k \in 1 .. Len(r) :
              \/ k \in 1 .. Len(q) /\ r[k] = q[k]
              \/ k = Len(q) + 1 /\ r[k] = x /\ r = Append(q, x) /\ Len(r) = k
<1>1. Len(q) \in Nat
  BY LenProperties
<1>2. CASE r = q
  BY <1>1, <1>2
<1>3. CASE x \in S /\ r = Append(q, x)
  <2>1. Len(r) = Len(q) + 1 /\ (\A k \in 1 .. Len(q) : r[k] = q[k]) /\ r[Len(q) + 1] = x
    BY <1>1, <1>3, AppendProperties
  <2> QED BY <1>1, <1>3, <2>1
<1> QED BY <1>2, <1>3

LEMMA SaidParts ==
  ASSUME NEW m \in MessageSet, Taken(m) \/ Mapped(m) \/ Empties(m)
  PROVE  /\ Says(m) \in StartSet
         /\ Says(m).kind = "Wiped" <=> m.type = "ForgetCore"
         /\ Empties(m) => Says(m).epoch = 0 /\ Says(m).next = 1 /\ Says(m).kind \in {"Fresh", "Wiped"}
         /\ Taken(m) /\ ~Empties(m) =>
              Says(m).epoch = 0 /\ Says(m).kind = "Resume" /\ Says(m).next = m.row + 1
         /\ Mapped(m) =>
              Says(m).epoch = m.epoch /\ Says(m).kind = "Checkpoint" /\ Says(m).next = m.next
<1>1. m.type = "Page" => m.row + 1 \in Nat \ {0}
  BY MessageFields, PageParts
<1>2. m.type = "AliveMap" => [epoch |-> m.epoch, next |-> m.next] \in CheckpointSet \ {NoCheckpoint}
  <2>1. m.type = "AliveMap" => m \in AliveMaps
    BY MessageFields DEF AliveMaps
  <2> QED BY <2>1 DEF AliveMaps, CheckpointSet, NoCheckpoint, Databases
<1>3. CASE Empties(m)
  BY <1>3, StartsTyped DEF Says, Empties, Taken, Mapped, Fresh, Wiped
<1>4. CASE Taken(m) /\ ~Empties(m)
  BY <1>1, <1>4, StartsTyped DEF Says, Empties, Taken, Mapped, Resume
<1>5. CASE Mapped(m)
  BY <1>2, <1>5, StartsTyped DEF Says, Empties, Taken, Mapped, Checkpoint
<1> QED BY <1>3, <1>4, <1>5

Spoken(m) == Taken(m) \/ Mapped(m) \/ Empties(m)

LEMMA ToldTaken ==
  ASSUME TypeOK, Batch, Apply
  PROVE  /\ Len(Told) \in Nat /\ Len(Told') \in Nat /\ Len(Told) <= Len(Told')
         /\ \A k \in 1 .. Len(Told) : k \in 1 .. Len(Told') /\ Told'[k] = Told[k]
         /\ \A k \in 1 .. Len(Told') :
              \/ k \in 1 .. Len(Told) /\ Told'[k] = Told[k]
              \/ k = Len(Told) + 1 /\ Told'[k] = Says(chan[1]) /\ Len(Told') = k /\ Spoken(chan[1])
         /\ Spoken(chan[1]) => Len(Told') = Len(Told) + 1 /\ Told'[Len(Told) + 1] = Says(chan[1])
<1>1. /\ Told \in Seq(StartSet) /\ chan[1] \in MessageSet
      /\ Told' = IF Spoken(chan[1]) THEN Append(Told, Says(chan[1])) ELSE Told
  BY HandParts, ApplyHands DEF Effects, NewTold, Spoken
<1>2. Spoken(chan[1]) => Says(chan[1]) \in StartSet
  BY <1>1, SaidParts DEF Spoken
<1>3. CASE Spoken(chan[1])
  <2>1. Len(Told) \in Nat /\ Told' = Append(Told, Says(chan[1])) /\ Says(chan[1]) \in StartSet
    BY <1>1, <1>2, <1>3, LenProperties
  <2>2. /\ Len(Told') = Len(Told) + 1 /\ Told'[Len(Told) + 1] = Says(chan[1])
        /\ \A k \in 1 .. Len(Told) : Told'[k] = Told[k]
    BY <1>1, <2>1, AppendProperties
  <2> QED BY <1>3, <2>1, <2>2
<1>4. CASE ~Spoken(chan[1])
  <2>1. Len(Told) \in Nat /\ Told' = Told
    BY <1>1, <1>4, LenProperties
  <2> QED BY <1>4, <2>1
<1> QED BY <1>3, <1>4

LEMMA AckedTaken ==
  ASSUME TypeOK, Batch, Apply
  PROVE  /\ \A k \in 1 .. Len(Acked') :
              \/ k \in 1 .. Len(Acked) /\ Acked'[k] = Acked[k]
              \/ k = Len(Acked) + 1 /\ Acked'[k] = chan[1] /\ chan[1].type = "Page"
         /\ \A k \in 1 .. Len(Asked') :
              \/ k \in 1 .. Len(Asked) /\ Asked'[k] = Asked[k]
              \/ Asked'[k] = chan[1].run /\ ((Empties(chan[1]) /\ chan[1].type # "ForgetCore")
                                             \/ Waits(chan[1]))
<1>1. /\ Acked \in Seq(Pages) /\ Asked \in Seq(Nat) /\ chan[1] \in MessageSet
      /\ Acked' = IF chan[1].type = "Page" THEN Append(Acked, chan[1]) ELSE Acked
      /\ Asked' = IF (Empties(chan[1]) /\ chan[1].type # "ForgetCore") \/ Waits(chan[1])
                  THEN Append(Asked, chan[1].run) ELSE Asked
  BY HandParts, ApplyHands DEF Effects, NewAcked, NewAsked
<1>2. /\ chan[1].type = "Page" => chan[1] \in Pages
      /\ Empties(chan[1]) \/ Waits(chan[1]) => chan[1].run \in Nat
  BY <1>1, MessageFields, PageParts DEF MessageSet, Empties, Waits, Taken, Pages
<1>3. \A k \in 1 .. Len(Acked') :
              \/ k \in 1 .. Len(Acked) /\ Acked'[k] = Acked[k]
              \/ k = Len(Acked) + 1 /\ Acked'[k] = chan[1] /\ chan[1].type = "Page"
  <2>1. CASE chan[1].type = "Page"
    BY <1>1, <1>2, <2>1, GrownSeq
  <2>2. CASE chan[1].type # "Page"
    BY <1>1, <2>2
  <2> QED BY <2>1, <2>2
<1>4. \A k \in 1 .. Len(Asked') :
              \/ k \in 1 .. Len(Asked) /\ Asked'[k] = Asked[k]
              \/ Asked'[k] = chan[1].run /\ ((Empties(chan[1]) /\ chan[1].type # "ForgetCore")
                                             \/ Waits(chan[1]))
  <2>1. CASE (Empties(chan[1]) /\ chan[1].type # "ForgetCore") \/ Waits(chan[1])
    BY <1>1, <1>2, <2>1, GrownSeq
  <2>2. CASE ~((Empties(chan[1]) /\ chan[1].type # "ForgetCore") \/ Waits(chan[1]))
    BY <1>1, <2>2
  <2> QED BY <2>1, <2>2
<1> QED BY <1>3, <1>4

LEMMA ApplyEra ==
  ASSUME TypeOK, HistoryInv, Apply
  PROVE  Era' /\ Blanks'
<1>1. /\ Effects(tx', chan[1]) /\ chan[1] \in MessageSet /\ core' = core /\ db' = db
      /\ starts' = starts /\ client' = client /\ pending' = pending /\ Served' = Served
  BY ApplyHands DEF HistoryInv
<1>2. Era /\ Blanks /\ Batch
  BY DEF HistoryInv
<1>3. /\ 1 \in 1 .. Len(chan) /\ EraMsg(chan[1])
      /\ \A k \in 1 .. Len(chan') : EraMsg(chan'[k])
  BY <1>2, FirstParts DEF Era
<1>4. core.db \in Nat /\ core.db # 0 /\ tx.db \in DbSet /\ tx.db.frontier \in Int
  BY CoreParts, HandParts, DbParts
<1>5. /\ chan[1].type = "Page" => chan[1].row \in Nat
      /\ chan[1].type = "AliveMap" => chan[1].epoch # 0
  BY <1>3, ChanParts, PageParts
<1>6. EraDb(tx.db)'
  <2>1. \A i \in Ids : tx'.db.of[i] = tx.db.of[i] \/ tx'.db.of[i] = 0
                       \/ (Sourced(chan[1]) /\ chan[1].row = i /\ tx'.db.of[i] = chan[1].of)
    BY <1>1 DEF Effects, NewRows, Writes, Taken, Sourced
  <2>2. EraRows(tx.db)'
    BY <1>1, <1>2, <1>3, <1>4, <2>1 DEF Era, EraDb, EraRows, EraMsg
  <2>3. tx'.db.checkpoint.epoch <= core.db
    BY <1>1, <1>2, <1>3, <1>4
       DEF Effects, NewMarks, Era, EraDb, EraMsg, Mapped, NoCheckpoint
  <2> QED BY <1>1, <2>2, <2>3 DEF EraDb
<1>7. \A k \in 1 .. Len(Told') : EraStart(Told[k])'
  <2>1. Spoken(chan[1]) => EraStart(Says(chan[1]))
    BY <1>1, <1>3, <1>4, <1>5, SaidParts DEF Spoken, EraStart, EraMsg, Mapped
  <2> QED BY <1>1, <1>2, <2>1, ToldTaken DEF Era, EraStart
<1>8. \A k \in 1 .. Len(Acked') : EraMsg(Acked[k])'
  BY <1>1, <1>2, <1>3, AckedTaken DEF Era, EraMsg
<1>9. Era'
  BY <1>1, <1>2, <1>3, <1>6, <1>7, <1>8 DEF Era, EraDb, EraRows, EraStart, EraMsg
<1>10. Blanks'
  <2>1. Blank(db)'
    BY <1>1, <1>2 DEF Blanks, Blank, Unclaimed, Rows
  <2>2. ASSUME Unclaimed(tx'.db)
        PROVE  /\ Unclaimed(tx.db) /\ ~Empties(chan[1]) /\ ~Mapped(chan[1]) /\ ~Writes(chan[1])
    <3>1. ~Mapped(chan[1])
      BY <1>1, <1>5, <2>2 DEF Effects, NewMarks, Unclaimed, Mapped, NoCheckpoint
    <3>2. ~Empties(chan[1])
      BY <1>1, <2>2, <3>1 DEF Effects, NewMarks, Unclaimed, NoFrontier
    <3>3. Unclaimed(tx.db)
      BY <1>1, <1>4, <1>5, <2>2, <3>1, <3>2
         DEF Effects, NewMarks, Unclaimed, NoFrontier, Taken
    <3>4. starts.kind = "Fresh"
      BY <1>2, <3>3 DEF Blanks, Blank
    <3>5. ~Writes(chan[1])
      BY <1>1, <1>4, <1>5, <2>2, <3>1, <3>2, <3>3, <3>4
         DEF Effects, NewMarks, Unclaimed, NoFrontier, Taken, Writes
    <3> QED BY <3>1, <3>2, <3>3, <3>5
  <2>3. Blank(tx.db)'
    BY <1>1, <1>2, <2>2 DEF Blanks, Blank, Rows, Effects, NewRows
  <2>4. ASSUME Unclaimed(tx'.db), NEW k \in 1 .. Len(Told')
        PROVE  Told'[k].kind = "Resume" /\ Told'[k].next = 1
    <3>1. Spoken(chan[1]) => Taken(chan[1]) /\ ~Empties(chan[1]) /\ chan[1].row = 0
      BY <2>2, <2>4 DEF Spoken, Writes
    <3>2. Spoken(chan[1]) => Says(chan[1]).kind = "Resume" /\ Says(chan[1]).next = 1
      BY <1>1, <3>1, SaidParts DEF Spoken
    <3> QED BY <1>2, <2>2, <2>4, <3>2, ToldTaken DEF Blanks
  <2> QED BY <2>1, <2>3, <2>4 DEF Blanks, Unclaimed
<1> QED BY <1>9, <1>10

LEMMA ApplyBook ==
  ASSUME TypeOK, HistoryInv, Apply
  PROVE  Book'
<1>1. /\ Effects(tx', chan[1]) /\ chan[1] \in MessageSet /\ core' = core /\ Served' = Served
      /\ client' = client /\ pending' = pending /\ given' = given /\ awaiting' = awaiting
      /\ deleting' = deleting
  BY ApplyHands DEF HistoryInv
<1>2. Book /\ Batch
  BY ApplyHands DEF HistoryInv
<1>3. /\ Len(chan) \in Nat /\ Len(chan') = Len(chan) - 1 /\ 1 \in 1 .. Len(chan)
      /\ \A k \in 1 .. Len(chan') : k + 1 \in 1 .. Len(chan) /\ chan'[k] = chan[k + 1]
  BY FirstParts
<1>4. core.db \in Nat /\ core.db # 0
  BY CoreParts
<1>5. \A i \in Ids : tx'.db.of[i] = tx.db.of[i] \/ tx'.db.of[i] = 0
                     \/ (Sourced(chan[1]) /\ chan[1].row = i /\ tx'.db.of[i] = chan[1].of)
  BY <1>1 DEF Effects, NewRows, Writes, Taken, Sourced
<1>6. \A k \in 1 .. Len(chan') : 1 < k + 1
  BY <1>3
<1>7. Content'
  <2>1. ASSUME NEW i \in Ids, tx'.db.of[i] = core.db, NEW k \in 1 .. Len(chan'), Sourced(chan'[k])
        PROVE  chan'[k].of = core.db
    BY <1>2, <1>3, <1>4, <1>5, <1>6, <2>1 DEF Book, Content
  <2>2. ASSUME NEW j \in 1 .. Len(chan'), NEW k \in 1 .. Len(chan'),
               j < k, Sourced(chan'[j]), Sourced(chan'[k]), chan'[j].of = core.db
        PROVE  chan'[k].of = core.db
    <3>1. j + 1 < k + 1
      BY <2>2
    <3> QED BY <1>2, <1>3, <2>2, <3>1 DEF Book, Content
  <2> QED BY <1>1, <2>1, <2>2 DEF Content, Sourced
<1>8. Retired'
  <2> SUFFICES ASSUME NEW k \in 1 .. Len(chan'), chan'[k].type = "Delete", chan'[k].row \in Served
               PROVE  /\ tx'.db.of[chan'[k].row] # core.db
                      /\ \A j \in 1 .. (k - 1) :
                           (Sourced(chan'[j]) /\ chan'[j].row = chan'[k].row)
                             => chan'[j].of # core.db
    BY <1>1 DEF Retired, Sourced
  <2>1. /\ tx.db.of[chan'[k].row] # core.db
        /\ \A j \in 1 .. ((k + 1) - 1) :
             (Sourced(chan[j]) /\ chan[j].row = chan'[k].row) => chan[j].of # core.db
    BY <1>2, <1>3 DEF Book, Retired
  <2>2. chan'[k].row \in Ids /\ 1 \in 1 .. ((k + 1) - 1)
    BY <1>3, CoreParts
  <2>3. tx'.db.of[chan'[k].row] # core.db
    BY <1>4, <1>5, <2>1, <2>2
  <2>4. \A j \in 1 .. (k - 1) : j \in 1 .. Len(chan') /\ j + 1 \in 1 .. ((k + 1) - 1)
    BY <1>3
  <2> QED BY <1>3, <2>1, <2>3, <2>4
<1>9. Idle'
  BY <1>1, <1>2 DEF Book, Idle
<1>10. Numbers'
  <2>1. \A k \in 1 .. Len(chan') : /\ chan'[k].type = "Page" => Ranged(chan[k])' /\ Owned(chan[k])'
                                   /\ chan'[k].type = "Recreated" => chan'[k].run # NoRun
    BY <1>1, <1>2, <1>3 DEF Book, Numbers, Ranged, Owned
  <2>2. \A k \in 1 .. Len(Acked') : Ranged(Acked[k])'
    BY <1>1, <1>2, <1>3, AckedTaken DEF Book, Numbers, Ranged
  <2>3. \A k \in 1 .. Len(Asked') : Asked'[k] # NoRun
    BY <1>2, <1>3, AckedTaken DEF Book, Numbers, Ranged, Empties, Waits, Taken
  <2> QED BY <1>1, <1>2, <2>1, <2>2, <2>3 DEF Book, Numbers
<1>11. \A k \in 1 .. Len(chan') : Answer(chan[k])' => Answer(chan[k + 1])
  BY <1>1, <1>3 DEF Answer, Matching
<1>12. \A k \in 1 .. Len(Acked') : Matching(Acked[k])' =>
         \/ k \in 1 .. Len(Acked) /\ Acked'[k] = Acked[k] /\ Matching(Acked[k])
         \/ k = Len(Acked) + 1 /\ Acked'[k] = chan[1] /\ Answer(chan[1])
  BY <1>1, <1>2, AckedTaken DEF Answer, Matching
<1>13. OneAnswer'
  <2>1. ASSUME NEW k \in 1 .. Len(chan'), NEW l \in 1 .. Len(chan'),
               Answer(chan[k])', Answer(chan[l])'
        PROVE  k = l
    <3>1. k + 1 = l + 1
      BY <1>2, <1>3, <1>11, <2>1 DEF Book, OneAnswer
    <3> QED BY <3>1
  <2>2. ASSUME NEW k \in 1 .. Len(Acked'), NEW l \in 1 .. Len(Acked'),
               Matching(Acked[k])', Matching(Acked[l])'
        PROVE  k = l
    BY <1>2, <1>3, <1>12, <2>2 DEF Book, OneAnswer
  <2>3. ASSUME NEW k \in 1 .. Len(chan'), NEW l \in 1 .. Len(Acked'),
               Answer(chan[k])', Matching(Acked[l])'
        PROVE  FALSE
    <3>1. k + 1 \in 1 .. Len(chan) /\ Answer(chan[k + 1]) /\ k + 1 # 1
      BY <1>3, <1>6, <1>11, <2>3
    <3> QED BY <1>2, <1>3, <1>12, <2>3, <3>1 DEF Book, OneAnswer
  <2> QED BY <2>1, <2>2, <2>3 DEF OneAnswer
<1>14. Phases'
  <2>1. InFlight' => InFlight
    BY <1>3, <1>11, <1>12 DEF InFlight
  <2>2. ASSUME pending.at = "asked", client.sync.phase \in {"page", "repeat"}
        PROVE  /\ \A k \in 1 .. Len(chan') : Answer(chan[k])' => Confirms(chan'[k])
               /\ \A k \in 1 .. Len(Acked') : Matching(Acked[k])' => Confirms(Acked'[k])
    BY <1>2, <1>3, <1>11, <1>12, <2>2 DEF Book, Phases
  <2> QED BY <1>1, <1>2, <2>1, <2>2 DEF Book, Phases, Confirms, Old
<1>15. Waits(chan[1]) \/ tx'.awaiting = NotAwaited \/ tx'.awaiting = tx.awaiting
  BY <1>1 DEF Effects, NewWait
<1>16. Awaiting'
  <2> SUFFICES ASSUME tx'.awaiting \notin {NotAwaited, Undeclared}
               PROVE  Awaiting'
    BY DEF Awaiting
  <2>1. tx'.awaiting = tx.awaiting /\ ~Taken(chan[1])
    BY <1>1 DEF Effects, NewWait, Undeclared
  <2>2. /\ client.sync.id = tx.awaiting /\ client.sync.from = 1 /\ client.sync.epoch = 0
        /\ client.sync.phase \in {"ask", "page", "repeat"} /\ pending.id # client.sync.id
        /\ \A k \in 1 .. Len(Acked) : ~Matching(Acked[k])
        /\ \A k \in 1 .. Len(chan) : Answer(chan[k]) =>
             /\ pending = NoPending
             /\ \A l \in (k + 1) .. Len(chan) : chan[l].type \notin {"Page", "AliveMap"}
    BY <1>2, <2>1 DEF Book, Awaiting
  <2>3. ~Answer(chan[1])
    BY <2>1, <2>2 DEF Answer, Matching, Taken, Superseded
  <2>4. \A k \in 1 .. Len(Acked') : ~Matching(Acked[k])'
    BY <1>12, <2>2, <2>3
  <2>5. ASSUME NEW k \in 1 .. Len(chan'), Answer(chan[k])'
        PROVE  /\ pending = NoPending
               /\ \A l \in (k + 1) .. Len(chan') : chan'[l].type \notin {"Page", "AliveMap"}
    <3>1. \A l \in (k + 1) .. Len(chan') :
            l \in 1 .. Len(chan') /\ l + 1 \in ((k + 1) + 1) .. Len(chan)
      BY <1>3
    <3> QED BY <1>3, <1>11, <2>2, <2>5, <3>1
  <2> QED BY <1>1, <2>1, <2>2, <2>4, <2>5 DEF Awaiting
<1>17. NoRecheck'
  <2>1. ASSUME tx'.awaiting # NotAwaited, NEW k \in 1 .. Len(chan')
        PROVE  chan'[k].type # "Recheck"
    BY <1>2, <1>3, <1>6, <1>15, <2>1 DEF Book, NoRecheck, Waits
  <2>2. ASSUME NEW k \in 1 .. Len(chan'), NEW l \in 1 .. Len(chan'), k < l,
               chan'[k].type = "ForgetCore"
        PROVE  chan'[l].type # "Recheck"
    <3>1. k + 1 < l + 1
      BY <2>2
    <3> QED BY <1>2, <1>3, <2>2, <3>1 DEF Book, NoRecheck
  <2> QED BY <2>1, <2>2 DEF NoRecheck
<1>18. OneDelete'
  <2>1. \A k \in 1 .. Len(Told') : Told'[k].kind = "Wiped" =>
          \/ k \in 1 .. Len(Told) /\ Told'[k] = Told[k] /\ Told[k].kind = "Wiped"
          \/ k = Len(Told) + 1 /\ chan[1].type = "ForgetCore"
    BY <1>1, <1>2, SaidParts, ToldTaken DEF Spoken
  <2>2. ASSUME NEW k \in 1 .. Len(chan'), chan'[k].type = "ForgetCore"
        PROVE  /\ deleting.phase = "sent" /\ chan'[k].run = deleting.run
               /\ chan'[k].run = NoRun => k = Len(chan')
               /\ k + 1 \in 1 .. Len(chan) /\ chan[k + 1].type = "ForgetCore"
               /\ chan[1].type # "ForgetCore"
    <3>1. k + 1 \in 1 .. Len(chan) /\ chan[k + 1].type = "ForgetCore" /\ k + 1 # 1
          /\ chan'[k] = chan[k + 1]
      BY <1>3, <1>6, <2>2
    <3>2. chan'[k].run = NoRun => k + 1 = Len(chan)
      BY <1>2, <3>1 DEF Book, OneDelete
    <3> QED BY <1>2, <1>3, <3>1, <3>2 DEF Book, OneDelete
  <2>3. \A k, l \in 1 .. Len(chan') :
          chan'[k].type = "ForgetCore" /\ chan'[l].type = "ForgetCore" => k + 1 = l + 1
    BY <1>2, <2>2 DEF Book, OneDelete
  <2>4. \A k, l \in 1 .. Len(Told') :
          Told'[k].kind = "Wiped" /\ Told'[l].kind = "Wiped" => k = l
    BY <1>2, <1>3, <2>1 DEF Book, OneDelete
  <2>5. \A k \in 1 .. Len(chan'), l \in 1 .. Len(Told') :
          ~(chan'[k].type = "ForgetCore" /\ Told'[l].kind = "Wiped")
    BY <1>2, <2>1, <2>2 DEF Book, OneDelete
  <2>6. \A k \in 1 .. Len(Told') : Told'[k].kind = "Wiped" => deleting.phase = "sent"
    BY <1>2, <1>3, <2>1 DEF Book, OneDelete
  <2>7. tx'.awaiting # NotAwaited => awaiting # NotAwaited \/ deleting.phase = "sent"
    BY <1>2, <1>3, <1>15 DEF Book, OneDelete, Waits
  <2>8. \A k, l \in 1 .. Len(chan') : k + 1 = l + 1 => k = l
    BY <1>3
  <2> QED BY <1>1, <1>2, <2>2, <2>3, <2>4, <2>5, <2>6, <2>7, <2>8 DEF Book, OneDelete
<1> QED BY <1>7, <1>8, <1>9, <1>10, <1>13, <1>14, <1>16, <1>17, <1>18 DEF Book

LEMMA ApplyClear ==
  ASSUME TypeOK, HistoryInv, Apply, Trusted
  PROVE  Clear'
<1>1. /\ Effects(tx', chan[1]) /\ chan[1] \in MessageSet /\ core' = core
      /\ client' = client /\ pending' = pending /\ starts' = starts
  BY ApplyHands DEF HistoryInv
<1>2. Batch /\ Clear
  BY ApplyHands DEF HistoryInv
<1>3. /\ Len(chan) \in Nat /\ Len(chan') = Len(chan) - 1 /\ 1 \in 1 .. Len(chan)
      /\ \A k \in 1 .. Len(chan') : k + 1 \in 1 .. Len(chan) /\ chan'[k] = chan[k + 1]
  BY FirstParts
<1>4. core.db \in Nat /\ core.db # 0
  BY CoreParts
<1>5. \A k \in 1 .. Len(chan') : Answer(chan[k])' => Answer(chan[k + 1])
  BY <1>1, <1>3 DEF Answer, Matching
<1>6. \A k \in 1 .. Len(Acked') : Matching(Acked[k])' =>
         \/ k \in 1 .. Len(Acked) /\ Acked'[k] = Acked[k] /\ Matching(Acked[k])
         \/ Acked'[k] = chan[1] /\ Answer(chan[1])
  BY <1>1, <1>2, AckedTaken DEF Answer, Matching
<1>7. \A k \in 1 .. Len(Told') : Told'[k].epoch = core.db =>
         \/ k \in 1 .. Len(Told) /\ Told'[k] = Told[k]
         \/ chan[1].type = "AliveMap" /\ chan[1].epoch = core.db
  BY <1>1, <1>2, <1>4, SaidParts, ToldTaken DEF Spoken, Mapped
<1>8. Learned' => Learned
  BY <1>1, <1>3, <1>7 DEF Learned
<1>9. Ignorant' => Ignorant
  <2>1. ASSUME NEW k \in 1 .. Len(chan'), Answer(chan[k])', Old(chan[k].of)'
        PROVE  Ignorant
    BY <1>1, <1>3, <1>5, <2>1 DEF Ignorant, Old
  <2>2. ASSUME NEW k \in 1 .. Len(Acked'), Matching(Acked[k])', Old(Acked[k].of)'
        PROVE  Ignorant
    BY <1>1, <1>3, <1>6, <2>2 DEF Ignorant, Old
  <2> QED BY <1>1, <2>1, <2>2 DEF Ignorant, Old, Within
<1>10. Knowledge'
  <2>1. ASSUME NEW k \in 1 .. Len(chan'), Resets(chan[k])'
        PROVE  /\ core.db # 1 /\ starts.epoch # core.db
               /\ \A j \in 1 .. Len(Told') : Told'[j].epoch # core.db
               /\ \A j \in 1 .. (k - 1) : chan'[j].type = "AliveMap" => chan'[j].epoch # core.db
    <3>1. Resets(chan[k + 1]) /\ k + 1 \in 1 .. Len(chan)
      BY <1>3, <2>1 DEF Resets
    <3>2. /\ core.db # 1 /\ starts.epoch # core.db
          /\ \A j \in 1 .. Len(Told) : Told[j].epoch # core.db
          /\ \A j \in 1 .. ((k + 1) - 1) : chan[j].type = "AliveMap" => chan[j].epoch # core.db
      BY <1>2, <3>1 DEF Clear, Knowledge
    <3>3. 1 \in 1 .. ((k + 1) - 1)
          /\ \A j \in 1 .. (k - 1) : j \in 1 .. Len(chan') /\ j + 1 \in 1 .. ((k + 1) - 1)
      BY <1>3
    <3> QED BY <1>3, <1>7, <3>2, <3>3
  <2> QED BY <1>1, <1>2, <1>8, <1>9, <2>1 DEF Clear, Knowledge
<1>11. Undisputed'
  <2>1. ASSUME NEW k \in 1 .. Len(chan'), Answer(chan[k])', Genuine(chan[k])'
        PROVE  /\ \A l \in (k + 1) .. Len(chan') : ~Resets(chan[l])'
               /\ client.sync.from = 1 \/ Valid(client.sync.epoch)
    <3>1. k + 1 \in 1 .. Len(chan) /\ Answer(chan[k + 1]) /\ Genuine(chan[k + 1])
      BY <1>1, <1>3, <1>5, <2>1 DEF Genuine
    <3>2. \A l \in (k + 1) .. Len(chan') :
            l \in 1 .. Len(chan') /\ l + 1 \in ((k + 1) + 1) .. Len(chan)
      BY <1>3
    <3>3. \A l \in ((k + 1) + 1) .. Len(chan) : ~Resets(chan[l])
      BY <1>2, <3>1 DEF Clear, Undisputed
    <3>4. \A l \in (k + 1) .. Len(chan') : ~Resets(chan[l])'
      BY <1>3, <3>2, <3>3 DEF Resets
    <3> QED BY <1>2, <3>1, <3>4 DEF Clear, Undisputed
  <2>2. ASSUME NEW k \in 1 .. Len(Acked'), Matching(Acked[k])', Genuine(Acked[k])'
        PROVE  client.sync.from = 1 \/ Valid(client.sync.epoch)
    BY <1>1, <1>2, <1>3, <1>6, <2>2 DEF Clear, Undisputed, Genuine
  <2> QED BY <1>1, <2>1, <2>2 DEF Undisputed, Valid
<1> QED BY <1>10, <1>11 DEF Clear

(* When the mask falls: by the first page of the new download, or with a   *)
(* delete that no run of the feed could declare a download for.            *)
LEMMA MaskFalls ==
  ASSUME TypeOK, HistoryInv, Apply, Void, ~Void'
  PROVE  /\ client.sync.from = 1 /\ pending = NoPending
         /\ \A k \in 1 .. Len(Acked) : ~Matching(Acked[k])
<1>1. /\ NewWait(tx', chan[1]) /\ Book
      /\ Len(chan) \in Nat /\ Len(chan') = Len(chan) - 1 /\ 1 \in 1 .. Len(chan)
      /\ \A k \in 1 .. Len(chan') : k + 1 \in 1 .. Len(chan) /\ chan'[k] = chan[k + 1]
  BY FirstParts, ApplyHands DEF HistoryInv, Effects
<1>2. tx'.awaiting = NotAwaited /\ \A k \in 1 .. Len(chan') : chan'[k].type # "ForgetCore"
  BY DEF Void
<1>3. CASE tx.awaiting # NotAwaited
  <2>1. Taken(chan[1])
    BY <1>1, <1>2, <1>3 DEF NewWait, Book, NoRecheck, Undeclared, NotAwaited
  <2> QED BY <1>3, <2>1, AwaitedPage
<1>4. CASE tx.awaiting = NotAwaited
  <2>1. PICK k \in 1 .. Len(chan) : chan[k].type = "ForgetCore"
    BY <1>4 DEF Void
  <2>2. k = 1
    <3>1. k # 1 => k - 1 \in 1 .. Len(chan') /\ (k - 1) + 1 = k
      BY <1>1
    <3> QED BY <1>1, <1>2, <2>1, <3>1
  <2>3. chan[1].run = NoRun
    BY <1>1, <1>2, <2>1, <2>2 DEF NewWait, Waits, Taken, Undeclared, NotAwaited
  <2>4. client.run = NoRun
    BY <1>1, <2>1, <2>2, <2>3 DEF Book, OneDelete
  <2>5. client = NoClient /\ pending = NoPending
    BY <1>1, <2>4 DEF Book, Idle
  <2>6. client.sync.from = 1
    BY <2>5 DEF NoClient
  <2> QED BY <1>1, <2>4, <2>5, <2>6 DEF Book, Numbers, Ranged, Matching
<1> QED BY <1>3, <1>4

LEMMA CoverOfOne ==
  ASSUME TypeOK, NEW k
  PROVE  Within(1) /\ Covered(1, k) /\ \A d : Held(d, 1)
  BY CoreParts DEF Within, Covered, Held

LEMMA ApplyClaimed ==
  ASSUME TypeOK, TypeOK', HistoryInv, Apply, Trusted
  PROVE  Claimed'
<1>1. /\ Effects(tx', chan[1]) /\ chan[1] \in MessageSet /\ core' = core
      /\ client' = client /\ pending' = pending /\ Served' = Served
  BY ApplyHands DEF HistoryInv
<1>2. Batch /\ Book /\ Clear /\ Claimed
  BY ApplyHands DEF HistoryInv
<1>3. /\ Len(chan) \in Nat /\ Len(chan') = Len(chan) - 1 /\ 1 \in 1 .. Len(chan)
      /\ Len(chan') \in Nat /\ Len(chan) \in 1 .. Len(chan)
      /\ \A k \in 1 .. Len(chan') : k + 1 \in 1 .. Len(chan) /\ chan'[k] = chan[k + 1]
                                    /\ (k + 1) - 1 = k
  BY FirstParts
<1>4. \A n : Within(n)' <=> Within(n)
  BY <1>1 DEF Within
<1>5. \A n : Covered(n, Len(chan)) => Covered(n, Len(chan))'
  <2>1. ASSUME NEW n, Covered(n, Len(chan)) PROVE Covered(n, Len(chan))'
    <3>1. PICK L \in 1 .. Len(chan) : L = Len(chan) /\ L - 1 = Len(chan')
      BY <1>3
    <3>2. Covered(n, L - 1)'
      BY <2>1, <3>1, CoverTail
    <3> QED BY <3>1, <3>2 DEF Covered
  <2> QED BY <2>1
<1>6. \A n, k : n = 1 => Covered(n, k)'
  BY <1>1, CoreParts DEF Covered, Within
<1>7. SyncClaim'
  <2>1. ASSUME Valid(client.sync.epoch), ~Void' PROVE Covered(client.sync.from, Len(chan))'
    <3>1. CASE ~Void
      <4>1. PICK n : n = client.sync.from
        OBVIOUS
      <4>2. Covered(n, Len(chan))'
        BY <1>2, <1>5, <2>1, <3>1, <4>1 DEF Claimed, SyncClaim
      <4> QED BY <1>1, <4>1, <4>2 DEF Covered
    <3>2. CASE Void
      <4>1. client.sync.from = 1
        BY <2>1, <3>2, MaskFalls
      <4> QED BY <1>1, <1>6, <4>1
    <3> QED BY <3>1, <3>2
  <2> QED BY <1>1, <1>2, <1>4, <2>1 DEF Claimed, SyncClaim, Valid
<1>8. PendingClaim'
  <2>1. ASSUME pending # NoPending, pending.epoch = core.db, ~Void'
        PROVE  Covered(pending.next, Len(chan))'
    <3>1. ~Void
      BY <2>1, MaskFalls
    <3>2. PICK n : n = pending.next
      OBVIOUS
    <3>3. Covered(n, Len(chan))'
      BY <1>2, <1>5, <2>1, <3>1, <3>2 DEF Claimed, PendingClaim
    <3> QED BY <1>1, <3>2, <3>3 DEF Covered
  <2> QED BY <1>1, <1>2, <1>4, <2>1 DEF Claimed, PendingClaim
<1>9. PageClaims'
  <2> SUFFICES ASSUME NEW k \in 1 .. Len(chan'), chan'[k].type = "Page", Genuine(chan[k])',
                      ~Skipped(chan', tx'.awaiting, k)
               PROVE  Covered(chan[k].row + 1, k)'
    BY DEF PageClaims
  <2>1. /\ k + 1 \in 1 .. Len(chan) /\ chan'[k] = chan[k + 1] /\ Genuine(chan[k + 1])
        /\ ~Skipped(chan, tx.awaiting, k + 1)
    BY <1>1, <1>3, SkipTail DEF Genuine
  <2>2. PICK n : n = chan[k + 1].row + 1
    OBVIOUS
  <2>3. Covered(n, k + 1)
    BY <1>2, <2>1, <2>2 DEF Claimed, PageClaims
  <2>4. Covered(n, (k + 1) - 1)'
    BY <2>1, <2>3, CoverTail
  <2> QED BY <1>3, <2>1, <2>2, <2>4 DEF Covered
<1>10. MapClaims'
  <2> SUFFICES ASSUME NEW k \in 1 .. Len(chan'), chan'[k].type = "AliveMap",
                      chan'[k].epoch = core.db, ~Ignored(chan', tx'.awaiting, k)
               PROVE  Covered(chan[k].next, k)'
    BY <1>1 DEF MapClaims
  <2>1. /\ k + 1 \in 1 .. Len(chan) /\ chan'[k] = chan[k + 1]
        /\ ~Ignored(chan, tx.awaiting, k + 1)
    BY <1>3, IgnoreTail
  <2>2. PICK n : n = chan[k + 1].next
    OBVIOUS
  <2>3. Covered(n, k + 1)
    BY <1>2, <2>1, <2>2 DEF Claimed, MapClaims
  <2>4. Covered(n, (k + 1) - 1)'
    BY <2>1, <2>3, CoverTail
  <2> QED BY <1>3, <2>1, <2>2, <2>4 DEF Covered
<1>11. AckClaims'
  <2> SUFFICES ASSUME NEW k \in 1 .. Len(Acked'), Matching(Acked[k])', Genuine(Acked[k])', ~Void'
               PROVE  Covered(Acked[k].row + 1, Len(chan))'
    BY DEF AckClaims
  <2>1. CASE k \in 1 .. Len(Acked) /\ Acked'[k] = Acked[k]
    <3>1. Matching(Acked[k]) /\ Genuine(Acked[k])
      BY <1>1, <2>1 DEF Matching, Genuine
    <3>2. ~Void
      BY <2>1, <3>1, MaskFalls
    <3>3. PICK n : n = Acked[k].row + 1
      OBVIOUS
    <3>4. Covered(n, Len(chan))
      BY <1>2, <2>1, <3>1, <3>2, <3>3 DEF Claimed, AckClaims
    <3>5. Covered(n, Len(chan))'
      BY <1>5, <3>4
    <3> QED BY <2>1, <3>3, <3>5 DEF Covered
  <2>2. CASE Acked'[k] = chan[1] /\ chan[1].type = "Page"
    <3>1. Answer(chan[1]) /\ Genuine(chan[1])
      BY <1>1, <2>2 DEF Answer, Matching, Genuine
    <3>2. tx'.awaiting = NotAwaited /\ \A l \in 1 .. Len(chan') : chan'[l].type # "ForgetCore"
      BY DEF Void
    <3>3. Taken(chan[1])
      BY <1>1, <2>2, <3>2 DEF Effects, NewWait, Taken, Waits, Superseded
    <3>4. ~Skipped(chan, tx.awaiting, 1)
      BY <1>3, <3>3 DEF Skipped, ForgetBefore, Taken, Superseded
    <3>5. PICK n : n = chan[1].row + 1
      OBVIOUS
    <3>6. Covered(n, 1)
      BY <1>2, <1>3, <2>2, <3>1, <3>4, <3>5 DEF Claimed, PageClaims
    <3>7. Covered(n, 1 - 1)' /\ 1 - 1 = 0
      BY <1>3, <3>6, CoverTail
    <3>8. \A l \in (0 + 1) .. Len(chan') : ~Wipes(chan'[l])
      <4>1. \A l \in (1 + 1) .. Len(chan) : ~Resets(chan[l])
        BY <1>2, <1>3, <3>1 DEF Clear, Undisputed
      <4>2. \A l \in 1 .. Len(chan') : l + 1 \in (1 + 1) .. Len(chan)
        BY <1>3
      <4> QED BY <1>3, <3>2, <4>1, <4>2 DEF Wipes, Resets
    <3>9. Covered(n, Len(chan))'
      <4>1. Within(n)' /\ \A i \in Served : i < n =>
              Comes(chan', tx'.db.of, tx'.awaiting, core'.db, i, 0)
        BY <1>1, <3>7 DEF Covered
      <4>2. \A i \in Served : i < n =>
              Comes(chan', tx'.db.of, tx'.awaiting, core'.db, i, Len(chan'))
        BY <1>3, <3>8, <4>1, ComesFurther
      <4> QED BY <1>1, <4>1, <4>2 DEF Covered
    <3> QED BY <2>2, <3>5, <3>9 DEF Covered
  <2> QED BY <1>2, <2>1, <2>2, AckedTaken
<1> QED BY <1>7, <1>8, <1>9, <1>10, <1>11 DEF Claimed

LEMMA ApplyRemembered ==
  ASSUME TypeOK, TypeOK', HistoryInv, Apply, Trusted
  PROVE  Remembered'
<1>0. PICK m : m = chan[1]
  OBVIOUS
<1>1. /\ Effects(tx', m) /\ m \in MessageSet /\ core' = core /\ db' = db
      /\ starts' = starts /\ deleting' = deleting /\ Served' = Served
  BY <1>0, ApplyHands DEF HistoryInv
<1>2. Batch /\ Book /\ Clear /\ Claimed /\ Remembered /\ Era
  BY ApplyHands DEF HistoryInv
<1>3. 1 \in 1 .. Len(chan)
  BY FirstParts
<1>4. core.db \in Nat /\ core.db # 0
  BY CoreParts
<1>5. \A d, n : Held(d, n)' <=> (Within(n) /\ \A i \in Served : i < n => d'.of[i] = core.db)
  BY <1>1 DEF Held, Within
<1>6. m.type = "ForgetCore" => deleting.phase = "sent"
  BY <1>0, <1>2, <1>3 DEF Book, OneDelete
<1>7. Empties(m) /\ m.type # "ForgetCore" =>
        core.db # 1 /\ starts.epoch # core.db /\ \A j \in 1 .. Len(Told) : Told[j].epoch # core.db
  BY <1>0, <1>2, <1>3 DEF Empties, Taken, Resets, Clear, Knowledge
<1>8. \A s \in StartSet : Speaks(s) /\ s.epoch # core.db => core.db = 1
  BY DEF Speaks
<1>9. Held(tx.db, 1)'
  BY <1>1, CoreParts DEF Held, Within
<1>10. Taken(m) /\ ~Empties(m) /\ core.db = 1 => Held(tx.db, m.row + 1)'
  <2> SUFFICES ASSUME Taken(m), ~Empties(m), core.db = 1
               PROVE  Held(tx.db, m.row + 1)'
    OBVIOUS
  <2>1. m.of <= core.db /\ m.of \in Nat /\ m.of # 0
    BY <1>0, <1>2, <1>3, ChanParts, PageParts DEF Era, EraMsg, Sourced, Taken
  <2>2. Genuine(m)
    BY <2>1 DEF Genuine, Empties
  <2>3. ~Skipped(chan, tx.awaiting, 1)
    BY <1>0, <1>3 DEF Skipped, ForgetBefore, Taken, Superseded
  <2>4. PICK n : n = m.row + 1
    OBVIOUS
  <2>5. Covered(n, 1)
    BY <1>0, <1>2, <1>3, <2>2, <2>3, <2>4 DEF Claimed, PageClaims, Taken
  <2>6. Held(tx.db, n)'
    BY <2>5, CoverHeld
  <2> QED BY <1>5, <2>4, <2>6
<1>11. Mapped(m) /\ m.epoch = core.db => Held(tx.db, m.next)'
  <2> SUFFICES ASSUME Mapped(m), m.epoch = core.db
               PROVE  Held(tx.db, m.next)'
    OBVIOUS
  <2>1. ~Ignored(chan, tx.awaiting, 1)
    BY <1>0, <1>3 DEF Ignored, ForgetBefore, Mapped
  <2>2. PICK n : n = m.next
    OBVIOUS
  <2>3. Covered(n, 1)
    BY <1>0, <1>2, <1>3, <2>1, <2>2 DEF Claimed, MapClaims, Mapped
  <2>4. Held(tx.db, n)'
    BY <2>3, CoverHeld
  <2> QED BY <1>5, <2>2, <2>4
<1>12. StartClaim'
  <2> SUFFICES ASSUME deleting.phase # "sent", Speaks(starts)
               PROVE  Held(db, starts.next)' /\ Held(tx.db, starts.next)'
    BY <1>1 DEF StartClaim, Speaks
  <2>1. Held(db, starts.next) /\ Held(tx.db, starts.next)
    BY <1>2 DEF Remembered, StartClaim
  <2>2. ~Empties(m)
    BY <1>6, <1>7, <1>8, HandParts
  <2>3. PICK n : n = starts.next
    OBVIOUS
  <2>4. Held(tx.db, n)'
    BY <2>1, <2>2, <2>3, <1>0, HeldStays
  <2> QED BY <1>1, <2>1, <2>3, <2>4 DEF Held, Within
<1>13. ToldClaims'
  <2> SUFFICES ASSUME NEW j \in 1 .. Len(Told'), Speaks(Told[j])',
                      \A l \in (j + 1) .. Len(Told') : Told'[l].kind # "Wiped"
               PROVE  Held(tx.db, Told[j].next)'
    BY DEF ToldClaims
  <2>1. CASE j \in 1 .. Len(Told) /\ Told'[j] = Told[j]
    <3>1. Speaks(Told[j]) /\ Told[j] \in StartSet
      BY <1>1, <2>1, HandParts DEF Speaks
    <3>2. \A l \in (j + 1) .. Len(Told) : l \in 1 .. Len(Told) /\ l \in (j + 1) .. Len(Told')
                                          /\ Told'[l] = Told[l]
      BY <1>2, <2>1, ToldTaken
    <3>3. Held(tx.db, Told[j].next)
      BY <1>2, <2>1, <3>1, <3>2 DEF Remembered, ToldClaims
    <3>4. m.type # "ForgetCore"
      <4>1. ASSUME m.type = "ForgetCore" PROVE FALSE
        <5>1. Spoken(m) /\ Says(m).kind = "Wiped"
          BY <1>1, <4>1, SaidParts DEF Spoken, Empties
        <5>2. /\ Len(Told') = Len(Told) + 1 /\ Told'[Len(Told) + 1].kind = "Wiped"
              /\ Len(Told) \in Nat
          BY <1>0, <1>2, <5>1, ToldTaken
        <5>3. Len(Told) + 1 \in (j + 1) .. Len(Told')
          BY <2>1, <5>2
        <5> QED BY <5>2, <5>3
      <4> QED BY <4>1
    <3>5. ~Empties(m)
      BY <1>7, <1>8, <2>1, <3>1, <3>4
    <3>6. PICK n : n = Told[j].next
      OBVIOUS
    <3>7. Held(tx.db, n)'
      BY <3>3, <3>5, <3>6, <1>0, HeldStays
    <3> QED BY <1>5, <2>1, <3>6, <3>7
  <2>2. CASE Told'[j] = Says(m) /\ Spoken(m)
    <3>1. CASE Empties(m)
      <4>1. Told'[j].next = 1
        BY <1>1, <2>2, <3>1, SaidParts DEF Spoken
      <4> QED BY <1>5, <1>9, <4>1
    <3>2. CASE Taken(m) /\ ~Empties(m)
      <4>1. Told'[j].kind = "Resume" /\ Told'[j].next = m.row + 1
        BY <1>1, <2>2, <3>2, SaidParts DEF Spoken
      <4>2. core.db = 1
        BY <1>1, <4>1 DEF Speaks
      <4> QED BY <1>5, <1>10, <3>2, <4>1, <4>2
    <3>3. CASE Mapped(m)
      <4>1. /\ Told'[j].kind = "Checkpoint" /\ Told'[j].next = m.next
            /\ Told'[j].epoch = m.epoch
        BY <1>1, <2>2, <3>3, SaidParts DEF Spoken
      <4>2. m.epoch = core.db
        BY <1>1, <4>1 DEF Speaks
      <4> QED BY <1>5, <1>11, <3>3, <4>1, <4>2
    <3> QED BY <2>2, <3>1, <3>2, <3>3 DEF Spoken
  <2> QED BY <1>0, <1>2, <2>1, <2>2, ToldTaken
<1>14. Kept(db)'
  BY <1>1, <1>2 DEF Remembered, Kept, Held, Within
<1>15. Kept(tx.db)'
  <2>1. /\ tx.db \in DbSet /\ tx'.db \in DbSet
        /\ m.type = "AliveMap" => m.epoch \in Nat /\ m.epoch # 0
        /\ m.type = "Page" => m.row \in Nat
    BY <1>0, <1>3, HandParts, ChanParts, PageParts DEF TypeOK, TxSet
  <2>2. NewMarks(tx', m)
    BY <1>1 DEF Effects
  <2>3. ASSUME tx'.db.checkpoint.epoch = core.db PROVE Held(tx.db, tx.db.checkpoint.next)'
    <3>1. CASE Mapped(m)
      <4>1. m.epoch = core.db /\ tx'.db.checkpoint.next = m.next
        BY <2>2, <2>3, <3>1 DEF NewMarks
      <4> QED BY <1>5, <1>11, <3>1, <4>1
    <3>2. CASE ~Mapped(m)
      <4>1. ~Empties(m) /\ tx'.db.checkpoint = tx.db.checkpoint
        BY <1>4, <2>2, <2>3, <3>2 DEF NewMarks, NoCheckpoint
      <4>2. PICK n : n = tx.db.checkpoint.next
        OBVIOUS
      <4>3. Held(tx.db, n)'
        BY <1>2, <2>3, <4>1, <4>2, <1>0, HeldStays DEF Remembered, Kept
      <4> QED BY <1>5, <4>1, <4>2, <4>3
    <3> QED BY <3>1, <3>2
  <2>4. ASSUME core.db = 1, tx'.db.checkpoint = NoCheckpoint
        PROVE  Held(tx.db, tx.db.frontier + 1)'
    <3>1. ~Mapped(m)
      BY <2>1, <2>2, <2>4 DEF NewMarks, Mapped, NoCheckpoint
    <3>2. CASE tx'.db.frontier = 0
      <4>1. tx'.db.frontier + 1 = 1
        BY <3>2
      <4> QED BY <1>5, <1>9, <4>1
    <3>3. CASE Taken(m) /\ ~Empties(m) /\ tx'.db.frontier = m.row
      BY <1>5, <1>10, <2>4, <3>3
    <3>4. CASE ~Empties(m) /\ tx'.db.frontier = tx.db.frontier
      <4>1. tx.db.checkpoint = NoCheckpoint
        BY <2>2, <2>4, <3>1, <3>4 DEF NewMarks
      <4>2. PICK n : n = tx.db.frontier + 1
        OBVIOUS
      <4>3. Held(tx.db, n)'
        BY <1>2, <2>4, <3>4, <4>1, <4>2, <1>0, HeldStays DEF Remembered, Kept
      <4> QED BY <1>5, <3>4, <4>2, <4>3
    <3> QED BY <2>2, <3>1, <3>2, <3>3, <3>4 DEF NewMarks
  <2> QED BY <1>1, <2>3, <2>4 DEF Kept
<1> QED BY <1>12, <1>13, <1>14, <1>15 DEF Remembered

LEMMA ApplyStep ==
  ASSUME TypeOK, TypeOK', HistoryInv, Apply
  PROVE  HistoryInv'
<1>1. Up /\ Up' /\ Batch' /\ given' = given
  BY ApplyHands DEF HistoryInv
<1>2. Trusted' = Trusted
  BY <1>1 DEF Trusted
<1> QED BY <1>1, <1>2, ApplyEra, ApplyBook, ApplyClear, ApplyClaimed, ApplyRemembered
        DEF HistoryInv
-----------------------------------------------------------------------------
(* The invariant holds from the first state on, and says what was meant.   *)

(* A replica written before the frontier existed is taken for whole up to  *)
(* its last row. *)
LEMMA HistoryInit == Init => HistoryInv
<1> SUFFICES ASSUME Init PROVE HistoryInv
  OBVIOUS
<1> DEFINE d == [of |-> [i \in Ids |-> IF i <= left.legacy THEN 1 ELSE 0],
                 hidden |-> {}, checkpoint |-> NoCheckpoint, frontier |-> NoFrontier]
<1>0. TypeOK /\ left.legacy \in Nat
  BY InitTyped, ScenarioAssumption DEF Init, Bounded
<1>1. /\ db = Opened(d) /\ starts = StartupStart(db) /\ client = NoClient
      /\ pending = NoPending /\ chan = <<>> /\ tx = Closed(db, NotAwaited)
      /\ post = Nothing /\ awaiting = NotAwaited /\ deleting = NoDelete /\ writer = "up"
      /\ core.db = 1 /\ core.top = left.legacy
      /\ core.visible = 1 .. left.legacy /\ core.hidden = {}
  BY DEF Init
<1>2. Served = 1 .. left.legacy
  BY <1>1 DEF Served
<1>3. d \in DbSet /\ d.checkpoint = NoCheckpoint /\ d.frontier = NoFrontier
      /\ \A i \in Ids : d.of[i] = IF i <= left.legacy THEN 1 ELSE 0
  BY DEF DbSet, CheckpointSet, NoFrontier
<1>4. \A i \in Ids : i \in Nat /\ i # 0 /\ (i \in Rows(d) <=> i \in Served)
  BY <1>0, <1>2, <1>3 DEF Rows, Ids
<1> HIDE DEF d
<1>5. /\ db.of = d.of /\ db.checkpoint = NoCheckpoint
      /\ Rows(d) = {} => db.frontier = NoFrontier
      /\ Rows(d) # {} => db.frontier \in Served
  <2>1. db.of = d.of /\ db.checkpoint = NoCheckpoint
    BY <1>1, <1>3, OpenedFields
  <2>2. CASE Rows(d) = {}
    BY <1>1, <1>3, <2>2 DEF Opened, StartupStart, Fresh
  <2>3. CASE Rows(d) # {}
    <3>1. Max(Rows(d)) \in Rows(d) /\ Max(Rows(d)) \in Ids
      BY <2>3, RowsAreIds, MaxOfIds
    <3>2. StartupStart(d) = Resume(Max(Rows(d)) + 1)
      BY <1>3, <2>3 DEF StartupStart
    <3>3. Resume(Max(Rows(d)) + 1).kind = "Resume"
          /\ Resume(Max(Rows(d)) + 1).next - 1 = Max(Rows(d))
      BY <1>4, <3>1 DEF Resume
    <3>4. db = RecordFrontier(d, Max(Rows(d)))
      BY <1>1, <1>3, <3>2, <3>3 DEF Opened
    <3>5. db = [d EXCEPT !.frontier = Max(Rows(d))]
      BY <1>3, <1>4, <3>1, <3>4 DEF RecordFrontier, NoFrontier
    <3>6. db.frontier = Max(Rows(d))
      BY <1>3, <3>5 DEF DbSet
    <3> QED BY <1>4, <2>1, <2>3, <3>1, <3>6
  <2> QED BY <2>1, <2>2, <2>3
<1>6. Rows(db) = Rows(d) /\ db \in DbSet /\ db.frontier \in Int
  BY <1>0, <1>5, HandParts, DbParts DEF Rows
<1>7. EraDb(db) /\ (Unclaimed(db) => Rows(db) = {})
  <2>1. \A i \in Ids : db.of[i] = IF i <= left.legacy THEN 1 ELSE 0
    BY <1>3, <1>5
  <2>2. \A i \in Ids : db.of[i] <= core.db /\ (db.of[i] = core.db => i <= core.top)
    BY <1>1, <2>1
  <2>3. db.checkpoint.epoch <= core.db
    BY <1>1, <1>5 DEF NoCheckpoint
  <2>4. Unclaimed(db) => Rows(db) = {}
    BY <1>0, <1>2, <1>5, <1>6 DEF Unclaimed, NoFrontier
  <2> QED BY <2>2, <2>3, <2>4 DEF EraDb, EraRows
<1>8. Kept(db)
  <2>1. db.checkpoint.epoch # core.db
    BY <1>1, <1>5 DEF NoCheckpoint
  <2>2. \A i \in Served : i \in Ids /\ db.of[i] = core.db
    BY <1>0, <1>1, <1>2, <1>3, <1>5, CoreParts
  <2>3. Within(db.frontier + 1)
    <3>1. db.frontier = -1 \/ db.frontier \in 1 .. left.legacy
      BY <1>2, <1>5 DEF NoFrontier
    <3> QED BY <1>0, <1>1, <3>1 DEF Within
  <2> QED BY <2>1, <2>2, <2>3 DEF Kept, Held
<1>9. /\ EraStart(starts) /\ starts.kind # "Wiped"
      /\ Unclaimed(db) => starts.kind = "Fresh"
      /\ Speaks(starts) => Held(db, starts.next)
  BY <1>0, <1>1, <1>6, <1>7, <1>8, StartupFacts
<1>10. /\ ~tx.open /\ tx.db = db /\ tx.awaiting = NotAwaited
       /\ tx.states = <<>> /\ tx.acks = <<>> /\ tx.resyncs = <<>>
       /\ post.states = <<>> /\ post.acks = <<>> /\ post.resyncs = <<>>
  BY <1>1 DEF Closed, Nothing
<1>11. Told = <<>> /\ Acked = <<>> /\ Asked = <<>>
  BY <1>10 DEF Told, Acked, Asked
<1>12. /\ \A k \in 1 .. Len(chan) : FALSE
       /\ \A k \in 1 .. Len(Told) : FALSE
       /\ \A k \in 1 .. Len(Acked) : FALSE
       /\ \A k \in 1 .. Len(Asked) : FALSE
  BY <1>1, <1>11
<1>13. /\ client.run = NoRun /\ client.link = "none" /\ client.sync.id = NoSync
       /\ client.sync.from = 1 /\ client.sync.epoch = 0
       /\ pending.epoch = 0 /\ deleting.phase = "none"
  BY <1>1 DEF NoClient, NoPending, NoDelete
<1>14. Era
  <2>1. \A i \in Served : i <= core.top
    BY <1>1, <1>2
  <2> QED BY <1>1, <1>7, <1>9, <1>10, <1>12, <1>13, <2>1 DEF Era
<1>15. Batch /\ Blanks
  BY <1>7, <1>9, <1>10, <1>12 DEF Batch, Blanks, Blank
<1>16. Book
  <2>1. Content /\ Retired /\ Idle /\ OneAnswer /\ Phases
    BY <1>1, <1>12, <1>13 DEF Content, Retired, Idle, OneAnswer, Phases, InFlight, NoPending
  <2>2. Numbers
    BY <1>0, <1>12, <1>13, ClientParts DEF Numbers, NoSync
  <2>3. Awaiting /\ NoRecheck /\ OneDelete
    BY <1>10, <1>12, <1>13 DEF Awaiting, NoRecheck, OneDelete
  <2> QED BY <2>1, <2>2, <2>3 DEF Book
<1>17. Clear /\ Claimed
  <2>1. Within(client.sync.from) /\ \A k : Covered(client.sync.from, k)
    BY <1>0, <1>13, CoreParts DEF Within, Covered
  <2>2. ~Ignorant
    BY <1>12, <1>13, <2>1 DEF Ignorant, Old
  <2>3. Knowledge /\ Undisputed
    BY <1>12, <2>2 DEF Knowledge, Undisputed
  <2>4. SyncClaim /\ PendingClaim /\ PageClaims /\ MapClaims /\ AckClaims
    BY <1>1, <1>12, <2>1 DEF SyncClaim, PendingClaim, PageClaims, MapClaims, AckClaims
  <2> QED BY <2>3, <2>4 DEF Clear, Claimed
<1>18. Remembered
  BY <1>8, <1>9, <1>10, <1>12 DEF Remembered, StartClaim, ToldClaims
<1> QED BY <1>14, <1>15, <1>16, <1>17, <1>18 DEF HistoryInv

LEMMA HistoryStep ==
  ASSUME CalmDeletes, TypeOK, TypeOK', AwaitInv, HistoryInv, [Next]_vars, ~given'.late
  PROVE  HistoryInv'
<1>1. CASE OpenTrade \/ \E i \in Ids : HideRow(i) \/ RestoreRow(i) \/ RetireRow(i)
  BY <1>1, LiveChanges
<1>2. CASE Recreate
  BY <1>2, RecreateStep
<1>3. CASE StartRun \/ StopRun
  BY <1>3, StartStep, StopStep
<1>4. CASE LinkUp \/ LinkDown \/ TakeDelete
  BY <1>4, LinkSteps
<1>5. CASE ServePage \/ AskAliveMap \/ AnswerAliveMap
  BY <1>5, PageStep, AskStep, MapStep
<1>6. CASE SendDelete
  BY <1>6, DeleteStep
<1>7. CASE Apply
  BY <1>7, ApplyStep
<1>8. CASE Commit \/ PublishState \/ Acknowledge \/ Redeclare
  BY <1>8, CommitStep, PublishStep, AcknowledgeStep, RedeclareStep
<1>9. CASE WriterStops \/ Restart
  BY <1>9, StopsStep, RestartStep
<1>10. CASE UNCHANGED vars
  <2>1. /\ core' = core /\ client' = client /\ pending' = pending /\ chan' = chan /\ db' = db
        /\ tx' = tx /\ post' = post /\ awaiting' = awaiting /\ starts' = starts
        /\ deleting' = deleting /\ writer' = writer /\ given' = given
    BY <1>10 DEF vars
  <2>2. Told' = Told /\ Acked' = Acked /\ Asked' = Asked /\ Served' = Served
    BY <2>1 DEF Told, Acked, Asked, Served
  <2>3. Era' = Era /\ Batch' = Batch /\ Blanks' = Blanks /\ Up' = Up /\ Trusted' = Trusted
    BY <2>1, <2>2 DEF Era, EraDb, EraRows, EraMsg, EraStart, Batch, Blanks, Blank, Unclaimed,
                      Rows, Up, Trusted
  <2>4. Book' = Book
    BY <2>1, <2>2 DEF Book, Content, Retired, Idle, Numbers, Ranged, Owned, OneAnswer, Phases,
                      InFlight, Answer, Matching, Confirms, Old, Awaiting, NoRecheck,
                      OneDelete
  <2>5. Clear' = Clear
    BY <2>1, <2>2 DEF Clear, Knowledge, Learned, Ignorant, Undisputed, Genuine, Answer,
                      Matching, Old, Within, Valid
  <2>6. Claimed' = Claimed
    BY <2>1, <2>2 DEF Claimed, SyncClaim, PendingClaim, PageClaims, MapClaims, AckClaims, Valid,
                      Within, Void, Covered, Matching, Genuine, Skipped, Ignored
  <2>7. Remembered' = Remembered
    BY <2>1, <2>2 DEF Remembered, StartClaim, ToldClaims, Kept, Speaks, Held, Within
  <2> QED BY <2>3, <2>4, <2>5, <2>6, <2>7 DEF HistoryInv
<1> QED BY <1>1, <1>2, <1>3, <1>4, <1>5, <1>6, <1>7, <1>8, <1>9, <1>10 DEF Next

(* A map asked for too late is never forgotten. *)
LEMMA LateStays ==
  ASSUME TypeOK, [Next]_vars, given.late
  PROVE  given'.late
<1>1. given \in GivenSet
  BY DEF TypeOK
<1>2. CASE OpenTrade \/ Recreate \/ \E i \in Ids : HideRow(i) \/ RestoreRow(i) \/ RetireRow(i)
  BY <1>2 DEF OpenTrade, Recreate, HideRow, RestoreRow, RetireRow, Change
<1>3. CASE StartRun \/ StopRun \/ LinkUp \/ LinkDown \/ TakeDelete \/ SendDelete
  BY <1>1, <1>3 DEF GivenSet, StartRun, StopRun, LinkUp, LinkDown, TakeDelete, SendDelete
<1>4. CASE ServePage \/ AskAliveMap \/ AnswerAliveMap
  BY <1>1, <1>4 DEF GivenSet, ServePage, AskAliveMap, AnswerAliveMap
<1>5. CASE Apply \/ Commit \/ PublishState \/ Acknowledge \/ Redeclare
  BY <1>1, <1>5 DEF GivenSet, Apply, Commit, PublishState, Acknowledge, Redeclare
<1>6. CASE WriterStops \/ Restart \/ UNCHANGED vars
  BY <1>6 DEF WriterStops, Restart, vars
<1> QED BY <1>2, <1>3, <1>4, <1>5, <1>6 DEF Next

LEMMA HistoryImplies == TypeOK /\ Timely => NoHole
<1> SUFFICES ASSUME TypeOK, HistoryInv, ~given.overtaken, ~given.unmasked
             PROVE  NextRunMissesNothing /\ NoHoleBelow(StartupStart(db))
  BY DEF NoHole, Timely
<1>1. core.db # 0 /\ db \in DbSet
  BY CoreParts, HandParts
<1>2. \A n : Held(db, n) => \A i \in Served : i < n => db.of[i] # 0
  BY <1>1 DEF Held
<1>3. \A s : Current(s) => Trusted /\ Speaks(s)
  BY DEF Current, Trusted, Speaks
<1>4. ASSUME deleting.phase = "none", Current(starts)
      PROVE  Held(db, starts.next)
  BY <1>3, <1>4 DEF HistoryInv, Remembered, StartClaim
<1>5. ASSUME Current(StartupStart(db))
      PROVE  Held(db, StartupStart(db).next)
  <2>1. Trusted /\ Speaks(StartupStart(db))
    BY <1>3, <1>5
  <2>2. EraDb(db) /\ (Unclaimed(db) => Rows(db) = {}) /\ Kept(db)
    BY <2>1 DEF HistoryInv, Era, Blanks, Blank, Remembered
  <2> QED BY <1>1, <2>1, <2>2, StartupFacts
<1> QED BY <1>2, <1>4, <1>5 DEF NextRunMissesNothing, NoHoleBelow

(* Nothing below the point where a next download begins is missing from    *)
(* the committed replica, at whatever moment the run or the terminal ends, *)
(* but for a run overtaken by its own checkpoint, for a wait that an       *)
(* earlier declaration of the batch ended and for an alive map asked for   *)
(* after its download was replaced (startup_start, commit_page,            *)
(* apply_alive_map, publish_committed).                                    *)
THEOREM NoHoleCorrect == CalmDeletes => (Spec => []NoHole)
<1> DEFINE IInv == CalmDeletes /\ AwaitInv /\ Timely
<1>1. CalmDeletes /\ Init => IInv
  BY AwaitInit, HistoryInit DEF Timely
<1>2. TypeOK /\ TypeOK' /\ IInv /\ [Next]_vars => IInv'
  <2> SUFFICES ASSUME TypeOK, TypeOK', CalmDeletes, AwaitInv, Timely, [Next]_vars
               PROVE  AwaitInv' /\ Timely'
    OBVIOUS
  <2>1. AwaitInv'
    BY AwaitStep
  <2>2. ASSUME ~given'.late PROVE HistoryInv'
    BY <2>2, LateStays, HistoryStep DEF Timely
  <2> QED BY <2>1, <2>2 DEF Timely
<1>3. TypeOK /\ IInv => NoHole
  BY HistoryImplies
<1> HIDE DEF IInv
<1> QED BY <1>1, <1>2, <1>3, ReportTypeCorrect, PTL DEF Spec
====
