--------------------------- MODULE ReportReplica ---------------------------
(***************************************************************************)
(* The replica of one core's report in the terminal's database: the        *)
(* catch-up that walks the core's rows upwards, the live rows written from *)
(* the first second of a connection, the alive map that repairs what       *)
(* catch-up cannot see, and the start state that says where the next       *)
(* download begins.  Four actors share it:                                 *)
(*   - the core and the MoonProto client, external to the repository,      *)
(*     modelled from the way the feed and the writer use them;             *)
(*   - the feed thread (feed/live/mod.rs), which declares the download,    *)
(*     forwards report events and judges the alive map;                    *)
(*   - the sole writer (db/report_writer.rs, db/rep.rs): a batch of        *)
(*     messages is applied to a candidate state in one transaction,        *)
(*     committed, and only then published, acknowledged and re-declared;   *)
(*   - the user, who may delete the core's data (Settings -> Storage).     *)
(* A row is its id, the core database its content came from and its        *)
(* visibility.  Closing a trade and the open-row check that repairs a      *)
(* missed close are left out.                                              *)
(***************************************************************************)
EXTENDS Integers, Sequences, FiniteSets, FiniteSetsExt

CONSTANTS
    MaxId,          \* the highest row id the core gives out
    CalmDeletes,    \* deletes neither meet nor outlive a connection change
    Scenarios       \* how often each bounded thing may happen in a behaviour

Bounded == {"changes", "flaps", "stops", "recreations", "deletes", "crashes", "failures"}

(* legacy is the rows of a replica written before the frontier existed. *)
ASSUME IdAssumption == MaxId \in Nat
ASSUME CalmAssumption == CalmDeletes \in BOOLEAN
ASSUME ScenarioAssumption ==
    \A s \in Scenarios : s \in [Bounded \cup {"legacy"} -> Nat] /\ s.legacy <= MaxId

Ids == 1 .. MaxId
Databases == Nat \ {0}

VARIABLES
    core,       \* the core's report database (external)
    client,     \* the MoonProto client of the feed's current run (external)
    pending,    \* the completed catch-up whose alive map is due
    chan,       \* the writer's channel of DbMsg
    db,         \* reports.sqlite, as committed
    tx,         \* the writer's open transaction and candidate state
    post,       \* what the writer still has to publish after a commit
    awaiting,   \* RepState.awaiting_resync of the core
    starts,     \* the start state published in memory
    deleting,   \* the user's delete: its phase and the report handle it took
    writer,     \* the writer thread: "up" or "stopped"
    given,      \* run and sync_id counters, and four ghosts
    left        \* the scenario's remaining bounds

vars == <<core, client, pending, chan, db, tx, post, awaiting, starts,
          deleting, writer, given, left>>

NoRun == 0
NoSync == 0
NoFrontier == -1
(* awaiting_resync: absent, waiting for the declaration, or for a sync_id. *)
NotAwaited == -1
Undeclared == 0

NoCheckpoint == [epoch |-> 0, next |-> 0]
(* SyncComplete unread; the map asked for, perhaps behind a page.          *)
NoPending == [id |-> NoSync, epoch |-> 0, next |-> 0, max |-> 0, at |-> "none"]

Fresh == [kind |-> "Fresh", epoch |-> 0, next |-> 1]
Resume(n) == [kind |-> "Resume", epoch |-> 0, next |-> n]
Checkpoint(c) == [kind |-> "Checkpoint", epoch |-> c.epoch, next |-> c.next]
(* The publication of a delete: the start turns fresh, the user is answered. *)
Wiped == [kind |-> "Wiped", epoch |-> 0, next |-> 1]

(* of[i] is the database a row's values came from; 0 is no such row. *)
NoRows == [i \in Ids |-> 0]
Rows(d) == {i \in Ids : d.of[i] # 0}
Served == core.visible \cup core.hidden
-----------------------------------------------------------------------------
(* Start state and frontier. *)

RecordFrontier(d, last) ==
    IF last <= 0 \/ d.frontier >= last THEN d ELSE [d EXCEPT !.frontier = last]

(* Mutant of NoteLiveRow: a live row leaves no trace of an unfinished walk. *)
NoteLiveRowForgets(d) == d

NoteLiveRow(d) ==
    IF starts.kind = "Fresh" /\ d.frontier = NoFrontier
    THEN [d EXCEPT !.frontier = 0]
    ELSE d

(* Mutant of StartupStart: a fresh replica's frontier is taken for absent. *)
StartupStartUnguarded(d) ==
    IF Rows(d) = {} THEN Fresh
    ELSE IF d.checkpoint # NoCheckpoint THEN Checkpoint(d.checkpoint)
    ELSE Resume(d.frontier + 1)

StartupStart(d) ==
    IF Rows(d) = {} THEN Fresh
    ELSE IF d.checkpoint # NoCheckpoint THEN Checkpoint(d.checkpoint)
    ELSE IF d.frontier # NoFrontier THEN Resume(d.frontier + 1)
    ELSE Resume(Max(Rows(d)) + 1)

(* Opening the database pins the resume point of a replica that has none. *)
Opened(d) ==
    LET start == StartupStart(d)
    IN  IF start.kind = "Resume" /\ d.frontier = NoFrontier
        THEN RecordFrontier(d, start.next - 1)
        ELSE d
-----------------------------------------------------------------------------
(* What a message does to the database. *)

Upserted(d, i, of, hide) ==
    [d EXCEPT !.of[i] = of,
              !.hidden = IF hide THEN @ \cup {i} ELSE @ \ {i}]

Deleted(d, i) == [d EXCEPT !.of[i] = 0, !.hidden = @ \ {i}]

SetDeleted(d, i, hide) ==
    IF i \in Rows(d) THEN Upserted(d, i, d.of[i], hide) ELSE d

ResetReplica(d) ==
    [of |-> NoRows, hidden |-> {}, checkpoint |-> NoCheckpoint, frontier |-> 0]

PageRows(d, m) == IF m.row = 0 THEN d ELSE Upserted(d, m.row, m.of, m.hide)

AppliedPage(d, m) ==
    IF m.recreated THEN PageRows(ResetReplica(d), m)
    ELSE RecordFrontier(PageRows(d, m), m.row)

(* Mutant of AppliedMap: a hidden row is restored, a missing one stays.    *)
AppliedMapOneWay(d, m) ==
    [d EXCEPT !.hidden = @ \ m.alive,
              !.checkpoint = [epoch |-> m.epoch, next |-> m.next],
              !.frontier = NoFrontier]

AppliedMap(d, m) ==
    [d EXCEPT !.hidden = (@ \ 1 .. m.max) \cup ((Rows(d) \cap 1 .. m.max) \ m.alive),
              !.checkpoint = [epoch |-> m.epoch, next |-> m.next],
              !.frontier = NoFrontier]
-----------------------------------------------------------------------------
(* The candidate state of a transaction, and what it will publish.         *)

(* m is skipped: a page of a download that a delete replaced. *)
Superseded(m) == tx.awaiting # NotAwaited /\ tx.awaiting # m.id

Publishing(t, action) == [t EXCEPT !.states = Append(@, action)]

(* Mutant of ApplyPage: a page that reports a replaced database is taken   *)
(* for an ordinary one.                                                    *)
ApplyPageOrdinary(m) ==
    LET acked == [tx EXCEPT !.acks = Append(@, m)]
    IN  IF Superseded(m) THEN acked
        ELSE Publishing([acked EXCEPT !.db = RecordFrontier(PageRows(@, m), m.row),
                                      !.awaiting = NotAwaited],
                        Resume(m.row + 1))

ApplyPage(m) ==
    LET acked == [tx EXCEPT !.acks = Append(@, m)]
        kept  == [acked EXCEPT !.db = AppliedPage(@, m), !.awaiting = NotAwaited]
    IN  IF Superseded(m) THEN acked
        ELSE IF m.recreated
             THEN [Publishing(kept, Fresh) EXCEPT !.resyncs = Append(@, m.run)]
             ELSE Publishing(kept, Resume(m.row + 1))

(* Mutant of ApplyAliveMap: a superseded download still makes a checkpoint. *)
ApplyAliveMapAlways(m) ==
    Publishing([tx EXCEPT !.db = AppliedMap(@, m)],
               Checkpoint([epoch |-> m.epoch, next |-> m.next]))

ApplyAliveMap(m) ==
    IF tx.awaiting # NotAwaited THEN tx
    ELSE Publishing([tx EXCEPT !.db = AppliedMap(@, m)],
                    Checkpoint([epoch |-> m.epoch, next |-> m.next]))

ApplyRecreated(m) ==
    [Publishing(tx, Fresh) EXCEPT !.db = ResetReplica(@),
                                  !.resyncs = Append(@, m.run)]

ApplyForgetCore(m) ==
    [Publishing(tx, Wiped) EXCEPT
        !.db = ResetReplica(@),
        !.awaiting = IF m.run # NoRun THEN Undeclared ELSE @,
        !.resyncs = IF m.run # NoRun THEN Append(@, m.run) ELSE @]

ApplyMsg(m) ==
    CASE m.type = "Upsert"     -> [tx EXCEPT !.db = NoteLiveRow(Upserted(@, m.row, m.of, FALSE))]
      [] m.type = "Delete"     -> [tx EXCEPT !.db = Deleted(@, m.row)]
      [] m.type = "SetDeleted" -> [tx EXCEPT !.db = SetDeleted(@, m.row, m.hide)]
      [] m.type = "Page"       -> ApplyPage(m)
      [] m.type = "AliveMap"   -> ApplyAliveMap(m)
      [] m.type = "Recreated"  -> ApplyRecreated(m)
      [] m.type = "ForgetCore" -> ApplyForgetCore(m)
      [] m.type = "Recheck"    -> [tx EXCEPT !.awaiting = NotAwaited]

Send(m) == chan' = IF writer = "up" THEN Append(chan, m) ELSE chan
Nothing == [states |-> <<>>, acks |-> <<>>, resyncs |-> <<>>]
Closed(d, a) ==
    [open |-> FALSE, db |-> d, awaiting |-> a,
     states |-> <<>>, acks |-> <<>>, resyncs |-> <<>>]

NoClient == [run |-> NoRun, link |-> "none",
             sync |-> [id |-> NoSync, from |-> 1, epoch |-> 0, phase |-> "none"]]
NoDelete == [phase |-> "none", run |-> NoRun]

Init ==
    /\ left \in Scenarios
    /\ core = [db |-> 1, top |-> left.legacy, visible |-> 1 .. left.legacy, hidden |-> {}]
    /\ db = Opened([of |-> [i \in Ids |-> IF i <= left.legacy THEN 1 ELSE 0],
                    hidden |-> {}, checkpoint |-> NoCheckpoint,
                    frontier |-> NoFrontier])
    /\ starts = StartupStart(db)
    /\ client = NoClient
    /\ pending = NoPending
    /\ chan = <<>>
    /\ tx = Closed(db, NotAwaited)
    /\ post = Nothing
    /\ awaiting = NotAwaited
    /\ deleting = NoDelete
    /\ writer = "up"
    /\ given = [runs |-> 0, syncs |-> 0,
                blind |-> FALSE, overtaken |-> FALSE, unmasked |-> FALSE,
                late |-> FALSE]
-----------------------------------------------------------------------------
(* The core.  A live change reaches the client only over a live link, and  *)
(* the feed reads what the client hears in order: nothing is forwarded     *)
(* behind a SyncComplete before that is read.                              *)

Spend(b) == left[b] > 0 /\ left' = [left EXCEPT ![b] = @ - 1]

Online == client.link = "up"
Broadcast(m) == IF Online THEN Send(m) ELSE UNCHANGED chan

Change ==
    /\ Spend("changes")
    /\ pending.at # "unread"
    /\ UNCHANGED <<client, pending, db, tx, post, awaiting, starts, deleting, writer, given>>

OpenTrade ==
    LET i == core.top + 1
    IN  /\ i \in Ids
        /\ Change
        /\ core' = [core EXCEPT !.top = i, !.visible = @ \cup {i}]
        /\ Broadcast([type |-> "Upsert", row |-> i, of |-> core.db])

HideRow(i) ==
    /\ i \in core.visible
    /\ Change
    /\ core' = [core EXCEPT !.visible = @ \ {i}, !.hidden = @ \cup {i}]
    /\ Broadcast([type |-> "SetDeleted", row |-> i, hide |-> TRUE])

RestoreRow(i) ==
    /\ i \in core.hidden
    /\ Change
    /\ core' = [core EXCEPT !.hidden = @ \ {i}, !.visible = @ \cup {i}]
    /\ Broadcast([type |-> "SetDeleted", row |-> i, hide |-> FALSE])

RetireRow(i) ==
    /\ i \in Served
    /\ Change
    /\ core' = [core EXCEPT !.visible = @ \ {i}, !.hidden = @ \ {i}]
    /\ Broadcast([type |-> "Delete", row |-> i])

Recreate ==
    /\ ~Online
    /\ Spend("recreations")
    /\ core' = [db |-> core.db + 1, top |-> 0, visible |-> {}, hidden |-> {}]
    /\ UNCHANGED <<client, pending, chan, db, tx, post, awaiting, starts, deleting,
                   writer, given>>
-----------------------------------------------------------------------------
(* The feed's runs and the link.                                           *)

(* An environment assumption of some runs: see CalmDeletes. *)
Undisturbed ==
    CalmDeletes => deleting.phase = "none" /\ awaiting = NotAwaited

Declared(start) ==
    [id |-> given.syncs + 1, from |-> start.next, epoch |-> start.epoch, phase |-> "ask"]

(* A ghost: the run is declared at a start of an earlier database while    *)
(* the checkpoint of the present one is still in the writer's hands.       *)
Overtaken ==
    /\ starts # Fresh /\ starts.epoch # core.db /\ core.db > 1
    /\ \/ \E k \in DOMAIN chan : chan[k].type = "AliveMap" /\ chan[k].epoch = core.db
       \/ \E k \in DOMAIN tx.states : tx.states[k].epoch = core.db
       \/ \E k \in DOMAIN post.states : post.states[k].epoch = core.db

StartRun ==
    /\ client.run = NoRun
    /\ Undisturbed
    /\ client' = [run |-> given.runs + 1, link |-> "new", sync |-> Declared(starts)]
    /\ given' = [given EXCEPT !.runs = @ + 1, !.syncs = @ + 1,
                              !.overtaken = @ \/ Overtaken]
    /\ Send([type |-> "Recheck"])
    /\ UNCHANGED <<core, pending, db, tx, post, awaiting, starts, deleting, writer, left>>

StopRun ==
    /\ client.run # NoRun
    /\ Spend("stops")
    /\ Undisturbed
    /\ client' = NoClient
    /\ pending' = NoPending
    /\ UNCHANGED <<core, chan, db, tx, post, awaiting, starts, deleting, writer, given>>

(* The library repeats the catch-up from its cursor after a reconnect; a   *)
(* page still unacknowledged then no longer ends it.                       *)
LinkUp ==
    /\ client.link \in {"new", "down"}
    /\ client.link = "down" => Undisturbed
    /\ client' = [client EXCEPT
            !.link = "up",
            !.sync.phase = CASE @ = "done" -> "ask" [] @ = "page" -> "repeat" [] OTHER -> @]
    /\ IF client.link = "down" THEN Send([type |-> "Recheck"]) ELSE UNCHANGED chan
    /\ UNCHANGED <<core, pending, db, tx, post, awaiting, starts, deleting, writer, given, left>>

LinkDown ==
    /\ Online
    /\ Spend("flaps")
    /\ Undisturbed
    /\ client' = [client EXCEPT !.link = "down"]
    /\ pending' \in {pending} \cup IF pending.at = "unread" THEN {} ELSE {NoPending}
    /\ UNCHANGED <<core, chan, db, tx, post, awaiting, starts, deleting, writer, given>>
-----------------------------------------------------------------------------
(* The catch-up and the alive map: the core answers the client in the      *)
(* order it asked, the feed forwards to the writer.                        *)

(* The page that the request for the map is behind is out of its way.      *)
Unblocked == IF pending.at = "behind" THEN [pending EXCEPT !.at = "asked"] ELSE pending

(* Without an epoch a replaced database shows only by being too short. *)
SeenRecreated(sync) ==
    \/ sync.epoch # 0 /\ sync.epoch # core.db
    \/ sync.epoch = 0 /\ core.top < sync.from - 1

(* A ghost: the accepted risk of startup_start, a catch-up that begins     *)
(* after a recreation with rows or a position of an earlier database and   *)
(* no epoch to notice it by.                                               *)
Unverifiable(sync) ==
    /\ core.db > 1 /\ sync.epoch = 0
    /\ \/ sync.from > 1
       \/ \E i \in Ids : tx.db.of[i] \notin {0, core.db}
       \/ \E k \in DOMAIN chan : chan[k].type \in {"Upsert", "Page"} /\ chan[k].of # core.db

ServePage ==
    LET sync == client.sync
        found == SeenRecreated(sync)
        above == {i \in Served : i >= sync.from}
        row == IF above = {} THEN 0 ELSE Min(above)
    IN  /\ Online
        /\ sync.phase = "ask"
        /\ pending.at \in {"none", "behind"}
        /\ pending' = Unblocked
        /\ client' = [client EXCEPT !.sync.phase = "page"]
        /\ Send([type |-> "Page", run |-> client.run, id |-> sync.id, row |-> row,
                 of |-> core.db, hide |-> row \in core.hidden, recreated |-> found,
                 last |-> Cardinality(above) <= 1, max |-> core.top])
        /\ given' = [given EXCEPT !.blind = @ \/ (~found /\ Unverifiable(sync))]
        /\ UNCHANGED <<core, db, tx, post, awaiting, starts, deleting, writer, left>>

(* The feed reads SyncComplete and asks for the alive map: too late, if    *)
(* the writer has declared another download meanwhile (the ghost).  On a   *)
(* dead link the request may be refused.                                   *)
AskAliveMap ==
    LET after == IF client.sync.phase = "ask" THEN "behind" ELSE "asked"
        asked == [pending EXCEPT !.at = after]
    IN  /\ pending.at = "unread"
        /\ pending' \in {asked} \cup IF Online THEN {} ELSE {NoPending}
        /\ given' = [given EXCEPT !.late = @ \/ pending.id # client.sync.id]
        /\ UNCHANGED <<core, client, chan, db, tx, post, awaiting, starts, deleting,
                       writer, left>>

AnswerAliveMap ==
    /\ Online
    /\ pending.at = "asked"
    /\ pending' = NoPending
    /\ Send(IF pending.epoch # core.db
            THEN [type |-> "Recreated", run |-> client.run]
            ELSE [type |-> "AliveMap", epoch |-> pending.epoch, next |-> pending.next,
                  max |-> pending.max, alive |-> core.visible])
    /\ UNCHANGED <<core, client, db, tx, post, awaiting, starts, deleting, writer, given, left>>
-----------------------------------------------------------------------------
(* The user's delete: the handle is read on the UI thread, the message is  *)
(* sent off it.                                                            *)

TakeDelete ==
    /\ deleting.phase = "none"
    /\ Spend("deletes")
    /\ CalmDeletes => client.link # "down"
    /\ deleting' = [phase |-> "taken", run |-> client.run]
    /\ UNCHANGED <<core, client, pending, chan, db, tx, post, awaiting, starts, writer, given>>

SendDelete ==
    /\ deleting.phase = "taken"
    /\ deleting' = [deleting EXCEPT !.phase = "sent"]
    /\ Send([type |-> "ForgetCore", run |-> deleting.run])
    /\ UNCHANGED <<core, client, pending, db, tx, post, awaiting, starts, writer, given, left>>
-----------------------------------------------------------------------------
(* The writer. *)

Apply ==
    /\ writer = "up"
    /\ post = Nothing
    /\ chan # <<>>
    /\ tx' = [ApplyMsg(Head(chan)) EXCEPT !.open = TRUE]
    /\ chan' = Tail(chan)
    /\ UNCHANGED <<core, client, pending, db, post, awaiting, starts, deleting, writer, given, left>>

Commit ==
    /\ writer = "up"
    /\ tx.open
    /\ db' = tx.db
    /\ awaiting' = tx.awaiting
    /\ post' = [states |-> tx.states, acks |-> tx.acks, resyncs |-> tx.resyncs]
    /\ tx' = Closed(tx.db, tx.awaiting)
    /\ UNCHANGED <<core, client, pending, chan, starts, deleting, writer, given, left>>

(* A committed page leaves a checkpoint, and a later start, alone. *)
Published(s) ==
    IF s.kind = "Wiped" THEN Fresh
    ELSE IF s.kind = "Resume"
            /\ \/ s.next = 1
               \/ starts.kind = "Checkpoint"
               \/ starts.kind = "Resume" /\ starts.next >= s.next
    THEN starts
    ELSE s

PublishState ==
    /\ writer = "up"
    /\ post.states # <<>>
    /\ starts' = Published(Head(post.states))
    /\ deleting' = IF Head(post.states).kind = "Wiped" THEN NoDelete ELSE deleting
    /\ post' = [post EXCEPT !.states = Tail(@)]
    /\ UNCHANGED <<core, client, pending, chan, db, tx, awaiting, writer, given, left>>

(* page_applied: the library asks for the next page, restarts from zero on *)
(* a recreated database, or completes, which it tells the feed.  A handle  *)
(* of an ended client does nothing.                                        *)
Acknowledge ==
    LET m == Head(post.acks)
        next == IF m.row = 0 THEN client.sync.from ELSE m.row + 1
        heard == client.run = m.run /\ client.sync.id = m.id
                    /\ client.sync.phase \in {"page", "repeat"}
        done == heard /\ client.sync.phase = "page" /\ ~m.recreated /\ m.last
    IN  /\ writer = "up"
        /\ post.states = <<>> /\ post.acks # <<>>
        /\ client' =
            IF ~heard THEN client
            ELSE [client EXCEPT
                !.sync.from = IF m.recreated THEN 1 ELSE next,
                !.sync.epoch = m.of,
                !.sync.phase = IF done THEN "done" ELSE "ask"]
        /\ pending' = IF done THEN [id |-> m.id, epoch |-> m.of, next |-> next,
                                    max |-> m.max, at |-> "unread"]
                      ELSE pending
        /\ post' = [post EXCEPT !.acks = Tail(@)]
        /\ UNCHANGED <<core, chan, db, tx, awaiting, starts, deleting, writer, given, left>>

(* Mutant of Redeclare: the declaration's id is not recorded.              *)
RedeclareUnrecorded ==
    LET live == client.run = Head(post.resyncs)
    IN  /\ writer = "up"
        /\ post.states = <<>> /\ post.acks = <<>> /\ post.resyncs # <<>>
        /\ client' = IF live THEN [client EXCEPT !.sync = Declared(Fresh)] ELSE client
        /\ pending' = IF live THEN Unblocked ELSE pending
        /\ given' = IF live THEN [given EXCEPT !.syncs = @ + 1] ELSE given
        /\ post' = [post EXCEPT !.resyncs = Tail(@)]
        /\ UNCHANGED <<core, chan, db, tx, awaiting, starts, deleting, writer, left>>

(* The full history is declared again behind the acknowledgements.  A      *)
(* declaration on an ended client fails and ends the wait of its core,     *)
(* though a later one in the batch may be the one waited for (the ghost).  *)
Redeclare ==
    LET live == client.run = Head(post.resyncs)
    IN  /\ writer = "up"
        /\ post.states = <<>> /\ post.acks = <<>> /\ post.resyncs # <<>>
        /\ client' = IF live THEN [client EXCEPT !.sync = Declared(Fresh)] ELSE client
        /\ awaiting' = IF awaiting = NotAwaited THEN NotAwaited
                       ELSE IF live THEN given.syncs + 1
                       ELSE NotAwaited
        /\ tx' = [tx EXCEPT !.awaiting = awaiting']
        /\ pending' = IF live THEN Unblocked ELSE pending
        /\ given' = IF live THEN [given EXCEPT !.syncs = @ + 1]
                    ELSE [given EXCEPT !.unmasked = @ \/ awaiting # NotAwaited]
        /\ post' = [post EXCEPT !.resyncs = Tail(@)]
        /\ UNCHANGED <<core, chan, db, starts, deleting, writer, left>>

(* Repeated failure, or damage published before or after the commit: the   *)
(* batch is neither acknowledged nor published, and the thread ends.       *)
WriterStops ==
    /\ writer = "up"
    /\ Spend("failures")
    /\ writer' = "stopped"
    /\ chan' = <<>>
    /\ tx' = Closed(db, awaiting)
    /\ post' = Nothing
    /\ UNCHANGED <<core, client, pending, db, awaiting, starts, deleting, given>>

(* The terminal dies and is started again. *)
Restart ==
    /\ Spend("crashes")
    /\ db' = Opened(db)
    /\ starts' = StartupStart(db)
    /\ client' = NoClient
    /\ pending' = NoPending
    /\ chan' = <<>>
    /\ tx' = Closed(db', NotAwaited)
    /\ post' = Nothing
    /\ awaiting' = NotAwaited
    /\ deleting' = NoDelete
    /\ writer' = "up"
    /\ UNCHANGED <<core, given>>

Next ==
    \/ OpenTrade \/ Recreate
    \/ \E i \in Ids : HideRow(i) \/ RestoreRow(i) \/ RetireRow(i)
    \/ StartRun \/ StopRun \/ LinkUp \/ LinkDown
    \/ ServePage \/ AskAliveMap \/ AnswerAliveMap
    \/ TakeDelete \/ SendDelete
    \/ Apply \/ Commit \/ PublishState \/ Acknowledge \/ Redeclare
    \/ WriterStops \/ Restart

Spec == Init /\ [][Next]_vars

(* Every actor keeps working: the client connects, the core answers, the   *)
(* feed restarts and the writer thread runs.  Faults are not fair.         *)
FairSpec ==
    /\ Spec
    /\ WF_vars(StartRun) /\ WF_vars(LinkUp)
    /\ WF_vars(ServePage) /\ WF_vars(AskAliveMap) /\ WF_vars(AnswerAliveMap)
    /\ WF_vars(SendDelete)
    /\ WF_vars(Apply) /\ WF_vars(Commit)
    /\ WF_vars(PublishState) /\ WF_vars(Acknowledge) /\ WF_vars(Redeclare)
-----------------------------------------------------------------------------
(* Properties. *)

Pages ==
    [type : {"Page"}, run : Nat, id : Nat, row : Ids \cup {0}, of : Databases,
     hide : BOOLEAN, recreated : BOOLEAN, last : BOOLEAN, max : Nat]
MessageSet ==
    [type : {"Upsert"}, row : Ids, of : Databases]
        \cup [type : {"Delete"}, row : Ids]
        \cup [type : {"SetDeleted"}, row : Ids, hide : BOOLEAN]
        \cup Pages
        \cup [type : {"AliveMap"}, epoch : Databases, next : Nat \ {0}, max : Nat,
              alive : SUBSET Ids]
        \cup [type : {"Recreated"}, run : Nat]
        \cup [type : {"ForgetCore"}, run : Nat]
        \cup [type : {"Recheck"}]
StartSet == [kind : {"Fresh", "Resume", "Checkpoint", "Wiped"}, epoch : Nat, next : Nat \ {0}]
CheckpointSet == [epoch : Databases, next : Nat \ {0}] \cup {NoCheckpoint}
DbSet == [of : [Ids -> Nat], hidden : SUBSET Ids,
          checkpoint : CheckpointSet, frontier : Nat \cup {NoFrontier}]
TxSet == [open : BOOLEAN, db : DbSet, awaiting : Nat \cup {NotAwaited},
          states : Seq(StartSet), acks : Seq(Pages), resyncs : Seq(Nat)]
PostSet == [states : Seq(StartSet), acks : Seq(Pages), resyncs : Seq(Nat)]
Completions ==
    [id : Nat, epoch : Databases, next : Nat \ {0}, max : Nat,
     at : {"unread", "behind", "asked"}]
CoreSet == [db : Databases, top : Nat, visible : SUBSET Ids, hidden : SUBSET Ids]
SyncSet == [id : Nat, from : Nat \ {0}, epoch : Nat,
            phase : {"none", "ask", "page", "repeat", "done"}]
GivenSet == [runs : Nat, syncs : Nat,
             blind : BOOLEAN, overtaken : BOOLEAN, unmasked : BOOLEAN,
             late : BOOLEAN]
ClientSet == [run : Nat, link : {"none", "new", "up", "down"}, sync : SyncSet]

(* The types of the variables. *)
TypeOK ==
    /\ core \in CoreSet
    /\ client \in ClientSet
    /\ pending \in Completions \cup {NoPending}
    /\ chan \in Seq(MessageSet)
    /\ db \in DbSet
    /\ tx \in TxSet
    /\ post \in PostSet
    /\ awaiting \in Nat \cup {NotAwaited}
    /\ starts \in StartSet
    /\ deleting \in [phase : {"none", "taken", "sent"}, run : Nat]
    /\ writer \in {"up", "stopped"}
    /\ given \in GivenSet
    /\ left \in [Bounded \cup {"legacy"} -> Nat]

(* The start state speaks for the database the core serves: a checkpoint   *)
(* by its epoch, a bare position while the core has not replaced it.       *)
Current(start) ==
    /\ ~given.blind
    /\ core.db = IF start.kind = "Checkpoint" THEN start.epoch ELSE 1

NoHoleBelow(start) ==
    Current(start) => \A i \in Served : i < start.next => db.of[i] # 0

(* Nothing below the point where the next download begins is missing, for  *)
(* the next run of this session, unless a delete is being carried out.     *)
NextRunMissesNothing == deleting.phase = "none" => NoHoleBelow(starts)

(* Nothing below either point where the next download may begin is         *)
(* missing, that of the next run of this session and that of the next      *)
(* start of the terminal, at whatever moment it dies (startup_start,       *)
(* commit_page, #665), but for the three ghosts above: a map asked for too *)
(* late records the position of a download that a delete has replaced.     *)
NoHole ==
    ~given.overtaken /\ ~given.unmasked /\ ~given.late =>
        /\ NextRunMissesNothing
        /\ NoHoleBelow(StartupStart(db))

(* What apply_forget_core and the awaiting_resync field promise of a       *)
(* delete: the next download starts from zero, and no page of the one it   *)
(* replaced lands.  So nothing below the next start of the terminal is     *)
(* missing, whatever the connection did meanwhile.                         *)
DeletedStartsFromZero == NoHoleBelow(StartupStart(db))

(* All is delivered, applied and published, and nothing is outstanding.    *)
Settled ==
    /\ Online /\ client.sync.phase = "done" /\ pending = NoPending
    /\ chan = <<>> /\ ~tx.open /\ post = Nothing /\ writer = "up"

Shown == Rows(db) \ db.hidden

(* When all is settled the report shows exactly the core's visible rows.   *)
Reconciled ==
    Settled /\ ~given.blind /\ ~given.overtaken /\ ~given.unmasked /\ ~given.late =>
        Shown = core.visible

(* Rows of a replaced database never pass for the checkpoint's database.   *)
NoStaleContent ==
    ~given.blind => \A i \in Ids : db.of[i] # 0 => db.of[i] >= db.checkpoint.epoch

(* While the writer waits for the download that replaces a deleted replica *)
(* nothing durable claims that any of the history has been delivered.      *)
AwaitedFromZero ==
    awaiting # NotAwaited => db.frontier = 0 /\ db.checkpoint = NoCheckpoint

(* Once faults end, the report converges on the core, unless the writer    *)
(* has stopped or a map was asked for too late.                            *)
Converges ==
    <>[](writer = "stopped" \/ given.blind \/ given.late \/ Shown = core.visible)
=============================================================================
