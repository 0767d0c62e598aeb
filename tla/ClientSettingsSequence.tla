----------------------- MODULE ClientSettingsSequence -----------------------
(***************************************************************************)
(* The per-core serializer of complete ClientSettings writes and manual    *)
(* orders (feed/live/client_settings.rs), with the feed loop that calls it *)
(* and the connection and core it talks to.                                *)
(*                                                                         *)
(* A settings snapshot is a function from fields to values.  A settings    *)
(* mutation is a partial one: the fields it writes.  Every packet is a     *)
(* whole snapshot, so producers share one queue; a manual order is a       *)
(* barrier in that queue.                                                  *)
(*                                                                         *)
(* The feed loop is one thread.  pc says where it is:                      *)
(*   "poll"    between the steps of an iteration;                          *)
(*   "drain"   in drain_commands, with at least one command taken;         *)
(*   "drive"   about to call drive(), after a settings echo;               *)
(*   "settle"  in the loop of next_action(), against the snapshot `view`.  *)
(* MoonProto (the link and the retained snapshot), the core and the UI     *)
(* threads move in between.                                                *)
(***************************************************************************)
EXTENDS Naturals, Sequences, FiniteSets

CONSTANTS
    Projected,    \* the fields of the ClientSettings projection
    TempSymbols,  \* the temporary-blacklist rows, outside the projection
    Values,       \* values of a field
    FirstSettings, \* what a core process may hold when it is first seen
    CoreOwned,    \* fields the core, or another terminal, rewrites itself
    Edits,        \* mutations queued as desired state (toolbar, blacklist)
    TempEdits,    \* temporary-blacklist deltas: live actions
    Exits,        \* group exit generations
    Orders,       \* manual orders: do they read the exits, name no strategy
    ManualOff,    \* the mutation that switches the manual strategy off
    MaxAttempts,  \* MAX_EXIT_ATTEMPTS
    NoSettings, NoPending, NoPacket,
    Reuse,        \* whether the user may ask for the same mutation again
    Lossy,        \* whether the link may lose a packet
    MaxCommands,  \* bound: commands the UI issues
    MaxConn,      \* bound: connection episodes
    MaxRewrites   \* bound: rewrites by the core or another terminal

Fields   == Projected \cup TempSymbols
Settings == [Fields -> Values]
Mutation == UNION {[D -> Values] : D \in SUBSET Fields}

ASSUME FieldsAssumption == Projected \cap TempSymbols = {} /\ CoreOwned \subseteq Fields
ASSUME FirstAssumption == FirstSettings \subseteq Settings
ASSUME MutationsAssumption ==
    /\ Edits \subseteq Mutation
    /\ TempEdits \subseteq Mutation
    /\ Exits \subseteq Mutation
    /\ ManualOff \in Mutation
    /\ Orders \subseteq [sync : BOOLEAN, bare : BOOLEAN]
ASSUME ScopeAssumption == Lossy \in BOOLEAN /\ Reuse \in BOOLEAN
ASSUME AttemptsAssumption == MaxAttempts \in Nat \ {0}
ASSUME NoneAssumption == NoSettings \notin Settings /\ NoPacket \notin Settings
ASSUME BoundsAssumption == MaxCommands \in Nat /\ MaxConn \in Nat /\ MaxRewrites \in Nat

VARIABLES
    pc,        \* where the feed loop is
    cmds,      \* the core's command channel, with the clicks not yet drained
    ready,     \* ready_since.is_some(): the connection is operational
    view,      \* the snapshot drive() cloned
    queue,     \* ClientSettingsSequence.queue
    waiting,   \* waiting_for_echo
    overdue,   \* waiting_since is ECHO_TIMEOUT ago
    pending,   \* pending_confirmation
    attempts,  \* sends of the head mutation without a confirmation
    core,      \* what the core holds
    dirty,     \* the core has still to publish its settings
    slot,      \* the settings packet MoonProto has still to deliver
    retained,  \* the snapshot MoonProto retains
    updated,   \* a ClientSettingsUpdated event is unread
    conn,      \* history: number of the connection episode
    issued,    \* history: commands the UI issued
    rewrites,  \* history: rewrites by the core
    nextOp,    \* history: serial number of the next queued operation
    done       \* history: operations that left the queue, in order

loopVars  == <<pc, cmds, ready, view>>
seqVars   == <<queue, waiting, overdue, pending, attempts>>
coreVars  == <<core, dirty, slot, retained, updated>>
countVars == <<conn, issued, rewrites>>
vars == <<loopVars, seqVars, coreVars, countVars, nextOp, done>>

-----------------------------------------------------------------------------
(* Queue operations.  n, sends, ahead and at are history: the serial       *)
(* number, the packets that carried the mutation (for an order: that were  *)
(* sent while it waited), the mutations ahead of an order when it was      *)
(* queued, and the connection episode of its click.                        *)

IsMutation(op) == op.kind = "mutation"
IsOrder(op)    == op.kind = "order"

MutationOp(n, m) ==
    [kind |-> "mutation", n |-> n, set |-> m, sync |-> FALSE,
     sends |-> 0, ahead |-> 0, at |-> 0]
OrderOp(n, exit, sync, ahead, at) ==
    [kind |-> "order", n |-> n, set |-> exit, sync |-> sync,
     sends |-> 0, ahead |-> ahead, at |-> at]

Op == [kind : {"mutation", "order"}, n : Nat, set : Mutation, sync : BOOLEAN,
       sends : Nat, ahead : Nat, at : Nat]

Satisfied(settings, m) == \A f \in DOMAIN m : settings[f] = m[f]

(* The mutations 1..n of q applied in order to a snapshot: the last one    *)
(* that names a field decides it.                                          *)
Apply(settings, q, n) ==
    [f \in Fields |->
        LET writers == {i \in 1..n : f \in DOMAIN q[i].set}
        IN  IF writers = {}
              THEN settings[f]
              ELSE q[CHOOSE i \in writers : \A j \in writers : j <= i].set[f]]

(* Mutant of IsPrefix: the fold runs over an order. *)
IsPrefixOverOrders(q, n) == n = Len(q)

(* n is the length of the run of mutations at the head of q. *)
IsPrefix(q, n) ==
    /\ \A i \in 1..n : IsMutation(q[i])
    /\ n < Len(q) => IsOrder(q[n + 1])

(* Mutant of Checked: the temporary-blacklist rows go unchecked. *)
CheckedProjectionOnly(q, n) == Projected

(* What the echo of a packet is compared on: the whole projection, and the *)
(* temporary-blacklist rows the packet's mutations named.                  *)
Checked(q, n) ==
    Projected \cup {s \in TempSymbols : \E i \in 1..n : s \in DOMAIN q[i].set}

Expectation == [settings : Settings, checked : SUBSET Fields, count : Nat]

EchoMatches(settings) ==
    \A f \in pending.checked : settings[f] = pending.settings[f]

Drop(q, n) == SubSeq(q, n + 1, Len(q))

(* How an operation left the queue: "confirmed", "satisfied", "abandoned", *)
(* "placed" or "dropped"; shown says whether the snapshot at hand held the *)
(* values the operation names.                                             *)
Retired(op, how, settings) ==
    [op |-> op, how |-> how, shown |-> Satisfied(settings, op.set), conn |-> conn]

Retire(n, how, settings) ==
    done' = done \o [i \in 1..n |-> Retired(queue[i], how, settings)]

DropAll ==
    done' = done \o [i \in 1..Len(queue) |->
                        [op |-> queue[i], how |-> "dropped", shown |-> FALSE, conn |-> conn]]

-----------------------------------------------------------------------------
Init ==
    /\ pc = "poll"
    /\ cmds = <<>>
    /\ ready = FALSE
    /\ view = NoSettings
    /\ queue = <<>>
    /\ waiting = FALSE
    /\ overdue = FALSE
    /\ pending = NoPending
    /\ attempts = 0
    /\ core \in FirstSettings
    /\ dirty = FALSE
    /\ slot = NoPacket
    /\ retained = NoSettings
    /\ updated = FALSE
    /\ conn = 0
    /\ issued = 0
    /\ rewrites = 0
    /\ nextOp = 1
    /\ done = <<>>

-----------------------------------------------------------------------------
(* The UI threads queue commands.  `late` is the verdict stale.rs will     *)
(* give: queued before the connection became operational, or too old.      *)
(* `at` is history: the connection episode the trader clicked in, 0 when   *)
(* the connection was not operational.                                     *)

Command(kind, m, order) ==
    [kind |-> kind, set |-> m, order |-> order, late |-> FALSE,
     at |-> IF ready THEN conn ELSE 0]

NoOrder == [sync |-> FALSE, bare |-> FALSE]

UiSend(cmd) ==
    /\ issued < MaxCommands
    /\ issued' = issued + 1
    /\ cmds' = Append(cmds, cmd)
    /\ UNCHANGED <<pc, ready, view, seqVars, coreVars, conn, rewrites, nextOp, done>>

Asked(m) ==
    \/ \E i \in DOMAIN cmds  : cmds[i].set = m
    \/ \E i \in DOMAIN queue : queue[i].set = m
    \/ \E i \in DOMAIN done  : done[i].op.set = m

UiEdit == \E m \in Edits \cup Exits :
    /\ Asked(m) => Reuse
    /\ UiSend(Command("edit", m, NoOrder))
UiTempEdit == \E m \in TempEdits :
    /\ Asked(m) => Reuse
    /\ UiSend(Command("temp", m, NoOrder))
UiOrder ==
    \E exit \in Exits, order \in Orders : UiSend(Command("order", exit, order))

(* A queued command outlives LIVE_TTL. *)
CommandAges ==
    /\ \E i \in DOMAIN cmds :
          /\ ~cmds[i].late
          /\ cmds[i].kind # "edit"
          /\ cmds' = [cmds EXCEPT ![i].late = TRUE]
    /\ UNCHANGED <<pc, ready, view, seqVars, coreVars, countVars, nextOp, done>>

-----------------------------------------------------------------------------
(* drain_commands: one command at a time, then drive. *)

(* is_live_action and staleness *)
Stale(cmd) == cmd.kind # "edit" /\ (~ready \/ cmd.late)

(* enqueue_edit, enqueue_blacklist, enqueue_group_exit,                    *)
(* enqueue_temp_blacklist                                                  *)
EnqueueMutation(m) ==
    /\ queue' = Append(queue, MutationOp(nextOp, m))
    /\ nextOp' = nextOp + 1

(* enqueue_order: the exit generation and the manual switch, when the      *)
(* order reads them, then the order.                                       *)
Generation(cmd) ==
    IF ~cmd.order.sync THEN <<>>
    ELSE IF cmd.order.bare
           THEN <<MutationOp(nextOp, cmd.set), MutationOp(nextOp + 1, ManualOff)>>
           ELSE <<MutationOp(nextOp, cmd.set)>>

EnqueueOrder(cmd) ==
    LET gen   == Generation(cmd)
        n     == nextOp + Len(gen)
        ahead == Cardinality({i \in DOMAIN queue : IsMutation(queue[i])}) + Len(gen)
    IN  /\ queue' = queue \o gen \o <<OrderOp(n, cmd.set, cmd.order.sync, ahead, cmd.at)>>
        /\ nextOp' = n + 1

TakeCommand ==
    /\ pc \in {"poll", "drain"}
    /\ cmds # <<>>
    /\ LET cmd == Head(cmds) IN
         \/ /\ Stale(cmd)
            /\ UNCHANGED <<queue, nextOp>>
         \/ /\ ~Stale(cmd)
            /\ cmd.kind \in {"edit", "temp"}
            /\ EnqueueMutation(cmd.set)
         \/ /\ ~Stale(cmd)
            /\ cmd.kind = "order"
            /\ EnqueueOrder(cmd)
    /\ cmds' = Tail(cmds)
    /\ pc' = "drain"
    /\ UNCHANGED <<ready, view, waiting, overdue, pending, attempts, coreVars,
                   countVars, done>>

-----------------------------------------------------------------------------
(* drive(), up to the loop of next_action(): one action per way it starts. *)

MayDrive == pc \in {"poll", "drain", "drive"}

(* No retained snapshot: return. *)
DriveNoSnapshot ==
    /\ MayDrive
    /\ retained = NoSettings
    /\ pc' = "poll"
    /\ UNCHANGED <<cmds, ready, view, seqVars, coreVars, countVars, nextOp, done>>

(* The echo may still come: Idle. *)
DriveBlocked ==
    /\ MayDrive
    /\ retained # NoSettings
    /\ waiting /\ ~overdue
    /\ pc' = "poll"
    /\ UNCHANGED <<cmds, ready, view, seqVars, coreVars, countVars, nextOp, done>>

DriveStart ==
    /\ MayDrive
    /\ retained # NoSettings
    /\ view' = retained
    /\ pc' = "settle"
    /\ pending' = NoPending
    /\ UNCHANGED <<cmds, ready, coreVars, countVars, nextOp>>

(* Mutant of DriveExpired: a silent echo is forgiven, as by a reconnect. *)
DriveExpiredUncharged ==
    /\ DriveStart
    /\ waiting /\ overdue
    /\ waiting' = FALSE
    /\ overdue' = FALSE
    /\ attempts' = 0
    /\ UNCHANGED <<queue, done>>

(* Mutant of DriveExpired: the deadline alone does not release the wait. *)
DriveExpiredNeedsEvent ==
    /\ DriveStart
    /\ waiting /\ overdue /\ updated
    /\ waiting' = FALSE
    /\ overdue' = FALSE
    /\ UNCHANGED <<queue, attempts, done>>

(* ECHO_TIMEOUT: the confirmation is given up, the send stays charged. *)
DriveExpired ==
    /\ DriveStart
    /\ waiting /\ overdue
    /\ waiting' = FALSE
    /\ overdue' = FALSE
    /\ UNCHANGED <<queue, attempts, done>>

(* The echo carries what the packet asked for: its mutations are done. *)
DriveConfirmed ==
    /\ DriveStart
    /\ ~waiting
    /\ pending # NoPending
    /\ EchoMatches(retained)
    /\ queue' = Drop(queue, pending.count)
    /\ Retire(pending.count, "confirmed", retained)
    /\ attempts' = 0
    /\ UNCHANGED <<waiting, overdue>>

(* It does not, or nothing was sent: the loop judges the head alone. *)
DriveUnconfirmed ==
    /\ DriveStart
    /\ ~waiting
    /\ pending # NoPending => ~EchoMatches(retained)
    /\ UNCHANGED <<queue, waiting, overdue, attempts, done>>

-----------------------------------------------------------------------------
(* The loop of next_action() and the match of drive(), against `view`. *)

AtMutation == pc = "settle" /\ queue # <<>> /\ IsMutation(Head(queue))
AtOrder    == pc = "settle" /\ queue # <<>> /\ IsOrder(Head(queue))

DriveReturns == pc' = "poll" /\ view' = NoSettings

(* Mutant of RetireSatisfied: the next head inherits the budget spent. *)
RetireSatisfiedKeepsBudget ==
    /\ AtMutation
    /\ Satisfied(view, Head(queue).set)
    /\ queue' = Tail(queue)
    /\ Retire(1, "satisfied", view)
    /\ UNCHANGED <<loopVars, waiting, overdue, pending, attempts, coreVars,
                   countVars, nextOp>>

RetireSatisfied ==
    /\ AtMutation
    /\ Satisfied(view, Head(queue).set)
    /\ queue' = Tail(queue)
    /\ attempts' = 0
    /\ Retire(1, "satisfied", view)
    /\ UNCHANGED <<loopVars, waiting, overdue, pending, coreVars, countVars, nextOp>>

Abandon ==
    /\ AtMutation
    /\ ~Satisfied(view, Head(queue).set)
    /\ attempts >= MaxAttempts
    /\ queue' = Tail(queue)
    /\ attempts' = 0
    /\ Retire(1, "abandoned", view)
    /\ UNCHANGED <<loopVars, waiting, overdue, pending, coreVars, countVars, nextOp>>

(* Mutant of MustSend: one packet more than MAX_EXIT_ATTEMPTS. *)
MustSendOnceMore ==
    /\ AtMutation
    /\ ~Satisfied(view, Head(queue).set)
    /\ attempts <= MaxAttempts

MustSend ==
    /\ AtMutation
    /\ ~Satisfied(view, Head(queue).set)
    /\ attempts < MaxAttempts

(* The packet: every mutation before the first order, on top of the        *)
(* snapshot.  observe_send_success.                                        *)
Send ==
    /\ MustSend
    /\ \E n \in 1..Len(queue) :
         /\ IsPrefix(queue, n)
         /\ LET next == Apply(view, queue, n) IN
              /\ slot' = next
              /\ pending' = [settings |-> next, checked |-> Checked(queue, n), count |-> n]
         /\ queue' = [i \in DOMAIN queue |->
                        IF i <= n \/ IsOrder(queue[i])
                          THEN [queue[i] EXCEPT !.sends = @ + 1]
                          ELSE queue[i]]
    /\ waiting' = TRUE
    /\ overdue' = FALSE
    /\ attempts' = attempts + 1
    /\ DriveReturns
    /\ UNCHANGED <<cmds, ready, core, dirty, retained, updated, countVars,
                   nextOp, done>>

(* MoonProto refuses the packet: logged, nothing charged. *)
SendFails ==
    /\ MustSend
    /\ DriveReturns
    /\ UNCHANGED <<cmds, ready, seqVars, coreVars, countVars, nextOp, done>>

PlaceOrder ==
    /\ AtOrder
    /\ queue' = Tail(queue)
    /\ Retire(1, "placed", view)
    /\ UNCHANGED <<loopVars, waiting, overdue, pending, attempts, coreVars,
                   countVars, nextOp>>

DriveDone ==
    /\ pc = "settle"
    /\ queue = <<>>
    /\ DriveReturns
    /\ UNCHANGED <<cmds, ready, seqVars, coreVars, countVars, nextOp, done>>

-----------------------------------------------------------------------------
(* The rest of an iteration: lifecycle events and settings echoes. *)

(* ClientSettingsUpdated: observe_update, then drive. *)
ClientSettingsUpdated ==
    /\ pc = "poll"
    /\ updated
    /\ updated' = FALSE
    /\ waiting' = FALSE
    /\ overdue' = FALSE
    /\ pc' = "drive"
    /\ UNCHANGED <<cmds, ready, view, queue, pending, attempts, core, dirty, slot,
                   retained, countVars, nextOp, done>>

(* Mutant of BecomeReady: a resumed connection keeps its old ready_since. *)
BecomeReadyOldSince ==
    /\ pc = "poll"
    /\ ~ready
    /\ ready' = TRUE
    /\ conn < MaxConn
    /\ conn' = conn + 1
    /\ dirty' = TRUE
    /\ UNCHANGED <<pc, cmds, view, seqVars, core, slot, retained, updated, issued,
                   rewrites, nextOp, done>>

(* Ready, or Connected after init: everything queued so far is older than  *)
(* ready_since.  The core publishes its settings on a new connection.      *)
BecomeReady ==
    /\ pc = "poll"
    /\ ~ready
    /\ ready' = TRUE
    /\ conn < MaxConn
    /\ conn' = conn + 1
    /\ cmds' = [i \in DOMAIN cmds |-> [cmds[i] EXCEPT !.late = TRUE]]
    /\ dirty' = TRUE
    /\ UNCHANGED <<pc, view, seqVars, core, slot, retained, updated, issued, rewrites,
                   nextOp, done>>

(* Mutant of PrepareReconnect: the awaited confirmation survives. *)
PrepareReconnectKeepsPending ==
    /\ queue' = <<>>
    /\ waiting' = FALSE
    /\ overdue' = FALSE
    /\ attempts' = 0
    /\ DropAll
    /\ UNCHANGED pending

(* prepare_reconnect *)
PrepareReconnect ==
    /\ queue' = <<>>
    /\ waiting' = FALSE
    /\ overdue' = FALSE
    /\ pending' = NoPending
    /\ attempts' = 0
    /\ DropAll

(* A lifecycle event that is not Ready ends the episode:                   *)
(* drop_lost_connection.                                                   *)
LoseConnection ==
    /\ pc = "poll"
    /\ ready
    /\ ready' = FALSE
    /\ PrepareReconnect
    /\ UNCHANGED <<pc, cmds, view, coreVars, countVars, nextOp>>

(* Another process answers on the address: forget_queue, and the           *)
(* transition to not ready.  MoonProto keeps its retained settings.        *)
ServerRestart ==
    /\ pc = "poll"
    /\ ready' = FALSE
    /\ PrepareReconnect
    /\ core' \in FirstSettings
    /\ UNCHANGED <<pc, cmds, view, dirty, slot, retained, updated, countVars, nextOp>>

(* run() failed and the reconnect loop of feed::spawn starts another with  *)
(* a new MoonClient: drop_lost_connection.                                 *)
NewRun ==
    /\ pc = "poll"
    /\ ~ready
    /\ PrepareReconnect
    /\ slot' = NoPacket
    /\ dirty' = FALSE
    /\ retained' = NoSettings
    /\ updated' = FALSE
    /\ UNCHANGED <<pc, cmds, ready, view, core, countVars, nextOp>>

EchoDeadline ==
    /\ waiting /\ ~overdue
    /\ overdue' = TRUE
    /\ UNCHANGED <<loopVars, queue, waiting, pending, attempts, coreVars, countVars,
                   nextOp, done>>

-----------------------------------------------------------------------------
(* The core and MoonProto. *)

(* The core takes a packet; it may keep its own value of a field it owns.  *)
CoreTakes ==
    /\ ready
    /\ slot # NoPacket
    /\ \E kept \in SUBSET CoreOwned :
         core' = [f \in Fields |-> IF f \in kept THEN core[f] ELSE slot[f]]
    /\ slot' = NoPacket
    /\ dirty' = TRUE
    /\ UNCHANGED <<loopVars, seqVars, retained, updated, countVars, nextOp, done>>

PacketLost ==
    /\ Lossy
    /\ slot # NoPacket
    /\ slot' = NoPacket
    /\ UNCHANGED <<loopVars, seqVars, core, dirty, retained, updated, countVars,
                   nextOp, done>>

CoreRewrites ==
    /\ rewrites < MaxRewrites
    /\ rewrites' = rewrites + 1
    /\ \E f \in CoreOwned, v \in Values :
         /\ v # core[f]
         /\ core' = [core EXCEPT ![f] = v]
    /\ dirty' = TRUE
    /\ UNCHANGED <<loopVars, seqVars, slot, retained, updated, conn, issued, nextOp,
                   done>>

(* The core's snapshot reaches MoonProto, with its event. *)
Publish ==
    /\ ready
    /\ dirty
    /\ dirty' = FALSE
    /\ retained' = core
    /\ updated' = TRUE
    /\ UNCHANGED <<loopVars, seqVars, core, slot, countVars, nextOp, done>>

-----------------------------------------------------------------------------
Drive ==
    \/ DriveNoSnapshot \/ DriveBlocked \/ DriveExpired
    \/ DriveConfirmed \/ DriveUnconfirmed
Settle ==
    \/ RetireSatisfied \/ Abandon \/ Send \/ SendFails \/ PlaceOrder \/ DriveDone
Lifecycle == BecomeReady \/ LoseConnection \/ ServerRestart \/ NewRun
Environment ==
    \/ UiEdit \/ UiTempEdit \/ UiOrder \/ CommandAges \/ EchoDeadline
    \/ CoreTakes \/ PacketLost \/ CoreRewrites \/ Publish

Next == TakeCommand \/ Drive \/ Settle \/ ClientSettingsUpdated \/ Lifecycle \/ Environment

Spec == Init /\ [][Next]_vars

(* The loop never stops and calls drive on every iteration; a send that is *)
(* refused again and again is not refused forever; the echo deadline       *)
(* passes; the link delivers, or loses, what it holds; and the core        *)
(* publishes its settings on a connection.                                 *)
Fairness ==
    /\ WF_vars(TakeCommand)
    /\ WF_vars(Drive)
    /\ WF_vars(RetireSatisfied \/ Abandon \/ PlaceOrder \/ DriveDone)
    /\ WF_vars(Send \/ SendFails)
    /\ SF_vars(Send)
    /\ WF_vars(EchoDeadline)
    /\ WF_vars(Publish)

FairSpec == Spec /\ Fairness

-----------------------------------------------------------------------------
(* Properties. *)

Cmd == [kind : {"edit", "temp", "order"}, set : Mutation,
        order : [sync : BOOLEAN, bare : BOOLEAN], late : BOOLEAN, at : Nat]

DoneOp == [op : Op, how : {"confirmed", "satisfied", "abandoned", "placed", "dropped"},
           shown : BOOLEAN, conn : Nat]

TypeOK ==
    /\ pc \in {"poll", "drain", "drive", "settle"}
    /\ cmds \in Seq(Cmd)
    /\ ready \in BOOLEAN
    /\ view \in Settings \cup {NoSettings}
    /\ (pc = "settle") <=> (view # NoSettings)
    /\ queue \in Seq(Op)
    /\ waiting \in BOOLEAN
    /\ overdue \in BOOLEAN
    /\ pending \in Expectation \cup {NoPending}
    /\ attempts \in 0..MaxAttempts
    /\ core \in Settings
    /\ dirty \in BOOLEAN
    /\ slot \in Settings \cup {NoPacket}
    /\ retained \in Settings \cup {NoSettings}
    /\ updated \in BOOLEAN
    /\ conn \in Nat
    /\ issued \in Nat
    /\ rewrites \in Nat
    /\ nextOp \in Nat
    /\ done \in Seq(DoneOp)

(* The packet whose echo is awaited still covers a run of mutations at the *)
(* head of the queue, and asked for what each of them names unless a later *)
(* one of the same run names it too.  next_action() pops mutation_count    *)
(* entries on the strength of it.                                          *)
PendingCoversPrefix ==
    pending # NoPending =>
        /\ pending.count \in 1..Len(queue)
        /\ \A i \in 1..pending.count :
             /\ IsMutation(queue[i])
             /\ \A f \in DOMAIN queue[i].set :
                  /\ f \in pending.checked
                  /\ \/ pending.settings[f] = queue[i].set[f]
                     \/ \E j \in (i + 1)..pending.count : f \in DOMAIN queue[j].set

(* The retry budget is the head's own: attempts counts packets that        *)
(* carried the mutation now at the head, and is spent on nothing else.     *)
BudgetIsHeads ==
    attempts > 0 =>
        /\ queue # <<>>
        /\ IsMutation(Head(queue))
        /\ attempts <= Head(queue).sends
        /\ attempts <= MaxAttempts

(* "Three attempts tell a lost packet from a value this core will not      *)
(* hold": a mutation is given up only after MaxAttempts packets of it.     *)
AbandonedAfterBudget ==
    \A i \in DOMAIN done :
        done[i].how = "abandoned" => done[i].op.sends >= MaxAttempts

(* "a later settings generation cannot overtake it": no packet carries a   *)
(* mutation queued behind an order that is still waiting.                  *)
NoOvertaking ==
    \A i, j \in DOMAIN queue :
        i < j /\ IsOrder(queue[i]) /\ IsMutation(queue[j]) => queue[j].sends = 0

(* An order is placed only on the connection the trader clicked on: the    *)
(* command channel, the queue and the retained snapshot all outlive a      *)
(* disconnect, and none carries an order across it.                        *)
NoStaleOrder ==
    \A i \in DOMAIN done :
        done[i].how = "placed" => done[i].op.at = done[i].conn

(* "The budget above is per mutation the order waits behind": that many    *)
(* packets, at most, go out between an order's click and its placement,    *)
(* whatever the core echoes and whatever is queued meanwhile.              *)
BoundedWait ==
    \A op \in {queue[i] : i \in DOMAIN queue} \cup {done[i].op : i \in DOMAIN done} :
        IsOrder(op) => op.sends <= MaxAttempts * op.ahead

(* When everything has settled on a link that lost nothing, the core holds *)
(* the last value the user asked for of every field that is the user's to  *)
(* set and whose edits were never given up, however echoes, deadlines,     *)
(* repeated packets and later clicks interleaved.                          *)
Settled ==
    ready /\ queue = <<>> /\ cmds = <<>> /\ slot = NoPacket /\ ~dirty /\ ~updated

AskedOf(f) == {i \in DOMAIN done : IsMutation(done[i].op) /\ f \in DOMAIN done[i].op.set}

LastWishHeld ==
    Settled =>
        \A f \in Fields \ CoreOwned : \A i \in AskedOf(f) :
            /\ \A j \in AskedOf(f) :
                 /\ j <= i
                 /\ done[j].how \in {"confirmed", "satisfied"}
                 /\ done[j].conn = conn
            => core[f] = done[i].op.set[f]

(* "The barrier exists so an order cannot go out under someone else's      *)
(* TP/SL": unless a mutation of its generation was given up, an order that *)
(* reads the exits is placed while the snapshot shows its own.             *)
OrderUnderItsExit ==
    \A i \in DOMAIN done :
        /\ done[i].how = "placed"
        /\ done[i].op.sync
        /\ \A j \in DOMAIN done :
             done[j].op.n \in {done[i].op.n - 2, done[i].op.n - 1}
                => done[j].how # "abandoned"
        => done[i].shown

(* No order waits forever behind an echo that never comes: it is placed,   *)
(* or dropped with its connection.                                         *)
EveryOrderLeaves ==
    \A n \in 1..(3 * MaxCommands) :
        (\E i \in DOMAIN queue : queue[i].n = n /\ IsOrder(queue[i]))
            ~> (\E i \in DOMAIN done : done[i].op.n = n)

(* The serializer implements the abstract barrier queue. *)
Barrier == INSTANCE OrderBarrier WITH
    MaxBatch <- 3,
    line <- [i \in DOMAIN queue |-> [n |-> queue[i].n, kind |-> queue[i].kind]],
    gone <- [i \in DOMAIN done |->
                [n |-> done[i].op.n, kind |-> done[i].op.kind,
                 how |-> IF done[i].how \in {"confirmed", "satisfied", "abandoned"}
                           THEN "settled" ELSE done[i].how]]

BarrierSpec == Barrier!Spec

=============================================================================
