------------------------ MODULE SharedConfigSequence ------------------------
(***************************************************************************)
(* The per-core serializer of complete safe-share configuration writes     *)
(* (feed/live/shared_config.rs) and its automation request, with the feed  *)
(* loop that drives it, the verdicts it publishes, and the connection and  *)
(* core it talks to.                                                       *)
(*                                                                         *)
(* A configuration page is a function from fields to values: settings, and *)
(* the membership of favourite markets.  An edit is a partial one: all the *)
(* settings of the areas its mask names, or one market.  Every packet is a *)
(* whole page: all queued edits, folded over the page MoonProto retains.   *)
(*                                                                         *)
(* The feed loop is one thread.  pc says where its iteration is: "drain"   *)
(* (commands), "lifecycle", "events" and "publish".  It calls drive() from *)
(* the first and the third; settling says that next_action() is in its     *)
(* loop.  The loop of next_action() works on a clone of the page and       *)
(* nothing it does is visible outside before it returns, so the            *)
(* environment moves only when settling is FALSE.                          *)
(***************************************************************************)
EXTENDS Naturals, Sequences, FiniteSets

CONSTANTS
    Settings,     \* the settings a FieldMask's areas hold
    Marks,        \* favourite markets
    Values,       \* values of a field
    Foreign,      \* values others than this terminal's user write
    FirstPages,   \* what a core process may hold when it is first seen
    Overlaid,     \* settings the compact channel writes too
    CoreOwned,    \* settings the core, or another terminal, rewrites itself
    PageEdits,    \* edits of a settings window or toolbar: masked projections
    MarkEdits,    \* one market marked or unmarked
    Patches,      \* automation patches
    MaxAttempts,  \* MAX_ATTEMPTS
    NoPage, NoPending, NoPacket, NoPatch,
    Lossy,        \* whether the link may lose a packet
    Refusing,     \* whether a send may be refused
    Listening,    \* whether the session is at the other end of the channel
    Racing,       \* whether a snapshot may arrive while its predecessor is handled
    Episodes,     \* what may happen to the connection: "outage", "restart", "run"
    MaxCommands,  \* bound: commands issued
    MaxEpisodes,  \* bound: connection losses, restarts and new runs
    MaxRewrites   \* bound: rewrites by the core, another terminal or the compact channel

Fields == Settings \cup Marks
Pages  == [Fields -> Values]
Partial == UNION {[D -> Values] : D \in SUBSET Fields}

ASSUME FieldsAssumption == Settings \cap Marks = {} /\ Overlaid \cup CoreOwned \subseteq Settings
ASSUME ForeignAssumption == Foreign \subseteq Values
ASSUME FirstAssumption == FirstPages \subseteq Pages
ASSUME EditsAssumption == PageEdits \cup MarkEdits \cup Patches \subseteq Partial
ASSUME ScopeAssumption ==
    /\ {Lossy, Refusing, Listening, Racing} \subseteq BOOLEAN
    /\ Episodes \subseteq {"outage", "restart", "run"}
ASSUME AttemptsAssumption == MaxAttempts \in Nat \ {0}
ASSUME NoneAssumption == NoPage \notin Pages /\ NoPacket \notin Pages
ASSUME BoundsAssumption == MaxCommands \in Nat /\ MaxEpisodes \in Nat /\ MaxRewrites \in Nat

VARIABLES
    pc, settling, \* where the feed loop is
    inbox,        \* the core's command channel
    ready,        \* the connection is operational
    queue,        \* SharedConfigSequence.queue
    waiting,      \* waiting_for_echo
    overdue,      \* sent_at is ECHO_TIMEOUT ago
    pending,      \* pending_confirmation
    auto,         \* SharedConfigSequence.automation
    batch,        \* core_config_events of this iteration
    wire,         \* messages the session has not applied yet
    idle,         \* ClientSettingsSequence::is_idle()
    core,         \* what the core holds
    dirty,        \* the core has still to publish its page
    slot,         \* the packet MoonProto has still to deliver
    full,         \* the last full snapshot MoonProto retains
    page,         \* build_shared_config(): full, overlaid with compact settings
    fresh,        \* a SharedConfigUpdated event is unread
    overlay,      \* a ClientSettingsUpdated event is unread
    issued,       \* history: commands issued
    process,      \* history: number of the core process
    episodes,     \* history: connection losses, restarts and new runs
    rewrites,     \* history: rewrites
    done,         \* history: edits that left the queue, in order
    answers       \* history: answers to automation requests, in order

loopVars == <<pc, settling, inbox, ready>>
seqVars  == <<queue, waiting, overdue, pending, auto>>
outVars  == <<batch, wire>>
linkVars == <<core, dirty, slot, full, page, fresh, overlay>>
histVars == <<issued, process, episodes, rewrites>>
vars == <<loopVars, seqVars, outVars, idle, linkVars, histVars, done, answers>>

-----------------------------------------------------------------------------
(* Edits.  n and process are history: the serial number, and the core      *)
(* process the user was looking at; sends counts every packet that carried *)
(* the edit.                                                               *)

Entry(cmd) == [n |-> cmd.n, set |-> cmd.set, process |-> cmd.process,
               attempts |-> 0, sends |-> 0]
Entries == [n : Nat, set : Partial, process : Nat, attempts : 0..MaxAttempts, sends : Nat]

(* agrees_within, edit_satisfied, rejection_within_mask and fav_met *)
Agrees(p, set) == \A f \in DOMAIN set : p[f] = set[f]

(* Mutant of Fold: the entries are applied over each other in reverse. *)
FoldEarliest(p, q) ==
    [f \in Fields |->
        LET writers == {i \in DOMAIN q : f \in DOMAIN q[i].set}
        IN  IF writers = {}
              THEN p[f]
              ELSE q[CHOOSE i \in writers : \A j \in writers : i <= j].set[f]]

(* apply_core_config and fav_markets_set, entry after entry. *)
Fold(p, q) ==
    [f \in Fields |->
        LET writers == {i \in DOMAIN q : f \in DOMAIN q[i].set}
        IN  IF writers = {}
              THEN p[f]
              ELSE q[CHOOSE i \in writers : \A j \in writers : j <= i].set[f]]

Named(q) == UNION {DOMAIN q[i].set : i \in DOMAIN q}

(* SentAsk: what the packet asks for, in the fields its edits name. *)
Ask(p, q) == [want |-> [f \in Named(q) |-> Fold(p, q)[f]], count |-> Len(q)]
Asks == [want : Partial, count : Nat]

Drop(q, n) == SubSeq(q, n + 1, Len(q))

Gone(entry, how) == [entry |-> entry, how |-> how]

(* CoreConfigEditEvent and the messages of the session's channel that      *)
(* concern the page.                                                       *)
Submitted(set) == [kind |-> "submitted", set |-> set]
Verdict(kind)  == [kind |-> kind, set |-> <<>>]
Refusals == {"notapplied", "gaveup"}
Announced(verdicts) == \E i \in DOMAIN batch : batch[i].kind \in verdicts

Init ==
    /\ pc = "drain" /\ settling = FALSE
    /\ inbox = <<>>
    /\ ready = FALSE
    /\ queue = <<>> /\ waiting = FALSE /\ overdue = FALSE
    /\ pending = NoPending /\ auto = NoPatch
    /\ batch = <<>> /\ wire = <<>>
    /\ idle = TRUE
    /\ core \in FirstPages /\ dirty = FALSE /\ slot = NoPacket
    /\ full = NoPage /\ page = NoPage /\ fresh = FALSE /\ overlay = FALSE
    /\ issued = 0 /\ process = 0 /\ episodes = 0 /\ rewrites = 0
    /\ done = <<>> /\ answers = <<>>

-----------------------------------------------------------------------------
(* The windows send edits, the automation server sends patches. *)

UiSend(kind, set) ==
    /\ ~settling
    /\ issued < MaxCommands
    /\ issued' = issued + 1
    /\ inbox' = Append(inbox, [kind |-> kind, n |-> issued + 1, set |-> set,
                               process |-> process])
    /\ UNCHANGED <<pc, settling, ready, seqVars, outVars, idle, linkVars, process,
                   episodes, rewrites, done, answers>>

UiEdit  == \E set \in PageEdits : UiSend("edit", set)
UiMark  == \E set \in MarkEdits : UiSend("edit", set)
UiPatch == \E set \in Patches : UiSend("patch", set)

-----------------------------------------------------------------------------
(* drain_commands *)

Draining(kind) ==
    /\ pc = "drain" /\ ~settling
    /\ inbox # <<>>
    /\ Head(inbox).kind = kind
    /\ inbox' = Tail(inbox)

(* enqueue and enqueue_fav_market *)
TakeEdit ==
    /\ Draining("edit")
    /\ queue' = Append(queue, Entry(Head(inbox)))
    /\ UNCHANGED <<pc, settling, ready, waiting, overdue, pending, auto, outVars, idle,
                   linkVars, histVars, done, answers>>

(* answered is history: a full snapshot arrived after the packet left.     *)
Answer(n, status, answered) ==
    answers' = Append(answers, [n |-> n, status |-> status, answered |-> answered])

(* Mutant of WriterFree: neither a queued edit nor an awaited echo counts. *)
WriterFreeCompactOnly == idle /\ auto = NoPatch

(* The writer is free: submit_automation's first condition. *)
WriterFree == idle /\ queue = <<>> /\ ~waiting /\ pending = NoPending /\ auto = NoPatch

(* Refused with a reason: stale, writer busy, no page, changed since its   *)
(* preview, or the send failed.                                            *)
PatchRefused ==
    /\ Draining("patch")
    /\ Answer(Head(inbox).n, "refused", FALSE)
    /\ UNCHANGED <<pc, settling, ready, seqVars, outVars, idle, linkVars, histVars, done>>

PatchAlready ==
    /\ Draining("patch")
    /\ ready /\ WriterFree /\ page # NoPage
    /\ Agrees(page, Head(inbox).set)
    /\ Answer(Head(inbox).n, "already", FALSE)
    /\ UNCHANGED <<pc, settling, ready, seqVars, outVars, idle, linkVars, histVars, done>>

PatchSubmitted ==
    /\ Draining("patch")
    /\ ready /\ WriterFree /\ page # NoPage
    /\ ~Agrees(page, Head(inbox).set)
    /\ slot' = Fold(page, <<Head(inbox)>>)
    /\ Answer(Head(inbox).n, "submitted", FALSE)
    /\ auto' = [n |-> Head(inbox).n, want |-> Head(inbox).set, updated |-> FALSE,
                late |-> FALSE, answered |-> FALSE]
    /\ UNCHANGED <<pc, settling, ready, queue, waiting, overdue, pending, outVars, idle,
                   core, dirty, full, page, fresh, overlay, histVars, done>>

-----------------------------------------------------------------------------
(* drive(), up to the loop of next_action(): from drain_commands, and      *)
(* after a configuration event.                                            *)

MayDrive == pc \in {"drain", "echo"} /\ ~settling
Returns  == pc' = IF pc = "drain" THEN "lifecycle" ELSE "publish"

(* The compact channel is not idle. *)
DriveGated ==
    /\ MayDrive
    /\ ~idle /\ auto = NoPatch
    /\ Returns
    /\ UNCHANGED <<settling, inbox, ready, seqVars, outVars, idle, linkVars, histVars,
                   done, answers>>

(* drive_automation and observe_automation *)
(* Mutant of PatchEchoed: any full snapshot confirms. *)
PatchEchoedUnread == auto.updated

PatchEchoed == auto.updated /\ Agrees(full, auto.want)

DriveAutomation ==
    /\ MayDrive
    /\ auto # NoPatch
    /\ \/ /\ PatchEchoed
          /\ auto' = NoPatch
          /\ Answer(auto.n, "confirmed", auto.answered)
       \/ /\ ~PatchEchoed /\ auto.late
          /\ auto' = NoPatch
          /\ Answer(auto.n, "unknown", auto.answered)
       \/ /\ ~PatchEchoed /\ ~auto.late
          /\ auto' = [auto EXCEPT !.updated = FALSE]
          /\ UNCHANGED answers
    /\ Returns
    /\ UNCHANGED <<settling, inbox, ready, queue, waiting, overdue, pending, outVars,
                   idle, linkVars, histVars, done>>

MayPlan == MayDrive /\ idle /\ auto = NoPatch /\ queue # <<>>

(* Nothing queued, or the echo may still come. *)
DriveNothing ==
    /\ MayDrive
    /\ idle /\ auto = NoPatch
    /\ queue = <<>> \/ (waiting /\ ~overdue)
    /\ Returns
    /\ UNCHANGED <<settling, inbox, ready, seqVars, outVars, idle, linkVars, histVars,
                   done, answers>>

(* No base to write onto; an expired wait is over all the same. *)
DriveNoPage ==
    /\ MayPlan
    /\ waiting => overdue
    /\ page = NoPage
    /\ waiting' = FALSE /\ overdue' = FALSE
    /\ pending' = IF waiting THEN NoPending ELSE pending
    /\ Returns
    /\ UNCHANGED <<settling, inbox, ready, queue, auto, outVars, idle, linkVars, histVars,
                   done, answers>>

DriveStart ==
    /\ MayPlan
    /\ page # NoPage
    /\ settling' = TRUE
    /\ pending' = NoPending
    /\ waiting' = FALSE /\ overdue' = FALSE
    /\ UNCHANGED <<pc, inbox, ready, auto, wire, idle, linkVars, histVars, answers>>

(* observe_echo_timeout: the confirmation is given up with the wait. *)
DriveTimedOut ==
    /\ DriveStart
    /\ waiting /\ overdue
    /\ UNCHANGED <<queue, batch, done>>

EchoMatches == Agrees(page, pending.want)

DriveConfirmed ==
    /\ DriveStart
    /\ ~waiting
    /\ pending # NoPending
    /\ EchoMatches
    /\ queue' = Drop(queue, pending.count)
    /\ done' = done \o [i \in 1..pending.count |-> Gone(queue[i], "confirmed")]
    /\ batch' = Append(batch, Verdict("confirmed"))

DriveContradicted ==
    /\ DriveStart
    /\ ~waiting
    /\ pending # NoPending
    /\ ~EchoMatches
    /\ batch' = Append(batch, Verdict("notapplied"))
    /\ UNCHANGED <<queue, done>>

DrivePlan ==
    /\ DriveStart
    /\ ~waiting
    /\ pending = NoPending
    /\ UNCHANGED <<queue, batch, done>>

-----------------------------------------------------------------------------
(* The loop of next_action() and the match of drive(). *)

AtHead == settling /\ queue # <<>>
Stays  == UNCHANGED <<loopVars, waiting, overdue, pending, auto, wire, idle, linkVars,
                      histVars, answers>>

(* Mutant of AfterSatisfied: an edit the core already holds is dropped     *)
(* without a word.                                                         *)
AfterSatisfiedQuiet == batch

(* A refusal in this iteration is not overwritten by another's success.    *)
AfterSatisfied ==
    IF Announced(Refusals) THEN batch ELSE Append(batch, Verdict("confirmed"))

DropSatisfied ==
    /\ AtHead
    /\ Agrees(page, Head(queue).set)
    /\ queue' = Tail(queue)
    /\ done' = Append(done, Gone(Head(queue), "satisfied"))
    /\ batch' = AfterSatisfied
    /\ Stays

(* Mutant of GiveUp: the budget is off by one. *)
GiveUpEarly ==
    /\ AtHead
    /\ ~Agrees(page, Head(queue).set)
    /\ Head(queue).attempts + 1 >= MaxAttempts
    /\ queue' = Tail(queue)
    /\ done' = Append(done, Gone(Head(queue), "gaveup"))
    /\ batch' = Append(batch, Verdict("gaveup"))
    /\ Stays

GiveUp ==
    /\ AtHead
    /\ ~Agrees(page, Head(queue).set)
    /\ Head(queue).attempts >= MaxAttempts
    /\ queue' = Tail(queue)
    /\ done' = Append(done, Gone(Head(queue), "gaveup"))
    /\ batch' = Append(batch, Verdict("gaveup"))
    /\ Stays

(* Mutant of MustSend: the budget is off by one. *)
MustSendOnceMore ==
    /\ AtHead
    /\ ~Agrees(page, Head(queue).set)
    /\ Head(queue).attempts <= MaxAttempts
    /\ settling' = FALSE
    /\ Returns
    /\ UNCHANGED <<inbox, ready, auto, wire, idle, core, dirty, full, page, fresh, overlay,
                   histVars, done, answers>>

MustSend ==
    /\ AtHead
    /\ ~Agrees(page, Head(queue).set)
    /\ Head(queue).attempts < MaxAttempts
    /\ settling' = FALSE
    /\ Returns
    /\ UNCHANGED <<inbox, ready, auto, wire, idle, core, dirty, full, page, fresh, overlay,
                   histVars, done, answers>>

(* Mutant of Charged: a packet that left is not charged. *)
ChargedNever(entry) == entry

(* charge_attempts: every entry the packet carries, sent or refused. *)
Charged(entry) == [entry EXCEPT !.attempts = @ + 1, !.sends = @ + 1]

Announcement == Submitted([f \in Named(queue) \cap Settings |-> Fold(page, queue)[f]])

AfterSend == Append(batch, Announcement)

(* observe_send_success *)
Send ==
    /\ MustSend
    /\ slot' = Fold(page, queue)
    /\ queue' = [i \in DOMAIN queue |-> Charged(queue[i])]
    /\ waiting' = TRUE /\ overdue' = FALSE
    /\ pending' = Ask(page, queue)
    /\ batch' = AfterSend

SendFails ==
    /\ Refusing
    /\ MustSend
    /\ queue' = [i \in DOMAIN queue |-> Charged(queue[i])]
    /\ UNCHANGED <<waiting, overdue, pending, batch, slot>>

Drained ==
    /\ settling
    /\ queue = <<>>
    /\ batch' = Append(batch, Verdict("drained"))
    /\ settling' = FALSE
    /\ Returns
    /\ UNCHANGED <<inbox, ready, seqVars, wire, idle, linkVars, histVars, done, answers>>

-----------------------------------------------------------------------------
(* Lifecycle events. *)

Post(messages) == wire' = IF Listening THEN wire \o messages ELSE wire
Tell(kinds) == Post([i \in DOMAIN kinds |-> Verdict(kinds[i])])

(* Mutant of CancelAutomation: the request is answered and observed on. *)
CancelAutomationKeepsObserving ==
    /\ UNCHANGED auto
    /\ IF auto = NoPatch THEN UNCHANGED answers
                         ELSE Answer(auto.n, "unknown", auto.answered)

(* cancel_automation *)
CancelAutomation ==
    /\ auto' = NoPatch
    /\ IF auto = NoPatch THEN UNCHANGED answers
                         ELSE Answer(auto.n, "unknown", auto.answered)

Lifecycle == pc = "lifecycle" /\ pc' = "events" /\ UNCHANGED <<settling, inbox>>
Episode(kind) ==
    /\ kind \in Episodes
    /\ episodes < MaxEpisodes
    /\ episodes' = episodes + 1

NoLifecycleEvent ==
    /\ Lifecycle
    /\ UNCHANGED <<ready, seqVars, outVars, idle, linkVars, histVars, done, answers>>

(* The connection is operational.  MoonProto asks for the page of a first  *)
(* connection; after a reconnect an open window may ask (ask_for_page).    *)
BecomeReady ==
    /\ Lifecycle
    /\ ~ready
    /\ ready' = TRUE
    /\ \E asked \in BOOLEAN : dirty' = (dirty \/ full = NoPage \/ asked)
    /\ Tell(<<"up">>)
    /\ UNCHANGED <<seqVars, batch, idle, core, slot, full, page, fresh, overlay, histVars,
                   done, answers>>

(* An outage inside the run: the queue and the awaited packet stay. *)
LoseConnection ==
    /\ Lifecycle /\ Episode("outage")
    /\ ready
    /\ ready' = FALSE
    /\ CancelAutomation
    /\ Tell(<<"down">>)
    /\ UNCHANGED <<queue, waiting, overdue, pending, batch, idle, linkVars, issued,
                   process, rewrites, done>>

(* Mutant of Forget: the awaited confirmation stays. *)
ForgetKeepsPending == UNCHANGED pending

Forget == pending' = NoPending

(* Another process answers: forget_queue.  MoonProto keeps its page. *)
ServerRestart ==
    /\ Lifecycle /\ Episode("restart")
    /\ ready' = FALSE
    /\ CancelAutomation
    /\ queue' = <<>> /\ waiting' = FALSE /\ overdue' = FALSE /\ Forget
    /\ done' = done \o [i \in DOMAIN queue |-> Gone(queue[i], "forgotten")]
    /\ Tell(<<"forgotten", "down">>)
    /\ core' \in FirstPages
    /\ process' = process + 1
    /\ UNCHANGED <<batch, idle, dirty, slot, full, page, fresh, overlay, issued,
                   rewrites>>

FreshBudget(i) == [queue[i] EXCEPT !.attempts = 0]

(* run() failed: its batch is lost, the next run has a new MoonClient.     *)
(* prepare_reconnect; drop_lost_connection empties the compact queue.      *)
NewRun ==
    /\ pc = "lifecycle" /\ pc' = "drain"
    /\ Episode("run")
    /\ ~ready
    /\ CancelAutomation
    /\ waiting' = FALSE /\ overdue' = FALSE /\ pending' = NoPending
    /\ queue' = [i \in DOMAIN queue |-> FreshBudget(i)]
    /\ batch' = <<>>
    /\ Tell(<<"down">>)
    /\ idle' = TRUE
    /\ dirty' = FALSE /\ slot' = NoPacket
    /\ full' = NoPage /\ page' = NoPage /\ fresh' = FALSE /\ overlay' = FALSE
    /\ UNCHANGED <<settling, inbox, ready, core, issued, process, rewrites, done>>

-----------------------------------------------------------------------------
(* Settings events: the page is published again, and only a full snapshot  *)
(* lifts the wait (observe_update); then drive.                            *)

ConfigEvents ==
    /\ pc = "events"
    /\ fresh \/ overlay
    /\ page # NoPage
    /\ Post(<<[kind |-> IF fresh THEN "page" ELSE "overlay", set |-> page]>>)
    /\ waiting' = (waiting /\ ~fresh)
    /\ overdue' = (overdue /\ ~fresh)
    /\ auto' = IF fresh /\ auto # NoPatch THEN [auto EXCEPT !.updated = TRUE] ELSE auto
    /\ fresh' = FALSE /\ overlay' = FALSE
    /\ pc' = "echo"
    /\ UNCHANGED <<settling, inbox, ready, queue, pending, batch, idle, core, dirty, slot,
                   full, page, histVars, done, answers>>

NoConfigEvents ==
    /\ pc = "events"
    /\ ~(fresh \/ overlay) \/ page = NoPage
    /\ overlay' = FALSE
    /\ pc' = "publish"
    /\ UNCHANGED <<settling, inbox, ready, seqVars, outVars, idle, core, dirty, slot, full,
                   page, fresh, histVars, done, answers>>

(* send_core_config_events *)
Publish ==
    /\ pc = "publish"
    /\ Post(batch)
    /\ batch' = <<>>
    /\ pc' = "drain"
    /\ UNCHANGED <<settling, inbox, ready, seqVars, idle, linkVars, histVars, done, answers>>

-----------------------------------------------------------------------------
(* Around the loop: its clocks, the session, the compact channel, the      *)
(* core and MoonProto.                                                     *)

EchoDeadline ==
    /\ ~settling /\ waiting /\ ~overdue
    /\ overdue' = TRUE
    /\ UNCHANGED <<loopVars, queue, waiting, pending, auto, outVars, idle, linkVars,
                   histVars, done, answers>>

PatchDeadline ==
    /\ ~settling /\ auto # NoPatch /\ ~auto.late
    /\ auto' = [auto EXCEPT !.late = TRUE]
    /\ UNCHANGED <<loopVars, queue, waiting, overdue, pending, outVars, idle, linkVars,
                   histVars, done, answers>>

(* The compact channel queues a write; it is echoed, or given up. *)
CompactWrites ==
    /\ ~settling /\ idle /\ Overlaid # {}
    /\ rewrites < MaxRewrites
    /\ rewrites' = rewrites + 1
    /\ idle' = FALSE
    /\ UNCHANGED <<loopVars, seqVars, outVars, linkVars, issued, process, episodes,
                   done, answers>>

CompactEchoed ==
    /\ ~settling /\ ~idle /\ ready
    /\ \E written \in [Overlaid -> Foreign] :
         /\ core' = [f \in Fields |-> IF f \in Overlaid THEN written[f] ELSE core[f]]
         /\ page' = IF page = NoPage THEN NoPage
                    ELSE [f \in Fields |-> IF f \in Overlaid THEN written[f] ELSE page[f]]
    /\ overlay' = TRUE /\ dirty' = TRUE
    /\ idle' = TRUE
    /\ UNCHANGED <<loopVars, seqVars, outVars, slot, full, fresh, histVars, done, answers>>

CompactGivesUp ==
    /\ ~settling /\ ~idle
    /\ idle' = TRUE
    /\ UNCHANGED <<loopVars, seqVars, outVars, linkVars, histVars, done, answers>>

(* The core takes a packet; it may keep its own value of a field it owns.  *)
CoreTakes ==
    /\ ~settling /\ ready
    /\ slot # NoPacket
    /\ \E kept \in SUBSET CoreOwned :
         core' = [f \in Fields |-> IF f \in kept THEN core[f] ELSE slot[f]]
    /\ slot' = NoPacket
    /\ dirty' = TRUE
    /\ UNCHANGED <<loopVars, seqVars, outVars, idle, full, page, fresh, overlay, histVars,
                   done, answers>>

PacketLost ==
    /\ ~settling /\ Lossy
    /\ slot # NoPacket
    /\ slot' = NoPacket
    /\ UNCHANGED <<loopVars, seqVars, outVars, idle, core, dirty, full, page, fresh,
                   overlay, histVars, done, answers>>

CoreRewrites ==
    /\ ~settling
    /\ rewrites < MaxRewrites
    /\ rewrites' = rewrites + 1
    /\ \E f \in CoreOwned, v \in Foreign :
         /\ v # core[f]
         /\ core' = [core EXCEPT ![f] = v]
    /\ dirty' = TRUE
    /\ UNCHANGED <<loopVars, seqVars, outVars, idle, slot, full, page, fresh, overlay,
                   issued, process, episodes, done, answers>>

(* A full snapshot reaches MoonProto, with SharedConfigUpdated. *)
SnapshotArrives ==
    /\ ~settling /\ ready /\ dirty
    /\ Racing \/ pc # "echo"
    /\ dirty' = FALSE
    /\ full' = core /\ page' = core
    /\ fresh' = TRUE
    /\ auto' = IF auto = NoPatch THEN NoPatch ELSE [auto EXCEPT !.answered = TRUE]
    /\ UNCHANGED <<loopVars, queue, waiting, overdue, pending, outVars, idle, core, slot,
                   overlay, issued, process, episodes, rewrites, done, answers>>

-----------------------------------------------------------------------------
Commands == TakeEdit \/ PatchRefused \/ PatchAlready \/ PatchSubmitted
Drive ==
    \/ DriveGated \/ DriveAutomation \/ DriveNothing \/ DriveNoPage
    \/ DriveTimedOut \/ DriveConfirmed \/ DriveContradicted \/ DrivePlan
Settle == DropSatisfied \/ GiveUp \/ Send \/ SendFails \/ Drained
LifecycleEvents ==
    NoLifecycleEvent \/ BecomeReady \/ LoseConnection \/ ServerRestart \/ NewRun
FeedLoop ==
    Commands \/ Drive \/ Settle \/ LifecycleEvents \/ ConfigEvents \/ NoConfigEvents \/ Publish
Windows == UiEdit \/ UiMark \/ UiPatch
Environment ==
    \/ EchoDeadline \/ PatchDeadline
    \/ CompactWrites \/ CompactEchoed \/ CompactGivesUp
    \/ CoreTakes \/ PacketLost \/ CoreRewrites \/ SnapshotArrives

Next == FeedLoop \/ Windows \/ Environment

Spec == Init /\ [][Next]_vars

-----------------------------------------------------------------------------
Cmd == [kind : {"edit", "patch"}, n : Nat, set : Partial, process : Nat]
Messages == [kind : {"submitted", "confirmed", "notapplied", "gaveup", "drained",
                     "up", "down", "page", "overlay", "forgotten"}, set : Partial]

TypeOK ==
    /\ pc \in {"drain", "lifecycle", "events", "echo", "publish"}
    /\ settling \in BOOLEAN /\ (settling => pc \in {"drain", "echo"})
    /\ inbox \in Seq(Cmd)
    /\ ready \in BOOLEAN /\ idle \in BOOLEAN
    /\ queue \in Seq(Entries)
    /\ waiting \in BOOLEAN /\ overdue \in BOOLEAN /\ (overdue => waiting)
    /\ pending \in Asks \cup {NoPending}
    /\ auto \in [n : Nat, want : Partial, updated : BOOLEAN, late : BOOLEAN,
                 answered : BOOLEAN] \cup {NoPatch}
    /\ batch \in Seq(Messages) /\ wire \in Seq(Messages)
    /\ core \in Pages /\ dirty \in BOOLEAN
    /\ slot \in Pages \cup {NoPacket}
    /\ full \in Pages \cup {NoPage} /\ page \in Pages \cup {NoPage}
    /\ (settling \/ fresh => page # NoPage)
    /\ fresh \in BOOLEAN /\ overlay \in BOOLEAN
    /\ issued \in Nat /\ process \in Nat /\ episodes \in Nat /\ rewrites \in Nat
    /\ done \in Seq([entry : Entries,
                     how : {"confirmed", "satisfied", "gaveup", "forgotten"}])
    /\ answers \in Seq([n : Nat, answered : BOOLEAN,
                        status : {"refused", "already", "submitted", "confirmed", "unknown"}])

(* The packet whose echo is awaited still covers the head of the queue,    *)
(* and asked for the folded value of every field those entries name: the   *)
(* confirmation pops as many entries on the strength of it.                *)
PendingCoversQueue ==
    pending # NoPending =>
        /\ pending.count \in 1..Len(queue)
        /\ LET carried == SubSeq(queue, 1, pending.count) IN
             /\ DOMAIN pending.want = Named(carried)
             /\ \A f \in Named(carried) : \E i \in 1..pending.count :
                  /\ f \in DOMAIN queue[i].set
                  /\ pending.want[f] = queue[i].set[f]
                  /\ \A j \in (i + 1)..pending.count : f \notin DOMAIN queue[j].set

(* Every packet carries the whole queue, so the budget is spent in order:  *)
(* no edit is charged more than one queued before it, so none overtakes    *)
(* another to the give-up; and "gave up after {MAX_ATTEMPTS} sends" is     *)
(* true of every edit given up.                                            *)
BudgetInOrder ==
    /\ \A i, j \in DOMAIN queue : i < j => queue[i].attempts >= queue[j].attempts
    /\ \A i \in DOMAIN done :
         done[i].how = "gaveup" => done[i].entry.sends >= MaxAttempts

(* "hold the full-config writer": while an automation import is observed   *)
(* no ordinary packet is awaited, and what is queued has not been sent.    *)
OneWriter ==
    auto # NoPatch =>
        /\ ~waiting /\ pending = NoPending
        /\ \A i \in DOMAIN queue : queue[i].attempts = 0

(* A patch is answered: once when it is taken, and if it was submitted     *)
(* once more, with its outcome; the import is never repeated.              *)
AnsweredOnce ==
    \A i, j \in DOMAIN answers :
        (i < j /\ answers[i].n = answers[j].n) =>
            /\ answers[i].status = "submitted"
            /\ answers[j].status \in {"confirmed", "unknown"}
            /\ auto # NoPatch => auto.n # answers[j].n

(* When everything has settled the core holds the last value asked for of  *)
(* every field that is the user's to set and whose edits were neither      *)
(* given up nor forgotten, however packets, echoes and deadlines           *)
(* interleaved.                                                            *)
Settled ==
    /\ ready /\ queue = <<>> /\ inbox = <<>> /\ auto = NoPatch
    /\ slot = NoPacket /\ ~dirty /\ ~fresh

AskedOf(f) == {i \in DOMAIN done : f \in DOMAIN done[i].entry.set}

LastWishHeld ==
    Settled /\ answers = <<>> =>
        \A f \in Fields \ (CoreOwned \cup Overlaid) : \A i \in AskedOf(f) :
            /\ \A j \in AskedOf(f) :
                 /\ j <= i
                 /\ done[j].how \in {"confirmed", "satisfied"}
                 /\ done[j].entry.process = process
            => core[f] = done[i].entry.set[f]

(* Every edit leaves the queue: echoed, satisfied or given up, whatever is *)
(* lost, refused, rewritten or not answered.                               *)
QueueEmpties == queue # <<>> ~> queue = <<>>

(* "Consume only a new full-settings echo": an import is reported as       *)
(* confirmed only on a full snapshot that arrived after it was sent.       *)
ConfirmedByNewEcho ==
    \A i \in DOMAIN answers : answers[i].status = "confirmed" => answers[i].answered

=============================================================================
