---------------------------- MODULE SettingsPage ----------------------------
(***************************************************************************)
(* What the trader sees of a configuration write: the row the session's    *)
(* store keeps per core (session/store.rs) and the expert settings window  *)
(* (core_expert/commit.rs, core_expert/sync.rs), over the serializer.      *)
(*                                                                         *)
(* The window has one core selected and shows settings of one area: an     *)
(* Apply changes one setting and sends the whole area, because the mask    *)
(* names areas.  What it sent is laid over the store's page until the      *)
(* core's write queue has run empty, or the page is not live.              *)
(***************************************************************************)
EXTENDS SharedConfigSequence, TLC

CONSTANTS
    Shown,         \* settings the user of the window changes
    NoRow, NoSent

ASSUME ShownAssumption == Shown \subseteq Settings

VARIABLES
    row,      \* core_config_edit
    drained,  \* core_config_drained_rev
    stored,   \* core_config
    stale,    \* core_config_stale
    up,       \* status is Ready
    sent,     \* the window's PendingSend
    asked     \* history: what the user applied, in order

storeVars == <<row, drained, stored, stale, up>>
pageVars  == <<storeVars, sent, asked>>
allVars   == <<vars, pageVars>>

PageInit ==
    /\ Init
    /\ row = NoRow /\ drained = 0
    /\ stored = NoPage /\ stale = FALSE /\ up = FALSE
    /\ sent = NoSent
    /\ asked = <<>>

(* live_core_config *)
Live == stored # NoPage /\ ~stale /\ up

Over(base, top) == [f \in DOMAIN base |-> IF f \in DOMAIN top THEN top[f] ELSE base[f]]

SentSet == IF sent = NoSent THEN <<>> ELSE sent.set

(* Mutant of Settles: only the queue's word counts. *)
SettlesOnDrain == sent # NoSent /\ drained # sent.rev

(* settle_pending: the write queue has run empty since the first send, or  *)
(* the page cannot be sent.                                                *)
Settles == sent # NoSent /\ (~Live \/ drained # sent.rev)

-----------------------------------------------------------------------------
(* The store takes one message.  The window looks at it when it is         *)
(* notified, which may be of several messages: drain() empties the whole   *)
(* channel, and the notification goes through a coalescing gate.  So the   *)
(* store may move on past a state the window would have settled on.        *)

StoreTakes ==
    /\ ~settling /\ wire # <<>>
    /\ wire' = Tail(wire)
    /\ UNCHANGED <<loopVars, seqVars, batch, idle, linkVars, histVars, done, answers>>

Takes(kind) == StoreTakes /\ Head(wire).kind = kind

(* A retry of the same work: the row is live, its scope contains the new   *)
(* one, and they agree within it.                                          *)
SameWork(set) ==
    /\ row # NoRow
    /\ row.phase = "pending"
    /\ DOMAIN set \subseteq DOMAIN row.set
    /\ Agrees(row.set, set)

ShowSubmitted ==
    /\ Takes("submitted")
    /\ LET set == Head(wire).set IN
         row' = [phase |-> "pending", set |-> set,
                 refused |-> SameWork(set) /\ row.refused]
    /\ UNCHANGED <<drained, stored, stale, up, sent, asked>>

ShowConfirmed ==
    /\ Takes("confirmed")
    /\ row' = NoRow
    /\ UNCHANGED <<drained, stored, stale, up, sent, asked>>

ShowNotApplied ==
    /\ Takes("notapplied")
    /\ row' = IF row = NoRow THEN NoRow ELSE [row EXCEPT !.refused = TRUE]
    /\ UNCHANGED <<drained, stored, stale, up, sent, asked>>

ShowGaveUp ==
    /\ Takes("gaveup")
    /\ row' = IF row = NoRow THEN NoRow ELSE [row EXCEPT !.phase = "gaveup"]
    /\ UNCHANGED <<drained, stored, stale, up, sent, asked>>

ShowDrained ==
    /\ Takes("drained")
    /\ drained' = drained + 1
    /\ UNCHANGED <<row, stored, stale, up, sent, asked>>

(* Only a full snapshot makes the page fresh. *)
ShowPage ==
    /\ StoreTakes
    /\ Head(wire).kind \in {"page", "overlay"}
    /\ stored' = Head(wire).set
    /\ stale' = (stale /\ Head(wire).kind = "overlay")
    /\ UNCHANGED <<row, drained, up, sent, asked>>

ShowUp ==
    /\ Takes("up")
    /\ up' = TRUE
    /\ UNCHANGED <<row, drained, stored, stale, sent, asked>>

ShowDown ==
    /\ Takes("down")
    /\ up' = FALSE /\ stale' = TRUE
    /\ UNCHANGED <<row, drained, stored, sent, asked>>

(* RunStateForgotten *)
ShowForgotten ==
    /\ Takes("forgotten")
    /\ stored' = NoPage /\ row' = NoRow
    /\ UNCHANGED <<drained, stale, up, sent, asked>>

-----------------------------------------------------------------------------
(* The window. *)

WindowSettles ==
    /\ ~settling
    /\ Settles
    /\ sent' = NoSent
    /\ UNCHANGED <<vars, storeVars, asked>>

PageFor(change) == Over(Over(stored, SentSet), change)

(* apply: the page is the store's, with what was sent and not settled over *)
(* it, and the change over both; then entries that have settled go.        *)
Apply(f, v) ==
    /\ Live
    /\ v # Over(stored, SentSet)[f]
    /\ LET change == f :> v
           kept   == sent # NoSent /\ ~Settles
       IN  /\ UiSend("edit", [g \in Settings |-> PageFor(change)[g]])
           /\ sent' = IF kept
                        THEN [sent EXCEPT !.set = change @@ @]
                        ELSE [set |-> change, rev |-> drained]
    /\ asked' = Append(asked, [n |-> issued + 1, f |-> f, v |-> v])
    /\ UNCHANGED storeVars

-----------------------------------------------------------------------------
StoreStep ==
    \/ ShowSubmitted \/ ShowConfirmed \/ ShowNotApplied \/ ShowGaveUp \/ ShowDrained
    \/ ShowPage \/ ShowUp \/ ShowDown \/ ShowForgotten
WindowStep == WindowSettles \/ \E f \in Shown, v \in Values : Apply(f, v)
Aside(step) == step /\ UNCHANGED pageVars
FeedStep == Aside(FeedLoop \/ Windows \/ Environment)

PageNext == FeedStep \/ StoreStep \/ WindowStep

PageSpec == PageInit /\ [][PageNext]_allVars

(* The loop turns, and takes what is in its channel; the connection comes  *)
(* up; the core publishes its page; the deadline passes; the store takes   *)
(* what it is sent, and the window looks at the store.                     *)
PageFairSpec ==
    /\ PageSpec
    /\ WF_allVars(Aside(FeedLoop))
    /\ SF_allVars(Aside(Commands))
    /\ SF_allVars(Aside(BecomeReady))
    /\ WF_allVars(Aside(SnapshotArrives))
    /\ WF_allVars(Aside(EchoDeadline))
    /\ WF_allVars(StoreStep)
    /\ WF_allVars(WindowSettles)

-----------------------------------------------------------------------------
(* "its notice must not linger": a row that waits has something to wait    *)
(* for: a verdict on its way, or an edit that is still queued.  A restart  *)
(* of the core empties the queue and may leave the row of an edit that was *)
(* announced in the same turn of the loop.                                 *)
RowHasWork ==
    (row # NoRow /\ row.phase = "pending" /\ batch = <<>> /\ wire = <<>>) =>
        queue # <<>> \/ \E i \in DOMAIN done : done[i].how = "forgotten"

(* A later Apply does not put an earlier one back, "silently, on the       *)
(* wire": in every edit of the window that is still to be sent, a setting  *)
(* the user has applied before has the value applied last, unless that was *)
(* given up or forgotten with the process.                                 *)
Kept(edit, i) ==
    \/ edit.set[asked[i].f] = asked[i].v
    \/ \E j \in DOMAIN asked : i < j /\ asked[j].n <= edit.n /\ asked[j].f = asked[i].f
    \/ \E j \in DOMAIN done :
         done[j].entry.n = asked[i].n /\ done[j].how \in {"gaveup", "forgotten"}

NoSilentRevert ==
    \A edit \in {inbox[k] : k \in DOMAIN inbox} \cup {queue[k] : k \in DOMAIN queue} :
        (\E i \in DOMAIN asked : asked[i].n = edit.n) =>
            \A i \in DOMAIN asked : asked[i].n <= edit.n => Kept(edit, i)

(* A restart of the core forgot an edit of the window, and the page was     *)
(* live again, with no drain announced, before the window looked: the      *)
(* notification that covers the restart covers the new page too.           *)
Unnoticed ==
    /\ Live /\ drained = sent.rev
    /\ \E i \in DOMAIN done : done[i].how = "forgotten"

(* The window does not show what it sent for ever, whichever messages one  *)
(* notification covers, but for the restart it does not notice: "dropped   *)
(* once its core's write queue ran empty after the send ... or the core    *)
(* lost its page".                                                         *)
WindowFollows == sent # NoSent ~> sent = NoSent \/ Unnoticed

=============================================================================
