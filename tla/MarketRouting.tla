--------------------------- MODULE MarketRouting ---------------------------
(***************************************************************************)
(* Who downloads which market.  Cores on one exchange share one provider:  *)
(* the coordinator (session/coordinator.rs) elects it, serves through it   *)
(* the markets of every open chart, keeps a market for a while after its   *)
(* last chart closes, and hands each core a market role.  The role crosses *)
(* to the core's feed thread in a mutex beside the bounded command queue   *)
(* (feed/mod.rs), is adopted and applied there (feed/live/market_role.rs), *)
(* and outlives the feed's runs but not its respawn.  The exchange a core  *)
(* is on is what its client read once at its init: when it moved since,    *)
(* the core's feed is respawned, at most once per MIN_RESPAWN_GAP          *)
(* (session/identity_respawn.rs).                                          *)
(* The session is one thread, each feed another.  The core behind a feed   *)
(* and its MoonProto client are external.                                  *)
(***************************************************************************)
EXTENDS Integers, Sequences, FiniteSets, FiniteSetsExt, Functions

CONSTANTS
    Core,           \* ids in configuration order
    Venue,          \* exchanges, ExchangeId
    Market,
    NoVenue,        \* an exchange not named yet
    NoRole,         \* a role not assigned yet
    FirstVenues,    \* where the cores are at first
    Scenarios       \* how often each bounded thing may happen in a behaviour

NoCore == 0
Bounded == {"charts", "edits", "modes", "moves", "losses", "runs", "refusals"}

ASSUME CoreAssumption == Core \subseteq Nat \ {NoCore} /\ IsFiniteSet(Core)
ASSUME VenueAssumption == NoVenue \notin Venue
ASSUME FirstAssumption == FirstVenues \subseteq [Core -> Venue]
ASSUME ScenarioAssumption == \A s \in Scenarios : s \in [Bounded -> Nat]

Pair == Core \X Market

MarketPlan == [provider : BOOLEAN, markets : SUBSET Market, books : SUBSET Market]
ASSUME RoleAssumption == NoRole \notin MarketPlan

(* An account-only core has no markets, and a book is only beside the      *)
(* market's candles.                                                       *)
Role == {r \in MarketPlan : r.books \subseteq r.markets /\ (r.provider \/ r.markets = {})}

VARIABLES
    sessions,   \* cores with a running feed
    mode,       \* SessionManager.mode
    venue,      \* core_venue
    ready,      \* cores whose store row says ConnStatus::Ready
    providers,  \* providers: exchange to elected core
    route,      \* core_provider: core to the core that serves it
    candles,    \* wanted and pending_drop
    orderbooks, \* wanted_orderbook and pending_ob_drop
    lastCmd,    \* last_cmd
    outbox,     \* the cores set_open has still to send their role to
    views,      \* MarketStore: which markets have a view, by provider
    stale,      \* IdentityRespawnGate.pending
    recent,     \* cores respawned by the gate less than the gap ago
    open,       \* charts: the markets held open
    books,      \* charts that show the order book
    latest,     \* LatestMarketRole of each feed
    plan,       \* MarketRoleState.desired
    applied,    \* MarketRoleState.applied
    held,       \* the feed holds the role's mutex
    client,     \* the MoonProto client of the feed's current run (external)
    chan,       \* the feed's channel to the session
    actual,     \* the exchange the core is on (external)
    left        \* the scenario's remaining bounds

planVars == <<mode, providers, route, candles, orderbooks, lastCmd, outbox, views>>
feedVars == <<latest, plan, applied, held, client, chan>>
gateVars == <<stale, recent>>
chartVars == <<open, books>>
vars == <<sessions, venue, ready, planVars, feedVars, gateVars, chartVars, actual, left>>

(* A client: its subscriptions, the exchange read at its init, whether the *)
(* link works, and a move not yet noticed.                                 *)
NewClient == [trades |-> FALSE, subs |-> {}, info |-> NoVenue, up |-> FALSE,
              moved |-> FALSE]

Named(v) == [kind |-> "identity", venue |-> v]
Says(kind) == [kind |-> kind, venue |-> NoVenue]

Spend(what) == left[what] > 0 /\ left' = [left EXCEPT ![what] = @ - 1]
-----------------------------------------------------------------------------
(* Linger: a market leaves some time after its last chart. *)

NoLinger == [served |-> {}, leaving |-> {}, due |-> {}]

Of(pairs, cores) == {p \in pairs : p[1] \in cores}

Forget(l, cores) == [served  |-> l.served \ Of(l.served, cores),
                     leaving |-> l.leaving \ Of(l.leaving, cores),
                     due     |-> l.due \ Of(l.due, cores)]

(* Mutant of Linger: a market wanted again keeps its deadline. *)
LingerUncancelled(l, want) ==
    [served  |-> (l.served \cup want) \ l.due,
     leaving |-> (l.leaving \cup (l.served \ want)) \ l.due,
     due     |-> {}]

Linger(l, want) ==
    [served  |-> (l.served \cup want) \ (l.due \ want),
     leaving |-> ((l.leaving \ want) \cup (l.served \ want)) \ (l.due \ want),
     due     |-> {}]

Inserted(l, want) == want \ l.served
Expired(l, want) == l.due \ want
-----------------------------------------------------------------------------
(* Election. *)

On(v) == {c \in sessions : venue[c] = v}

Elected(v) ==
    LET up == On(v) \cap ready
    IN  IF providers[v] \in up THEN providers[v]
        ELSE IF up # {} THEN Min(up) ELSE Min(On(v))

NextProviders ==
    [v \in Venue |-> IF mode = "Dedup" /\ On(v) # {} THEN Elected(v) ELSE NoCore]

RouteBy(next) ==
    [c \in Core |->
        IF c \notin sessions THEN NoCore
        ELSE IF mode = "PerCore" THEN c
        ELSE IF venue[c] = NoVenue THEN NoCore ELSE next[venue[c]]]

Deposed(next) ==
    {providers[v] : v \in {v \in Venue : next[v] \notin {NoCore, providers[v]}}}
        \ {NoCore}

Wanted(pairs, to) == {<<to[p[1]], p[2]>> : p \in {q \in pairs : to[q[1]] # NoCore}}

(* Mutant of RoleOf: a book is kept beside a market that has expired. *)
RoleOfLooseBooks(c, to, served, shown) ==
    LET serves == c \in Range(to)
    IN  [provider |-> serves,
         markets  |-> IF serves THEN {m \in Market : <<c, m>> \in served} ELSE {},
         books    |-> IF serves THEN {m \in Market : <<c, m>> \in shown} ELSE {}]

RoleOf(c, to, served, shown) ==
    LET serves == c \in Range(to)
        markets == IF serves THEN {m \in Market : <<c, m>> \in served} ELSE {}
    IN  [provider |-> serves, markets |-> markets,
         books    |-> {m \in markets : <<c, m>> \in shown}]

(* Mutant of SetOpenPlan: a deposed provider loses its data, not its plan. *)
SetOpenPlanKeepsDeposed(to, deposed) ==
    LET want == Wanted(open, to)
    IN  /\ candles' = Linger(candles, want)
        /\ orderbooks' = Linger(orderbooks, Wanted(books, to))
        /\ views' = ((views \ Of(views, deposed)) \cup Inserted(candles, want))
                        \ Expired(candles, want)

SetOpenPlan(to, deposed) ==
    LET want == Wanted(open, to)
        kept == Forget(candles, deposed)
    IN  /\ candles' = Linger(kept, want)
        /\ orderbooks' = Linger(Forget(orderbooks, deposed), Wanted(books, to))
        /\ views' = ((views \ Of(views, deposed)) \cup Inserted(kept, want))
                        \ Expired(kept, want)

(* set_open runs when a chart changed and once a second.  Every feed whose *)
(* role changed is sent it before the session does anything else.          *)
SetOpen ==
    /\ outbox = {}
    /\ providers' = NextProviders
    /\ route' = RouteBy(providers')
    /\ LET deposed == Deposed(providers')
           known == [c \in Core |-> IF c \in deposed THEN NoRole ELSE lastCmd[c]]
           role == [c \in Core |-> RoleOf(c, route', candles'.served, orderbooks'.served)]
           changed == {c \in sessions : known[c] # role[c]}
       IN  /\ SetOpenPlan(route', deposed)
           /\ lastCmd' = [c \in Core |-> IF c \in changed THEN role[c] ELSE known[c]]
           /\ outbox' = changed
    /\ UNCHANGED <<sessions, mode, venue, ready, feedVars, gateVars, chartVars, actual, left>>

(* Mutant of PostRole: the sender does not wait for the mutex. *)
PostRoleUnlocked(c) == c \in outbox

PostRole(c) == c \in outbox /\ ~held[c]

(* CoreCmdTx::send: the marker is queued and the role published under one  *)
(* lock.                                                                   *)
SendRole ==
    /\ outbox # {}
    /\ LET c == Min(outbox)
       IN  /\ PostRole(c)
           /\ latest' = [latest EXCEPT ![c] = lastCmd[c]]
           /\ outbox' = outbox \ {c}
    /\ UNCHANGED <<sessions, mode, venue, ready, providers, route, candles, orderbooks,
                   lastCmd, views, plan, applied, held, client, chan, gateVars,
                   chartVars, actual, left>>

CandleLingerEnds ==
    \E p \in candles.leaving \ candles.due :
        /\ candles' = [candles EXCEPT !.due = @ \cup {p}]
        /\ UNCHANGED <<sessions, mode, venue, ready, providers, route, orderbooks, lastCmd,
                       outbox, views, feedVars, gateVars, chartVars, actual, left>>

BookLingerEnds ==
    \E p \in orderbooks.leaving \ orderbooks.due :
        /\ orderbooks' = [orderbooks EXCEPT !.due = @ \cup {p}]
        /\ UNCHANGED <<sessions, mode, venue, ready, providers, route, candles, lastCmd,
                       outbox, views, feedVars, gateVars, chartVars, actual, left>>
-----------------------------------------------------------------------------
(* Charts and settings. *)

OpenChart(c, m) ==
    /\ outbox = {} /\ c \in sessions /\ <<c, m>> \notin open
    /\ Spend("charts")
    /\ open' = open \cup {<<c, m>>}
    /\ \E shown \in BOOLEAN : books' = IF shown THEN books \cup {<<c, m>>} ELSE books
    /\ UNCHANGED <<sessions, venue, ready, planVars, feedVars, gateVars, actual>>

CloseChart(c, m) ==
    /\ outbox = {} /\ <<c, m>> \in open
    /\ open' = open \ {<<c, m>>}
    /\ books' = books \ {<<c, m>>}
    /\ UNCHANGED <<sessions, venue, ready, planVars, feedVars, gateVars, actual, left>>

HideBook(c, m) ==
    /\ outbox = {} /\ <<c, m>> \in books
    /\ books' = books \ {<<c, m>>}
    /\ UNCHANGED <<sessions, venue, ready, planVars, feedVars, gateVars, open, actual, left>>

SetMode ==
    /\ outbox = {} /\ Spend("modes")
    /\ mode' = IF mode = "Dedup" THEN "PerCore" ELSE "Dedup"
    /\ providers' = [v \in Venue |-> NoCore]
    /\ route' = [c \in Core |-> NoCore]
    /\ candles' = NoLinger /\ orderbooks' = NoLinger
    /\ lastCmd' = [c \in Core |-> NoRole]
    /\ views' = {}
    /\ UNCHANGED <<sessions, venue, ready, outbox, feedVars, gateVars, chartVars, actual>>

(* A feed replaced or ended takes its role, its client and its channel     *)
(* with it.                                                                *)
FreshFeed(c) ==
    /\ latest' = [latest EXCEPT ![c] = NoRole]
    /\ plan' = [plan EXCEPT ![c] = NoRole]
    /\ applied' = [applied EXCEPT ![c] = NoRole]
    /\ held' = [held EXCEPT ![c] = FALSE]
    /\ client' = [client EXCEPT ![c] = NewClient]
    /\ chan' = [chan EXCEPT ![c] = <<>>]

(* Mutant of ClearCoordination: the last role sent is remembered. *)
ClearCoordinationKeepsRole(c) ==
    /\ venue' = [venue EXCEPT ![c] = NoVenue]
    /\ route' = [route EXCEPT ![c] = NoCore]
    /\ providers' = [v \in Venue |-> IF providers[v] = c THEN NoCore ELSE providers[v]]
    /\ UNCHANGED lastCmd

ClearCoordination(c) ==
    /\ venue' = [venue EXCEPT ![c] = NoVenue]
    /\ route' = [route EXCEPT ![c] = NoCore]
    /\ providers' = [v \in Venue |-> IF providers[v] = c THEN NoCore ELSE providers[v]]
    /\ lastCmd' = [lastCmd EXCEPT ![c] = NoRole]

Respawn(c) ==
    /\ FreshFeed(c)
    /\ ready' = ready \ {c}
    /\ ClearCoordination(c)
    /\ UNCHANGED <<sessions, mode, candles, orderbooks, outbox, views, chartVars>>

(* The Reconnect button. *)
Reconnect(c) ==
    /\ outbox = {} /\ c \in sessions /\ Spend("edits")
    /\ Respawn(c)
    /\ stale' = stale \ {c}
    /\ UNCHANGED <<recent, actual>>

(* The core's row now addresses another core: reconcile() respawns it and  *)
(* leaves a request of the gate alone.                                     *)
Readdress(c, v) ==
    /\ outbox = {} /\ c \in sessions /\ v # actual[c] /\ Spend("edits")
    /\ Respawn(c)
    /\ actual' = [actual EXCEPT ![c] = v]
    /\ UNCHANGED gateVars

Deactivate(c) ==
    /\ outbox = {} /\ c \in sessions /\ Spend("edits")
    /\ sessions' = sessions \ {c}
    /\ FreshFeed(c)
    /\ ready' = ready \ {c}
    /\ ClearCoordination(c)
    /\ candles' = Forget(candles, {c})
    /\ orderbooks' = Forget(orderbooks, {c})
    /\ stale' = stale \ {c} /\ recent' = recent \ {c}
    /\ UNCHANGED <<mode, outbox, views, chartVars, actual>>

Activate(c) ==
    /\ outbox = {} /\ c \notin sessions
    /\ sessions' = sessions \cup {c}
    /\ UNCHANGED <<venue, ready, planVars, feedVars, gateVars, chartVars, actual, left>>

(* The tick that hands out a stale core also respawns it. *)
RespawnStale(c) ==
    /\ outbox = {} /\ c \in stale \ recent
    /\ stale' = stale \ {c} /\ recent' = recent \cup {c}
    /\ Respawn(c)
    /\ UNCHANGED <<actual, left>>

GapEnds(c) ==
    /\ c \in recent
    /\ recent' = recent \ {c}
    /\ UNCHANGED <<sessions, venue, ready, planVars, feedVars, stale, chartVars, actual, left>>

(* Mutant of Requested: a request inside the gap is refused. *)
RequestedUnlessRecent(c) == stale \cup ({c} \ recent)

Requested(c) == stale \cup {c}

(* The session takes one message of a feed. *)
Hear(c) ==
    /\ outbox = {} /\ c \in sessions /\ chan[c] # <<>>
    /\ chan' = [chan EXCEPT ![c] = Tail(@)]
    /\ LET msg == Head(chan[c])
       IN  /\ venue' = IF msg.kind = "identity" THEN [venue EXCEPT ![c] = msg.venue] ELSE venue
           /\ ready' = CASE msg.kind = "ready" -> ready \cup {c}
                         [] msg.kind = "down" -> ready \ {c}
                         [] OTHER -> ready
           /\ stale' = IF msg.kind = "stale" THEN Requested(c) ELSE stale
    /\ UNCHANGED <<sessions, planVars, latest, plan, applied, held, client, recent,
                   chartVars, actual, left>>
-----------------------------------------------------------------------------
(* The feed's role. *)

Adopted(c) == IF latest[c] = NoRole THEN plan[c] ELSE latest[c]
Unapplied(c) == Adopted(c) # NoRole /\ Adopted(c) # applied[c]

(* lock_and_adopt_latest_market_role: the feed keeps the mutex. *)
Adopt(c) ==
    /\ c \in sessions /\ ~held[c]
    /\ Adopted(c) # plan[c] \/ Unapplied(c)
    /\ plan' = [plan EXCEPT ![c] = Adopted(c)]
    /\ held' = [held EXCEPT ![c] = TRUE]
    /\ UNCHANGED <<sessions, venue, ready, planVars, latest, applied, client, chan,
                   gateVars, chartVars, actual, left>>

(* Mutant of Recorded: the plan counts as applied though a call failed. *)
RecordedInFull(r, subs) == r

Recorded(r, subs) == [r EXCEPT !.books = subs]

(* apply_if_needed, then the mutex is released.  A call for a book may be  *)
(* refused; what it changed is recorded, the rest stays to be done.        *)
Apply(c) ==
    /\ c \in sessions /\ held[c]
    /\ held' = [held EXCEPT ![c] = FALSE]
    /\ IF plan[c] = applied[c] THEN UNCHANGED <<applied, client, left>>
       ELSE LET had == IF applied[c] = NoRole THEN {} ELSE applied[c].books
                toggles == (plan[c].books \ had) \cup (had \ plan[c].books)
            IN  \E refused \in SUBSET toggles :
                  /\ IF refused = {} THEN UNCHANGED left ELSE Spend("refusals")
                  /\ LET done == toggles \ refused
                         flipped(s) == (s \ done) \cup (plan[c].books \cap done)
                     IN  /\ client' = [client EXCEPT ![c].trades = plan[c].provider,
                                                     ![c].subs = flipped(@)]
                         /\ applied' = [applied EXCEPT ![c] = Recorded(plan[c], flipped(had))]
    /\ UNCHANGED <<sessions, venue, ready, planVars, latest, plan, chan, gateVars,
                   chartVars, actual>>
-----------------------------------------------------------------------------
(* The link and the core. *)

Publish(c, msg) == chan' = [chan EXCEPT ![c] = Append(@, msg)]

(* BaseCheck: the client reads the core's exchange, once, and the feed     *)
(* publishes it.                                                           *)
TellIdentity(c) ==
    /\ c \in sessions /\ client[c].info = NoVenue
    /\ client' = [client EXCEPT ![c].info = actual[c]]
    /\ Publish(c, Named(actual[c]))
    /\ UNCHANGED <<sessions, venue, ready, planVars, latest, plan, applied, held,
                   gateVars, chartVars, actual, left>>

BecomeReady(c) ==
    /\ c \in sessions /\ client[c].info # NoVenue /\ ~client[c].up
    /\ client' = [client EXCEPT ![c].up = TRUE]
    /\ Publish(c, Says("ready"))
    /\ UNCHANGED <<sessions, venue, ready, planVars, latest, plan, applied, held,
                   gateVars, chartVars, actual, left>>

(* Subscriptions survive a lost link: MoonProto restores them. *)
LoseLink(c) ==
    /\ client[c].up /\ Spend("losses")
    /\ client' = [client EXCEPT ![c].up = FALSE]
    /\ Publish(c, Says("down"))
    /\ UNCHANGED <<sessions, venue, ready, planVars, latest, plan, applied, held,
                   gateVars, chartVars, actual>>

(* Another process answers, or the running one switches its exchange. *)
Move(c, v) ==
    /\ c \in sessions /\ client[c].info # NoVenue /\ Spend("moves")
    /\ actual' = [actual EXCEPT ![c] = v]
    /\ client' = [client EXCEPT ![c].moved = TRUE]
    /\ UNCHANGED <<sessions, venue, ready, planVars, latest, plan, applied, held, chan,
                   gateVars, chartVars>>

(* ServerRestart, or the turnover of the market list. *)
NoticeMove(c) ==
    /\ c \in sessions /\ client[c].moved
    /\ client' = [client EXCEPT ![c].moved = FALSE]
    /\ Publish(c, Says("stale"))
    /\ UNCHANGED <<sessions, venue, ready, planVars, latest, plan, applied, held,
                   gateVars, chartVars, actual, left>>

BeginClient(c) == applied' = [applied EXCEPT ![c] = NoRole]

(* run() fails and the feed starts another: a new client, the same role. *)
NewRun(c) ==
    /\ c \in sessions /\ ~client[c].up /\ ~held[c] /\ client[c] # NewClient
    /\ Spend("runs")
    /\ BeginClient(c)
    /\ client' = [client EXCEPT ![c] = NewClient]
    /\ Publish(c, Says("down"))
    /\ UNCHANGED <<sessions, venue, ready, planVars, latest, plan, held, gateVars,
                   chartVars, actual>>
-----------------------------------------------------------------------------
Init ==
    /\ sessions = Core
    /\ mode = "Dedup"
    /\ venue = [c \in Core |-> NoVenue]
    /\ ready = {}
    /\ providers = [v \in Venue |-> NoCore]
    /\ route = [c \in Core |-> NoCore]
    /\ candles = NoLinger /\ orderbooks = NoLinger
    /\ lastCmd = [c \in Core |-> NoRole]
    /\ outbox = {} /\ views = {}
    /\ stale = {} /\ recent = {}
    /\ open = {} /\ books = {}
    /\ latest = [c \in Core |-> NoRole]
    /\ plan = [c \in Core |-> NoRole]
    /\ applied = [c \in Core |-> NoRole]
    /\ held = [c \in Core |-> FALSE]
    /\ client = [c \in Core |-> NewClient]
    /\ chan = [c \in Core |-> <<>>]
    /\ actual \in FirstVenues
    /\ left \in Scenarios

SessionTurn == SetOpen \/ SendRole \/ \E c \in Core : Hear(c) \/ RespawnStale(c)
Time == CandleLingerEnds \/ BookLingerEnds \/ \E c \in Core : GapEnds(c)
Charts == \E c \in Core, m \in Market : OpenChart(c, m) \/ CloseChart(c, m) \/ HideBook(c, m)
Settings ==
    \/ SetMode
    \/ \E c \in Core : \/ Reconnect(c) \/ Deactivate(c) \/ Activate(c)
                       \/ \E v \in Venue : Readdress(c, v)
FeedTurn(c) == Adopt(c) \/ Apply(c) \/ NoticeMove(c)
Comes(c) == TellIdentity(c) \/ BecomeReady(c)
Faults(c) == LoseLink(c) \/ NewRun(c) \/ \E v \in Venue : Move(c, v)

Next ==
    \/ SessionTurn \/ Time \/ Charts \/ Settings
    \/ \E c \in Core : FeedTurn(c) \/ Comes(c) \/ Faults(c)

Spec == Init /\ [][Next]_vars

(* The session ticks and drains, each feed's loop turns, deadlines pass,   *)
(* and a core that can be reached comes up.                                *)
Fairness ==
    /\ WF_vars(SessionTurn) /\ WF_vars(Time)
    /\ \A c \in Core : WF_vars(FeedTurn(c)) /\ WF_vars(Comes(c))

FairSpec == Spec /\ Fairness
-----------------------------------------------------------------------------
Lingers ==
    {l \in [served : SUBSET Pair, leaving : SUBSET Pair, due : SUBSET Pair] :
        l.due \subseteq l.leaving}
Clients ==
    [trades : BOOLEAN, subs : SUBSET Market, info : Venue \cup {NoVenue},
     up : BOOLEAN, moved : BOOLEAN]
Messages ==
    [kind : {"identity"}, venue : Venue] \cup
    [kind : {"ready", "down", "stale"}, venue : {NoVenue}]
Roles == Role \cup {NoRole}
(* A book whose unsubscription was refused outlives its market. *)
AppliedRoles == MarketPlan \cup {NoRole}

(* Every variable keeps its type; in particular a role never asks for the  *)
(* book of a market it does not serve, and an account-only role for        *)
(* nothing (set_open's filter, MarketPlan::new).                           *)
TypeOK ==
    /\ sessions \subseteq Core /\ mode \in {"Dedup", "PerCore"}
    /\ venue \in [Core -> Venue \cup {NoVenue}] /\ ready \subseteq sessions
    /\ providers \in [Venue -> Core \cup {NoCore}]
    /\ route \in [Core -> Core \cup {NoCore}]
    /\ candles \in Lingers /\ orderbooks \in Lingers
    /\ lastCmd \in [Core -> Roles] /\ outbox \subseteq sessions /\ views \subseteq Pair
    /\ stale \subseteq sessions /\ recent \subseteq sessions
    /\ open \subseteq Pair /\ books \subseteq open
    /\ latest \in [Core -> Roles] /\ plan \in [Core -> Roles]
    /\ applied \in [Core -> AppliedRoles]
    /\ held \in [Core -> BOOLEAN] /\ client \in [Core -> Clients]
    /\ chan \in [Core -> Seq(Messages)]
    /\ actual \in [Core -> Venue] /\ left \in [Bounded -> Nat]

(* What last_cmd remembers is what the core's present feed was sent, or is *)
(* being sent: a role withheld as unchanged reached the feed that runs now *)
(* and not one that a respawn or a reactivation replaced.                  *)
RoleDelivered ==
    \A c \in Core : lastCmd[c] # NoRole => (latest[c] = lastCmd[c] \/ c \in outbox)

(* A market that is served has a view in the store: reset_market runs only *)
(* for a market newly wanted, and without a view refresh_market shows      *)
(* nothing, so a provider deposed and elected again must start from an     *)
(* empty plan.                                                             *)
ServedHasView == candles.served \subseteq views

(* A deadline belongs to a market still served: one left behind by a       *)
(* deposed or removed provider would cut short the linger of the next.     *)
LeavingServed ==
    candles.leaving \subseteq candles.served /\ orderbooks.leaving \subseteq orderbooks.served

(* While a feed is making the calls for a role, the coordinator has not    *)
(* published a newer one: a core demoted to account-only is not subscribed *)
(* behind the demotion.                                                    *)
AppliesLatest == \A c \in Core : held[c] /\ latest[c] # NoRole => plan[c] = latest[c]

(* What a feed believes applied is what its present client was asked for,  *)
(* whatever was refused and however many clients came before: otherwise    *)
(* nothing would retry the difference.                                     *)
BelievesTruth ==
    \A c \in Core : applied[c] # NoRole =>
        applied[c].provider = client[c].trades /\ applied[c].books = client[c].subs

(* The plan set_open leaves behind serves every chart of a routed core     *)
(* through one provider, and that provider's role says so: a chart         *)
(* reopened while its market lingered, on a core whose provider changed,   *)
(* is not left without data.                                               *)
ChartsServed ==
    /\ \A c \in sessions : route[c] # NoCore =>
        /\ lastCmd[route[c]].provider
        /\ {p[2] : p \in Of(open, {c})} \subseteq lastCmd[route[c]].markets
        /\ {p[2] : p \in Of(books, {c})} \subseteq lastCmd[route[c]].books
    /\ \A c \in sessions : lastCmd[c].provider => \E d \in sessions : route[d] = c
PlanServesCharts == [][SetOpen => ChartsServed']_vars

(* The clients do what the charts need and nothing else: each core's       *)
(* exchange is known, one core of an exchange streams its trades (each     *)
(* core its own in PerCore), and books are subscribed where a chart shows  *)
(* them.                                                                   *)
Shown(c, pairs) == {p[2] : p \in {q \in pairs : q[1] \in sessions /\ route[q[1]] = c}}
Settled ==
    \A c \in sessions :
        /\ venue[c] = actual[c]
        /\ route[c] \in sessions /\ actual[route[c]] = actual[c]
        /\ client[c].trades <=> (route[c] = c)
        /\ mode = "PerCore" => route[c] = c
        /\ mode = "Dedup" => \A d \in sessions : actual[d] = actual[c] => route[d] = route[c]
        /\ client[c].subs = Shown(c, books)
        /\ {<<c, m>> : m \in Shown(c, open)} = Of(candles.served, {c})

(* However charts, settings, cores and links change, once they rest the    *)
(* clients settle, though a respawn was deferred, a call refused or a      *)
(* provider lost on the way.                                               *)
Settles == <>[]Settled
=============================================================================
