-------------------------- MODULE MCMarketRouting --------------------------
(***************************************************************************)
(* Two cores, two exchanges, one market.  What may happen in one behaviour *)
(* is one of a few scenarios; all but the first start warm, where a start  *)
(* with no chart ends: both cores up, the first of them the provider.      *)
(***************************************************************************)
EXTENDS MarketRouting, TLC

CONSTANTS binance, bybit, btc

MCTogether == {[c \in Core |-> binance]}

Quiet == [b \in Bounded |-> 0]
(* From a cold start: a run fails before its core is up. *)
MCScenarios == {("runs" :> 1) @@ Quiet}

(* Charts come and go on both cores while the mode changes. *)
MCModes == ("charts" :> 2 @@ "modes" :> 2) @@ Quiet
(* The provider is lost, and the next one. *)
MCFailover == ("charts" :> 1 @@ "losses" :> 2) @@ Quiet
(* A run fails and a call is refused. *)
MCFailed == ("charts" :> 1 @@ "losses" :> 1 @@ "runs" :> 1 @@ "refusals" :> 1) @@ Quiet
(* A core changes its exchange while it is being respawned for a change. *)
MCMoved == ("moves" :> 2) @@ Quiet
(* A row is edited while its core changes its exchange. *)
MCBoth == ("moves" :> 1 @@ "edits" :> 1) @@ Quiet
(* A row with a chart is edited, or taken down and brought back. *)
MCEdited == ("charts" :> 1 @@ "edits" :> 1) @@ Quiet

MCWarmScenarios == {MCModes, MCFailover, MCFailed, MCMoved, MCBoth, MCEdited}

WarmRole(c) == [provider |-> c = 1, markets |-> {}, books |-> {}]
WarmRoles == [c \in Core |-> WarmRole(c)]

WarmInit ==
    /\ sessions = Core /\ ready = Core
    /\ mode = "Dedup"
    /\ actual \in FirstVenues /\ venue = actual
    /\ providers = [v \in Venue |-> IF v = actual[1] THEN 1 ELSE NoCore]
    /\ route = [c \in Core |-> 1]
    /\ candles = NoLinger /\ orderbooks = NoLinger
    /\ lastCmd = WarmRoles /\ latest = WarmRoles
    /\ plan = WarmRoles /\ applied = WarmRoles
    /\ outbox = {} /\ views = {}
    /\ stale = {} /\ recent = {}
    /\ open = {} /\ books = {}
    /\ held = [c \in Core |-> FALSE]
    /\ client = [c \in Core |-> [NewClient EXCEPT !.trades = (c = 1), !.info = actual[c],
                                                  !.up = TRUE]]
    /\ chan = [c \in Core |-> <<>>]
    /\ left \in MCWarmScenarios

MCSpec == (Init \/ WarmInit) /\ [][Next]_vars
MCFairSpec == MCSpec /\ Fairness
=============================================================================
