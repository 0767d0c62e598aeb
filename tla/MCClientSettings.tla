-------------------------- MODULE MCClientSettings --------------------------
(* A small core: one exit value, the manual-strategy switch and one        *)
(* temporary ban.                                                          *)
EXTENDS ClientSettingsSequence, TLC

CONSTANTS tp, manual, ban

MCProjected   == {tp, manual}
MCTempSymbols == {ban}
MCValues      == {0, 1}
MCExits       == {tp :> v : v \in MCValues}
MCManualOff   == manual :> 0
MCOrders      == {[sync |-> TRUE, bare |-> TRUE], [sync |-> FALSE, bare |-> TRUE]}
MCFirst       == {(tp :> 0) @@ (manual :> 1)}
MCTempEdits   == {ban :> 1}
MCEdits       == {tp :> 1, tp :> 2}
MCNoExit      == tp :> 0
MCFirstWish   == {(tp :> 0) @@ (ban :> 0)}

=============================================================================
