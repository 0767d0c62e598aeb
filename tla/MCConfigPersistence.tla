-------------------------- MODULE MCConfigPersistence --------------------------
(* Two cores and one edit; each scenario combines a few of the sources of  *)
(* trouble. A start that cannot read the stores (MCBlind) has one crash.   *)
EXTENDS ConfigPersistence, TLC

CONSTANTS a, b, slots

MCCores == {a, b}
MCEdits == {slots}

Quiet == [x \in Bounded |-> 0]

MCSaves  == [Quiet EXCEPT !["opens"] = 2, !["saves"] = 2, !["fails"] = 2,
                          !["pairings"] = 1, !["quits"] = 1, !["crashes"] = 1]
MCWizard == [Quiet EXCEPT !["opens"] = 1, !["saves"] = 1, !["wizard"] = 3,
                          !["crashes"] = 1, !["backups"] = 1]
MCFiles  == [Quiet EXCEPT !["wizard"] = 3, !["pairings"] = 2, !["fails"] = 1,
                          !["crashes"] = 1, !["backups"] = 1]
MCReads  == [Quiet EXCEPT !["wizard"] = 3, !["crashes"] = 1, !["quits"] = 1,
                          !["unreadable"] = 1, !["corrupt"] = 1]
MCBlind  == [Quiet EXCEPT !["wizard"] = 4, !["crashes"] = 1, !["fails"] = 1,
                          !["blind"] = 1]

MCScenarios == {MCSaves, MCWizard, MCFiles, MCReads, MCBlind}

(* A wizard row added and dropped beside an open draft.                    *)
MCReuse == {[Quiet EXCEPT !["opens"] = 1, !["saves"] = 1, !["wizard"] = 2]}

=============================================================================
