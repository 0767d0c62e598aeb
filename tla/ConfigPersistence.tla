--------------------------- MODULE ConfigPersistence ---------------------------
(***************************************************************************)
(* The configuration: the live authority, the draft of an open Settings    *)
(* window, the autosave worker with at most one snapshot in flight, the    *)
(* deliberate saves that wait for it, the two files servers.enc and        *)
(* settings.toml replaced under an interruption marker, their backup, and  *)
(* the uids that key each core's stored history.                           *)
(*                                                                         *)
(* A core's row is its identity and its uid (0 before the first save).     *)
(* The other settings are a set of edits, each made once; `paired' is the  *)
(* part of the encrypted file the Telegram save may replace alone.         *)
(***************************************************************************)
EXTENDS Naturals, FiniteSets, FiniteSetsExt

CONSTANTS
    Cores,           \* identities of the cores a trader may add
    MaxUid,          \* bound: the highest uid issued
    Edits,           \* settings changed outside the Settings window
    Mirrored,        \* those whose setter writes the open draft as well
    WizardOverDraft, \* whether the connect wizard runs beside an open draft
    Scenarios        \* the bounds a behaviour may start with

Bounded == {"opens", "wizard", "saves", "pairings", "backups", "fails",
            "crashes", "quits", "unreadable", "corrupt", "blind"}

ASSUME UidAssumption      == MaxUid \in Nat
ASSUME EditAssumption     == Mirrored \subseteq Edits
ASSUME WizardAssumption   == WizardOverDraft \in BOOLEAN
ASSUME ScenarioAssumption == Scenarios \subseteq [Bounded -> Nat]

VARIABLES
    phase,   \* "down", "up", "closing" (on_app_quit), "closed"
    live,    \* Backend::config
    draft,   \* Backend::preview: {} or the one draft
    dirty,   \* Backend::config_dirty
    flight,  \* the coordinator's request in flight
    final,   \* the quit snapshot
    write,   \* the pair write in progress
    disk,    \* servers.enc, settings.toml and the pending marker
    history, \* rows of the durable stores, as the core that wrote under a uid
    backup,  \* {} or the last published copy of the pair
    left     \* what is left of each bound

vars == <<phase, live, draft, dirty, flight, final, write, disk, history,
          backup, left>>

-----------------------------------------------------------------------------
(* Values *)

Row       == [core : Cores, uid : 0..MaxUid]
Authority == [rows : SUBSET Row, next : 0..(MaxUid + 1), edits : SUBSET Edits,
              paired : BOOLEAN, sealed : BOOLEAN]
Servers   == [there : BOOLEAN, rows : SUBSET Row, paired : BOOLEAN]
Settings  == [rows : SUBSET Row, next : 0..(MaxUid + 1), edits : SUBSET Edits]
Request   == [stage : {"none", "queued", "writing", "ok", "failed", "lost"},
              cfg : Authority]
Kinds     == {"autosave", "final", "fallback", "load", "settings", "live",
              "add", "drop"}
PairWrite == [by : {"none", "worker", "ui"}, kind : Kinds, cfg : Authority,
              step : {"begin", "servers", "settings", "finish"},
              row : SUBSET Row]

Blank      == [rows |-> {}, next |-> 0, edits |-> {}, paired |-> FALSE,
               sealed |-> FALSE]
NoServers  == [there |-> FALSE, rows |-> {}, paired |-> FALSE]
NoSettings == [rows |-> {}, next |-> 0, edits |-> {}]
NoRequest  == [stage |-> "none", cfg |-> Blank]
NoWrite    == [by |-> "none", kind |-> "load", cfg |-> Blank,
               step |-> "begin", row |-> {}]

Higher(a, b)  == IF a >= b THEN a ELSE b
UidsOf(rows)  == {r.uid : r \in rows}
CoresOf(rows) == {r.core : r \in rows}
Highest(rows) == Max({0} \cup UidsOf(rows))

(* The server list and the settings a save splits an authority into.       *)
ServersOf(cfg)  == [there |-> TRUE, rows |-> cfg.rows, paired |-> cfg.paired]
SettingsOf(cfg) == [rows |-> cfg.rows, next |-> cfg.next, edits |-> cfg.edits]

(* reconcile::ensure_uids: the counter catches up with the rows, then each *)
(* row without a uid takes the next one.                                   *)
Raised(cfg) == Higher(cfg.next, Highest(cfg.rows) + 1)
Unnamed(cfg) == {r \in cfg.rows : r.uid = 0}

(* Mutant of EnsureUids: the counter is advanced for the row and once more. *)
EnsureUidsTwice(cfg) ==
    [cfg EXCEPT
        !.rows = (cfg.rows \ Unnamed(cfg))
                 \cup {[core |-> r.core, uid |-> Raised(cfg)] : r \in Unnamed(cfg)},
        !.next = Raised(cfg) + 2]

EnsureUids(cfg) ==
    [cfg EXCEPT
        !.rows = (cfg.rows \ Unnamed(cfg))
                 \cup {[core |-> r.core, uid |-> Raised(cfg)] : r \in Unnamed(cfg)},
        !.next = IF Unnamed(cfg) = {} THEN Raised(cfg) ELSE Raised(cfg) + 1]

(* Bound: at most one new row per save, and no uid above MaxUid.           *)
Room(cfg) == Unnamed(cfg) # {} => Raised(cfg) <= MaxUid

Spend(b) == left[b] > 0 /\ left' = [left EXCEPT ![b] = @ - 1]

-----------------------------------------------------------------------------
(* The session and the coordinator as the application thread sees them *)

Running     == phase \in {"up", "closing"}
Responsive  == phase = "up" /\ write.by # "ui"
Unanswered  == flight.stage \in {"queued", "writing"}
(* Mutant of NeedsSave: a failed answer does not mark the config dirty again. *)
DirtyOnly   == dirty

NeedsSave   == dirty \/ flight.stage = "failed"

(* AppConfig::load: the counter starts above the persisted one, the rows   *)
(* of both files and every uid a readable store remembers.                 *)
Floor(seen) == IF seen /\ history # {} THEN Highest(history) + 1 ELSE 0

(* Mutant of Merged: the counter is seeded from the two files alone. *)
MergedFilesOnly(meta, seen, sealed) ==
    [rows   |-> disk.servers.rows,
     next   |-> Higher(meta.next, Higher(Highest(disk.servers.rows),
                                         Highest(meta.rows)) + 1),
     edits  |-> meta.edits,
     paired |-> disk.servers.paired,
     sealed |-> sealed]

Merged(meta, seen, sealed) ==
    [rows   |-> disk.servers.rows,
     next   |-> Higher(Higher(meta.next,
                              Higher(Highest(disk.servers.rows),
                                     Highest(meta.rows)) + 1),
                       Floor(seen)),
     edits  |-> meta.edits,
     paired |-> disk.servers.paired,
     sealed |-> sealed]

Fresh(seen, sealed) == [Blank EXCEPT !.next = Floor(seen), !.sealed = sealed]

(* How settings.toml reads, and what it costs the bounds; `seen' is        *)
(* whether the stores that remember uids could be read.                    *)
ReadAs(status, seen) ==
    /\ status = "unreadable" => left["unreadable"] > 0
    /\ status = "corrupt" => left["corrupt"] > 0
    /\ ~seen => left["blind"] > 0
    /\ left' = [left EXCEPT
                  !["unreadable"] = IF status = "unreadable" THEN @ - 1 ELSE @,
                  !["corrupt"] = IF status = "corrupt" THEN @ - 1 ELSE @,
                  !["blind"] = IF seen THEN @ ELSE @ - 1]

Load(status, seen) ==
    /\ phase \in {"down", "closed"}
    /\ ReadAs(status, seen)
    /\ LET meta   == IF status = "present" THEN disk.settings ELSE NoSettings
           sealed == status = "unreadable"
           cfg    == IF disk.servers.there THEN Merged(meta, seen, sealed)
                                           ELSE Fresh(seen, sealed)
           saves  == /\ disk.servers.there
                     /\ cfg.next > meta.next \/ disk.marker
                     /\ ~sealed
       IN  /\ cfg.next \in 0..(MaxUid + 1)
           /\ live' = cfg
           /\ write' = IF saves THEN [NoWrite EXCEPT !.by = "ui", !.cfg = cfg]
                                ELSE NoWrite
    /\ disk' = IF status = "corrupt" THEN [disk EXCEPT !.settings = NoSettings]
                                     ELSE disk
    /\ phase' = "up"
    /\ draft' = {} /\ dirty' = FALSE /\ flight' = NoRequest /\ final' = NoRequest
    /\ UNCHANGED <<history, backup>>

Loading == write.by = "ui" /\ write.kind = "load"

-----------------------------------------------------------------------------
(* The Settings window: a draft cloned from the live config. Core rows     *)
(* are added and removed in the draft only.                                *)

OpenSettings ==
    /\ Responsive /\ draft = {}
    /\ Spend("opens")
    /\ draft' = {live}
    /\ UNCHANGED <<phase, live, dirty, flight, final, write, disk, history, backup>>

CloseSettings ==
    /\ Responsive /\ draft # {}
    /\ draft' = {}
    /\ UNCHANGED <<phase, live, dirty, flight, final, write, disk, history,
                   backup, left>>

EditDraft ==
    /\ Responsive
    /\ \E d \in draft :
          \/ \E c \in Cores \ CoresOf(d.rows \cup live.rows) :
                /\ Unnamed(d) = {}
                /\ draft' = {[d EXCEPT !.rows = @ \cup {[core |-> c, uid |-> 0]}]}
          \/ \E r \in d.rows : draft' = {[d EXCEPT !.rows = @ \ {r}]}
    /\ UNCHANGED <<phase, live, dirty, flight, final, write, disk, history,
                   backup, left>>

-----------------------------------------------------------------------------
(* An edit made outside the window: the live config, the open draft when   *)
(* the setter mirrors it, and the dirty flag.                              *)

WithEdit(cfg, e)  == [cfg EXCEPT !.edits = @ \cup {e}]
(* Mutant of MirrorEdit: the edit reaches the live config only. *)
LiveOnly(e)       == draft
MirrorEdit(e)     == IF e \in Mirrored THEN {WithEdit(d, e) : d \in draft}
                                       ELSE draft

EditLive ==
    /\ Responsive
    /\ \E e \in Edits \ live.edits :
          /\ live' = WithEdit(live, e)
          /\ draft' = MirrorEdit(e)
    /\ dirty' = TRUE
    /\ UNCHANGED <<phase, flight, final, write, disk, history, backup, left>>

(* dispatch_live_persistence: take the answer of the request in flight,    *)
(* then hand the normalised live config to the idle worker when due.       *)
Tick(due) ==
    /\ Responsive /\ ~Unanswered
    /\ LET sends == due /\ NeedsSave /\ ~live.sealed
       IN  /\ flight.stage # "none" \/ sends
           /\ Room(live)
           /\ IF sends
              THEN /\ live' = EnsureUids(live)
                   /\ flight' = [stage |-> "queued", cfg |-> EnsureUids(live)]
                   /\ dirty' = FALSE
              ELSE /\ flight' = NoRequest /\ dirty' = NeedsSave
                   /\ UNCHANGED live
    /\ UNCHANGED <<phase, draft, final, write, disk, history, backup, left>>

-----------------------------------------------------------------------------
(* Deliberate saves: finish_pending_persistence waits for the request in   *)
(* flight and takes its answer, then the candidate is normalised and       *)
(* written on the application thread.                                      *)

(* Mutant of FinishPending: the save does not wait for the request in flight. *)
SaveAtOnce == UNCHANGED <<flight, dirty>>

FinishPending ==
    /\ ~Unanswered
    /\ flight' = NoRequest
    /\ dirty' = NeedsSave

(* Mutant of BeginSave: a config whose settings could not be read may be saved. *)
BeginBlindSave(kind, cfg, row) ==
    /\ Room(cfg)
    /\ write' = [by |-> "ui", kind |-> kind, cfg |-> EnsureUids(cfg),
                 step |-> "begin", row |-> row]

BeginSave(kind, cfg, row) ==
    /\ ~cfg.sealed /\ Room(cfg)
    /\ write' = [by |-> "ui", kind |-> kind, cfg |-> EnsureUids(cfg),
                 step |-> "begin", row |-> row]

SaveDraft ==
    /\ Responsive /\ FinishPending
    /\ \E d \in draft : BeginSave("settings", d, {})
    /\ Spend("saves")
    /\ UNCHANGED <<phase, live, draft, final, disk, history, backup>>

(* The pulled strategy slots: an edit, mirrored, saved at once in place.   *)
SaveLive ==
    /\ Responsive /\ ~Unanswered
    /\ \E e \in Mirrored :
          LET cfg == WithEdit(live, e)
          IN  /\ draft' = MirrorEdit(e)
              /\ BeginSave("live", cfg, {})
              /\ live' = EnsureUids(cfg)
    /\ flight' = NoRequest /\ dirty' = TRUE
    /\ Spend("saves")
    /\ UNCHANGED <<phase, final, disk, history, backup>>

(* The connect wizard adds a row to the saved settings, or drops one.      *)
WizardMayRun == draft = {} \/ WizardOverDraft

AddRow ==
    /\ Responsive /\ WizardMayRun /\ FinishPending
    /\ \E c \in Cores \ CoresOf(live.rows \cup UNION {d.rows : d \in draft}) :
          LET cfg == [live EXCEPT !.rows = @ \cup {[core |-> c, uid |-> 0]}]
          IN  BeginSave("add", cfg, {r \in EnsureUids(cfg).rows : r.core = c})
    /\ Spend("wizard")
    /\ UNCHANGED <<phase, live, draft, final, disk, history, backup>>

DropRow ==
    /\ Responsive /\ WizardMayRun /\ FinishPending
    /\ \E r \in live.rows : BeginSave("drop", [live EXCEPT !.rows = @ \ {r}], {r})
    /\ Spend("wizard")
    /\ UNCHANGED <<phase, live, draft, final, disk, history, backup>>

(* save_telegram: servers.enc alone, refused while a pair write is         *)
(* unfinished; one atomic replacement, then the live config and the draft. *)
Pair(on) ==
    /\ Responsive /\ FinishPending
    /\ ~live.sealed /\ ~disk.marker
    /\ live.paired # on
    /\ live' = [live EXCEPT !.paired = on]
    /\ draft' = {[d EXCEPT !.paired = on] : d \in draft}
    /\ disk' = [disk EXCEPT !.servers = ServersOf(live')]
    /\ Spend("pairings")
    /\ UNCHANGED <<phase, final, write, history, backup>>

-----------------------------------------------------------------------------
(* The pair write, one file operation at a time, and what its end means to *)
(* the thread that ran it.                                                 *)

(* What a successful deliberate save installs.                             *)
Install ==
    CASE write.kind = "settings" -> live' = write.cfg /\ draft' = {write.cfg}
      [] write.kind = "add" ->
            /\ live' = write.cfg
            /\ draft' = {[d EXCEPT !.rows = @ \cup write.row] : d \in draft}
      [] write.kind = "drop" ->
            /\ live' = write.cfg
            /\ draft' = {[d EXCEPT !.rows = {r \in @ : r.uid \notin UidsOf(write.row)}]
                         : d \in draft}
      [] OTHER -> UNCHANGED <<live, draft>>

EndWrite(ok) ==
    /\ write' = NoWrite
    /\ flight' = IF write.kind = "autosave"
                 THEN [stage |-> IF ok THEN "ok" ELSE "failed", cfg |-> Blank]
                 ELSE flight
    /\ final' = CASE write.kind = "final" ->
                       [final EXCEPT !.stage = IF ok THEN "ok" ELSE "failed"]
                  [] write.kind = "fallback" ->
                       [final EXCEPT !.stage = IF ok THEN "ok" ELSE "lost"]
                  [] OTHER -> final
    /\ dirty' = IF ok /\ write.kind = "live" THEN FALSE ELSE dirty
    /\ IF ok THEN Install ELSE UNCHANGED <<live, draft>>

Writing(step) == Running /\ write.by # "none" /\ write.step = step

WriteMarker ==
    /\ Writing("begin")
    /\ disk' = [disk EXCEPT !.marker = TRUE]
    /\ write' = [write EXCEPT !.step = "servers"]
    /\ UNCHANGED <<phase, live, draft, dirty, flight, final, history, backup, left>>

WriteServers ==
    /\ Writing("servers")
    /\ disk' = [disk EXCEPT !.servers = ServersOf(write.cfg)]
    /\ write' = [write EXCEPT !.step = "settings"]
    /\ UNCHANGED <<phase, live, draft, dirty, flight, final, history, backup, left>>

WriteSettings ==
    /\ Writing("settings")
    /\ disk' = [disk EXCEPT !.settings = SettingsOf(write.cfg)]
    /\ write' = [write EXCEPT !.step = "finish"]
    /\ UNCHANGED <<phase, live, draft, dirty, flight, final, history, backup, left>>

RemoveMarker ==
    /\ Writing("finish")
    /\ disk' = [disk EXCEPT !.marker = FALSE]
    /\ EndWrite(TRUE)
    /\ UNCHANGED <<phase, history, backup, left>>

(* Any step may fail; the files it left are what the next load finds.      *)
FailWrite ==
    /\ Running /\ write.by # "none"
    /\ Spend("fails")
    /\ EndWrite(FALSE)
    /\ UNCHANGED <<phase, disk, history, backup>>

-----------------------------------------------------------------------------
(* The worker takes its commands in order: the request in flight, then the *)
(* quit snapshot. What it could not write at quit is retried by the        *)
(* application thread once the worker has ended.                           *)

StartWrite(by, kind, cfg) ==
    /\ write.by = "none"
    /\ write' = [NoWrite EXCEPT !.by = by, !.kind = kind, !.cfg = cfg]

TakeRequest ==
    /\ Running /\ flight.stage = "queued"
    /\ StartWrite("worker", "autosave", flight.cfg)
    /\ flight' = [stage |-> "writing", cfg |-> Blank]
    /\ UNCHANGED <<phase, live, draft, dirty, final, disk, history, backup, left>>

(* Mutant of Quit: the quit snapshot holds the config only when it is dirty. *)
QuitDirtyOnly ==
    /\ Responsive /\ Room(live)
    /\ Spend("quits")
    /\ phase' = "closing"
    /\ draft' = {}
    /\ IF dirty /\ ~live.sealed
       THEN /\ live' = EnsureUids(live)
            /\ final' = [stage |-> "queued", cfg |-> EnsureUids(live)]
       ELSE UNCHANGED <<live, final>>
    /\ UNCHANGED <<dirty, flight, write, disk, history, backup>>

(* on_app_quit: the latest config when it is dirty or an older write of it *)
(* is not acknowledged, behind what the worker already holds.              *)
Quit ==
    /\ Responsive /\ Room(live)
    /\ Spend("quits")
    /\ phase' = "closing"
    /\ draft' = {}
    /\ IF (dirty \/ flight.stage # "none") /\ ~live.sealed
       THEN /\ live' = EnsureUids(live)
            /\ final' = [stage |-> "queued", cfg |-> EnsureUids(live)]
       ELSE UNCHANGED <<live, final>>
    /\ UNCHANGED <<dirty, flight, write, disk, history, backup>>

TakeFinal ==
    /\ phase = "closing" /\ ~Unanswered /\ final.stage = "queued"
    /\ StartWrite("worker", "final", final.cfg)
    /\ final' = [final EXCEPT !.stage = "writing"]
    /\ UNCHANGED <<phase, live, draft, dirty, flight, disk, history, backup, left>>

Fallback ==
    /\ phase = "closing" /\ final.stage = "failed"
    /\ StartWrite("ui", "fallback", final.cfg)
    /\ final' = [final EXCEPT !.stage = "writing"]
    /\ UNCHANGED <<phase, live, draft, dirty, flight, disk, history, backup, left>>

Close ==
    /\ phase = "closing" /\ write.by = "none" /\ ~Unanswered
    /\ final.stage \in {"none", "ok", "lost"}
    /\ phase' = "closed"
    /\ flight' = NoRequest
    /\ UNCHANGED <<live, draft, dirty, final, write, disk, history, backup, left>>

Crash ==
    /\ Running
    /\ Spend("crashes")
    /\ phase' = "down"
    /\ live' = Blank /\ draft' = {} /\ dirty' = FALSE
    /\ flight' = NoRequest /\ final' = NoRequest /\ write' = NoWrite
    /\ UNCHANGED <<disk, history, backup>>

-----------------------------------------------------------------------------
(* A feed of a configured core stores rows under its uid.                  *)
StoreHistory ==
    /\ Running /\ ~Loading
    /\ \E r \in live.rows \ history : history' = history \cup {r}
    /\ UNCHANGED <<phase, live, draft, dirty, flight, final, write, disk,
                   backup, left>>

(* backup_due_at: both files under the pair lock, refused while the marker *)
(* of an unfinished replacement is there.                                  *)
PairLockFree == write.by = "none" \/ write.step = "begin"

(* Mutant of BackUp: the unfinished replacement is not asked about. *)
BackUpAnyway ==
    /\ Running /\ ~Loading /\ PairLockFree
    /\ disk.servers.there /\ disk.settings # NoSettings
    /\ Spend("backups")
    /\ backup' = {[servers |-> disk.servers, settings |-> disk.settings]}
    /\ UNCHANGED <<phase, live, draft, dirty, flight, final, write, disk, history>>

BackUp ==
    /\ Running /\ ~Loading /\ PairLockFree
    /\ ~disk.marker
    /\ disk.servers.there /\ disk.settings # NoSettings
    /\ Spend("backups")
    /\ backup' = {[servers |-> disk.servers, settings |-> disk.settings]}
    /\ UNCHANGED <<phase, live, draft, dirty, flight, final, write, disk, history>>

-----------------------------------------------------------------------------

Init ==
    /\ phase = "down"
    /\ live = Blank /\ draft = {} /\ dirty = FALSE
    /\ flight = NoRequest /\ final = NoRequest /\ write = NoWrite
    /\ disk = [servers |-> NoServers, settings |-> NoSettings, marker |-> FALSE]
    /\ history = {} /\ backup = {}
    /\ left \in Scenarios

Loads == \E status \in {"present", "unreadable", "corrupt"}, seen \in BOOLEAN :
            Load(status, seen)
Ticks == \E due \in BOOLEAN : Tick(due)
Pairs == \E on \in BOOLEAN : Pair(on)

Next ==
    \/ Loads \/ OpenSettings \/ CloseSettings \/ EditDraft \/ EditLive
    \/ Ticks \/ SaveDraft \/ SaveLive \/ AddRow \/ DropRow \/ Pairs
    \/ WriteMarker \/ WriteServers \/ WriteSettings \/ RemoveMarker
    \/ FailWrite \/ TakeRequest \/ Quit \/ TakeFinal \/ Fallback \/ Close
    \/ Crash \/ StoreHistory \/ BackUp

Spec == Init /\ [][Next]_vars

(* The tick runs every 100 ms; the worker and a save run to their end.     *)
Fairness ==
    /\ WF_vars(Tick(TRUE))
    /\ WF_vars(TakeRequest)
    /\ WF_vars(WriteMarker \/ WriteServers \/ WriteSettings \/ RemoveMarker)

FairSpec == Spec /\ Fairness

-----------------------------------------------------------------------------
(* Properties *)

(* Every authority, file and request has the shape the code gives it.      *)
TypeOK ==
    /\ phase \in {"down", "up", "closing", "closed"}
    /\ live \in Authority
    /\ draft \subseteq Authority
    /\ dirty \in BOOLEAN
    /\ flight \in Request /\ final \in Request
    /\ write \in PairWrite
    /\ disk \in [servers : Servers, settings : Settings, marker : BOOLEAN]
    /\ history \subseteq Row
    /\ backup \subseteq [servers : Servers, settings : Settings]
    /\ left \in [Bounded -> Nat]

(* config/uid_counter.rs: a counter that starts below a uid some store     *)
(* still remembers hands a new core a deleted one's trades. No core of the *)
(* config carries a uid under which another core's rows are stored.        *)
NoInheritedHistory ==
    \A r \in live.rows, h \in history : r.uid = h.uid => r.core = h.core

(* The marker stands for every difference between servers.enc and the live *)
(* config: without it the file holds the rows and the Telegram pairing of  *)
(* the config in memory, whichever thread wrote last.                      *)
ServersAsLive ==
    Running /\ ~disk.marker =>
        disk.servers.rows = live.rows /\ disk.servers.paired = live.paired

(* config/backup.rs: the two files form one generation. A published copy   *)
(* has settings for every core and a counter above every uid it lists.     *)
BackupWhole ==
    \A b \in backup :
        /\ UidsOf(b.servers.rows) \subseteq UidsOf(b.settings.rows)
        /\ b.settings.next > Highest(b.servers.rows)

(* A quit whose last snapshot was written leaves those edits on disk, also *)
(* one made while an older snapshot was in flight or after it failed.      *)
QuitFlushes ==
    phase = "closed" /\ ~live.sealed /\ final.stage # "lost" =>
        live.edits \cap Mirrored \subseteq disk.settings.edits

(* An edit whose setter mirrors it into the open draft is rolled back      *)
(* neither in memory nor, once written, on disk, by a draft opened before  *)
(* it or by a snapshot captured before it.                                 *)
NoRollback ==
    [][phase = "up" /\ phase' = "up" =>
        \A e \in live.edits \cap Mirrored :
            /\ e \in live'.edits
            /\ e \in disk.settings.edits => e \in disk'.settings.edits]_vars

(* A session that could not read settings.toml writes neither file of the  *)
(* pair, by any of its save paths.                                         *)
SealedUntouched ==
    [][Running /\ live.sealed => disk' = disk]_vars

(* An edit reaches settings.toml although writes fail and the worker       *)
(* answers late, unless the session ends first.                            *)
EditsReachDisk ==
    \A e \in Mirrored :
        (phase = "up" /\ ~live.sealed /\ e \in live.edits)
            ~> (phase # "up" \/ e \in disk.settings.edits)

=============================================================================
