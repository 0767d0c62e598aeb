-------------------- MODULE ConfigPersistence_proofs --------------------
(***************************************************************************)
(* Proofs about ConfigPersistence.  First the types and the uids: a core   *)
(* never inherits the history of another one.  Then, for every scenario,   *)
(* the two files: servers.enc is the live server list whenever no marker   *)
(* says otherwise, a published backup is one generation, a quit leaves the *)
(* last edits on disk, an edit is not rolled back, and a session that      *)
(* could not read settings.toml writes neither file.                       *)
(***************************************************************************)
EXTENDS ConfigPersistence, SequenceFacts

USE UidAssumption, EditAssumption, WizardAssumption, ScenarioAssumption

-----------------------------------------------------------------------------
(* The counter *)

LEMMA HighestUid ==
  ASSUME NEW S \in SUBSET Row
  PROVE  /\ Highest(S) \in 0..MaxUid
         /\ \A r \in S : r.uid <= Highest(S)
         /\ Highest(S) = 0 \/ \E r \in S : r.uid = Highest(S)
<1> DEFINE U == {0} \cup UidsOf(S)
           T == {u + 1 : u \in U}
<1>1. U \in SUBSET (0..MaxUid) /\ U # {}
  BY DEF UidsOf, Row
<1>2. T \in SUBSET (1..(MaxUid + 1)) /\ T # {}
  BY <1>1
<1>3. PICK t \in T : \A y \in T : y <= t
  <2> HIDE DEF T
  <2>1. MaxUid + 1 \in Nat
    OBVIOUS
  <2> QED BY <1>2, <2>1, LastPosition
<1>4. PICK x \in U : t = x + 1
  OBVIOUS
<1>5. \A y \in U : y + 1 \in T
  OBVIOUS
<1>6. \A y \in U : x >= y
  <2> HIDE DEF T, U
  <2> QED BY <1>1, <1>3, <1>4, <1>5
<1>7. Max(U) \in U /\ \A y \in U : Max(U) >= y
  <2> HIDE DEF U
  <2> QED BY <1>4, <1>6 DEF Max
<1>8. Highest(S) = Max(U)
  BY DEF Highest
<1>9. /\ \A r \in S : r.uid \in U
      /\ \A u \in U : u = 0 \/ \E r \in S : r.uid = u
  BY DEF UidsOf
<1> QED
  <2> HIDE DEF U
  <2> QED BY <1>1, <1>7, <1>8, <1>9

LEMMA RaisedAbove ==
  ASSUME NEW cfg \in Authority
  PROVE  /\ Raised(cfg) \in 1..(MaxUid + 1)
         /\ Raised(cfg) >= cfg.next
         /\ \A r \in cfg.rows : r.uid < Raised(cfg)
<1>1. cfg.rows \in SUBSET Row /\ cfg.next \in 0..(MaxUid + 1)
  BY DEF Authority
<1>2. /\ Highest(cfg.rows) \in 0..MaxUid
      /\ \A r \in cfg.rows : r.uid <= Highest(cfg.rows)
  BY <1>1, HighestUid
<1>3. \A r \in cfg.rows : r.uid \in 0..MaxUid
  BY <1>1 DEF Row
<1> QED BY <1>1, <1>2, <1>3 DEF Raised, Higher

(* What ensure_uids returns: the named rows stay, a new one takes a uid at *)
(* least the counter and above every row, and the counter moves past it.   *)
LEMMA EnsureUidsProperties ==
  ASSUME NEW cfg \in Authority, Room(cfg)
  PROVE  /\ EnsureUids(cfg) \in Authority
         /\ EnsureUids(cfg).next >= cfg.next
         /\ EnsureUids(cfg).edits = cfg.edits
         /\ EnsureUids(cfg).paired = cfg.paired
         /\ EnsureUids(cfg).sealed = cfg.sealed
         /\ \A r \in EnsureUids(cfg).rows :
               /\ r.uid \in Nat \ {0} /\ r.uid < EnsureUids(cfg).next
               /\ \/ r \in cfg.rows
                  \/ r.uid >= cfg.next /\ (\A q \in cfg.rows : q.uid < r.uid)
                                       /\ r.uid = Raised(cfg)
<1> DEFINE kept == cfg.rows \ Unnamed(cfg)
           new  == {[core |-> r.core, uid |-> Raised(cfg)] : r \in Unnamed(cfg)}
           top  == IF Unnamed(cfg) = {} THEN Raised(cfg) ELSE Raised(cfg) + 1
<1>1. /\ EnsureUids(cfg) = [cfg EXCEPT !.rows = kept \cup new, !.next = top]
      /\ cfg.rows \in SUBSET Row /\ cfg.next \in 0..(MaxUid + 1)
  BY DEF EnsureUids, Authority
<1>2. /\ EnsureUids(cfg).rows = kept \cup new /\ EnsureUids(cfg).next = top
      /\ EnsureUids(cfg).edits = cfg.edits
      /\ EnsureUids(cfg).paired = cfg.paired
      /\ EnsureUids(cfg).sealed = cfg.sealed
  BY <1>1 DEF Authority
<1>3. /\ Raised(cfg) \in 1..(MaxUid + 1) /\ Raised(cfg) >= cfg.next
      /\ \A r \in cfg.rows : r.uid < Raised(cfg)
  BY RaisedAbove
<1>4. Unnamed(cfg) # {} => Raised(cfg) \in 1..MaxUid
  BY <1>3 DEF Room
<1>5. new \in SUBSET Row
  BY <1>1, <1>4 DEF Row, Unnamed
<1>6. top \in 1..(MaxUid + 1) /\ top >= cfg.next
  BY <1>1, <1>3, <1>4
<1>7. EnsureUids(cfg) \in Authority
  <2>1. kept \cup new \in SUBSET Row /\ top \in 0..(MaxUid + 1)
    BY <1>1, <1>5, <1>6
  <2> HIDE DEF kept, new, top
  <2> QED BY <1>1, <2>1 DEF Authority
<1>8. \A r \in kept : /\ r \in cfg.rows /\ r.uid \in Nat \ {0}
                      /\ r.uid < top
  BY <1>1, <1>3, <1>4 DEF Unnamed, Row
<1>9. \A r \in new : /\ r.uid = Raised(cfg) /\ r.uid < top
  BY <1>3, <1>4
<1> HIDE DEF kept, new, top
<1>10. \A r \in EnsureUids(cfg).rows :
          /\ r.uid \in Nat \ {0} /\ r.uid < EnsureUids(cfg).next
          /\ \/ r \in cfg.rows
             \/ r.uid >= cfg.next /\ (\A q \in cfg.rows : q.uid < r.uid)
                                  /\ r.uid = Raised(cfg)
  BY <1>2, <1>3, <1>8, <1>9
<1> QED BY <1>2, <1>6, <1>7, <1>10

-----------------------------------------------------------------------------
(* Types of what the actions build *)

LEMMA SpendTyped ==
  ASSUME NEW b \in Bounded, left \in [Bounded -> Nat], Spend(b)
  PROVE  left' \in [Bounded -> Nat]
  BY DEF Spend

LEMMA BlankTyped ==
  /\ Blank \in Authority /\ NoRequest \in Request /\ NoWrite \in PairWrite
  /\ NoServers \in Servers /\ NoSettings \in Settings
<1>1. Blank \in Authority
  BY DEF Blank, Authority
<1> QED BY <1>1 DEF NoRequest, Request, NoWrite, PairWrite, Kinds, NoServers,
                    Servers, NoSettings, Settings

LEMMA EditTyped ==
  ASSUME NEW cfg \in Authority, NEW e \in Edits
  PROVE  /\ WithEdit(cfg, e) \in Authority
         /\ WithEdit(cfg, e).rows = cfg.rows
         /\ WithEdit(cfg, e).next = cfg.next
         /\ WithEdit(cfg, e).sealed = cfg.sealed
  BY DEF WithEdit, Authority

LEMMA RowsTyped ==
  ASSUME NEW cfg \in Authority, NEW rows \in SUBSET Row
  PROVE  /\ [cfg EXCEPT !.rows = rows] \in Authority
         /\ [cfg EXCEPT !.rows = rows].rows = rows
         /\ [cfg EXCEPT !.rows = rows].next = cfg.next
         /\ [cfg EXCEPT !.rows = rows].sealed = cfg.sealed
         /\ [cfg EXCEPT !.rows = rows].edits = cfg.edits
         /\ [cfg EXCEPT !.rows = rows].paired = cfg.paired
  BY DEF Authority

LEMMA FilesTyped ==
  ASSUME NEW cfg \in Authority
  PROVE  ServersOf(cfg) \in Servers /\ SettingsOf(cfg) \in Settings
  BY DEF ServersOf, SettingsOf, Servers, Settings, Authority

LEMMA BeginTyped ==
  ASSUME NEW kind \in Kinds, NEW cfg \in Authority, NEW row \in SUBSET Row,
         BeginSave(kind, cfg, row)
  PROVE  write' \in PairWrite
<1>1. EnsureUids(cfg) \in Authority
  BY EnsureUidsProperties DEF BeginSave
<1> QED BY <1>1 DEF BeginSave, PairWrite

LEMMA StartTyped ==
  ASSUME NEW by \in {"worker", "ui"}, NEW kind \in Kinds, NEW cfg \in Authority,
         StartWrite(by, kind, cfg)
  PROVE  /\ write' \in PairWrite
         /\ write' = [by |-> by, kind |-> kind, cfg |-> cfg, step |-> "begin",
                      row |-> {}]
<1>1. write' = [by |-> by, kind |-> kind, cfg |-> cfg, step |-> "begin", row |-> {}]
  BY DEF StartWrite, NoWrite
<1> QED BY <1>1 DEF PairWrite

LEMMA FinishTyped ==
  ASSUME TypeOK, FinishPending
  PROVE  flight' \in Request /\ dirty' \in BOOLEAN
<1>1. flight' \in Request
  BY BlankTyped DEF FinishPending
<1>2. dirty' \in BOOLEAN
  BY Zenon DEF TypeOK, FinishPending, NeedsSave
<1> QED BY <1>1, <1>2

LEMMA NewRow ==
  ASSUME NEW c \in Cores
  PROVE  {[core |-> c, uid |-> 0]} \in SUBSET Row
  BY DEF Row

(* What an ended write leaves in memory. *)
LEMMA EndTyped ==
  ASSUME TypeOK, NEW ok \in BOOLEAN, EndWrite(ok)
  PROVE  /\ write' \in PairWrite /\ flight' \in Request /\ final' \in Request
         /\ dirty' \in BOOLEAN /\ live' \in Authority /\ draft' \subseteq Authority
<1>1. write' \in PairWrite
  BY BlankTyped DEF EndWrite
<1>2. flight' \in Request
  <2>1. CASE write.kind = "autosave"
    BY <2>1, BlankTyped DEF EndWrite, Request
  <2>2. CASE write.kind # "autosave"
    BY <2>2 DEF EndWrite, TypeOK
  <2> QED BY <2>1, <2>2
<1>3. final' \in Request
  <2>1. final \in Request
    BY DEF TypeOK
  <2>2. final' \in {final} \cup {[final EXCEPT !.stage = x] : x \in {"ok", "failed", "lost"}}
    BY DEF EndWrite
  <2>3. \A x \in {"ok", "failed", "lost"} : [final EXCEPT !.stage = x] \in Request
    BY <2>1 DEF Request
  <2> QED BY <2>1, <2>2, <2>3
<1>4. dirty' \in BOOLEAN
  BY Zenon DEF EndWrite, TypeOK
<1>5. live' \in Authority /\ draft' \subseteq Authority
  <2>1. /\ live \in Authority /\ draft \subseteq Authority
        /\ write.cfg \in Authority /\ write.row \in SUBSET Row
    BY DEF TypeOK, PairWrite
  <2>2. CASE ~ok \/ write.kind \notin {"settings", "add", "drop"}
    <3>1. live' = live /\ draft' = draft
      BY <2>2 DEF EndWrite, Install
    <3> QED BY <2>1, <3>1
  <2>3. CASE ok /\ write.kind = "settings"
    BY <2>1, <2>3 DEF EndWrite, Install
  <2>4. CASE ok /\ write.kind = "add"
    <3>1. live' = write.cfg
          /\ draft' = {[d EXCEPT !.rows = @ \cup write.row] : d \in draft}
      BY <2>4 DEF EndWrite, Install
    <3>2. \A d \in draft : d \in Authority /\ d.rows \cup write.row \in SUBSET Row
      BY <2>1 DEF Authority
    <3>3. \A d \in draft : [d EXCEPT !.rows = d.rows \cup write.row] \in Authority
      BY <3>2, RowsTyped
    <3>4. draft' \subseteq Authority
      BY <3>1, <3>3
    <3> QED BY <2>1, <3>1, <3>4
  <2>5. CASE ok /\ write.kind = "drop"
    <3>1. live' = write.cfg
          /\ draft' = {[d EXCEPT !.rows = {r \in @ : r.uid \notin UidsOf(write.row)}]
                        : d \in draft}
      BY <2>5 DEF EndWrite, Install
    <3>2. \A d \in draft : /\ d \in Authority
                          /\ {r \in d.rows : r.uid \notin UidsOf(write.row)} \in SUBSET Row
      BY <2>1 DEF Authority
    <3>3. \A d \in draft : [d EXCEPT !.rows = {r \in d.rows : r.uid \notin UidsOf(write.row)}]
                            \in Authority
      BY <3>2, RowsTyped
    <3>4. draft' \subseteq Authority
      BY <3>1, <3>3
    <3> QED BY <2>1, <3>1, <3>4
  <2> QED BY <2>2, <2>3, <2>4, <2>5
<1> QED BY <1>1, <1>2, <1>3, <1>4, <1>5

LEMMA FloorTyped ==
  ASSUME TypeOK, NEW seen \in BOOLEAN
  PROVE  /\ Floor(seen) \in 0..(MaxUid + 1)
         /\ seen => \A h \in history : h.uid < Floor(seen)
<1>1. history \in SUBSET Row
  BY DEF TypeOK
<1>2. /\ Highest(history) \in 0..MaxUid
      /\ \A h \in history : h.uid <= Highest(history) /\ h.uid \in 0..MaxUid
  BY <1>1, HighestUid DEF Row
<1> QED BY <1>1, <1>2 DEF Floor

(* What a start leaves: the rows of servers.enc, a counter above them and, *)
(* when the stores were read, above every uid they remember.               *)
LEMMA LoadShape ==
  ASSUME TypeOK, NEW status \in {"present", "unreadable", "corrupt"},
         NEW seen \in BOOLEAN, Load(status, seen)
  PROVE  /\ live' \in Authority
         /\ live'.rows \in {disk.servers.rows, {}}
         /\ \A r \in live'.rows : r.uid < live'.next
         /\ Floor(seen) <= live'.next
         /\ \/ write' = NoWrite
            \/ write' = [by |-> "ui", kind |-> "load", cfg |-> live',
                         step |-> "begin", row |-> {}]
         /\ disk' = disk \/ disk' = [disk EXCEPT !.settings = NoSettings]
<1> DEFINE meta   == IF status = "present" THEN disk.settings ELSE NoSettings
           sealed == status = "unreadable"
           cfg    == IF disk.servers.there THEN Merged(meta, seen, sealed)
                                           ELSE Fresh(seen, sealed)
<1>1. /\ live' = cfg /\ cfg.next \in 0..(MaxUid + 1)
      /\ write' \in {NoWrite, [NoWrite EXCEPT !.by = "ui", !.cfg = cfg]}
      /\ disk' = disk \/ disk' = [disk EXCEPT !.settings = NoSettings]
  BY DEF Load
<1>2. /\ disk.servers.rows \in SUBSET Row /\ disk.servers.paired \in BOOLEAN
      /\ disk.settings \in Settings
  BY DEF TypeOK, Servers
<1>3. /\ meta.rows \in SUBSET Row /\ meta.next \in 0..(MaxUid + 1)
      /\ meta.edits \in SUBSET Edits
  BY <1>2, BlankTyped DEF Settings
<1>4. sealed \in BOOLEAN
  OBVIOUS
<1>5. Floor(seen) \in 0..(MaxUid + 1)
  BY FloorTyped
<1> HIDE DEF meta, sealed
<1>6. CASE disk.servers.there
  <2> DEFINE next == Higher(Higher(meta.next, Higher(Highest(disk.servers.rows),
                                                  Highest(meta.rows)) + 1), Floor(seen))
  <2>1. cfg = [rows |-> disk.servers.rows, next |-> next, edits |-> meta.edits,
               paired |-> disk.servers.paired, sealed |-> sealed]
    BY <1>6 DEF Merged
  <2>2. /\ Highest(disk.servers.rows) \in 0..MaxUid /\ Highest(meta.rows) \in 0..MaxUid
        /\ \A r \in disk.servers.rows : r.uid <= Highest(disk.servers.rows)
                                        /\ r.uid \in 0..MaxUid
    BY <1>2, <1>3, HighestUid DEF Row
  <2>3. next > Highest(disk.servers.rows) /\ Floor(seen) <= next
    BY <1>3, <1>5, <2>2 DEF Higher
  <2>4. next \in 0..(MaxUid + 1)
    BY <1>1, <2>1
  <2> HIDE DEF next, cfg
  <2>5. cfg \in Authority /\ cfg.rows = disk.servers.rows /\ cfg.next = next
    BY <1>2, <1>3, <1>4, <2>1, <2>4 DEF Authority
  <2>6. \A r \in cfg.rows : r.uid < cfg.next
    BY <2>2, <2>3, <2>4, <2>5
  <2>7. write' = NoWrite \/ write' = [by |-> "ui", kind |-> "load", cfg |-> cfg,
                                      step |-> "begin", row |-> {}]
    BY <1>1 DEF NoWrite
  <2> QED BY <1>1, <2>3, <2>5, <2>6, <2>7
<1>7. CASE ~disk.servers.there
  <2>1. cfg = [Blank EXCEPT !.next = Floor(seen), !.sealed = sealed]
    BY <1>7 DEF Fresh
  <2> HIDE DEF cfg
  <2>2. cfg \in Authority /\ cfg.rows = {} /\ cfg.next = Floor(seen)
    BY <1>4, <1>5, <2>1 DEF Blank, Authority
  <2>3. write' = NoWrite \/ write' = [by |-> "ui", kind |-> "load", cfg |-> cfg,
                                      step |-> "begin", row |-> {}]
    BY <1>1 DEF NoWrite
  <2> QED BY <1>1, <1>5, <2>2, <2>3
<1> QED BY <1>6, <1>7

(* Type correctness of a start. *)
LEMMA LoadTyped ==
  ASSUME TypeOK, NEW status \in {"present", "unreadable", "corrupt"},
         NEW seen \in BOOLEAN, Load(status, seen)
  PROVE  TypeOK'
<1>1. live' \in Authority /\ draft' = {} /\ dirty' = FALSE /\ phase' = "up"
      /\ flight' = NoRequest /\ final' = NoRequest
      /\ history' = history /\ backup' = backup
  BY LoadShape DEF Load
<1>2. write' \in PairWrite
  <2>1. \/ write' = NoWrite
        \/ write' = [by |-> "ui", kind |-> "load", cfg |-> live',
                     step |-> "begin", row |-> {}]
    BY LoadShape
  <2> QED BY <1>1, <2>1, BlankTyped DEF PairWrite, Kinds
<1>3. disk' \in [servers : Servers, settings : Settings, marker : BOOLEAN]
  <2>1. disk' = disk \/ disk' = [disk EXCEPT !.settings = NoSettings]
    BY LoadShape
  <2> QED BY <2>1, BlankTyped DEF TypeOK
<1>4. left' \in [Bounded -> Nat]
  <2>1. left \in [Bounded -> Nat]
    BY DEF TypeOK
  <2>2. ReadAs(status, seen)
    BY DEF Load
  <2>3. \A n \in Nat : n > 0 => n - 1 \in Nat
    OBVIOUS
  <2> QED BY <2>1, <2>2, <2>3 DEF ReadAs, Bounded
<1> QED BY <1>1, <1>2, <1>3, <1>4, BlankTyped DEF TypeOK

(* The disk keeps its type through each file operation. *)
LEMMA DiskTyped ==
  ASSUME TypeOK
  PROVE  /\ \A s \in Servers : [disk EXCEPT !.servers = s]
                               \in [servers : Servers, settings : Settings, marker : BOOLEAN]
         /\ \A s \in Settings : [disk EXCEPT !.settings = s]
                               \in [servers : Servers, settings : Settings, marker : BOOLEAN]
         /\ \A m \in BOOLEAN : [disk EXCEPT !.marker = m]
                               \in [servers : Servers, settings : Settings, marker : BOOLEAN]
  BY DEF TypeOK

(* One case per action. *)
LEMMA TypeStep ==
  ASSUME TypeOK, [Next]_vars
  PROVE  TypeOK'
<1>0. /\ live \in Authority /\ draft \subseteq Authority
      /\ left \in [Bounded -> Nat] /\ write \in PairWrite
      /\ flight \in Request /\ final \in Request
  BY DEF TypeOK
<1>01. write.cfg \in Authority /\ flight.cfg \in Authority /\ final.cfg \in Authority
  BY <1>0 DEF PairWrite, Request
<1>1. CASE Loads
  BY <1>1, LoadTyped DEF Loads
<1>2. CASE OpenSettings
  <2>1. left' \in [Bounded -> Nat]
    BY <1>0, <1>2, SpendTyped DEF OpenSettings, Bounded
  <2> QED BY <1>2, <2>1 DEF OpenSettings, TypeOK
<1>3. CASE CloseSettings
  BY <1>3 DEF CloseSettings, TypeOK
<1>4. CASE EditDraft
  <2>1. draft' \subseteq Authority
    <3>1. PICK d \in draft :
            \/ \E c \in Cores : draft' = {[d EXCEPT !.rows = @ \cup {[core |-> c, uid |-> 0]}]}
            \/ \E r \in d.rows : draft' = {[d EXCEPT !.rows = @ \ {r}]}
      BY <1>4 DEF EditDraft
    <3>2. d \in Authority /\ d.rows \in SUBSET Row
      BY <1>0 DEF Authority
    <3>3. CASE \E c \in Cores : draft' = {[d EXCEPT !.rows = @ \cup {[core |-> c, uid |-> 0]}]}
      <4>1. PICK c \in Cores : draft' = {[d EXCEPT !.rows = d.rows \cup {[core |-> c, uid |-> 0]}]}
        BY <3>3
      <4>2. d.rows \cup {[core |-> c, uid |-> 0]} \in SUBSET Row
        BY <3>2, NewRow
      <4> QED BY <3>2, <4>1, <4>2, RowsTyped
    <3>4. CASE \E r \in d.rows : draft' = {[d EXCEPT !.rows = @ \ {r}]}
      <4>1. PICK r \in d.rows : draft' = {[d EXCEPT !.rows = d.rows \ {r}]}
        BY <3>4
      <4>2. d.rows \ {r} \in SUBSET Row
        BY <3>2
      <4> QED BY <3>2, <4>1, <4>2, RowsTyped
    <3> QED BY <3>1, <3>3, <3>4
  <2>2. UNCHANGED <<phase, live, dirty, flight, final, write, disk, history, backup, left>>
    BY <1>4 DEF EditDraft
  <2> QED BY <2>1, <2>2 DEF TypeOK
<1>5. CASE EditLive
  <2>1. PICK e \in Edits : live' = WithEdit(live, e) /\ draft' = MirrorEdit(e)
    BY <1>5 DEF EditLive
  <2>2. live' \in Authority /\ draft' \subseteq Authority
    BY <1>0, <2>1, EditTyped DEF MirrorEdit
  <2> QED BY <1>5, <2>2 DEF EditLive, TypeOK
<1>6. CASE Ticks
  <2>1. PICK due \in BOOLEAN : Tick(due)
    BY <1>6 DEF Ticks
  <2>2. Room(live) /\ UNCHANGED <<phase, draft, final, write, disk, history, backup, left>>
    BY <2>1 DEF Tick
  <2>3. EnsureUids(live) \in Authority
    BY <1>0, <2>2, EnsureUidsProperties
  <2>4. CASE due /\ NeedsSave /\ ~live.sealed
    <3>1. live' = EnsureUids(live) /\ dirty' = FALSE
          /\ flight' = [stage |-> "queued", cfg |-> EnsureUids(live)]
      BY <2>1, <2>4 DEF Tick
    <3>2. flight' \in Request
      BY <2>3, <3>1 DEF Request
    <3> QED BY <2>2, <2>3, <3>1, <3>2 DEF TypeOK
  <2>5. CASE ~(due /\ NeedsSave /\ ~live.sealed)
    <3>1. live' = live /\ flight' = NoRequest /\ dirty' = NeedsSave
      BY <2>1, <2>5 DEF Tick
    <3>2. dirty' \in BOOLEAN
      BY <3>1, Zenon DEF TypeOK, NeedsSave
    <3> QED BY <2>2, <3>1, <3>2, BlankTyped DEF TypeOK
  <2> QED BY <2>4, <2>5
<1>7. CASE SaveDraft
  <2>1. /\ FinishPending /\ Spend("saves")
        /\ UNCHANGED <<phase, live, draft, final, disk, history, backup>>
    BY <1>7 DEF SaveDraft
  <2>2. PICK d \in draft : BeginSave("settings", d, {})
    BY <1>7 DEF SaveDraft
  <2>3. write' \in PairWrite
    BY <1>0, <2>2, BeginTyped DEF Kinds
  <2>4. left' \in [Bounded -> Nat]
    BY <1>0, <2>1, SpendTyped DEF Bounded
  <2>5. flight' \in Request /\ dirty' \in BOOLEAN
    BY <2>1, FinishTyped
  <2> QED BY <2>1, <2>3, <2>4, <2>5 DEF TypeOK
<1>8. CASE SaveLive
  <2>1. /\ flight' = NoRequest /\ dirty' = TRUE /\ Spend("saves")
        /\ UNCHANGED <<phase, final, disk, history, backup>>
    BY <1>8 DEF SaveLive
  <2>2. PICK e \in Mirrored :
           /\ draft' = MirrorEdit(e) /\ BeginSave("live", WithEdit(live, e), {})
           /\ live' = EnsureUids(WithEdit(live, e))
    BY <1>8 DEF SaveLive
  <2>3. WithEdit(live, e) \in Authority /\ draft' \subseteq Authority
    BY <1>0, <2>2, EditTyped DEF MirrorEdit
  <2>4. write' \in PairWrite
    BY <2>2, <2>3, BeginTyped DEF Kinds
  <2>5. live' \in Authority
    BY <2>2, <2>3, EnsureUidsProperties DEF BeginSave
  <2>6. left' \in [Bounded -> Nat]
    BY <1>0, <2>1, SpendTyped DEF Bounded
  <2> QED BY <2>1, <2>3, <2>4, <2>5, <2>6, BlankTyped DEF TypeOK
<1>9. CASE AddRow
  <2>1. /\ FinishPending /\ Spend("wizard")
        /\ UNCHANGED <<phase, live, draft, final, disk, history, backup>>
    BY <1>9 DEF AddRow
  <2>2. PICK c \in Cores :
          LET cfg == [live EXCEPT !.rows = live.rows \cup {[core |-> c, uid |-> 0]}]
          IN  BeginSave("add", cfg, {r \in EnsureUids(cfg).rows : r.core = c})
    BY <1>9 DEF AddRow
  <2> DEFINE cfg == [live EXCEPT !.rows = live.rows \cup {[core |-> c, uid |-> 0]}]
             row == {r \in EnsureUids(cfg).rows : r.core = c}
  <2>3. BeginSave("add", cfg, row)
    BY <2>2
  <2>4. live.rows \cup {[core |-> c, uid |-> 0]} \in SUBSET Row
    BY <1>0, NewRow DEF Authority
  <2>5. cfg \in Authority
    BY <1>0, <2>4, RowsTyped
  <2> HIDE DEF cfg
  <2>6. row \in SUBSET Row
    <3>1. EnsureUids(cfg) \in Authority
      BY <2>3, <2>5, EnsureUidsProperties DEF BeginSave
    <3> QED BY <3>1 DEF Authority
  <2> HIDE DEF row
  <2>7. write' \in PairWrite
    BY <2>3, <2>5, <2>6, BeginTyped DEF Kinds
  <2>8. left' \in [Bounded -> Nat]
    BY <1>0, <2>1, SpendTyped DEF Bounded
  <2>9. flight' \in Request /\ dirty' \in BOOLEAN
    BY <2>1, FinishTyped
  <2> QED BY <2>1, <2>7, <2>8, <2>9 DEF TypeOK
<1>10. CASE DropRow
  <2>1. /\ FinishPending /\ Spend("wizard")
        /\ UNCHANGED <<phase, live, draft, final, disk, history, backup>>
    BY <1>10 DEF DropRow
  <2>2. PICK r \in live.rows : BeginSave("drop", [live EXCEPT !.rows = live.rows \ {r}], {r})
    BY <1>10 DEF DropRow
  <2>3. live.rows \ {r} \in SUBSET Row /\ {r} \in SUBSET Row
    BY <1>0 DEF Authority
  <2>4. [live EXCEPT !.rows = live.rows \ {r}] \in Authority
    BY <1>0, <2>3, RowsTyped
  <2>5. write' \in PairWrite
    BY <2>2, <2>3, <2>4, BeginTyped DEF Kinds
  <2>6. left' \in [Bounded -> Nat]
    BY <1>0, <2>1, SpendTyped DEF Bounded
  <2>7. flight' \in Request /\ dirty' \in BOOLEAN
    BY <2>1, FinishTyped
  <2> QED BY <2>1, <2>5, <2>6, <2>7 DEF TypeOK
<1>11. CASE Pairs
  <2>1. PICK on \in BOOLEAN : Pair(on)
    BY <1>11 DEF Pairs
  <2>2. /\ FinishPending /\ Spend("pairings")
        /\ live' = [live EXCEPT !.paired = on]
        /\ draft' = {[d EXCEPT !.paired = on] : d \in draft}
        /\ disk' = [disk EXCEPT !.servers = ServersOf(live')]
        /\ UNCHANGED <<phase, final, write, history, backup>>
    BY <2>1 DEF Pair
  <2>3. \A d \in Authority : [d EXCEPT !.paired = on] \in Authority
    BY DEF Authority
  <2>4. live' \in Authority /\ draft' \subseteq Authority
    BY <1>0, <2>2, <2>3
  <2>5. disk' \in [servers : Servers, settings : Settings, marker : BOOLEAN]
    BY <2>2, <2>4, FilesTyped, DiskTyped
  <2>6. left' \in [Bounded -> Nat]
    BY <1>0, <2>2, SpendTyped DEF Bounded
  <2>7. flight' \in Request /\ dirty' \in BOOLEAN
    BY <2>2, FinishTyped
  <2> QED BY <2>2, <2>4, <2>5, <2>6, <2>7 DEF TypeOK
<1>12. CASE WriteMarker \/ WriteServers \/ WriteSettings
  <2>1. UNCHANGED <<phase, live, draft, dirty, flight, final, history, backup, left>>
    BY <1>12 DEF WriteMarker, WriteServers, WriteSettings
  <2>2. disk' \in [servers : Servers, settings : Settings, marker : BOOLEAN]
    BY <1>01, <1>12, FilesTyped, DiskTyped DEF WriteMarker, WriteServers, WriteSettings
  <2>3. write' \in PairWrite
    BY <1>0, <1>12 DEF WriteMarker, WriteServers, WriteSettings, PairWrite
  <2> QED BY <2>1, <2>2, <2>3 DEF TypeOK
<1>13. CASE RemoveMarker \/ FailWrite
  <2>1. /\ phase' = phase /\ history' = history /\ backup' = backup
        /\ \E ok \in BOOLEAN : EndWrite(ok)
    BY <1>13 DEF RemoveMarker, FailWrite
  <2>2. disk' \in [servers : Servers, settings : Settings, marker : BOOLEAN]
    <3>1. disk' = disk \/ disk' = [disk EXCEPT !.marker = FALSE]
      BY <1>13 DEF RemoveMarker, FailWrite
    <3> QED BY <3>1, DiskTyped DEF TypeOK
  <2>3. left' \in [Bounded -> Nat]
    BY <1>0, <1>13, SpendTyped DEF RemoveMarker, FailWrite, Bounded
  <2>4. /\ write' \in PairWrite /\ flight' \in Request /\ final' \in Request
        /\ dirty' \in BOOLEAN /\ live' \in Authority /\ draft' \subseteq Authority
    BY <2>1, EndTyped
  <2> QED BY <2>1, <2>2, <2>3, <2>4 DEF TypeOK
<1>14. CASE TakeRequest
  <2>1. /\ StartWrite("worker", "autosave", flight.cfg)
        /\ flight' = [stage |-> "writing", cfg |-> Blank]
        /\ UNCHANGED <<phase, live, draft, dirty, final, disk, history, backup, left>>
    BY <1>14 DEF TakeRequest
  <2>2. write' \in PairWrite
    BY <1>01, <2>1, StartTyped DEF Kinds
  <2>3. flight' \in Request
    BY <2>1, BlankTyped DEF Request
  <2> QED BY <2>1, <2>2, <2>3 DEF TypeOK
<1>15. CASE Quit
  <2>1. /\ Room(live) /\ Spend("quits") /\ phase' = "closing" /\ draft' = {}
        /\ UNCHANGED <<dirty, flight, write, disk, history, backup>>
        /\ \/ live' = live /\ final' = final
           \/ live' = EnsureUids(live)
              /\ final' = [stage |-> "queued", cfg |-> EnsureUids(live)]
    BY <1>15 DEF Quit
  <2>2. EnsureUids(live) \in Authority
    BY <1>0, <2>1, EnsureUidsProperties
  <2>3. live' \in Authority /\ final' \in Request
    BY <1>0, <2>1, <2>2 DEF Request
  <2>4. left' \in [Bounded -> Nat]
    BY <1>0, <2>1, SpendTyped DEF Bounded
  <2> QED BY <2>1, <2>3, <2>4 DEF TypeOK
<1>16. CASE TakeFinal \/ Fallback
  <2>1. /\ final' = [final EXCEPT !.stage = "writing"]
        /\ UNCHANGED <<phase, live, draft, dirty, flight, disk, history, backup, left>>
        /\ \/ StartWrite("worker", "final", final.cfg)
           \/ StartWrite("ui", "fallback", final.cfg)
    BY <1>16 DEF TakeFinal, Fallback
  <2>2. write' \in PairWrite
    BY <1>01, <2>1, StartTyped DEF Kinds
  <2>3. final' \in Request
    BY <1>0, <2>1 DEF Request
  <2> QED BY <2>1, <2>2, <2>3 DEF TypeOK
<1>17. CASE Close
  BY <1>17, BlankTyped DEF Close, TypeOK
<1>18. CASE Crash
  <2>1. left' \in [Bounded -> Nat]
    BY <1>0, <1>18, SpendTyped DEF Crash, Bounded
  <2> QED BY <1>18, <2>1, BlankTyped DEF Crash, TypeOK
<1>19. CASE StoreHistory
  <2>1. history' \subseteq Row
    BY <1>0, <1>19 DEF StoreHistory, TypeOK, Authority
  <2> QED BY <1>19, <2>1 DEF StoreHistory, TypeOK
<1>20. CASE BackUp
  <2>1. left' \in [Bounded -> Nat]
    BY <1>0, <1>20, SpendTyped DEF BackUp, Bounded
  <2>2. backup' \subseteq [servers : Servers, settings : Settings]
    BY <1>20 DEF BackUp, TypeOK
  <2> QED BY <1>20, <2>1, <2>2 DEF BackUp, TypeOK
<1>21. CASE UNCHANGED vars
  BY <1>21 DEF vars, TypeOK
<1> QED
  BY <1>1, <1>2, <1>3, <1>4, <1>5, <1>6, <1>7, <1>8, <1>9, <1>10, <1>11, <1>12,
     <1>13, <1>14, <1>15, <1>16, <1>17, <1>18, <1>19, <1>20, <1>21 DEF Next

LEMMA TypeInit == Init => TypeOK
<1> SUFFICES ASSUME Init PROVE TypeOK
  OBVIOUS
<1>1. left \in [Bounded -> Nat]
  BY DEF Init
<1>2. disk \in [servers : Servers, settings : Settings, marker : BOOLEAN]
  BY BlankTyped DEF Init
<1> QED BY <1>1, <1>2, BlankTyped DEF Init, TypeOK

(* Every authority, request, pair write and file of a behaviour has its    *)
(* type: no uid or counter leaves its range on any path that issues one.   *)
THEOREM ConfigTypeCorrect == Spec => []TypeOK
<1>1. Init => TypeOK
  BY TypeInit
<1>2. TypeOK /\ [Next]_vars => TypeOK'
  BY TypeStep
<1> QED BY <1>1, <1>2, PTL DEF Spec

-----------------------------------------------------------------------------
(* No inherited history *)

(* No uid stands for two cores, one in each of the sets. *)
Agree(a, b) == \A r \in a, q \in b : r.uid = q.uid => r.core = q.core

Named(rows) == \A r \in rows : r.uid # 0

(* What a saved config promises: every core has a uid of its own, below    *)
(* the counter, under which no other core's rows are stored.               *)
RowsKept(rows) == Named(rows) /\ Agree(rows, rows) /\ Agree(rows, history)

LiveKept ==
  /\ RowsKept(live.rows)
  /\ \A r \in live.rows : r.uid < live.next
  /\ Running => \A h \in history : h.uid < live.next

(* The draft's named cores are the live ones; its counter is not behind.   *)
DraftKept ==
  \A d \in draft :
    /\ Agree(d.rows, d.rows)
    /\ \A r \in d.rows : r.uid = 0 \/ r \in live.rows
    /\ live.next <= Higher(d.next, 1)

DiskKept ==
  RowsKept(disk.servers.rows) /\ Agree(disk.servers.rows, live.rows)

Installing == {"settings", "add", "drop"}

WriteKept ==
  write.by # "none" =>
    /\ RowsKept(write.cfg.rows) /\ Agree(write.cfg.rows, live.rows)
    /\ write.step \in {"settings", "finish"} => disk.servers.rows = write.cfg.rows
    /\ write.kind \in Installing =>
          /\ write.by = "ui" /\ phase = "up" /\ flight.stage # "queued"
          /\ \A r \in write.cfg.rows : r.uid < write.cfg.next
          /\ live.next <= write.cfg.next
    /\ write.kind \notin Installing => write.cfg.rows = live.rows
    /\ write.kind \in {"add", "drop"} => draft = {}
    /\ write.kind \in {"final", "fallback"} =>
          phase = "closing" /\ final.stage = "writing"

RequestsKept ==
  /\ flight.stage = "queued" => flight.cfg.rows = live.rows
  /\ phase = "up" => final.stage = "none"
  /\ final.stage \in {"queued", "writing", "failed"} => final.cfg.rows = live.rows

HistoryInv ==
  /\ left["blind"] = 0
  /\ LiveKept /\ DraftKept /\ DiskKept /\ WriteKept /\ RequestsKept

(* The uids a save issues *)

(* A config whose cores are named keeps its rows. *)
LEMMA NamedKept ==
  ASSUME NEW cfg \in Authority, Room(cfg), Named(cfg.rows),
         \A r \in cfg.rows : r.uid < cfg.next
  PROVE  /\ EnsureUids(cfg).rows = cfg.rows
         /\ cfg.next <= EnsureUids(cfg).next
         /\ EnsureUids(cfg).next <= Higher(cfg.next, 1)
<1>1. cfg.rows \in SUBSET Row /\ cfg.next \in 0..(MaxUid + 1)
  BY DEF Authority
<1>2. Unnamed(cfg) = {}
  BY DEF Named, Unnamed
<1>3. EnsureUids(cfg) = [cfg EXCEPT !.rows = cfg.rows, !.next = Raised(cfg)]
  BY <1>2 DEF EnsureUids
<1>4. EnsureUids(cfg).rows = cfg.rows /\ EnsureUids(cfg).next = Raised(cfg)
  BY <1>3 DEF Authority
<1>5. /\ Highest(cfg.rows) \in 0..MaxUid
      /\ Highest(cfg.rows) = 0 \/ \E r \in cfg.rows : r.uid = Highest(cfg.rows)
  BY <1>1, HighestUid
<1>6. Highest(cfg.rows) = 0 \/ Highest(cfg.rows) < cfg.next
  BY <1>5
<1> QED BY <1>1, <1>4, <1>5, <1>6 DEF Raised, Higher

(* With at most one new core, no uid is issued twice in one config. *)
LEMMA NamesUnique ==
  ASSUME NEW cfg \in Authority, Room(cfg), Agree(cfg.rows, cfg.rows)
  PROVE  Named(EnsureUids(cfg).rows) /\ Agree(EnsureUids(cfg).rows, EnsureUids(cfg).rows)
<1> DEFINE kept == cfg.rows \ Unnamed(cfg)
           new  == {[core |-> r.core, uid |-> Raised(cfg)] : r \in Unnamed(cfg)}
<1>1. EnsureUids(cfg).rows = kept \cup new
  BY DEF EnsureUids, Authority
<1>2. Named(EnsureUids(cfg).rows)
  BY EnsureUidsProperties DEF Named
<1>3. \A r \in kept : r \in cfg.rows /\ r.uid < Raised(cfg) /\ r.uid \in Nat
  BY RaisedAbove DEF Authority, Row
<1>4. \A r \in new : /\ r.uid = Raised(cfg)
                     /\ \E q \in cfg.rows : q.uid = 0 /\ q.core = r.core
  BY DEF Unnamed
<1>5. Raised(cfg) \in Nat
  BY RaisedAbove
<1> HIDE DEF kept, new
<1>6. Agree(kept, kept)
  BY <1>3 DEF Agree
<1>7. Agree(new, new)
  BY <1>4 DEF Agree
<1>8. Agree(kept, new) /\ Agree(new, kept)
  BY <1>3, <1>4, <1>5 DEF Agree
<1> QED BY <1>1, <1>2, <1>6, <1>7, <1>8 DEF Agree

(* What a save may write: of the live cores those that stay, at most one   *)
(* new core, and a counter that is not behind the live one.                *)
Candidate(cfg) ==
  /\ cfg \in Authority
  /\ Agree(cfg.rows, cfg.rows)
  /\ \A r \in cfg.rows : r.uid = 0 \/ r \in live.rows
  /\ live.next <= Higher(cfg.next, 1)

LEMMA CandidateKept ==
  ASSUME TypeOK, LiveKept, Running, NEW cfg, Candidate(cfg), Room(cfg)
  PROVE  /\ RowsKept(EnsureUids(cfg).rows)
         /\ Agree(EnsureUids(cfg).rows, live.rows)
         /\ \A r \in EnsureUids(cfg).rows : r.uid < EnsureUids(cfg).next
         /\ live.next <= EnsureUids(cfg).next
<1> DEFINE E == EnsureUids(cfg)
<1>1. cfg \in Authority /\ Agree(cfg.rows, cfg.rows)
  BY DEF Candidate
<1>2. /\ E \in Authority /\ E.next >= cfg.next
      /\ \A r \in E.rows : /\ r.uid \in Nat \ {0} /\ r.uid < E.next
                           /\ r \in cfg.rows \/ r.uid = Raised(cfg)
  BY <1>1, EnsureUidsProperties
<1>3. Raised(cfg) \in 1..(MaxUid + 1) /\ Raised(cfg) >= cfg.next
  BY <1>1, RaisedAbove
<1>4. cfg.next \in Nat /\ live.next \in Nat /\ live.rows \in SUBSET Row
  BY <1>1 DEF TypeOK, Authority
<1>5. live.next <= Raised(cfg)
  BY <1>3, <1>4 DEF Candidate, Higher
<1>6. \A r \in E.rows : r \in live.rows \/ r.uid = Raised(cfg)
  BY <1>2 DEF Candidate
<1>7. /\ \A q \in live.rows : q.uid \in Nat /\ q.uid < live.next
      /\ \A h \in history : h.uid \in Nat /\ h.uid < live.next
  BY DEF LiveKept, TypeOK, Authority, Row
<1>8. /\ \A q \in live.rows : q.uid # Raised(cfg)
      /\ \A h \in history : h.uid # Raised(cfg)
  <2>1. Raised(cfg) \in Nat
    BY <1>3
  <2> QED BY <1>4, <1>5, <1>7, <2>1
<1>9. Agree(live.rows, live.rows) /\ Agree(live.rows, history)
  BY DEF LiveKept, RowsKept
<1>10. Named(E.rows) /\ Agree(E.rows, E.rows)
  BY <1>1, NamesUnique
<1> HIDE DEF E
<1>11. Agree(E.rows, live.rows) /\ Agree(E.rows, history)
  BY <1>6, <1>8, <1>9 DEF Agree
<1>12. live.next <= E.next
  <2>1. CASE E.next >= Raised(cfg)
    <3>1. E.next \in Nat
      BY <1>2 DEF Authority
    <3> QED BY <1>3, <1>4, <1>5, <2>1, <3>1
  <2>2. E.next >= Raised(cfg)
    <3>1. E.next = IF Unnamed(cfg) = {} THEN Raised(cfg) ELSE Raised(cfg) + 1
      BY <1>1 DEF E, EnsureUids, Authority
    <3> QED BY <1>3, <3>1
  <2> QED BY <2>1, <2>2
<1> QED BY <1>2, <1>10, <1>11, <1>12 DEF E, RowsKept

LEMMA SpendKeeps ==
  ASSUME TypeOK, left["blind"] = 0, NEW b \in Bounded \ {"blind"}, Spend(b)
  PROVE  left'["blind"] = 0
  BY DEF TypeOK, Spend, Bounded

-----------------------------------------------------------------------------
(* The invariant, step by step *)

LEMMA LoadKept ==
  ASSUME TypeOK, HistoryInv, Loads
  PROVE  HistoryInv'
<1>1. PICK status \in {"present", "unreadable", "corrupt"}, seen \in BOOLEAN :
         Load(status, seen)
  BY DEF Loads
<1>2. seen /\ left'["blind"] = 0
  <2>1. ReadAs(status, seen) /\ left["blind"] = 0 /\ left \in [Bounded -> Nat]
    BY <1>1 DEF Load, HistoryInv, TypeOK
  <2>2. seen
    BY <2>1 DEF ReadAs
  <2> QED BY <2>1, <2>2 DEF ReadAs, Bounded
<1>3. /\ live' \in Authority
      /\ live'.rows \in {disk.servers.rows, {}}
      /\ \A r \in live'.rows : r.uid < live'.next
      /\ Floor(seen) <= live'.next
      /\ \/ write' = NoWrite
         \/ write' = [by |-> "ui", kind |-> "load", cfg |-> live',
                      step |-> "begin", row |-> {}]
      /\ disk' = disk \/ disk' = [disk EXCEPT !.settings = NoSettings]
  BY <1>1, LoadShape
<1>4. disk'.servers = disk.servers
  BY <1>3 DEF TypeOK
<1>5. /\ draft' = {} /\ phase' = "up" /\ history' = history
      /\ flight' = NoRequest /\ final' = NoRequest
  BY <1>1 DEF Load
<1>6. \A h \in history : h.uid < live'.next
  <2>1. /\ Floor(seen) \in 0..(MaxUid + 1)
        /\ \A h \in history : h.uid < Floor(seen)
    BY <1>2, FloorTyped
  <2>2. live'.next \in Nat
    BY <1>3 DEF Authority
  <2>3. \A h \in history : h.uid \in Nat
    BY DEF TypeOK, Row
  <2> QED BY <1>3, <2>1, <2>2, <2>3
<1>7. RowsKept(disk.servers.rows)
  BY DEF HistoryInv, DiskKept
<1>8. /\ Named(live'.rows) /\ Agree(live'.rows, live'.rows)
      /\ Agree(live'.rows, history)
      /\ Agree(disk.servers.rows, live'.rows)
  BY <1>3, <1>7 DEF RowsKept, Named, Agree
<1>9. LiveKept'
  BY <1>3, <1>5, <1>6, <1>8 DEF LiveKept, RowsKept
<1>10. DraftKept' /\ RequestsKept'
  BY <1>5 DEF DraftKept, RequestsKept, NoRequest
<1>11. DiskKept'
  BY <1>4, <1>5, <1>7, <1>8 DEF DiskKept, RowsKept
<1>12. WriteKept'
  BY <1>3, <1>5, <1>8 DEF WriteKept, NoWrite, RowsKept, Installing
<1> QED BY <1>2, <1>9, <1>10, <1>11, <1>12 DEF HistoryInv

(* A candidate of the Settings window or the wizard begins its pair write. *)
LEMMA BeginKept ==
  ASSUME TypeOK, HistoryInv, NEW kind \in Installing, NEW cfg, NEW row,
         Candidate(cfg), BeginSave(kind, cfg, row),
         phase = "up", kind \in {"add", "drop"} => draft = {},
         flight' = NoRequest,
         UNCHANGED <<phase, live, draft, final, disk, history>>
  PROVE  LiveKept' /\ DraftKept' /\ DiskKept' /\ WriteKept' /\ RequestsKept'
<1>1. write' = [by |-> "ui", kind |-> kind, cfg |-> EnsureUids(cfg),
                step |-> "begin", row |-> row] /\ Room(cfg)
  BY DEF BeginSave
<1>2. /\ RowsKept(EnsureUids(cfg).rows) /\ Agree(EnsureUids(cfg).rows, live.rows)
      /\ \A r \in EnsureUids(cfg).rows : r.uid < EnsureUids(cfg).next
      /\ live.next <= EnsureUids(cfg).next
  BY <1>1, CandidateKept DEF HistoryInv, Running
<1>3. WriteKept'
  BY <1>1, <1>2 DEF WriteKept, RowsKept, NoRequest, Installing
<1>4. LiveKept' /\ DraftKept' /\ DiskKept'
  BY DEF HistoryInv, LiveKept, DraftKept, DiskKept, RowsKept, Running
<1>5. RequestsKept'
  BY DEF HistoryInv, RequestsKept, NoRequest
<1> QED BY <1>3, <1>4, <1>5

(* The end of a pair write: nothing changes hands, or its config is        *)
(* installed, which servers.enc already lists.                             *)
LEMMA EndKept ==
  ASSUME TypeOK, HistoryInv, NEW ok \in BOOLEAN, EndWrite(ok),
         write.by # "none", ok => write.step = "finish",
         disk'.servers = disk.servers, history' = history, phase' = phase
  PROVE  LiveKept' /\ DraftKept' /\ DiskKept' /\ WriteKept' /\ RequestsKept'
<1>1. WriteKept'
  BY DEF EndWrite, WriteKept, NoWrite
<1>2. /\ flight'.stage = "queued" => flight' = flight
      /\ write.kind # "autosave" => flight' = flight
  BY DEF EndWrite
<1>3. CASE ~(ok /\ write.kind \in Installing)
  <2>1. live' = live /\ draft' = draft
    BY <1>3 DEF EndWrite, Install, Installing
  <2>2. LiveKept' /\ DraftKept' /\ DiskKept'
    BY <2>1 DEF HistoryInv, LiveKept, DraftKept, DiskKept, RowsKept, Running
  <2>3. RequestsKept'
    <3>1. CASE write.kind \in {"final", "fallback"}
      <4>1. phase = "closing" /\ final.stage = "writing" /\ final.cfg.rows = live.rows
        BY <3>1 DEF HistoryInv, WriteKept, RequestsKept
      <4>2. final'.cfg = final.cfg
        BY <3>1 DEF EndWrite, TypeOK, Request
      <4> QED BY <1>2, <2>1, <4>1, <4>2 DEF HistoryInv, RequestsKept
    <3>2. CASE write.kind \notin {"final", "fallback"}
      <4>1. final' = final
        BY <3>2 DEF EndWrite
      <4> QED BY <1>2, <2>1, <4>1 DEF HistoryInv, RequestsKept
    <3> QED BY <3>1, <3>2
  <2> QED BY <1>1, <2>2, <2>3
<1>4. CASE ok /\ write.kind \in Installing
  <2>1. /\ phase = "up" /\ flight.stage # "queued"
        /\ \A r \in write.cfg.rows : r.uid < write.cfg.next
        /\ live.next <= write.cfg.next
        /\ RowsKept(write.cfg.rows) /\ disk.servers.rows = write.cfg.rows
        /\ write.kind \in {"add", "drop"} => draft = {}
    BY <1>4 DEF HistoryInv, WriteKept
  <2>2. /\ live' = write.cfg /\ final' = final
        /\ flight' = flight
        /\ draft' = {} \/ draft' = {write.cfg}
    BY <1>4, <2>1 DEF EndWrite, Install, Installing
  <2>3. LiveKept'
    <3>1. \A h \in history : h.uid < write.cfg.next
      <4>1. /\ live.next \in Nat /\ write.cfg.next \in Nat
            /\ \A h \in history : h.uid \in Nat /\ h.uid < live.next
        BY <2>1 DEF HistoryInv, LiveKept, Running, TypeOK, Authority, PairWrite, Row
      <4> QED BY <2>1, <4>1
    <3> QED BY <2>1, <2>2, <3>1 DEF LiveKept, RowsKept
  <2>4. DraftKept'
    <3>1. write.cfg.next \in Nat /\ write.cfg.next <= Higher(write.cfg.next, 1)
      BY DEF TypeOK, PairWrite, Authority, Higher
    <3> QED BY <2>1, <2>2, <3>1 DEF DraftKept, RowsKept
  <2>5. DiskKept'
    BY <2>1, <2>2 DEF DiskKept, RowsKept
  <2>6. RequestsKept'
    BY <2>1, <2>2 DEF HistoryInv, RequestsKept
  <2> QED BY <1>1, <2>3, <2>4, <2>5, <2>6
<1> QED BY <1>3, <1>4

(* The live config keeps its rows and its counter, or its counter catches  *)
(* up with them: a tick, a quit, an edit saved in place.                   *)
LEMMA LiveRowsKept ==
  ASSUME TypeOK, HistoryInv, live'.rows = live.rows, live'.next \in Nat,
         live.next <= live'.next, live'.next <= Higher(live.next, 1),
         history' = history, Running' => Running
  PROVE  /\ LiveKept'
         /\ draft' \subseteq draft => DraftKept'
         /\ disk'.servers.rows = disk.servers.rows => DiskKept'
<1>1. /\ live.next \in Nat
      /\ \A r \in live.rows : r.uid \in Nat /\ r.uid < live.next
      /\ Running => \A h \in history : h.uid \in Nat /\ h.uid < live.next
  BY DEF HistoryInv, LiveKept, TypeOK, Authority, Row
<1>2. /\ \A r \in live'.rows : r.uid < live'.next
      /\ Running' => \A h \in history' : h.uid < live'.next
  BY <1>1
<1>3. LiveKept'
  BY <1>2 DEF HistoryInv, LiveKept, RowsKept
<1>4. ASSUME draft' \subseteq draft PROVE DraftKept'
  <2>1. \A d \in draft' : /\ Agree(d.rows, d.rows)
                          /\ \A r \in d.rows : r.uid = 0 \/ r \in live'.rows
                          /\ live.next <= Higher(d.next, 1) /\ d.next \in Nat
    BY <1>4 DEF HistoryInv, DraftKept, TypeOK, Authority
  <2>2. \A d \in draft' : live'.next <= Higher(d.next, 1)
    BY <1>1, <2>1 DEF Higher
  <2> QED BY <2>1, <2>2 DEF DraftKept
<1>5. disk'.servers.rows = disk.servers.rows => DiskKept'
  BY DEF HistoryInv, DiskKept, RowsKept
<1> QED BY <1>3, <1>4, <1>5

LEMMA HistoryStep ==
  ASSUME TypeOK, HistoryInv, [Next]_vars, ~WizardOverDraft
  PROVE  HistoryInv'
<1>0. /\ live \in Authority /\ draft \subseteq Authority
      /\ left \in [Bounded -> Nat] /\ write \in PairWrite
      /\ left["blind"] = 0 /\ live.next \in Nat
  BY DEF TypeOK, HistoryInv, Authority
<1>a. live.next <= Higher(live.next, 1)
  BY <1>0 DEF Higher
<1>b. Responsive => write.by = "none" \/ write.kind \notin Installing
  BY DEF HistoryInv, WriteKept, Responsive
<1>1. CASE Loads
  BY <1>1, LoadKept
<1>2. CASE OpenSettings
  <2>1. left'["blind"] = 0
    BY <1>0, <1>2, SpendKeeps DEF OpenSettings, Bounded
  <2>2. /\ draft' = {live} /\ Responsive
        /\ UNCHANGED <<phase, live, flight, final, write, disk, history>>
    BY <1>2 DEF OpenSettings
  <2>3. LiveKept' /\ DiskKept' /\ RequestsKept'
    BY <2>2 DEF HistoryInv, LiveKept, DiskKept, RequestsKept, RowsKept, Running
  <2>4. DraftKept'
    BY <1>a, <2>2 DEF HistoryInv, LiveKept, RowsKept, DraftKept
  <2>5. WriteKept'
    BY <1>b, <2>2 DEF HistoryInv, WriteKept, RowsKept, Installing
  <2> QED BY <2>1, <2>3, <2>4, <2>5 DEF HistoryInv
<1>3. CASE CloseSettings
  <2>1. draft' = {} /\ UNCHANGED <<phase, live, flight, final, write, disk, history, left>>
    BY <1>3 DEF CloseSettings
  <2> QED BY <2>1 DEF HistoryInv, LiveKept, DiskKept, RequestsKept, RowsKept, Running,
                      DraftKept, WriteKept
<1>4. CASE EditDraft
  <2>1. /\ Responsive
        /\ UNCHANGED <<phase, live, flight, final, write, disk, history, left>>
    BY <1>4 DEF EditDraft
  <2>2. LiveKept' /\ DiskKept' /\ RequestsKept' /\ left'["blind"] = 0
    BY <2>1 DEF HistoryInv, LiveKept, DiskKept, RequestsKept, RowsKept, Running
  <2>3. WriteKept'
    BY <1>b, <2>1 DEF HistoryInv, WriteKept, RowsKept, Installing
  <2>4. PICK d \in draft :
          \/ \E c \in Cores : /\ Unnamed(d) = {}
                              /\ draft' = {[d EXCEPT !.rows = @ \cup {[core |-> c, uid |-> 0]}]}
          \/ \E r \in d.rows : draft' = {[d EXCEPT !.rows = @ \ {r}]}
    BY <1>4 DEF EditDraft
  <2>5. /\ d \in Authority /\ Agree(d.rows, d.rows)
        /\ \A r \in d.rows : r.uid = 0 \/ r \in live.rows
        /\ live.next <= Higher(d.next, 1)
    BY <1>0, <2>4 DEF HistoryInv, DraftKept
  <2>6. CASE \E c \in Cores : /\ Unnamed(d) = {}
                              /\ draft' = {[d EXCEPT !.rows = @ \cup {[core |-> c, uid |-> 0]}]}
    <3>1. PICK c \in Cores : /\ Unnamed(d) = {}
             /\ draft' = {[d EXCEPT !.rows = d.rows \cup {[core |-> c, uid |-> 0]}]}
      BY <2>6
    <3> DEFINE rows == d.rows \cup {[core |-> c, uid |-> 0]}
    <3>2. Agree(rows, rows) /\ \A r \in rows : r.uid = 0 \/ r \in live.rows
      BY <2>5, <3>1 DEF Agree, Unnamed
    <3>3. [d EXCEPT !.rows = rows].rows = rows /\ [d EXCEPT !.rows = rows].next = d.next
      BY <2>5 DEF Authority
    <3> HIDE DEF rows
    <3>4. draft' = {[d EXCEPT !.rows = rows]}
      BY <3>1 DEF rows
    <3>5. DraftKept'
      BY <2>1, <2>5, <3>2, <3>3, <3>4 DEF DraftKept
    <3> QED BY <2>2, <2>3, <3>5 DEF HistoryInv
  <2>7. CASE \E r \in d.rows : draft' = {[d EXCEPT !.rows = @ \ {r}]}
    <3>1. PICK r \in d.rows : draft' = {[d EXCEPT !.rows = d.rows \ {r}]}
      BY <2>7
    <3> DEFINE rows == d.rows \ {r}
    <3>2. Agree(rows, rows) /\ \A q \in rows : q.uid = 0 \/ q \in live.rows
      BY <2>5 DEF Agree
    <3>3. [d EXCEPT !.rows = rows].rows = rows /\ [d EXCEPT !.rows = rows].next = d.next
      BY <2>5 DEF Authority
    <3> HIDE DEF rows
    <3>4. draft' = {[d EXCEPT !.rows = rows]}
      BY <3>1 DEF rows
    <3>5. DraftKept'
      BY <2>1, <2>5, <3>2, <3>3, <3>4 DEF DraftKept
    <3> QED BY <2>2, <2>3, <3>5 DEF HistoryInv
  <2> QED BY <2>4, <2>6, <2>7
<1>c. ASSUME NEW e \in Edits, draft' = MirrorEdit(e), live'.rows = live.rows,
             live'.next \in Nat, live.next <= live'.next,
             live'.next <= Higher(live.next, 1)
      PROVE  DraftKept'
  <2>1. \A d \in draft : /\ d.next \in Nat
                         /\ WithEdit(d, e).rows = d.rows /\ WithEdit(d, e).next = d.next
    BY <1>0, EditTyped DEF Authority
  <2>2. \A x \in draft' : \E d \in draft : x.rows = d.rows /\ x.next = d.next
    BY <1>c, <2>1 DEF MirrorEdit
  <2>3. \A d \in draft : live'.next <= Higher(d.next, 1)
    BY <1>0, <1>c, <2>1 DEF HistoryInv, DraftKept, Higher
  <2> QED BY <1>c, <2>2, <2>3 DEF HistoryInv, DraftKept
<1>5. CASE EditLive
  <2>1. /\ Responsive /\ UNCHANGED <<phase, flight, final, write, disk, history, left>>
    BY <1>5 DEF EditLive
  <2>2. PICK e \in Edits : live' = WithEdit(live, e) /\ draft' = MirrorEdit(e)
    BY <1>5 DEF EditLive
  <2>3. live'.rows = live.rows /\ live'.next = live.next
    BY <1>0, <2>2, EditTyped
  <2>4. DraftKept'
    BY <1>0, <1>a, <1>c, <2>2, <2>3
  <2>5. LiveKept' /\ DiskKept' /\ RequestsKept' /\ left'["blind"] = 0
    BY <2>1, <2>3 DEF HistoryInv, LiveKept, DiskKept, RequestsKept, RowsKept, Running
  <2>6. WriteKept'
    BY <1>b, <2>1, <2>3 DEF HistoryInv, WriteKept, RowsKept, Installing
  <2> QED BY <2>4, <2>5, <2>6 DEF HistoryInv
<1>6. CASE Ticks
  <2>1. PICK due \in BOOLEAN : Tick(due)
    BY <1>6 DEF Ticks
  <2>2. /\ Responsive /\ Room(live)
        /\ UNCHANGED <<phase, draft, final, write, disk, history, left>>
        /\ \/ live' = live /\ flight' = NoRequest
           \/ live' = EnsureUids(live)
              /\ flight' = [stage |-> "queued", cfg |-> EnsureUids(live)]
    BY <2>1 DEF Tick
  <2>3. /\ EnsureUids(live) \in Authority /\ EnsureUids(live).rows = live.rows
        /\ live.next <= EnsureUids(live).next
        /\ EnsureUids(live).next <= Higher(live.next, 1)
    BY <1>0, <2>2, NamedKept, EnsureUidsProperties DEF HistoryInv, LiveKept, RowsKept
  <2>4. /\ live'.rows = live.rows /\ live'.next \in Nat
        /\ live.next <= live'.next /\ live'.next <= Higher(live.next, 1)
    BY <1>0, <1>a, <2>2, <2>3 DEF Authority
  <2>5. LiveKept' /\ DraftKept' /\ DiskKept'
    BY <2>2, <2>4, LiveRowsKept DEF Running
  <2>6. RequestsKept' /\ left'["blind"] = 0
    BY <2>2, <2>3, <2>4 DEF HistoryInv, RequestsKept, NoRequest
  <2>7. WriteKept'
    BY <1>b, <2>2, <2>4 DEF HistoryInv, WriteKept, RowsKept, Installing
  <2> QED BY <2>5, <2>6, <2>7 DEF HistoryInv
<1>7. CASE SaveDraft
  <2>1. /\ Responsive /\ FinishPending /\ Spend("saves")
        /\ UNCHANGED <<phase, live, draft, final, disk, history>>
    BY <1>7 DEF SaveDraft
  <2>2. PICK d \in draft : BeginSave("settings", d, {})
    BY <1>7 DEF SaveDraft
  <2>3. Candidate(d)
    BY <1>0, <2>2 DEF HistoryInv, DraftKept, Candidate
  <2>4. LiveKept' /\ DraftKept' /\ DiskKept' /\ WriteKept' /\ RequestsKept'
    BY <2>1, <2>2, <2>3, BeginKept DEF Responsive, FinishPending, Installing
  <2>5. left'["blind"] = 0
    BY <1>0, <2>1, SpendKeeps DEF Bounded
  <2> QED BY <2>4, <2>5 DEF HistoryInv
<1>8. CASE SaveLive
  <2>1. /\ Responsive /\ flight' = NoRequest /\ Spend("saves")
        /\ UNCHANGED <<phase, final, disk, history>>
    BY <1>8 DEF SaveLive
  <2>2. PICK e \in Mirrored :
           /\ draft' = MirrorEdit(e) /\ BeginSave("live", WithEdit(live, e), {})
           /\ live' = EnsureUids(WithEdit(live, e))
    BY <1>8 DEF SaveLive
  <2> DEFINE cfg == WithEdit(live, e)
  <2>3. cfg \in Authority /\ cfg.rows = live.rows /\ cfg.next = live.next
    BY <1>0, EditTyped
  <2>4. Room(cfg) /\ write' = [by |-> "ui", kind |-> "live", cfg |-> EnsureUids(cfg),
                               step |-> "begin", row |-> {}]
    BY <2>2 DEF BeginSave
  <2>5. live' = EnsureUids(cfg)
    BY <2>2
  <2> HIDE DEF cfg
  <2>6. /\ EnsureUids(cfg) \in Authority /\ EnsureUids(cfg).rows = live.rows
        /\ live.next <= EnsureUids(cfg).next
        /\ EnsureUids(cfg).next <= Higher(live.next, 1)
    BY <2>3, <2>4, NamedKept, EnsureUidsProperties DEF HistoryInv, LiveKept, RowsKept
  <2>7. live'.rows = live.rows /\ live'.next \in Nat
    BY <2>5, <2>6 DEF Authority
  <2>8. DraftKept'
    BY <1>c, <2>2, <2>5, <2>6, <2>7
  <2>9. LiveKept' /\ DiskKept'
    BY <2>1, <2>5, <2>6, <2>7, LiveRowsKept DEF Running
  <2>10. WriteKept'
    BY <2>1, <2>4, <2>5, <2>7, <2>9 DEF WriteKept, LiveKept, RowsKept, Installing
  <2>11. RequestsKept'
    BY <2>1, <2>7 DEF HistoryInv, RequestsKept, NoRequest
  <2>12. left'["blind"] = 0
    BY <1>0, <2>1, SpendKeeps DEF Bounded
  <2> QED BY <2>8, <2>9, <2>10, <2>11, <2>12 DEF HistoryInv
<1>9. CASE AddRow
  <2>1. /\ Responsive /\ FinishPending /\ Spend("wizard") /\ draft = {}
        /\ UNCHANGED <<phase, live, draft, final, disk, history>>
    BY <1>9 DEF AddRow, WizardMayRun
  <2>2. PICK c \in Cores :
          LET cfg == [live EXCEPT !.rows = live.rows \cup {[core |-> c, uid |-> 0]}]
          IN  BeginSave("add", cfg, {r \in EnsureUids(cfg).rows : r.core = c})
    BY <1>9 DEF AddRow
  <2> DEFINE rows == live.rows \cup {[core |-> c, uid |-> 0]}
             cfg == [live EXCEPT !.rows = rows]
             row == {r \in EnsureUids(cfg).rows : r.core = c}
  <2>3. BeginSave("add", cfg, row)
    BY <2>2
  <2>4. Candidate(cfg)
    <3>1. rows \in SUBSET Row
      BY <1>0, NewRow DEF Authority
    <3>2. Agree(rows, rows) /\ \A r \in rows : r.uid = 0 \/ r \in live.rows
      BY DEF HistoryInv, LiveKept, RowsKept, Named, Agree
    <3> HIDE DEF rows
    <3>3. cfg \in Authority /\ cfg.rows = rows /\ cfg.next = live.next
      BY <1>0, <3>1, RowsTyped
    <3> HIDE DEF cfg
    <3> QED BY <1>a, <3>2, <3>3 DEF Candidate
  <2> HIDE DEF cfg, row
  <2>5. LiveKept' /\ DraftKept' /\ DiskKept' /\ WriteKept' /\ RequestsKept'
    BY <2>1, <2>3, <2>4, BeginKept DEF Responsive, FinishPending, Installing
  <2>6. left'["blind"] = 0
    BY <1>0, <2>1, SpendKeeps DEF Bounded
  <2> QED BY <2>5, <2>6 DEF HistoryInv
<1>10. CASE DropRow
  <2>1. /\ Responsive /\ FinishPending /\ Spend("wizard") /\ draft = {}
        /\ UNCHANGED <<phase, live, draft, final, disk, history>>
    BY <1>10 DEF DropRow, WizardMayRun
  <2>2. PICK r \in live.rows : BeginSave("drop", [live EXCEPT !.rows = live.rows \ {r}], {r})
    BY <1>10 DEF DropRow
  <2> DEFINE rows == live.rows \ {r}
             cfg == [live EXCEPT !.rows = rows]
  <2>3. Candidate(cfg)
    <3>1. rows \in SUBSET Row
      BY <1>0 DEF Authority
    <3>2. Agree(rows, rows) /\ \A q \in rows : q \in live.rows
      BY DEF HistoryInv, LiveKept, RowsKept, Agree
    <3> HIDE DEF rows
    <3>3. cfg \in Authority /\ cfg.rows = rows /\ cfg.next = live.next
      BY <1>0, <3>1, RowsTyped
    <3> HIDE DEF cfg
    <3> QED BY <1>a, <3>2, <3>3 DEF Candidate
  <2>4. BeginSave("drop", cfg, {r})
    BY <2>2
  <2> HIDE DEF cfg
  <2>5. LiveKept' /\ DraftKept' /\ DiskKept' /\ WriteKept' /\ RequestsKept'
    BY <2>1, <2>3, <2>4, BeginKept DEF Responsive, FinishPending, Installing
  <2>6. left'["blind"] = 0
    BY <1>0, <2>1, SpendKeeps DEF Bounded
  <2> QED BY <2>5, <2>6 DEF HistoryInv
<1>11. CASE Pairs
  <2>1. PICK on \in BOOLEAN : Pair(on)
    BY <1>11 DEF Pairs
  <2>2. /\ Responsive /\ flight' = NoRequest /\ Spend("pairings")
        /\ live' = [live EXCEPT !.paired = on]
        /\ draft' = {[d EXCEPT !.paired = on] : d \in draft}
        /\ disk' = [disk EXCEPT !.servers = ServersOf(live')]
        /\ UNCHANGED <<phase, final, write, history>>
    BY <2>1 DEF Pair, FinishPending
  <2>3. live'.rows = live.rows /\ live'.next = live.next
    BY <1>0, <2>2 DEF Authority
  <2>4. disk'.servers.rows = live.rows
    BY <2>2, <2>3 DEF TypeOK, ServersOf
  <2>5. DraftKept'
    <3>1. \A d \in draft : [d EXCEPT !.paired = on].rows = d.rows
                           /\ [d EXCEPT !.paired = on].next = d.next
      BY <1>0 DEF Authority
    <3>2. \A x \in draft' : \E d \in draft : x.rows = d.rows /\ x.next = d.next
      BY <2>2, <3>1
    <3> QED BY <2>3, <3>2 DEF HistoryInv, DraftKept
  <2>6. LiveKept' /\ DiskKept' /\ RequestsKept'
    BY <2>2, <2>3, <2>4 DEF HistoryInv, LiveKept, DiskKept, RequestsKept, RowsKept,
                            Running, NoRequest
  <2>7. WriteKept'
    BY <1>b, <2>2, <2>3, <2>4 DEF HistoryInv, WriteKept, RowsKept, Installing
  <2>8. left'["blind"] = 0
    BY <1>0, <2>2, SpendKeeps DEF Bounded
  <2> QED BY <2>5, <2>6, <2>7, <2>8 DEF HistoryInv
<1>12. CASE WriteMarker \/ WriteServers \/ WriteSettings
  <2>1. UNCHANGED <<phase, live, draft, flight, final, history, left>> /\ write.by # "none"
    BY <1>12 DEF WriteMarker, WriteServers, WriteSettings, Writing
  <2>2. LiveKept' /\ DraftKept' /\ RequestsKept' /\ left'["blind"] = 0
    BY <2>1 DEF HistoryInv, LiveKept, DraftKept, RequestsKept, RowsKept, Running
  <2>3. /\ write'.by = write.by /\ write'.cfg = write.cfg /\ write'.kind = write.kind
        /\ \/ disk'.servers.rows = disk.servers.rows /\ write'.step = "servers"
           \/ disk'.servers.rows = write.cfg.rows /\ write'.step = "settings"
           \/ /\ disk'.servers.rows = disk.servers.rows /\ write.step = "settings"
              /\ write'.step = "finish"
    <3>1. CASE WriteMarker
      BY <1>0, <3>1 DEF WriteMarker, TypeOK, PairWrite
    <3>2. CASE WriteServers
      BY <1>0, <3>2 DEF WriteServers, TypeOK, PairWrite, ServersOf
    <3>3. CASE WriteSettings
      BY <1>0, <3>3 DEF WriteSettings, Writing, TypeOK, PairWrite
    <3> QED BY <1>12, <3>1, <3>2, <3>3
  <2>4. /\ RowsKept(write.cfg.rows) /\ Agree(write.cfg.rows, live.rows)
        /\ write.step \in {"settings", "finish"} => disk.servers.rows = write.cfg.rows
    BY <2>1 DEF HistoryInv, WriteKept
  <2>5. DiskKept'
    BY <2>1, <2>3, <2>4 DEF HistoryInv, DiskKept, RowsKept
  <2>6. WriteKept'
    BY <2>1, <2>3, <2>4 DEF HistoryInv, WriteKept, RowsKept
  <2> QED BY <2>2, <2>5, <2>6 DEF HistoryInv
<1>13. CASE RemoveMarker \/ FailWrite
  <2>1. /\ phase' = phase /\ history' = history /\ write.by # "none"
        /\ \E ok \in BOOLEAN : EndWrite(ok) /\ (ok => write.step = "finish")
    BY <1>13 DEF RemoveMarker, FailWrite, Writing
  <2>2. disk'.servers = disk.servers
    BY <1>13 DEF RemoveMarker, FailWrite, TypeOK
  <2>3. left'["blind"] = 0
    BY <1>0, <1>13, SpendKeeps DEF RemoveMarker, FailWrite, Bounded
  <2>4. LiveKept' /\ DraftKept' /\ DiskKept' /\ WriteKept' /\ RequestsKept'
    BY <2>1, <2>2, EndKept
  <2> QED BY <2>3, <2>4 DEF HistoryInv
<1>14. CASE TakeRequest
  <2>1. /\ write' = [by |-> "worker", kind |-> "autosave", cfg |-> flight.cfg,
                     step |-> "begin", row |-> {}]
        /\ flight.stage = "queued" /\ flight' = [stage |-> "writing", cfg |-> Blank]
        /\ UNCHANGED <<phase, live, draft, final, disk, history, left>>
    BY <1>14 DEF TakeRequest, StartWrite, NoWrite
  <2>2. flight.cfg.rows = live.rows
    BY <2>1 DEF HistoryInv, RequestsKept
  <2>3. LiveKept' /\ DraftKept' /\ DiskKept' /\ RequestsKept' /\ left'["blind"] = 0
    BY <2>1 DEF HistoryInv, LiveKept, DraftKept, DiskKept, RequestsKept, RowsKept, Running
  <2>4. WriteKept'
    BY <2>1, <2>2 DEF HistoryInv, LiveKept, WriteKept, RowsKept, Installing
  <2> QED BY <2>3, <2>4 DEF HistoryInv
<1>15. CASE Quit
  <2>1. /\ Responsive /\ Room(live) /\ Spend("quits") /\ phase' = "closing" /\ draft' = {}
        /\ UNCHANGED <<flight, write, disk, history>>
        /\ \/ live' = live /\ final' = final
           \/ live' = EnsureUids(live)
              /\ final' = [stage |-> "queued", cfg |-> EnsureUids(live)]
    BY <1>15 DEF Quit
  <2>2. /\ EnsureUids(live) \in Authority /\ EnsureUids(live).rows = live.rows
        /\ live.next <= EnsureUids(live).next
        /\ EnsureUids(live).next <= Higher(live.next, 1)
    BY <1>0, <2>1, NamedKept, EnsureUidsProperties DEF HistoryInv, LiveKept, RowsKept
  <2>3. /\ live'.rows = live.rows /\ live'.next \in Nat
        /\ live.next <= live'.next /\ live'.next <= Higher(live.next, 1)
    BY <1>0, <1>a, <2>1, <2>2 DEF Authority
  <2>4. phase = "up" /\ final.stage = "none"
    BY <2>1 DEF HistoryInv, RequestsKept, Responsive
  <2>5. LiveKept' /\ DraftKept' /\ DiskKept'
    BY <2>1, <2>3, <2>4, LiveRowsKept DEF Running
  <2>6. RequestsKept'
    BY <2>1, <2>2, <2>3, <2>4 DEF HistoryInv, RequestsKept
  <2>7. WriteKept'
    BY <1>b, <2>1, <2>3, <2>4 DEF HistoryInv, WriteKept, RowsKept, Installing
  <2>8. left'["blind"] = 0
    BY <1>0, <2>1, SpendKeeps DEF Bounded
  <2> QED BY <2>5, <2>6, <2>7, <2>8 DEF HistoryInv
<1>16. CASE TakeFinal \/ Fallback
  <2>1. /\ final.stage \in {"queued", "failed"} /\ phase = "closing"
        /\ final' = [final EXCEPT !.stage = "writing"]
        /\ UNCHANGED <<phase, live, draft, flight, disk, history, left>>
    BY <1>16 DEF TakeFinal, Fallback
  <2>2. /\ write'.kind \in {"final", "fallback"} /\ write'.cfg = final.cfg
        /\ write'.step = "begin"
    BY <1>16 DEF TakeFinal, Fallback, StartWrite, NoWrite
  <2>3. /\ final.cfg.rows = live.rows
        /\ final'.stage = "writing" /\ final'.cfg = final.cfg
    BY <2>1 DEF HistoryInv, RequestsKept, TypeOK, Request
  <2>4. LiveKept' /\ DraftKept' /\ DiskKept' /\ RequestsKept' /\ left'["blind"] = 0
    BY <2>1, <2>3 DEF HistoryInv, LiveKept, DraftKept, DiskKept, RequestsKept, RowsKept,
                      Running
  <2>5. WriteKept'
    BY <2>1, <2>2, <2>3 DEF HistoryInv, LiveKept, WriteKept, RowsKept, Installing
  <2> QED BY <2>4, <2>5 DEF HistoryInv
<1>17. CASE Close
  <2>1. /\ write.by = "none" /\ phase' = "closed" /\ flight' = NoRequest
        /\ UNCHANGED <<live, draft, final, write, disk, history, left>>
    BY <1>17 DEF Close
  <2> QED BY <2>1 DEF HistoryInv, LiveKept, DraftKept, DiskKept, WriteKept, RequestsKept,
                      RowsKept, Running, NoRequest
<1>18. CASE Crash
  <2>1. /\ phase' = "down" /\ live' = Blank /\ draft' = {} /\ flight' = NoRequest
        /\ final' = NoRequest /\ write' = NoWrite /\ UNCHANGED <<disk, history>>
    BY <1>18 DEF Crash
  <2>2. LiveKept' /\ DraftKept' /\ WriteKept' /\ RequestsKept'
    BY <2>1 DEF LiveKept, DraftKept, WriteKept, RequestsKept, RowsKept, Named, Agree,
                Running, Blank, NoRequest, NoWrite
  <2>3. DiskKept'
    BY <2>1 DEF HistoryInv, DiskKept, RowsKept, Agree, Blank
  <2>4. left'["blind"] = 0
    BY <1>0, <1>18, SpendKeeps DEF Crash, Bounded
  <2> QED BY <2>2, <2>3, <2>4 DEF HistoryInv
<1>19. CASE StoreHistory
  <2>1. Running /\ UNCHANGED <<phase, live, draft, flight, final, write, disk, left>>
    BY <1>19 DEF StoreHistory
  <2>2. PICK r \in live.rows : history' = history \cup {r}
    BY <1>19 DEF StoreHistory
  <2>3. ASSUME NEW rows, Agree(rows, history), Agree(rows, live.rows)
        PROVE  Agree(rows, history')
    BY <2>2, <2>3 DEF Agree
  <2>4. LiveKept'
    BY <2>1, <2>2, <2>3 DEF HistoryInv, LiveKept, RowsKept
  <2>5. DiskKept'
    BY <2>1, <2>3 DEF HistoryInv, DiskKept, RowsKept
  <2>6. WriteKept'
    BY <2>1, <2>3 DEF HistoryInv, WriteKept, RowsKept
  <2> QED BY <2>1, <2>4, <2>5, <2>6 DEF HistoryInv, DraftKept, RequestsKept
<1>20. CASE BackUp
  <2>1. left'["blind"] = 0
    BY <1>0, <1>20, SpendKeeps DEF BackUp, Bounded
  <2>2. UNCHANGED <<phase, live, draft, flight, final, write, disk, history>>
    BY <1>20 DEF BackUp
  <2> QED BY <2>1, <2>2 DEF HistoryInv, LiveKept, DraftKept, DiskKept, WriteKept,
                            RequestsKept, RowsKept, Running
<1>21. CASE UNCHANGED vars
  BY <1>21 DEF vars, HistoryInv, LiveKept, DraftKept, DiskKept, WriteKept,
               RequestsKept, RowsKept, Running
<1> QED
  BY <1>1, <1>2, <1>3, <1>4, <1>5, <1>6, <1>7, <1>8, <1>9, <1>10, <1>11, <1>12,
     <1>13, <1>14, <1>15, <1>16, <1>17, <1>18, <1>19, <1>20, <1>21 DEF Next

(* While every start reads the stores and the wizard does not run beside   *)
(* an open draft, no core of the config carries a uid under which another  *)
(* core's rows are stored, whatever crashes, fails, or is added and        *)
(* dropped: uid_counter.rs and reconcile.rs.                               *)
THEOREM HistoryKept ==
  ASSUME ~WizardOverDraft, \A s \in Scenarios : s["blind"] = 0
  PROVE  Spec => []NoInheritedHistory
<1>1. Init => TypeOK /\ HistoryInv
  <2> SUFFICES ASSUME Init PROVE TypeOK /\ HistoryInv
    OBVIOUS
  <2>1. TypeOK
    BY TypeInit
  <2>2. left["blind"] = 0
    BY DEF Init
  <2>3. LiveKept /\ DraftKept /\ DiskKept /\ WriteKept /\ RequestsKept
    BY DEF Init, LiveKept, DraftKept, DiskKept, WriteKept, RequestsKept, RowsKept,
           Named, Agree, Blank, NoServers, NoRequest, NoWrite
  <2> QED BY <2>1, <2>2, <2>3 DEF HistoryInv
<1>2. TypeOK /\ HistoryInv /\ [Next]_vars => (TypeOK /\ HistoryInv)'
  BY TypeStep, HistoryStep
<1>3. HistoryInv => NoInheritedHistory
  BY DEF HistoryInv, LiveKept, RowsKept, Agree, NoInheritedHistory
<1> QED BY <1>1, <1>2, <1>3, PTL DEF Spec

-----------------------------------------------------------------------------
(* The two files and the backup: one invariant in six parts.  Which thread *)
(* may be writing what (Jobs), the seal of every authority (Sealing), the  *)
(* files under the marker (Files), the rows and the edits that each        *)
(* authority about to be written carries (RowsHeld, EditsHeld), and what   *)
(* the dirty flag owes the disk (Flushed).                                 *)

SameServers(c) == c.rows = live.rows /\ c.paired = live.paired
SameEdits(c)   == c.edits \cap Mirrored = live.edits \cap Mirrored
AheadOfRows(c) == Unnamed(c) = {} /\ c.next > Highest(c.rows)
Owed           == final.stage \in {"queued", "writing", "failed"}
OnDisk(c)      == c.edits \cap Mirrored \subseteq disk.settings.edits
NotBehind(c)   == disk.settings.edits \cap Mirrored \subseteq c.edits

(* The worker's autosave answers a request in flight; its quit snapshot    *)
(* and the fallback follow that; the thread's own saves exclude both.      *)
Jobs ==
    /\ phase \in {"down", "closed"} => write.by = "none" /\ ~Unanswered
    /\ phase = "closed" => final.stage \in {"none", "ok", "lost"}
    /\ write.by # "none" =>
          \/ /\ write.kind = "autosave" /\ write.by = "worker"
             /\ flight.stage = "writing" /\ final.stage \in {"none", "queued"}
          \/ /\ write.kind \in {"final", "fallback"} /\ phase = "closing"
             /\ final.stage = "writing" /\ ~Unanswered
          \/ /\ write.kind \notin {"autosave", "final", "fallback"}
             /\ write.by = "ui" /\ phase = "up" /\ ~Unanswered
    /\ flight.stage # "lost"
    /\ flight.stage = "queued" => write.by = "none"
    /\ flight.stage = "writing" => write.by # "none" /\ write.kind = "autosave"
    /\ final.stage = "writing" =>
          write.by # "none" /\ write.kind \in {"final", "fallback"}
    /\ phase = "up" => final.stage = "none"
    /\ final.stage \in {"ok", "failed", "lost"} => ~Unanswered

(* A sealed session has nothing to write, and neither has its draft.       *)
Sealing ==
    /\ \A d \in draft : d.sealed = live.sealed
    /\ ~write.cfg.sealed /\ ~flight.cfg.sealed /\ ~final.cfg.sealed
    /\ live.sealed => write.by = "none" /\ ~Unanswered /\ final.stage = "none"

(* The files of one generation agree unless the marker is there.           *)
Files ==
    /\ ~disk.servers.there => disk.servers = NoServers /\ disk.settings = NoSettings
    /\ \A r \in disk.servers.rows : r.uid # 0
    /\ ~disk.marker /\ disk.settings # NoSettings =>
          /\ disk.settings.rows = disk.servers.rows
          /\ disk.settings.next > Highest(disk.servers.rows)
    /\ write.by # "none" =>
          /\ write.step # "begin" => disk.marker
          /\ write.step \in {"settings", "finish"} =>
                disk.servers = ServersOf(write.cfg)
          /\ write.step = "finish" => disk.settings = SettingsOf(write.cfg)

(* Whatever is about to be written and not installed lists the live cores. *)
RowsHeld ==
    /\ Unnamed(live) = {}
    /\ flight.stage = "queued" => AheadOfRows(flight.cfg) /\ SameServers(flight.cfg)
    /\ write.by # "none" =>
          /\ AheadOfRows(write.cfg)
          /\ write.kind \notin Installing => SameServers(write.cfg)
    /\ Owed => AheadOfRows(final.cfg) /\ SameServers(final.cfg)
    /\ ServersAsLive

(* Nothing about to be written lacks an edit that is on disk already.      *)
EditsHeld ==
    /\ \A d \in draft : SameEdits(d)
    /\ Running /\ ~live.sealed => NotBehind(live)
    /\ flight.stage = "queued" =>
          NotBehind(flight.cfg) /\ flight.cfg.edits \cap Mirrored \subseteq live.edits
    /\ write.by # "none" =>
          /\ NotBehind(write.cfg) /\ write.cfg.edits \cap Mirrored \subseteq live.edits
          /\ write.kind # "autosave" => SameEdits(write.cfg)
    /\ Owed => SameEdits(final.cfg)

(* A clean flag means the edits are on disk or on their way there.         *)
Flushed ==
    ~live.sealed =>
      /\ phase = "up" /\ ~dirty =>
            /\ flight.stage \in {"none", "ok"} => OnDisk(live)
            /\ flight.stage = "queued" => SameEdits(flight.cfg)
            /\ flight.stage = "writing" => SameEdits(write.cfg)
      /\ phase \in {"closing", "closed"} =>
            /\ final.stage = "none" => OnDisk(live) /\ write.by = "none" /\ ~Unanswered
            /\ final.stage = "ok" => OnDisk(live)

-----------------------------------------------------------------------------
(* What each action does to the state the invariant reads *)

Settled == UNCHANGED <<phase, live, draft, dirty, flight, final, write, disk>>

LEMMA NormalisedRows ==
  ASSUME NEW cfg \in Authority, Room(cfg)
  PROVE  /\ AheadOfRows(EnsureUids(cfg))
         /\ Unnamed(cfg) = {} => EnsureUids(cfg).rows = cfg.rows
<1>1. EnsureUids(cfg) \in Authority
      /\ \A r \in EnsureUids(cfg).rows :
            r.uid \in Nat \ {0} /\ r.uid < EnsureUids(cfg).next
  BY EnsureUidsProperties
<1>2. /\ EnsureUids(cfg).rows \in SUBSET Row
      /\ EnsureUids(cfg).next \in 0..(MaxUid + 1)
  BY <1>1 DEF Authority
<1>3. Unnamed(EnsureUids(cfg)) = {}
  BY <1>1 DEF Unnamed
<1>4. EnsureUids(cfg).next >= 1
  <2>1. EnsureUids(cfg).next = IF Unnamed(cfg) = {} THEN Raised(cfg) ELSE Raised(cfg) + 1
    BY DEF EnsureUids, Authority
  <2>2. Raised(cfg) \in 1..(MaxUid + 1)
    BY RaisedAbove
  <2> QED BY <2>1, <2>2
<1>5. EnsureUids(cfg).next > Highest(EnsureUids(cfg).rows)
  <2>1. /\ Highest(EnsureUids(cfg).rows) \in 0..MaxUid
        /\ \/ Highest(EnsureUids(cfg).rows) = 0
           \/ \E r \in EnsureUids(cfg).rows : r.uid = Highest(EnsureUids(cfg).rows)
    BY <1>2, HighestUid
  <2> QED BY <1>1, <1>2, <1>4, <2>1
<1>6. ASSUME Unnamed(cfg) = {} PROVE EnsureUids(cfg).rows = cfg.rows
  <2>1. EnsureUids(cfg) = [cfg EXCEPT !.rows = cfg.rows, !.next = Raised(cfg)]
    BY <1>6 DEF EnsureUids
  <2> QED BY <2>1 DEF Authority
<1> QED BY <1>3, <1>5, <1>6 DEF AheadOfRows

(* The draft actions change the rows of a draft and nothing else.          *)
LEMMA DraftShape ==
  ASSUME TypeOK, OpenSettings \/ CloseSettings \/ EditDraft
  PROVE  /\ UNCHANGED <<phase, live, dirty, flight, final, write, disk>>
         /\ \A d \in draft' : \/ d = live
                              \/ \E o \in draft : d.sealed = o.sealed /\ d.edits = o.edits
<1>1. CASE OpenSettings \/ CloseSettings
  BY <1>1 DEF OpenSettings, CloseSettings
<1>2. CASE EditDraft
  <2>1. PICK o \in draft : \E rows : draft' = {[o EXCEPT !.rows = rows]}
    BY <1>2 DEF EditDraft
  <2>2. o \in Authority
    BY DEF TypeOK
  <2>3. \A d \in draft' : d.sealed = o.sealed /\ d.edits = o.edits
    BY <2>1, <2>2 DEF Authority
  <2> QED BY <1>2, <2>3 DEF EditDraft
<1> QED BY <1>1, <1>2

LEMMA EditShape ==
  ASSUME TypeOK, NEW e \in Edits, draft' = MirrorEdit(e)
  PROVE  /\ WithEdit(live, e).edits = live.edits \cup {e}
         /\ WithEdit(live, e).rows = live.rows /\ WithEdit(live, e).paired = live.paired
         /\ WithEdit(live, e).sealed = live.sealed /\ WithEdit(live, e) \in Authority
         /\ \A d \in draft' : \E o \in draft :
               /\ d.sealed = o.sealed
               /\ d.edits \cap Mirrored = (o.edits \cup {e}) \cap Mirrored
<1>1. \A c \in Authority : /\ WithEdit(c, e).edits = c.edits \cup {e}
                           /\ WithEdit(c, e).rows = c.rows
                           /\ WithEdit(c, e).paired = c.paired
                           /\ WithEdit(c, e).sealed = c.sealed
                           /\ WithEdit(c, e) \in Authority
  BY DEF WithEdit, Authority
<1>2. live \in Authority /\ draft \subseteq Authority
  BY DEF TypeOK
<1>3. CASE e \in Mirrored
  <2>1. \A d \in draft' : \E o \in draft : d = WithEdit(o, e)
    BY <1>3 DEF MirrorEdit
  <2> HIDE DEF WithEdit
  <2> QED BY <1>1, <1>2, <2>1
<1>4. CASE e \notin Mirrored
  <2>1. \A d \in draft' : d \in draft /\ d.edits \cap Mirrored = (d.edits \cup {e}) \cap Mirrored
    BY <1>4 DEF MirrorEdit
  <2> QED BY <1>1, <1>2, <2>1
<1> QED BY <1>3, <1>4

(* A tick takes the answer of the last request or sends the next one.      *)
LEMMA TickShape ==
  ASSUME TypeOK, Ticks
  PROVE  /\ phase = "up" /\ write.by # "ui" /\ ~Unanswered /\ Room(live)
         /\ UNCHANGED <<phase, draft, final, write, disk>>
         /\ \/ /\ ~live.sealed /\ live' = EnsureUids(live)
               /\ flight'.stage = "queued" /\ flight'.cfg = live'
            \/ /\ live' = live /\ flight'.stage = "none" /\ flight'.cfg = Blank
               /\ NeedsSave => dirty'
<1>1. PICK due \in BOOLEAN : Tick(due)
  BY DEF Ticks
<1>2. /\ phase = "up" /\ write.by # "ui" /\ ~Unanswered /\ Room(live)
      /\ UNCHANGED <<phase, draft, final, write, disk>>
  BY <1>1 DEF Tick, Responsive
<1>3. CASE due /\ NeedsSave /\ ~live.sealed
  <2>1. live' = EnsureUids(live)
        /\ flight' = [stage |-> "queued", cfg |-> EnsureUids(live)]
    BY <1>1, <1>3 DEF Tick
  <2> QED BY <1>2, <1>3, <2>1
<1>4. CASE ~(due /\ NeedsSave /\ ~live.sealed)
  <2>1. live' = live /\ flight' = NoRequest
    BY <1>1, <1>4 DEF Tick
  <2>2. NeedsSave => dirty'
    BY <1>1, <1>4, Zenon DEF Tick
  <2>3. flight'.stage = "none" /\ flight'.cfg = Blank
    BY <2>1 DEF NoRequest
  <2> QED BY <1>2, <2>1, <2>2, <2>3
<1> QED BY <1>3, <1>4

LEMMA LiveNormalised ==
  ASSUME TypeOK, Room(live)
  PROVE  /\ AheadOfRows(EnsureUids(live))
         /\ Unnamed(live) = {} => EnsureUids(live).rows = live.rows
         /\ EnsureUids(live).edits = live.edits
         /\ EnsureUids(live).paired = live.paired
         /\ EnsureUids(live).sealed = live.sealed
  BY NormalisedRows, EnsureUidsProperties DEF TypeOK

LEMMA FinishShape ==
  ASSUME FinishPending
  PROVE  /\ ~Unanswered /\ flight'.stage = "none" /\ flight'.cfg = Blank
         /\ NeedsSave => dirty'
<1>1. flight' = NoRequest /\ ~Unanswered
  BY DEF FinishPending
<1>2. NeedsSave => dirty'
  BY Zenon DEF FinishPending
<1> QED BY <1>1, <1>2 DEF NoRequest

(* The window's and the wizard's saves begin with a candidate that has the *)
(* seal and the edits of the live config or of the draft.                  *)
LEMMA SaveShape ==
  ASSUME TypeOK, SaveDraft \/ AddRow \/ DropRow
  PROVE  /\ phase = "up" /\ write.by # "ui" /\ ~Unanswered
         /\ flight'.stage = "none" /\ flight'.cfg = Blank
         /\ NeedsSave => dirty'
         /\ UNCHANGED <<phase, live, draft, final, disk>>
         /\ write'.by = "ui" /\ write'.kind \in Installing /\ write'.step = "begin"
         /\ AheadOfRows(write'.cfg) /\ ~write'.cfg.sealed
         /\ \E c \in draft \cup {live} :
               c.sealed = write'.cfg.sealed /\ c.edits = write'.cfg.edits
<1>0. live \in Authority /\ draft \subseteq Authority
  BY DEF TypeOK
<1>1. /\ phase = "up" /\ write.by # "ui" /\ FinishPending
      /\ UNCHANGED <<phase, live, draft, final, disk>>
  BY DEF SaveDraft, AddRow, DropRow, Responsive
<1>6. /\ ~Unanswered /\ flight'.stage = "none" /\ flight'.cfg = Blank
      /\ NeedsSave => dirty'
  BY <1>1, FinishShape
<1>2. \E kind \in Installing, cfg \in Authority : \E row :
         /\ BeginSave(kind, cfg, row)
         /\ \E c \in draft \cup {live} : c.sealed = cfg.sealed /\ c.edits = cfg.edits
  <2>1. CASE SaveDraft
    <3>1. PICK d \in draft : BeginSave("settings", d, {})
      BY <2>1 DEF SaveDraft
    <3> QED BY <1>0, <3>1 DEF Installing
  <2>2. CASE AddRow
    <3>1. PICK c \in Cores :
            LET cfg == [live EXCEPT !.rows = live.rows \cup {[core |-> c, uid |-> 0]}]
            IN  BeginSave("add", cfg, {r \in EnsureUids(cfg).rows : r.core = c})
      BY <2>2 DEF AddRow
    <3> DEFINE rows == live.rows \cup {[core |-> c, uid |-> 0]}
               cfg  == [live EXCEPT !.rows = rows]
               row  == {r \in EnsureUids(cfg).rows : r.core = c}
    <3>2. rows \in SUBSET Row
      BY <1>0, NewRow DEF Authority
    <3>3. BeginSave("add", cfg, row)
      BY <3>1
    <3> HIDE DEF rows, row
    <3>4. cfg \in Authority /\ cfg.sealed = live.sealed /\ cfg.edits = live.edits
      BY <1>0, <3>2, RowsTyped
    <3> HIDE DEF cfg
    <3> QED BY <3>3, <3>4 DEF Installing
  <2>3. CASE DropRow
    <3>1. PICK r \in live.rows : BeginSave("drop", [live EXCEPT !.rows = live.rows \ {r}], {r})
      BY <2>3 DEF DropRow
    <3> DEFINE rows == live.rows \ {r}
               cfg  == [live EXCEPT !.rows = rows]
    <3>2. rows \in SUBSET Row
      BY <1>0 DEF Authority
    <3>3. BeginSave("drop", cfg, {r})
      BY <3>1
    <3> HIDE DEF rows
    <3>4. cfg \in Authority /\ cfg.sealed = live.sealed /\ cfg.edits = live.edits
      BY <1>0, <3>2, RowsTyped
    <3> HIDE DEF cfg
    <3> QED BY <3>3, <3>4 DEF Installing
  <2> QED BY <2>1, <2>2, <2>3
<1>8. PICK kind \in Installing, cfg \in Authority :
          \E row :
            /\ BeginSave(kind, cfg, row)
            /\ \E c \in draft \cup {live} : c.sealed = cfg.sealed /\ c.edits = cfg.edits
  BY <1>2
<1>3. PICK row :
         /\ BeginSave(kind, cfg, row)
         /\ \E c \in draft \cup {live} : c.sealed = cfg.sealed /\ c.edits = cfg.edits
  BY <1>8
<1>4. /\ ~cfg.sealed /\ Room(cfg)
      /\ write' = [by |-> "ui", kind |-> kind, cfg |-> EnsureUids(cfg),
                   step |-> "begin", row |-> row]
  BY <1>3 DEF BeginSave
<1>5. /\ AheadOfRows(EnsureUids(cfg))
      /\ EnsureUids(cfg).sealed = cfg.sealed /\ EnsureUids(cfg).edits = cfg.edits
  BY <1>4, NormalisedRows, EnsureUidsProperties
<1> QED BY <1>1, <1>3, <1>4, <1>5, <1>6

(* An edit saved in place: the live config, its draft and the candidate.   *)
LEMMA SaveLiveShape ==
  ASSUME TypeOK, SaveLive, Unnamed(live) = {}
  PROVE  /\ phase = "up" /\ write.by # "ui" /\ ~Unanswered
         /\ flight'.stage = "none" /\ flight'.cfg = Blank /\ dirty'
         /\ UNCHANGED <<phase, final, disk>>
         /\ write'.by = "ui" /\ write'.kind = "live" /\ write'.cfg = live'
         /\ write'.step = "begin"
         /\ ~live.sealed /\ ~live'.sealed /\ live'.rows = live.rows
         /\ live'.paired = live.paired /\ AheadOfRows(live')
         /\ \E e \in Mirrored :
               /\ live'.edits = live.edits \cup {e}
               /\ \A d \in draft' : \E o \in draft :
                     /\ d.sealed = o.sealed
                     /\ d.edits \cap Mirrored = (o.edits \cup {e}) \cap Mirrored
<1>1. PICK e \in Mirrored :
         /\ draft' = MirrorEdit(e) /\ BeginSave("live", WithEdit(live, e), {})
         /\ live' = EnsureUids(WithEdit(live, e))
  BY DEF SaveLive
<1>2. e \in Edits
  OBVIOUS
<1> DEFINE cfg == WithEdit(live, e)
<1>3. /\ cfg \in Authority /\ cfg.edits = live.edits \cup {e}
      /\ cfg.rows = live.rows /\ cfg.paired = live.paired /\ cfg.sealed = live.sealed
      /\ \A d \in draft' : \E o \in draft :
            /\ d.sealed = o.sealed
            /\ d.edits \cap Mirrored = (o.edits \cup {e}) \cap Mirrored
  BY <1>1, <1>2, EditShape
<1>4. ~cfg.sealed /\ Room(cfg) /\ live' = EnsureUids(cfg)
      /\ write' = [by |-> "ui", kind |-> "live", cfg |-> live', step |-> "begin", row |-> {}]
  BY <1>1 DEF BeginSave
<1> HIDE DEF cfg
<1>5. /\ AheadOfRows(live') /\ live'.edits = cfg.edits /\ live'.paired = cfg.paired
      /\ live'.sealed = cfg.sealed
      /\ Unnamed(cfg) = {} => live'.rows = cfg.rows
  BY <1>3, <1>4, NormalisedRows, EnsureUidsProperties
<1>6. Unnamed(cfg) = {}
  BY <1>3 DEF Unnamed
<1>7. /\ phase = "up" /\ write.by # "ui" /\ ~Unanswered
      /\ dirty' /\ UNCHANGED <<phase, final, disk>>
  BY DEF SaveLive, Responsive
<1>8. flight'.stage = "none" /\ flight'.cfg = Blank
  BY DEF SaveLive, NoRequest
<1> QED BY <1>3, <1>4, <1>5, <1>6, <1>7, <1>8

LEMMA PairShape ==
  ASSUME TypeOK, Pairs
  PROVE  /\ phase = "up" /\ write.by # "ui" /\ ~Unanswered
         /\ ~live.sealed /\ ~disk.marker
         /\ flight'.stage = "none" /\ flight'.cfg = Blank
         /\ NeedsSave => dirty'
         /\ UNCHANGED <<phase, final, write>>
         /\ live'.rows = live.rows /\ live'.edits = live.edits
         /\ live'.sealed = live.sealed
         /\ disk'.servers = ServersOf(live') /\ disk'.settings = disk.settings
         /\ disk'.marker = disk.marker
         /\ \A d \in draft' : \E o \in draft : d.sealed = o.sealed /\ d.edits = o.edits
<1>1. PICK on \in BOOLEAN : Pair(on)
  BY DEF Pairs
<1>2. /\ live \in Authority /\ draft \subseteq Authority
      /\ disk \in [servers : Servers, settings : Settings, marker : BOOLEAN]
  BY DEF TypeOK
<1>4. /\ live' = [live EXCEPT !.paired = on]
      /\ draft' = {[d EXCEPT !.paired = on] : d \in draft}
      /\ disk' = [disk EXCEPT !.servers = ServersOf(live')]
  BY <1>1 DEF Pair
<1>5. \A d \in draft' : \E o \in draft : d.sealed = o.sealed /\ d.edits = o.edits
  <2>1. \A d \in draft' : \E o \in draft : d = [o EXCEPT !.paired = on]
    BY <1>4
  <2>2. ASSUME NEW d \in draft'
        PROVE  \E o \in draft : d.sealed = o.sealed /\ d.edits = o.edits
    <3>1. PICK o \in draft : d = [o EXCEPT !.paired = on]
      BY <2>1
    <3>2. o \in Authority
      BY <1>2
    <3> QED BY <3>1, <3>2 DEF Authority
  <2> QED BY <2>2
<1>6. live'.rows = live.rows /\ live'.edits = live.edits /\ live'.sealed = live.sealed
  BY <1>2, <1>4 DEF Authority
<1>7. /\ disk'.servers = ServersOf(live') /\ disk'.settings = disk.settings
      /\ disk'.marker = disk.marker
  BY <1>2, <1>4
<1>8. /\ phase = "up" /\ write.by # "ui" /\ ~live.sealed /\ ~disk.marker
      /\ FinishPending /\ UNCHANGED <<phase, final, write>>
  BY <1>1 DEF Pair, Responsive
<1> QED BY <1>5, <1>6, <1>7, <1>8, FinishShape

(* The end of a pair write: what it answers, and what it installs.         *)
LEMMA EndShape ==
  ASSUME TypeOK, NEW ok \in BOOLEAN, EndWrite(ok)
  PROVE  /\ write'.by = "none" /\ write'.cfg = Blank
         /\ write.kind = "autosave" =>
               /\ flight'.stage \in {"ok", "failed"} /\ flight'.cfg = Blank
               /\ flight'.stage = "ok" => ok
         /\ write.kind # "autosave" => flight' = flight
         /\ final'.cfg = final.cfg
         /\ write.kind \in {"final", "fallback"} =>
               /\ final'.stage \in {"ok", "failed", "lost"}
               /\ final'.stage = "ok" => ok
         /\ write.kind \notin {"final", "fallback"} => final' = final
         /\ dirty => dirty' \/ (ok /\ write.kind = "live")
         /\ ok /\ write.kind \in Installing =>
               /\ live' = write.cfg
               /\ \A d \in draft' : \/ d = write.cfg
                                    \/ \E o \in draft : d.sealed = o.sealed /\ d.edits = o.edits
         /\ ~(ok /\ write.kind \in Installing) => live' = live /\ draft' = draft
<1>1. /\ write'.by = "none" /\ write'.cfg = Blank
      /\ write.kind = "autosave" =>
            /\ flight'.stage \in {"ok", "failed"} /\ flight'.cfg = Blank
            /\ flight'.stage = "ok" => ok
      /\ write.kind # "autosave" => flight' = flight
  BY DEF EndWrite, NoWrite
<1>6. dirty => dirty' \/ (ok /\ write.kind = "live")
  BY Zenon DEF EndWrite
<1>2. final \in Request /\ draft \subseteq Authority
  BY DEF TypeOK
<1>3. /\ final'.cfg = final.cfg
      /\ write.kind \in {"final", "fallback"} =>
            /\ final'.stage \in {"ok", "failed", "lost"}
            /\ final'.stage = "ok" => ok
      /\ write.kind \notin {"final", "fallback"} => final' = final
  BY <1>2 DEF EndWrite, Request
<1>4. ~(ok /\ write.kind \in Installing) => live' = live /\ draft' = draft
  BY DEF EndWrite, Install, Installing
<1>5. ASSUME ok, write.kind \in Installing
      PROVE  /\ live' = write.cfg
             /\ \A d \in draft' : \/ d = write.cfg
                                  \/ \E o \in draft : d.sealed = o.sealed /\ d.edits = o.edits
  <2>2. CASE write.kind = "settings"
    BY <1>5, <2>2 DEF EndWrite, Install
  <2>3. CASE write.kind = "add"
    <3>1. /\ live' = write.cfg
          /\ draft' = {[d EXCEPT !.rows = d.rows \cup write.row] : d \in draft}
      BY <1>5, <2>3 DEF EndWrite, Install
    <3>2. \A d \in draft' : \E o \in draft : d = [o EXCEPT !.rows = o.rows \cup write.row]
      BY <3>1
    <3>3. ASSUME NEW d \in draft'
          PROVE  \E o \in draft : d.sealed = o.sealed /\ d.edits = o.edits
      <4>1. PICK o \in draft : d = [o EXCEPT !.rows = o.rows \cup write.row]
        BY <3>2
      <4>2. o \in Authority
        BY <1>2
      <4> QED BY <4>1, <4>2 DEF Authority
    <3> QED BY <3>1, <3>3
  <2>4. CASE write.kind = "drop"
    <3>1. /\ live' = write.cfg
          /\ draft' = {[d EXCEPT !.rows = {r \in d.rows : r.uid \notin UidsOf(write.row)}]
                        : d \in draft}
      BY <1>5, <2>4 DEF EndWrite, Install
    <3>2. \A d \in draft' : \E o \in draft :
             d = [o EXCEPT !.rows = {r \in o.rows : r.uid \notin UidsOf(write.row)}]
      BY <3>1
    <3>3. ASSUME NEW d \in draft'
          PROVE  \E o \in draft : d.sealed = o.sealed /\ d.edits = o.edits
      <4>1. PICK o \in draft : 
              d = [o EXCEPT !.rows = {r \in o.rows : r.uid \notin UidsOf(write.row)}]
        BY <3>2
      <4>2. o \in Authority
        BY <1>2
      <4> QED BY <4>1, <4>2 DEF Authority
    <3> QED BY <3>1, <3>3
  <2> QED BY <1>5, <2>2, <2>3, <2>4 DEF Installing
<1> QED BY <1>1, <1>3, <1>4, <1>5, <1>6

(* A start rereads the files; it saves only what it could read.            *)
LEMMA StartShape ==
  ASSUME TypeOK, Files, Loads
  PROVE  /\ phase' = "up" /\ draft' = {} /\ dirty' = FALSE
         /\ flight'.stage = "none" /\ flight'.cfg = Blank
         /\ final'.stage = "none" /\ final'.cfg = Blank
         /\ disk'.servers = disk.servers /\ disk'.marker = disk.marker
         /\ disk'.settings = disk.settings \/ disk'.settings = NoSettings
         /\ live'.rows = disk.servers.rows /\ live'.paired = disk.servers.paired
         /\ ~live'.sealed => live'.edits = disk'.settings.edits
         /\ \/ write'.by = "none" /\ write'.cfg = Blank
            \/ /\ write'.by = "ui" /\ write'.kind = "load"
               /\ write'.cfg = live' /\ write'.step = "begin"
               /\ ~live'.sealed /\ live'.next > Highest(live'.rows)
<1>1. PICK status \in {"present", "unreadable", "corrupt"}, seen \in BOOLEAN :
         Load(status, seen)
  BY DEF Loads
<1> DEFINE meta   == IF status = "present" THEN disk.settings ELSE NoSettings
           sealed == status = "unreadable"
           cfg    == IF disk.servers.there THEN Merged(meta, seen, sealed)
                                           ELSE Fresh(seen, sealed)
           saves  == /\ disk.servers.there
                     /\ cfg.next > meta.next \/ disk.marker
                     /\ ~sealed
<1>2. /\ live' = cfg
      /\ write' = IF saves THEN [NoWrite EXCEPT !.by = "ui", !.cfg = cfg] ELSE NoWrite
      /\ disk' = IF status = "corrupt" THEN [disk EXCEPT !.settings = NoSettings]
                                       ELSE disk
      /\ phase' = "up" /\ draft' = {} /\ dirty' = FALSE
      /\ flight' = NoRequest /\ final' = NoRequest
  BY <1>1 DEF Load
<1>3. disk \in [servers : Servers, settings : Settings, marker : BOOLEAN]
  BY DEF TypeOK
<1>4. /\ disk'.servers = disk.servers /\ disk'.marker = disk.marker
      /\ disk'.settings = IF status = "corrupt" THEN NoSettings ELSE disk.settings
  BY <1>2, <1>3
<1>9. /\ flight'.stage = "none" /\ flight'.cfg = Blank
      /\ final'.stage = "none" /\ final'.cfg = Blank
  BY <1>2 DEF NoRequest
<1>5. ~sealed => meta.edits = disk'.settings.edits
  BY <1>4
<1>6. sealed \in BOOLEAN
  OBVIOUS
<1> HIDE DEF sealed, saves
<1>7. CASE disk.servers.there
  <2>1. /\ cfg.rows = disk.servers.rows /\ cfg.paired = disk.servers.paired
        /\ cfg.edits = meta.edits /\ cfg.sealed = sealed
        /\ cfg.next = Higher(Higher(meta.next, Higher(Highest(disk.servers.rows),
                                                  Highest(meta.rows)) + 1), Floor(seen))
    BY <1>7 DEF Merged
  <2>2. /\ Highest(disk.servers.rows) \in 0..MaxUid /\ Highest(meta.rows) \in 0..MaxUid
        /\ meta.next \in 0..(MaxUid + 1)
    <3>1. disk.servers.rows \in SUBSET Row /\ meta.rows \in SUBSET Row
          /\ meta.next \in 0..(MaxUid + 1)
      BY <1>3, BlankTyped DEF Servers, Settings
    <3> QED BY <3>1, HighestUid
  <2>3. Floor(seen) \in 0..(MaxUid + 1)
    BY FloorTyped
  <2> HIDE DEF cfg, meta
  <2>4. cfg.next > Highest(cfg.rows)
    BY <2>1, <2>2, <2>3 DEF Higher
  <2>5. \/ write'.by = "none" /\ write'.cfg = Blank
        \/ /\ write'.by = "ui" /\ write'.kind = "load" /\ write'.cfg = cfg
           /\ write'.step = "begin" /\ ~sealed
    BY <1>2 DEF NoWrite, saves
  <2>6. ~live'.sealed => live'.edits = disk'.settings.edits
    BY <1>2, <1>5, <2>1
  <2>7. live'.rows = disk.servers.rows /\ live'.paired = disk.servers.paired
    BY <1>2, <2>1
  <2>8. \/ write'.by = "none" /\ write'.cfg = Blank
        \/ /\ write'.by = "ui" /\ write'.kind = "load"
           /\ write'.cfg = live' /\ write'.step = "begin"
           /\ ~live'.sealed /\ live'.next > Highest(live'.rows)
    BY <1>2, <2>1, <2>4, <2>5
  <2> QED BY <1>2, <1>4, <1>9, <2>6, <2>7, <2>8
<1>8. CASE ~disk.servers.there
  <2>1. disk.servers = NoServers /\ disk.settings = NoSettings
    BY <1>8 DEF Files
  <2>2. /\ cfg.rows = {} /\ cfg.paired = FALSE /\ cfg.edits = {}
    BY <1>8 DEF Fresh, Blank
  <2>3. write'.by = "none" /\ write'.cfg = Blank
    BY <1>2, <1>8 DEF saves, NoWrite
  <2>4. disk'.settings.edits = {}
    BY <1>4, <2>1 DEF NoSettings
  <2> HIDE DEF cfg
  <2>5. /\ live'.rows = disk.servers.rows /\ live'.paired = disk.servers.paired
        /\ live'.edits = disk'.settings.edits
    <3>1. disk.servers.rows = {} /\ disk.servers.paired = FALSE
      BY <2>1 DEF NoServers
    <3>2. live' = cfg
      BY <1>2
    <3> QED BY <2>2, <2>4, <3>1, <3>2
  <2>6. disk'.settings = disk.settings \/ disk'.settings = NoSettings
    BY <1>4
  <2> QED BY <1>2, <1>4, <1>9, <2>3, <2>5, <2>6
<1> QED BY <1>7, <1>8

LEMMA QuitShape ==
  ASSUME TypeOK, Quit
  PROVE  /\ phase = "up" /\ write.by # "ui" /\ Room(live)
         /\ phase' = "closing" /\ draft' = {}
         /\ UNCHANGED <<dirty, flight, write, disk>>
         /\ \/ /\ ~live.sealed /\ live' = EnsureUids(live)
               /\ final'.stage = "queued" /\ final'.cfg = live'
            \/ /\ live' = live /\ final' = final
               /\ (~dirty /\ flight.stage = "none") \/ live.sealed
<1>1. /\ phase = "up" /\ write.by # "ui" /\ Room(live)
      /\ phase' = "closing" /\ draft' = {}
      /\ UNCHANGED <<dirty, flight, write, disk>>
  BY DEF Quit, Responsive
<1>2. CASE (dirty \/ flight.stage # "none") /\ ~live.sealed
  <2>1. live' = EnsureUids(live) /\ final' = [stage |-> "queued", cfg |-> EnsureUids(live)]
    BY <1>2 DEF Quit
  <2> QED BY <1>1, <1>2, <2>1
<1>3. CASE ~((dirty \/ flight.stage # "none") /\ ~live.sealed)
  <2>1. live' = live /\ final' = final
    BY <1>3, Zenon DEF Quit
  <2> QED BY <1>1, <1>3, <2>1
<1> QED BY <1>2, <1>3

(* The worker or, at quit, the thread takes up a request.                  *)
LEMMA TakeShape ==
  ASSUME TypeOK, TakeRequest \/ TakeFinal \/ Fallback
  PROVE  /\ write.by = "none" /\ write'.by # "none" /\ write'.step = "begin"
         /\ UNCHANGED <<phase, live, draft, dirty, disk>>
         /\ \/ /\ flight.stage = "queued" /\ write'.kind = "autosave"
               /\ write'.by = "worker" /\ write'.cfg = flight.cfg
               /\ flight'.stage = "writing" /\ flight'.cfg = Blank /\ final' = final
            \/ /\ final.stage \in {"queued", "failed"}
               /\ write'.kind \in {"final", "fallback"} /\ write'.cfg = final.cfg
               /\ phase = "closing" /\ flight' = flight
               /\ final.stage = "queued" => ~Unanswered
               /\ final'.stage = "writing" /\ final'.cfg = final.cfg
<1>1. final \in Request
  BY DEF TypeOK
<1>2. CASE TakeRequest
  BY <1>2 DEF TakeRequest, StartWrite, NoWrite
<1>3. CASE TakeFinal \/ Fallback
  <2>1. /\ UNCHANGED <<phase, live, draft, dirty, flight, disk>>
        /\ final' = [final EXCEPT !.stage = "writing"] /\ phase = "closing"
        /\ final.stage \in {"queued", "failed"} /\ write.by = "none"
        /\ final.stage = "queued" => ~Unanswered
        /\ \/ write' = [NoWrite EXCEPT !.by = "worker", !.kind = "final", !.cfg = final.cfg]
           \/ write' = [NoWrite EXCEPT !.by = "ui", !.kind = "fallback", !.cfg = final.cfg]
    BY <1>3 DEF TakeFinal, Fallback, StartWrite
  <2>2. /\ write'.by # "none" /\ write'.step = "begin" /\ write'.cfg = final.cfg
        /\ write'.kind \in {"final", "fallback"}
    BY <2>1 DEF NoWrite
  <2>3. final'.stage = "writing" /\ final'.cfg = final.cfg
    BY <1>1, <2>1 DEF Request
  <2> QED BY <2>1, <2>2, <2>3
<1> QED BY <1>2, <1>3

LEMMA QuietShape ==
  ASSUME StoreHistory \/ BackUp \/ UNCHANGED vars
  PROVE  Settled
  BY DEF StoreHistory, BackUp, vars, Settled

LEMMA LiveEditShape ==
  ASSUME TypeOK, EditLive
  PROVE  /\ phase = "up" /\ write.by # "ui" /\ dirty' = TRUE
         /\ UNCHANGED <<phase, flight, final, write, disk>>
         /\ live'.rows = live.rows /\ live'.paired = live.paired
         /\ live'.sealed = live.sealed
         /\ \E e \in Edits :
               /\ live'.edits = live.edits \cup {e}
               /\ \A d \in draft' : \E o \in draft :
                     /\ d.sealed = o.sealed
                     /\ d.edits \cap Mirrored = (o.edits \cup {e}) \cap Mirrored
<1>1. PICK e \in Edits : live' = WithEdit(live, e) /\ draft' = MirrorEdit(e)
  BY DEF EditLive
<1>2. /\ live'.edits = live.edits \cup {e}
      /\ live'.rows = live.rows /\ live'.paired = live.paired
      /\ live'.sealed = live.sealed
      /\ \A d \in draft' : \E o \in draft :
            /\ d.sealed = o.sealed
            /\ d.edits \cap Mirrored = (o.edits \cup {e}) \cap Mirrored
  BY <1>1, EditShape
<1>3. /\ phase = "up" /\ write.by # "ui" /\ dirty' = TRUE
      /\ UNCHANGED <<phase, flight, final, write, disk>>
  BY DEF EditLive, Responsive
<1> QED BY <1>2, <1>3

(* A file operation of the pair write.                                     *)
LEMMA FileShape ==
  ASSUME TypeOK, WriteMarker \/ WriteServers \/ WriteSettings
  PROVE  /\ Running /\ write.by # "none"
         /\ UNCHANGED <<phase, live, draft, dirty, flight, final>>
         /\ write'.by = write.by /\ write'.kind = write.kind /\ write'.cfg = write.cfg
         /\ \/ /\ write.step = "begin" /\ write'.step = "servers"
               /\ disk'.marker /\ disk'.servers = disk.servers
               /\ disk'.settings = disk.settings
            \/ /\ write.step = "servers" /\ write'.step = "settings"
               /\ disk'.marker = disk.marker /\ disk'.servers = ServersOf(write.cfg)
               /\ disk'.settings = disk.settings
            \/ /\ write.step = "settings" /\ write'.step = "finish"
               /\ disk'.marker = disk.marker /\ disk'.servers = disk.servers
               /\ disk'.settings = SettingsOf(write.cfg)
<1>1. /\ disk \in [servers : Servers, settings : Settings, marker : BOOLEAN]
      /\ write \in PairWrite
  BY DEF TypeOK
<1>2. CASE WriteMarker
  BY <1>1, <1>2 DEF WriteMarker, Writing, PairWrite
<1>3. CASE WriteServers
  BY <1>1, <1>3 DEF WriteServers, Writing, PairWrite
<1>4. CASE WriteSettings
  BY <1>1, <1>4 DEF WriteSettings, Writing, PairWrite
<1> QED BY <1>2, <1>3, <1>4

-----------------------------------------------------------------------------
(* The invariant, part by part *)

LEMMA JobsStep ==
  ASSUME TypeOK, Jobs, Files, Unnamed(live) = {}, [Next]_vars
  PROVE  Jobs'
<1>1. CASE Loads
  BY <1>1, StartShape DEF Jobs, Unanswered
<1>2. CASE OpenSettings \/ CloseSettings \/ EditDraft
  BY <1>2, DraftShape DEF Jobs, Unanswered
<1>3. CASE EditLive
  BY <1>3, LiveEditShape DEF Jobs, Unanswered
<1>4. CASE Ticks
  <2>1. /\ phase = "up" /\ write.by # "ui" /\ ~Unanswered
        /\ UNCHANGED <<phase, final, write>>
        /\ flight'.stage \in {"queued", "none"}
    BY <1>4, TickShape
  <2>2. write.by = "none"
    BY <2>1 DEF Jobs, Unanswered
  <2> QED BY <2>1, <2>2 DEF Jobs, Unanswered
<1>5. CASE SaveDraft \/ AddRow \/ DropRow
  BY <1>5, SaveShape DEF Jobs, Unanswered, Installing
<1>6. CASE SaveLive
  BY <1>6, SaveLiveShape DEF Jobs, Unanswered
<1>7. CASE Pairs
  BY <1>7, PairShape DEF Jobs, Unanswered
<1>8. CASE WriteMarker \/ WriteServers \/ WriteSettings
  BY <1>8, FileShape DEF Jobs, Unanswered
<1>9. CASE RemoveMarker \/ FailWrite
  <2>1. PICK ok \in BOOLEAN : EndWrite(ok)
    BY <1>9 DEF RemoveMarker, FailWrite
  <2>2. phase' = phase /\ write.by # "none"
    BY <1>9 DEF RemoveMarker, FailWrite, Writing
  <2>3. write'.by = "none"
    BY <2>1, EndShape
  <2> QED BY <2>1, <2>2, <2>3, EndShape DEF Jobs, Unanswered
<1>10. CASE TakeRequest \/ TakeFinal \/ Fallback
  <2>1. final.stage \in {"none", "queued", "writing", "ok", "failed", "lost"}
    BY DEF TypeOK, Request
  <2> QED BY <1>10, <2>1, TakeShape DEF Jobs, Unanswered
<1>11. CASE Quit
  BY <1>11, QuitShape DEF Jobs, Unanswered
<1>12. CASE Close
  BY <1>12 DEF Close, Jobs, Unanswered, NoRequest
<1>13. CASE Crash
  BY <1>13 DEF Crash, Jobs, Unanswered, NoRequest, NoWrite
<1>14. CASE StoreHistory \/ BackUp \/ UNCHANGED vars
  BY <1>14, QuietShape DEF Settled, Jobs, Unanswered
<1> QED
  BY <1>1, <1>2, <1>3, <1>4, <1>5, <1>6, <1>7, <1>8, <1>9, <1>10, <1>11, <1>12,
     <1>13, <1>14 DEF Next

LEMMA SealingStep ==
  ASSUME TypeOK, Jobs, Sealing, Files, Unnamed(live) = {}, [Next]_vars
  PROVE  Sealing'
<1>1. CASE Loads
  BY <1>1, StartShape DEF Sealing, Unanswered, Blank
<1>2. CASE OpenSettings \/ CloseSettings \/ EditDraft
  BY <1>2, DraftShape DEF Sealing, Unanswered
<1>3. CASE EditLive
  BY <1>3, LiveEditShape DEF Sealing, Unanswered
<1>4. CASE Ticks
  <2>1. /\ UNCHANGED <<draft, final, write>> /\ ~Unanswered
        /\ \/ ~live.sealed /\ flight'.cfg = live' /\ live' = EnsureUids(live)
           \/ live' = live /\ flight'.cfg = Blank /\ flight'.stage = "none"
    BY <1>4, TickShape
  <2>2. live'.sealed = live.sealed
    BY <1>4, <2>1, TickShape, LiveNormalised
  <2>3. ~flight'.cfg.sealed
    BY <2>1, <2>2 DEF Blank
  <2>4. live.sealed => flight'.stage = "none"
    BY <2>1
  <2> QED BY <2>1, <2>2, <2>3, <2>4 DEF Sealing, Unanswered
<1>5. CASE SaveDraft \/ AddRow \/ DropRow
  BY <1>5, SaveShape DEF Sealing, Unanswered, Blank
<1>6. CASE SaveLive
  <2>1. /\ ~live.sealed /\ ~live'.sealed /\ final' = final
        /\ flight'.stage = "none" /\ flight'.cfg = Blank
        /\ write'.cfg = live'
        /\ \A d \in draft' : \E o \in draft : d.sealed = o.sealed
    BY <1>6, SaveLiveShape
  <2>2. live.sealed = FALSE /\ live'.sealed = FALSE
    <3>1. live.sealed \in BOOLEAN /\ live'.sealed \in BOOLEAN
      BY TypeStep DEF TypeOK, Authority
    <3> QED BY <2>1, <3>1
  <2>3. \A d \in draft' : d.sealed = live'.sealed
    BY <2>1, <2>2 DEF Sealing
  <2> QED BY <2>1, <2>3 DEF Sealing, Blank
<1>7. CASE Pairs
  BY <1>7, PairShape DEF Sealing, Unanswered, Blank
<1>8. CASE WriteMarker \/ WriteServers \/ WriteSettings
  BY <1>8, FileShape DEF Sealing, Unanswered
<1>9. CASE RemoveMarker \/ FailWrite
  <2>1. PICK ok \in BOOLEAN : EndWrite(ok)
    BY <1>9 DEF RemoveMarker, FailWrite
  <2>2. phase' = phase /\ write.by # "none" /\ write'.by = "none" /\ write'.cfg = Blank
    BY <1>9, <2>1, EndShape DEF RemoveMarker, FailWrite, Writing
  <2>3. /\ live'.sealed = FALSE /\ \A d \in draft' : d.sealed = FALSE
    <3>1. live.sealed = FALSE /\ write.cfg.sealed = FALSE /\ \A d \in draft : d.sealed = FALSE
      BY <2>2 DEF Sealing, TypeOK, PairWrite, Authority
    <3> QED BY <2>1, <3>1, EndShape
  <2>4. ~flight'.cfg.sealed /\ ~final'.cfg.sealed
    <3>1. final'.cfg = final.cfg /\ flight'.cfg \in {Blank, flight.cfg}
      BY <2>1, EndShape
    <3>2. ~Blank.sealed
      BY DEF Blank
    <3> QED BY <3>1, <3>2 DEF Sealing
  <2>5. /\ ~live'.sealed /\ \A d \in draft' : d.sealed = live'.sealed
        /\ ~write'.cfg.sealed
    <3>1. ~Blank.sealed
      BY DEF Blank
    <3>2. ~live'.sealed /\ \A d \in draft' : d.sealed = live'.sealed
      BY ONLY <2>3
    <3>3. ~write'.cfg.sealed
      BY <2>2, <3>1
    <3> QED BY <3>2, <3>3
  <2> QED BY <2>4, <2>5 DEF Sealing
<1>10. CASE TakeRequest \/ TakeFinal \/ Fallback
  BY <1>10, TakeShape DEF Sealing, Unanswered, Blank
<1>11. CASE Quit
  BY <1>11, QuitShape, LiveNormalised DEF Sealing, Jobs, Unanswered
<1>12. CASE Close
  BY <1>12 DEF Close, Sealing, Unanswered, NoRequest, Blank
<1>13. CASE Crash
  BY <1>13 DEF Crash, Sealing, Unanswered, NoRequest, NoWrite, Blank
<1>14. CASE StoreHistory \/ BackUp \/ UNCHANGED vars
  BY <1>14, QuietShape DEF Settled, Sealing, Unanswered
<1> QED
  BY <1>1, <1>2, <1>3, <1>4, <1>5, <1>6, <1>7, <1>8, <1>9, <1>10, <1>11, <1>12,
     <1>13, <1>14 DEF Next

(* Between two saves the thread sees no write and no quit snapshot.        *)
LEMMA NoJob ==
  ASSUME Jobs, phase = "up", write.by # "ui", ~Unanswered
  PROVE  write.by = "none" /\ final.stage = "none"
  BY DEF Jobs, Unanswered

LEMMA FilesStep ==
  ASSUME TypeOK, Jobs, Files, RowsHeld, [Next]_vars
  PROVE  Files'
<1>0. \A c : /\ ServersOf(c).there /\ ServersOf(c).rows = c.rows
             /\ SettingsOf(c).rows = c.rows /\ SettingsOf(c).next = c.next
  BY DEF ServersOf, SettingsOf
<1>00. Unnamed(live) = {}
  BY DEF RowsHeld
<1>1. CASE Loads
  BY <1>1, StartShape DEF Files
<1>2. CASE OpenSettings \/ CloseSettings \/ EditDraft
  BY <1>2, DraftShape DEF Files
<1>3. CASE EditLive
  BY <1>3, LiveEditShape DEF Files
<1>4. CASE Ticks
  BY <1>4, TickShape DEF Files
<1>5. CASE SaveDraft \/ AddRow \/ DropRow
  BY <1>5, SaveShape DEF Files
<1>6. CASE SaveLive
  BY <1>00, <1>6, SaveLiveShape DEF Files
<1>7. CASE Pairs
  <2>1. /\ phase = "up" /\ ~disk.marker /\ write' = write /\ live'.rows = live.rows
        /\ disk'.servers = ServersOf(live') /\ disk'.settings = disk.settings
        /\ disk'.marker = disk.marker
        /\ write.by # "ui" /\ ~Unanswered
    BY <1>7, PairShape
  <2>2. write.by = "none"
    BY <2>1, NoJob
  <2>3. disk.servers.rows = live.rows
    BY <2>1 DEF RowsHeld, ServersAsLive, Running
  <2>4. disk'.servers.there /\ disk'.servers.rows = disk.servers.rows
    BY <1>0, <2>1, <2>3
  <2> QED BY <2>1, <2>2, <2>4 DEF Files
<1>8. CASE WriteMarker \/ WriteServers \/ WriteSettings
  <2>1. /\ write.by # "none" /\ write'.by = write.by /\ write'.cfg = write.cfg
        /\ AheadOfRows(write.cfg)
    BY <1>8, FileShape DEF RowsHeld
  <2>2. \A r \in write.cfg.rows : r.uid # 0
    BY <2>1 DEF AheadOfRows, Unnamed
  <2>3. CASE write.step = "begin"
    BY <1>8, <2>1, <2>3, FileShape DEF Files
  <2>4. CASE write.step = "servers"
    BY <1>0, <1>8, <2>1, <2>2, <2>4, FileShape DEF Files
  <2>5. CASE write.step = "settings"
    BY <1>0, <1>8, <2>1, <2>5, FileShape DEF Files
  <2> QED BY <1>8, <2>3, <2>4, <2>5, FileShape
<1>9. CASE RemoveMarker
  <2>1. /\ write.by # "none" /\ write.step = "finish" /\ EndWrite(TRUE)
        /\ disk' = [disk EXCEPT !.marker = FALSE]
    BY <1>9 DEF RemoveMarker, Writing
  <2>2. write'.by = "none"
    BY <2>1, EndShape
  <2>3. /\ disk.servers = ServersOf(write.cfg) /\ disk.settings = SettingsOf(write.cfg)
        /\ AheadOfRows(write.cfg)
    BY <2>1 DEF Files, RowsHeld
  <2>4. disk'.servers = disk.servers /\ disk'.settings = disk.settings
    BY <2>1 DEF TypeOK
  <2> QED BY <1>0, <2>2, <2>3, <2>4 DEF Files, AheadOfRows
<1>10. CASE FailWrite
  <2>1. EndWrite(FALSE) /\ disk' = disk
    BY <1>10 DEF FailWrite
  <2>2. write'.by = "none"
    BY <2>1, EndShape
  <2> QED BY <2>1, <2>2 DEF Files
<1>11. CASE TakeRequest \/ TakeFinal \/ Fallback
  BY <1>11, TakeShape DEF Files
<1>12. CASE Quit
  BY <1>12, QuitShape DEF Files
<1>13. CASE Close
  BY <1>13 DEF Close, Files
<1>14. CASE Crash
  BY <1>14 DEF Crash, Files, NoWrite
<1>15. CASE StoreHistory \/ BackUp \/ UNCHANGED vars
  BY <1>15, QuietShape DEF Settled, Files
<1> QED
  BY <1>1, <1>2, <1>3, <1>4, <1>5, <1>6, <1>7, <1>8, <1>9, <1>10, <1>11, <1>12,
     <1>13, <1>14, <1>15 DEF Next

LEMMA RowsStep ==
  ASSUME TypeOK, Jobs, Files, RowsHeld, [Next]_vars
  PROVE  RowsHeld'
<1>0. Unnamed(live) = {} /\ \A c : ServersOf(c).rows = c.rows /\ ServersOf(c).paired = c.paired
  BY DEF RowsHeld, ServersOf
<1>1. CASE Loads
  <2>1. Unnamed(live') = {}
    BY <1>1, StartShape DEF Files, Unnamed
  <2> QED BY <1>1, <2>1, StartShape
          DEF RowsHeld, AheadOfRows, SameServers, Owed, ServersAsLive
<1>2. CASE OpenSettings \/ CloseSettings \/ EditDraft
  BY <1>2, DraftShape DEF RowsHeld, SameServers, Owed, ServersAsLive, Running
<1>3. CASE EditLive
  BY <1>3, LiveEditShape
     DEF RowsHeld, AheadOfRows, SameServers, Owed, ServersAsLive, Running, Unnamed
<1>4. CASE Ticks
  <2>1. live'.rows = live.rows /\ live'.paired = live.paired
    BY <1>0, <1>4, TickShape, LiveNormalised
  <2>2. flight'.stage = "queued" => AheadOfRows(flight'.cfg) /\ flight'.cfg = live'
    BY <1>4, TickShape, LiveNormalised
  <2>3. UNCHANGED <<phase, draft, final, write, disk>>
    BY <1>4, TickShape
  <2> QED BY <2>1, <2>2, <2>3
          DEF RowsHeld, AheadOfRows, SameServers, Owed, ServersAsLive, Running, Unnamed
<1>5. CASE SaveDraft \/ AddRow \/ DropRow
  BY <1>5, SaveShape DEF RowsHeld, SameServers, Owed, ServersAsLive, Running
<1>6. CASE SaveLive
  BY <1>0, <1>6, SaveLiveShape
     DEF RowsHeld, AheadOfRows, SameServers, Owed, ServersAsLive, Running
<1>7. CASE Pairs
  <2>1. /\ phase' = phase /\ write' = write /\ final' = final
        /\ live'.rows = live.rows /\ disk'.servers = ServersOf(live')
        /\ flight'.stage = "none"
        /\ phase = "up" /\ write.by # "ui" /\ ~Unanswered
    BY <1>7, PairShape
  <2>2. write.by = "none" /\ final.stage = "none"
    BY <2>1, NoJob
  <2> QED BY <1>0, <2>1, <2>2 DEF RowsHeld, Owed, ServersAsLive, Unnamed
<1>8. CASE WriteMarker \/ WriteServers \/ WriteSettings
  <2>1. /\ write.by # "none" /\ write'.kind = write.kind /\ write'.cfg = write.cfg
        /\ UNCHANGED <<phase, live, draft, dirty, flight, final>>
        /\ write.step # "begin" => disk.marker
        /\ write.step = "begin" => disk'.marker
        /\ write.step # "begin" => disk'.marker = disk.marker
    BY <1>8, FileShape DEF Files
  <2> QED BY <2>1 DEF RowsHeld, SameServers, Owed, ServersAsLive
<1>9. CASE RemoveMarker \/ FailWrite
  <2>1. PICK ok \in BOOLEAN :
           /\ EndWrite(ok) /\ disk'.servers = disk.servers
           /\ ok => write.step = "finish" /\ ~disk'.marker
           /\ ~ok => disk' = disk
    BY <1>9 DEF RemoveMarker, FailWrite, Writing, TypeOK
  <2>2. write.by # "none" /\ phase' = phase
    BY <1>9 DEF RemoveMarker, FailWrite, Writing
  <2>3. /\ write'.by = "none"
        /\ flight'.stage = "queued" => flight' = flight
        /\ final'.cfg = final.cfg
        /\ Owed' => Owed
    <3>1. write.kind \in {"final", "fallback"} => Owed
      BY <2>2 DEF Jobs, Owed
    <3> QED BY <2>1, <3>1, EndShape DEF Owed
  <2>4. flight.stage # "queued" /\ (write.kind \in Installing => final.stage = "none")
    BY <2>2 DEF Jobs, Installing
  <2>5. /\ AheadOfRows(write.cfg)
        /\ write.kind \notin Installing => SameServers(write.cfg)
    BY <2>2 DEF RowsHeld
  <2>6. ok => disk.servers = ServersOf(write.cfg)
    BY <2>1, <2>2 DEF Files
  <2>7. CASE ok /\ write.kind \in Installing
    <3>1. live' = write.cfg /\ final' = final
      BY <2>1, <2>7, EndShape DEF Installing
    <3>2. disk'.servers.rows = live'.rows /\ disk'.servers.paired = live'.paired
      BY <1>0, <2>1, <2>6, <2>7, <3>1
    <3> QED BY <2>3, <2>4, <2>5, <2>7, <3>1, <3>2
            DEF RowsHeld, AheadOfRows, Owed, ServersAsLive
  <2>8. CASE ~(ok /\ write.kind \in Installing)
    <3>1. live' = live
      BY <2>1, <2>8, EndShape
    <3>2. ok => disk'.servers.rows = live'.rows /\ disk'.servers.paired = live'.paired
      BY <1>0, <2>1, <2>5, <2>6, <2>8, <3>1 DEF SameServers
    <3>3. ServersAsLive'
      BY <2>1, <2>2, <3>1, <3>2 DEF RowsHeld, ServersAsLive, Running
    <3> QED BY <2>3, <2>4, <3>1, <3>3 DEF RowsHeld, AheadOfRows, SameServers
  <2> QED BY <2>7, <2>8
<1>10. CASE TakeRequest \/ TakeFinal \/ Fallback
  <2>1. /\ UNCHANGED <<phase, live, draft, dirty, disk>> /\ write.by = "none"
        /\ \/ /\ flight.stage = "queued" /\ write'.kind = "autosave"
              /\ write'.cfg = flight.cfg /\ final' = final
              /\ flight'.stage = "writing"
           \/ /\ Owed /\ flight' = flight /\ write'.cfg = final.cfg
              /\ final'.cfg = final.cfg
    BY <1>10, TakeShape DEF Owed
  <2> QED BY <2>1 DEF RowsHeld, SameServers, AheadOfRows, Owed, ServersAsLive, Running
<1>11. CASE Quit
  <2>1. live'.rows = live.rows /\ live'.paired = live.paired
    BY <1>0, <1>11, QuitShape, LiveNormalised
  <2>2. /\ phase = "up" /\ UNCHANGED <<flight, write, disk>>
        /\ final' = final \/ (AheadOfRows(final'.cfg) /\ final'.cfg = live')
    BY <1>11, QuitShape, LiveNormalised
  <2> QED BY <2>1, <2>2
          DEF RowsHeld, AheadOfRows, SameServers, Owed, ServersAsLive, Running, Unnamed
<1>12. CASE Close
  BY <1>12 DEF Close, RowsHeld, SameServers, Owed, ServersAsLive, Running, NoRequest
<1>13. CASE Crash
  BY <1>13 DEF Crash, RowsHeld, Owed, ServersAsLive, Running, NoRequest, NoWrite,
               Blank, Unnamed
<1>14. CASE StoreHistory \/ BackUp \/ UNCHANGED vars
  BY <1>14, QuietShape DEF Settled, RowsHeld, SameServers, Owed, ServersAsLive, Running
<1> QED
  BY <1>1, <1>2, <1>3, <1>4, <1>5, <1>6, <1>7, <1>8, <1>9, <1>10, <1>11, <1>12,
     <1>13, <1>14 DEF Next

LEMMA EditsStep ==
  ASSUME TypeOK, Jobs, Sealing, Files, EditsHeld, Unnamed(live) = {}, [Next]_vars
  PROVE  EditsHeld'
<1>1. CASE Loads
  BY <1>1, StartShape DEF EditsHeld, SameEdits, NotBehind, Owed
<1>2. CASE OpenSettings \/ CloseSettings \/ EditDraft
  BY <1>2, DraftShape DEF EditsHeld, SameEdits, NotBehind, Owed, Running
<1>3. CASE EditLive
  <2>1. PICK e \in Edits :
           /\ live'.edits = live.edits \cup {e}
           /\ \A d \in draft' : \E o \in draft :
                 d.edits \cap Mirrored = (o.edits \cup {e}) \cap Mirrored
    BY <1>3, LiveEditShape
  <2>2. /\ phase = "up" /\ write.by # "ui" /\ UNCHANGED <<phase, flight, final, write, disk>>
        /\ live'.sealed = live.sealed
    BY <1>3, LiveEditShape
  <2>3. ~Owed /\ (write.by # "none" => write.kind = "autosave")
    BY <2>2 DEF Jobs, Owed
  <2>4. \A d \in draft' : SameEdits(d)'
    BY <2>1 DEF EditsHeld, SameEdits
  <2> QED BY <2>1, <2>2, <2>3, <2>4 DEF EditsHeld, SameEdits, NotBehind, Owed, Running
<1>4. CASE Ticks
  <2>1. /\ live'.edits = live.edits /\ live'.sealed = live.sealed
        /\ UNCHANGED <<phase, draft, final, write, disk>> /\ phase = "up"
        /\ flight'.stage = "queued" => flight'.cfg = live' /\ ~live.sealed
    BY <1>4, TickShape, LiveNormalised
  <2> QED BY <2>1 DEF EditsHeld, SameEdits, NotBehind, Owed, Running
<1>5. CASE SaveDraft \/ AddRow \/ DropRow
  <2>1. /\ phase = "up" /\ flight'.stage = "none" /\ ~write'.cfg.sealed
        /\ UNCHANGED <<phase, live, draft, final, disk>>
    BY <1>5, SaveShape
  <2>2. PICK c \in draft \cup {live} :
           c.sealed = write'.cfg.sealed /\ c.edits = write'.cfg.edits
    BY <1>5, SaveShape
  <2>3. ~live.sealed /\ SameEdits(c)
    BY <2>1, <2>2 DEF Sealing, EditsHeld, SameEdits
  <2>4. SameEdits(write'.cfg) /\ NotBehind(live)
    BY <2>1, <2>2, <2>3 DEF SameEdits, EditsHeld, Running
  <2> QED BY <2>1, <2>4 DEF EditsHeld, SameEdits, NotBehind, Owed, Running
<1>6. CASE SaveLive
  <2>1. PICK e \in Mirrored :
           /\ live'.edits = live.edits \cup {e}
           /\ \A d \in draft' : \E o \in draft :
                 d.edits \cap Mirrored = (o.edits \cup {e}) \cap Mirrored
    BY <1>6, SaveLiveShape
  <2>2. /\ phase = "up" /\ flight'.stage = "none" /\ write'.cfg = live'
        /\ UNCHANGED <<phase, final, disk>> /\ ~live.sealed
    BY <1>6, SaveLiveShape
  <2>3. ~Owed
    BY <2>2 DEF Jobs, Owed
  <2>4. \A d \in draft' : SameEdits(d)'
    BY <2>1 DEF EditsHeld, SameEdits
  <2>5. NotBehind(live)
    BY <2>2 DEF EditsHeld, Running
  <2> QED BY <2>1, <2>2, <2>3, <2>4, <2>5 DEF EditsHeld, SameEdits, NotBehind, Owed, Running
<1>7. CASE Pairs
  <2>1. /\ phase = "up" /\ write.by # "ui" /\ ~Unanswered /\ ~live.sealed
        /\ UNCHANGED <<phase, final, write>> /\ flight'.stage = "none"
        /\ live'.edits = live.edits /\ disk'.settings = disk.settings
        /\ \A d \in draft' : \E o \in draft : d.edits = o.edits
    BY <1>7, PairShape
  <2>2. write.by = "none" /\ ~Owed
    BY <2>1, NoJob DEF Owed
  <2>3. \A d \in draft' : SameEdits(d)'
    BY <2>1 DEF EditsHeld, SameEdits
  <2> QED BY <2>1, <2>2, <2>3 DEF EditsHeld, SameEdits, NotBehind, Owed, Running
<1>8. CASE WriteMarker \/ WriteServers \/ WriteSettings
  <2>1. /\ write.by # "none" /\ write'.by = write.by /\ write'.kind = write.kind
        /\ write'.cfg = write.cfg
        /\ UNCHANGED <<phase, live, draft, dirty, flight, final>>
        /\ \/ disk'.settings = disk.settings
           \/ disk'.settings = SettingsOf(write.cfg)
    BY <1>8, FileShape
  <2>2. disk'.settings.edits = disk.settings.edits \/ disk'.settings.edits = write.cfg.edits
    BY <2>1 DEF SettingsOf
  <2>3. flight.stage # "queued"
    BY <2>1 DEF Jobs
  <2> QED BY <2>1, <2>2, <2>3 DEF EditsHeld, SameEdits, NotBehind, Owed, Running
<1>9. CASE RemoveMarker \/ FailWrite
  <2>1. PICK ok \in BOOLEAN : EndWrite(ok) /\ disk'.settings = disk.settings
    BY <1>9 DEF RemoveMarker, FailWrite, TypeOK
  <2>2. write.by # "none" /\ phase' = phase
    BY <1>9 DEF RemoveMarker, FailWrite, Writing
  <2>3. /\ write'.by = "none" /\ flight'.stage # "queued" /\ final'.cfg = final.cfg
        /\ Owed' => Owed
    <3>1. write.kind \in {"final", "fallback"} => Owed
      BY <2>2 DEF Jobs, Owed
    <3>2. flight.stage # "queued"
      BY <2>2 DEF Jobs
    <3> QED BY <2>1, <3>1, <3>2, EndShape DEF Owed
  <2>4. /\ live'.edits \cap Mirrored = live.edits \cap Mirrored
        /\ \A d \in draft' : SameEdits(d)'
        /\ ~live'.sealed => ~live.sealed
    <3>1. SameEdits(write.cfg) \/ write.kind \notin Installing
      BY <2>2 DEF EditsHeld, Installing
    <3>2. ~live.sealed
      BY <2>2 DEF Sealing
    <3>3. live'.edits \cap Mirrored = live.edits \cap Mirrored
      BY <2>1, <3>1, EndShape DEF SameEdits
    <3>4. ASSUME NEW d \in draft'
          PROVE  d.edits \cap Mirrored = live.edits \cap Mirrored
      <4>1. \/ d = write.cfg /\ write.kind \in Installing
            \/ \E o \in draft : d.edits = o.edits
        BY <2>1, EndShape
      <4> QED BY <3>1, <4>1 DEF EditsHeld, SameEdits
    <3> QED BY <3>2, <3>3, <3>4 DEF SameEdits
  <2> QED BY <2>1, <2>2, <2>3, <2>4 DEF EditsHeld, SameEdits, NotBehind, Running
<1>10. CASE TakeRequest \/ TakeFinal \/ Fallback
  <2>1. /\ UNCHANGED <<phase, live, draft, dirty, disk>> /\ write.by = "none"
        /\ \/ /\ flight.stage = "queued" /\ write'.kind = "autosave"
              /\ write'.cfg = flight.cfg /\ final' = final
              /\ flight'.stage = "writing"
           \/ /\ Owed /\ flight' = flight /\ write'.cfg = final.cfg
              /\ final'.cfg = final.cfg /\ phase = "closing"
    BY <1>10, TakeShape DEF Owed
  <2>2. Owed => ~live.sealed
    BY DEF Sealing, Owed
  <2> QED BY <2>1, <2>2 DEF EditsHeld, SameEdits, NotBehind, Owed, Running
<1>11. CASE Quit
  <2>1. /\ phase = "up" /\ phase' = "closing" /\ draft' = {} /\ write.by # "ui"
        /\ UNCHANGED <<flight, write, disk>>
        /\ live'.edits = live.edits /\ live'.sealed = live.sealed
        /\ final' = final \/ final'.cfg = live'
    BY <1>11, QuitShape, LiveNormalised
  <2> QED BY <2>1 DEF EditsHeld, SameEdits, NotBehind, Owed, Running
<1>12. CASE Close
  BY <1>12 DEF Close, EditsHeld, SameEdits, NotBehind, Owed, Running, NoRequest
<1>13. CASE Crash
  BY <1>13 DEF Crash, EditsHeld, Owed, Running, NoRequest, NoWrite
<1>14. CASE StoreHistory \/ BackUp \/ UNCHANGED vars
  BY <1>14, QuietShape DEF Settled, EditsHeld, SameEdits, NotBehind, Owed, Running
<1> QED
  BY <1>1, <1>2, <1>3, <1>4, <1>5, <1>6, <1>7, <1>8, <1>9, <1>10, <1>11, <1>12,
     <1>13, <1>14 DEF Next

LEMMA FlushedStep ==
  ASSUME TypeOK, Jobs, Sealing, Files, EditsHeld, Flushed, Unnamed(live) = {},
         [Next]_vars
  PROVE  Flushed'
<1>0. flight.stage \in {"none", "queued", "writing", "ok", "failed"}
  BY DEF TypeOK, Request, Jobs
<1>14. ~NeedsSave /\ ~Unanswered => ~dirty /\ flight.stage \in {"none", "ok"}
  <2>1. (dirty => NeedsSave) /\ (flight.stage = "failed" => NeedsSave)
    BY Zenon DEF NeedsSave
  <2>2. ~Unanswered => flight.stage \in {"none", "ok", "failed"}
    BY <1>0 DEF Unanswered
  <2> QED BY <2>1, <2>2
<1>1. CASE Loads
  BY <1>1, StartShape DEF Flushed, OnDisk
<1>2. CASE OpenSettings \/ CloseSettings \/ EditDraft
  BY <1>2, DraftShape DEF Flushed, OnDisk, SameEdits, Unanswered
<1>3. CASE EditLive
  BY <1>3, LiveEditShape DEF Flushed
<1>4. CASE Ticks
  <2>1. /\ live'.edits = live.edits /\ live'.sealed = live.sealed
        /\ phase = "up" /\ phase' = phase /\ disk' = disk /\ ~Unanswered
        /\ \/ flight'.stage = "queued" /\ flight'.cfg = live'
           \/ flight'.stage = "none" /\ (NeedsSave => dirty')
    BY <1>4, TickShape, LiveNormalised
  <2>2. CASE flight'.stage = "queued" /\ flight'.cfg = live'
    BY <2>1, <2>2 DEF Flushed, SameEdits
  <2>3. CASE flight'.stage = "none" /\ (NeedsSave => dirty')
    <3>1. ~dirty' => ~dirty /\ flight.stage \in {"none", "ok"}
      <4>1. NeedsSave => dirty'
        BY <2>3
      <4> QED BY <1>14, <2>1, <4>1, Zenon
    <3> QED BY <2>1, <2>3, <3>1 DEF Flushed, OnDisk
  <2> QED BY <2>1, <2>2, <2>3
<1>5. CASE SaveDraft \/ AddRow \/ DropRow \/ Pairs
  <2>1. /\ live'.edits = live.edits /\ live'.sealed = live.sealed
        /\ phase = "up" /\ phase' = phase /\ disk'.settings = disk.settings
        /\ ~Unanswered /\ flight'.stage = "none"
        /\ NeedsSave => dirty'
    BY <1>5, SaveShape, PairShape
  <2>2. ~dirty' => ~dirty /\ flight.stage \in {"none", "ok"}
    BY <1>14, <2>1, Zenon
  <2> QED BY <2>1, <2>2 DEF Flushed, OnDisk
<1>6. CASE SaveLive
  BY <1>6, SaveLiveShape DEF Flushed
<1>7. CASE WriteMarker \/ WriteServers \/ WriteSettings
  <2>1. /\ write.by # "none" /\ write'.by = write.by /\ write'.kind = write.kind
        /\ write'.cfg = write.cfg
        /\ UNCHANGED <<phase, live, draft, dirty, flight, final>>
        /\ \/ disk'.settings = disk.settings
           \/ disk'.settings = SettingsOf(write.cfg)
    BY <1>7, FileShape
  <2>2. disk'.settings.edits = disk.settings.edits \/ disk'.settings.edits = write.cfg.edits
    BY <2>1 DEF SettingsOf
  <2>3. /\ flight.stage # "queued" /\ (flight.stage \in {"none", "ok"} => write.kind # "autosave")
        /\ (phase = "up" => TRUE) /\ final.stage # "ok"
    BY <2>1 DEF Jobs
  <2>4. write.kind # "autosave" => SameEdits(write.cfg)
    BY <2>1 DEF EditsHeld
  <2> QED BY <2>1, <2>2, <2>3, <2>4 DEF Flushed, OnDisk, SameEdits, Unanswered
<1>8. CASE RemoveMarker \/ FailWrite
  <2>1. PICK ok \in BOOLEAN :
           /\ EndWrite(ok) /\ disk'.settings = disk.settings
           /\ ok => write.step = "finish"
    BY <1>8 DEF RemoveMarker, FailWrite, Writing, TypeOK
  <2>2. write.by # "none" /\ phase' = phase
    BY <1>8 DEF RemoveMarker, FailWrite, Writing
  <2>3. ~live.sealed
    BY <2>2 DEF Sealing
  <2>4. ok => disk'.settings.edits = write.cfg.edits
    BY <2>1, <2>2 DEF Files, SettingsOf
  <2>5. write.kind # "autosave" => SameEdits(write.cfg)
    BY <2>2 DEF EditsHeld
  <2>6. live'.edits \cap Mirrored = live.edits \cap Mirrored
    <3>1. write.kind \in Installing => write.kind # "autosave"
      BY DEF Installing
    <3> QED BY <2>1, <2>5, <3>1, EndShape DEF SameEdits
  <2>7. dirty => dirty' \/ (ok /\ write.kind = "live")
    BY <2>1, EndShape
  <2>8. CASE write.kind = "autosave"
    <3>1. /\ flight.stage = "writing" /\ final.stage \in {"none", "queued"}
          /\ final' = final /\ flight'.stage \in {"ok", "failed"}
          /\ flight'.stage = "ok" => ok
      BY <2>1, <2>2, <2>8, EndShape DEF Jobs
    <3>2. dirty => dirty'
      BY <2>7, <2>8
    <3>3. final.stage = "none" => phase \notin {"closing", "closed"}
      BY <2>2, <2>3 DEF Flushed
    <3> QED BY <2>2, <2>3, <2>4, <2>6, <3>1, <3>2, <3>3 DEF Flushed, OnDisk, SameEdits
  <2>9. CASE write.kind \in {"final", "fallback"}
    <3>1. phase = "closing" /\ final'.stage \in {"ok", "failed", "lost"}
          /\ (final'.stage = "ok" => ok)
      BY <2>1, <2>2, <2>9, EndShape DEF Jobs
    <3> QED BY <2>2, <2>4, <2>5, <2>6, <2>9, <3>1 DEF Flushed, OnDisk, SameEdits
  <2>10. CASE write.kind \notin {"autosave", "final", "fallback"}
    <3>1. phase = "up" /\ flight' = flight /\ ~Unanswered
      BY <2>1, <2>2, <2>10, EndShape DEF Jobs
    <3>2. CASE ok /\ write.kind = "live"
      BY <2>2, <2>4, <2>5, <2>6, <3>1, <3>2 DEF Flushed, OnDisk, SameEdits, Unanswered
    <3>3. CASE ~(ok /\ write.kind = "live")
      BY <2>1, <2>2, <2>3, <2>6, <2>7, <3>1, <3>3 DEF Flushed, OnDisk, Unanswered
    <3> QED BY <3>2, <3>3
  <2> QED BY <2>8, <2>9, <2>10
<1>9. CASE TakeRequest \/ TakeFinal \/ Fallback
  <2>1. /\ UNCHANGED <<phase, live, draft, dirty, disk>>
        /\ \/ /\ flight.stage = "queued" /\ write'.cfg = flight.cfg /\ final' = final
              /\ flight'.stage = "writing"
           \/ /\ phase = "closing" /\ final'.stage = "writing"
    BY <1>9, TakeShape
  <2> QED BY <2>1 DEF Flushed, OnDisk, SameEdits, Jobs, Unanswered
<1>10. CASE Quit
  <2>1. /\ phase = "up" /\ phase' = "closing" /\ write.by # "ui"
        /\ UNCHANGED <<dirty, flight, write, disk>>
        /\ live'.edits = live.edits /\ live'.sealed = live.sealed
        /\ \/ final'.stage = "queued"
           \/ /\ final' = final
              /\ (~dirty /\ flight.stage = "none") \/ live.sealed
    BY <1>10, QuitShape, LiveNormalised
  <2>2. final.stage = "none" /\ (flight.stage = "none" => write.by = "none" /\ ~Unanswered)
    BY <2>1, NoJob DEF Jobs, Unanswered
  <2> QED BY <2>1, <2>2 DEF Flushed, OnDisk, Unanswered
<1>11. CASE Close
  BY <1>11 DEF Close, Flushed, OnDisk, NoRequest, Unanswered
<1>12. CASE Crash
  BY <1>12 DEF Crash, Flushed
<1>13. CASE StoreHistory \/ BackUp \/ UNCHANGED vars
  BY <1>13, QuietShape DEF Settled, Flushed, OnDisk, SameEdits, Unanswered
<1> QED
  BY <1>1, <1>2, <1>3, <1>4, <1>5, <1>6, <1>7, <1>8, <1>9, <1>10, <1>11, <1>12,
     <1>13 DEF Next

FilesInv ==
  /\ TypeOK /\ Jobs /\ Sealing /\ Files /\ RowsHeld /\ EditsHeld /\ Flushed

LEMMA FilesInvInit == Init => FilesInv
<1> SUFFICES ASSUME Init PROVE FilesInv
  OBVIOUS
<1>1. TypeOK
  BY TypeInit
<1>2. Jobs /\ Sealing
  BY DEF Init, Jobs, Sealing, Unanswered, NoRequest, NoWrite, Blank
<1>3. Files
  BY DEF Init, Files, NoWrite, NoServers
<1>4. RowsHeld
  BY DEF Init, RowsHeld, Unnamed, Blank, NoRequest, NoWrite, Owed, ServersAsLive, Running
<1>5. EditsHeld /\ Flushed
  BY DEF Init, EditsHeld, Flushed, NoRequest, NoWrite, Owed, Running
<1> QED BY <1>1, <1>2, <1>3, <1>4, <1>5 DEF FilesInv

LEMMA FilesInvHolds == Spec => []FilesInv
<1>1. Init => FilesInv
  BY FilesInvInit
<1>2. FilesInv /\ [Next]_vars => FilesInv'
  <2> SUFFICES ASSUME FilesInv, [Next]_vars PROVE FilesInv'
    OBVIOUS
  <2>1. /\ TypeOK /\ Jobs /\ Sealing /\ Files /\ RowsHeld /\ EditsHeld /\ Flushed
        /\ Unnamed(live) = {}
    BY DEF FilesInv, RowsHeld
  <2> QED BY <2>1, TypeStep, JobsStep, SealingStep, FilesStep, RowsStep, EditsStep,
             FlushedStep DEF FilesInv
<1> QED BY <1>1, <1>2, PTL DEF Spec

-----------------------------------------------------------------------------
(* What it is for *)

(* Autosave, window, wizard, pairing and quit all write the same two files *)
(* from different snapshots; whenever no marker is left, servers.enc is    *)
(* the live server list and pairing, whoever wrote it last.                *)
THEOREM ServersCorrect == Spec => []ServersAsLive
<1>1. FilesInv => ServersAsLive
  BY DEF FilesInv, RowsHeld
<1> QED BY <1>1, FilesInvHolds, PTL

(* A quit that lost nothing leaves the session's last edits in             *)
(* settings.toml: an unset dirty flag never hid one that was not written.  *)
THEOREM QuitCorrect == Spec => []QuitFlushes
<1>1. FilesInv => QuitFlushes
  <2> SUFFICES ASSUME FilesInv, phase = "closed", ~live.sealed, final.stage # "lost"
               PROVE  live.edits \cap Mirrored \subseteq disk.settings.edits
    BY DEF QuitFlushes
  <2>1. final.stage \in {"none", "ok"}
    BY DEF FilesInv, Jobs
  <2>2. OnDisk(live)
    BY <2>1 DEF FilesInv, Flushed
  <2> QED BY <2>2 DEF OnDisk
<1> QED BY <1>1, FilesInvHolds, PTL

(* A backup is one generation: every core it lists has its settings in it, *)
(* and its counter is above every uid it lists.                            *)
THEOREM BackupCorrect == Spec => []BackupWhole
<1>1. Init => BackupWhole
  BY DEF Init, BackupWhole
<1>2. FilesInv /\ BackupWhole /\ [Next]_vars => BackupWhole'
  <2> SUFFICES ASSUME FilesInv, BackupWhole, [Next]_vars PROVE BackupWhole'
    OBVIOUS
  <2>1. CASE BackUp
    <3>1. /\ ~disk.marker /\ disk.settings # NoSettings
          /\ backup' = {[servers |-> disk.servers, settings |-> disk.settings]}
      BY <2>1 DEF BackUp
    <3>2. /\ disk.settings.rows = disk.servers.rows
          /\ disk.settings.next > Highest(disk.servers.rows)
      BY <3>1 DEF FilesInv, Files
    <3> QED BY <3>1, <3>2 DEF BackupWhole
  <2>2. CASE ~BackUp
    <3>1. UNCHANGED backup
      BY <2>2
         DEF Next, vars, Loads, Load, OpenSettings, CloseSettings, EditDraft, EditLive,
             Ticks, Tick, SaveDraft, SaveLive, AddRow, DropRow, Pairs, Pair,
             WriteMarker, WriteServers, WriteSettings, RemoveMarker, FailWrite,
             TakeRequest, Quit, TakeFinal, Fallback, Close, Crash, StoreHistory
    <3> QED BY <3>1 DEF BackupWhole
  <2> QED BY <2>1, <2>2
<1> QED BY <1>1, <1>2, FilesInvHolds, PTL DEF Spec

(* Neither the tick, the window, the wizard, the Telegram pairing, the     *)
(* quit nor an older request touches the files of a session that could not *)
(* read its settings.                                                      *)
THEOREM SealedCorrect == Spec => SealedUntouched
<1>1. FilesInv /\ [Next]_vars => (Running /\ live.sealed => disk' = disk)
  <2> SUFFICES ASSUME FilesInv, [Next]_vars, Running, live.sealed PROVE disk' = disk
    OBVIOUS
  <2>1. write.by = "none" /\ TypeOK
    BY DEF FilesInv, Sealing
  <2>2. ~Loads
    BY DEF Loads, Load, Running
  <2>3. ~Pairs
    BY <2>1, PairShape
  <2>4. ~(WriteMarker \/ WriteServers \/ WriteSettings \/ RemoveMarker)
    BY <2>1 DEF WriteMarker, WriteServers, WriteSettings, RemoveMarker, Writing
  <2> QED
    BY <2>2, <2>3, <2>4
       DEF Next, vars, OpenSettings, CloseSettings, EditDraft, EditLive, Ticks, Tick,
           SaveDraft, SaveLive, AddRow, DropRow, FailWrite, TakeRequest, Quit,
           TakeFinal, Fallback, Close, Crash, StoreHistory, BackUp
<1> QED BY <1>1, FilesInvHolds, PTL DEF Spec, SealedUntouched

(* In a running session no edit whose setter mirrors it into the draft is  *)
(* lost: the live config keeps it, and settings.toml too once it has it.   *)
LEMMA NothingRolledBack ==
  ASSUME FilesInv, [Next]_vars, phase = "up", phase' = "up",
         NEW e \in live.edits \cap Mirrored
  PROVE  /\ e \in live'.edits
         /\ e \in disk.settings.edits => e \in disk'.settings.edits
<1>0. TypeOK /\ Jobs /\ EditsHeld /\ Unnamed(live) = {}
  BY DEF FilesInv, RowsHeld
<1>1. ~Loads /\ ~TakeFinal /\ ~Fallback /\ ~Close /\ ~Crash /\ ~Quit
  BY DEF Loads, Load, TakeFinal, Fallback, Close, Crash, Quit
<1>2. CASE OpenSettings \/ CloseSettings \/ EditDraft
  BY <1>0, <1>2, DraftShape
<1>3. CASE EditLive
  BY <1>0, <1>3, LiveEditShape
<1>4. CASE Ticks
  <2>1. live'.edits = live.edits /\ disk' = disk
    BY <1>0, <1>4, TickShape, LiveNormalised
  <2> QED BY <2>1
<1>5. CASE SaveDraft \/ AddRow \/ DropRow
  BY <1>0, <1>5, SaveShape
<1>6. CASE SaveLive
  BY <1>0, <1>6, SaveLiveShape
<1>7. CASE Pairs
  BY <1>0, <1>7, PairShape
<1>8. CASE WriteMarker \/ WriteServers \/ WriteSettings
  <2>1. /\ write.by # "none" /\ live' = live
        /\ disk'.settings = disk.settings \/ disk'.settings = SettingsOf(write.cfg)
    BY <1>0, <1>8, FileShape
  <2>2. NotBehind(write.cfg)
    BY <1>0, <2>1 DEF EditsHeld
  <2> QED BY <2>1, <2>2 DEF NotBehind, SettingsOf
<1>9. CASE RemoveMarker \/ FailWrite
  <2>1. PICK ok \in BOOLEAN : EndWrite(ok) /\ disk'.settings = disk.settings
    BY <1>0, <1>9 DEF RemoveMarker, FailWrite, TypeOK
  <2>2. write.by # "none"
    BY <1>9 DEF RemoveMarker, FailWrite, Writing
  <2>3. live' = live \/ (live' = write.cfg /\ write.kind # "autosave")
    BY <1>0, <2>1, EndShape DEF Installing
  <2>4. write.kind # "autosave" => SameEdits(write.cfg)
    BY <1>0, <2>2 DEF EditsHeld
  <2> QED BY <2>1, <2>3, <2>4 DEF SameEdits
<1>10. CASE TakeRequest
  BY <1>0, <1>10, TakeShape
<1>11. CASE StoreHistory \/ BackUp \/ UNCHANGED vars
  BY <1>11, QuietShape DEF Settled
<1> QED
  BY <1>1, <1>2, <1>3, <1>4, <1>5, <1>6, <1>7, <1>8, <1>9, <1>10, <1>11 DEF Next

(* Neither a draft opened before an edit nor a snapshot captured before it *)
(* rolls the edit back, in memory or on disk.                              *)
THEOREM RollbackCorrect == Spec => NoRollback
<1>1. FilesInv /\ [Next]_vars =>
        (phase = "up" /\ phase' = "up" =>
           \A e \in live.edits \cap Mirrored :
              /\ e \in live'.edits
              /\ e \in disk.settings.edits => e \in disk'.settings.edits)
  BY NothingRolledBack
<1> QED BY <1>1, FilesInvHolds, PTL DEF Spec, NoRollback
=============================================================================
