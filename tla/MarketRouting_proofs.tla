------------------------ MODULE MarketRouting_proofs ------------------------
(***************************************************************************)
(* Proofs about MarketRouting, for every value of its constants: the types *)
(* of the variables, that the plan has what it serves, that a role reaches *)
(* the feed it was sent to, and that a feed's belief is its client's truth.*)
(***************************************************************************)
EXTENDS MarketRouting, SequenceFacts, FiniteSetTheorems

USE CoreAssumption, VenueAssumption, RoleAssumption, FirstAssumption, ScenarioAssumption

-----------------------------------------------------------------------------
(* Types *)

LEMMA MinOfCores ==
  ASSUME NEW S \in SUBSET Core, S # {}
  PROVE  Min(S) \in S
<1>1. \E x \in S : \A y \in S : x =< y
  BY LeastElement
<1> QED BY <1>1 DEF Min

LEMMA ElectedIsOn ==
  ASSUME NEW v, On(v) \in SUBSET Core, On(v) # {}
  PROVE  Elected(v) \in On(v)
<1>1. CASE On(v) \cap ready = {}
  BY <1>1, MinOfCores DEF Elected
<1>2. CASE On(v) \cap ready # {}
  BY <1>2, MinOfCores DEF Elected
<1> QED BY <1>1, <1>2

LEMMA NextProvidersTyped ==
  ASSUME TypeOK
  PROVE  NextProviders \in [Venue -> Core \cup {NoCore}]
<1>1. \A v \in Venue : On(v) \in SUBSET Core
  BY DEF On, TypeOK
<1> QED BY <1>1, ElectedIsOn DEF NextProviders

LEMMA RouteTyped ==
  ASSUME TypeOK, NEW next \in [Venue -> Core \cup {NoCore}]
  PROVE  RouteBy(next) \in [Core -> Core \cup {NoCore}]
  BY DEF RouteBy, TypeOK

LEMMA WantedTyped ==
  ASSUME NEW pairs \in SUBSET Pair, NEW to \in [Core -> Core \cup {NoCore}]
  PROVE  Wanted(pairs, to) \in SUBSET Pair
<1> SUFFICES ASSUME NEW p \in pairs, to[p[1]] # NoCore
             PROVE  <<to[p[1]], p[2]>> \in Pair
  BY DEF Wanted
<1>1. p[1] \in Core /\ p[2] \in Market
  BY DEF Pair
<1> QED BY <1>1 DEF Pair

LEMMA ForgetTyped ==
  ASSUME NEW l \in Lingers, NEW cores
  PROVE  Forget(l, cores) \in Lingers
  BY DEF Forget, Of, Lingers

LEMMA LingerTyped ==
  ASSUME NEW l \in Lingers, NEW want \in SUBSET Pair
  PROVE  Linger(l, want) \in Lingers
  BY DEF Linger, Lingers

LEMMA RoleMade ==
  ASSUME NEW p \in BOOLEAN, NEW ms \in SUBSET Market, NEW bs \in SUBSET ms, p \/ ms = {}
  PROVE  [provider |-> p, markets |-> ms, books |-> bs] \in Role
  BY DEF Role, MarketPlan

LEMMA RoleOfTyped ==
  ASSUME NEW c, NEW to, NEW served, NEW shown
  PROVE  RoleOf(c, to, served, shown) \in Role
<1> DEFINE serves == c \in Range(to)
<1> DEFINE markets == IF serves THEN {m \in Market : <<c, m>> \in served} ELSE {}
<1> DEFINE shownOf == {m \in markets : <<c, m>> \in shown}
<1>1. RoleOf(c, to, served, shown) = [provider |-> serves, markets |-> markets, books |-> shownOf]
  BY DEF RoleOf
<1>2. serves \in BOOLEAN /\ markets \in SUBSET Market /\ shownOf \in SUBSET markets
  OBVIOUS
<1>3. serves \/ markets = {}
  OBVIOUS
<1> HIDE DEF serves, markets, shownOf
<1> QED BY <1>1, <1>2, <1>3, RoleMade

(* The type invariant does not say by itself that a feed which holds the   *)
(* mutex has a role to apply.                                              *)
HeldHasPlan == \A c \in Core : held[c] => plan[c] # NoRole

TypeInv == TypeOK /\ HeldHasPlan

LEMMA TypeInit == Init => TypeInv
  BY DEF Init, TypeInv, TypeOK, HeldHasPlan, NoLinger, Lingers, Roles, AppliedRoles,
         Clients, NewClient, Pair

LEMMA SetOpenTyped ==
  ASSUME TypeInv, SetOpen
  PROVE  TypeInv'
<1>1. providers' \in [Venue -> Core \cup {NoCore}]
  BY NextProvidersTyped DEF SetOpen, TypeInv
<1>2. route' \in [Core -> Core \cup {NoCore}]
  BY <1>1, RouteTyped DEF SetOpen, TypeInv
<1>3. Wanted(open, route') \in SUBSET Pair /\ Wanted(books, route') \in SUBSET Pair
  <2>1. open \in SUBSET Pair /\ books \in SUBSET Pair
    BY DEF TypeInv, TypeOK
  <2> QED BY <1>2, <2>1, WantedTyped
<1>4. candles' \in Lingers /\ orderbooks' \in Lingers
  <2>1. candles \in Lingers /\ orderbooks \in Lingers
    BY DEF TypeInv, TypeOK
  <2> QED BY <1>3, <2>1, ForgetTyped, LingerTyped DEF SetOpen, SetOpenPlan
<1>5. views' \in SUBSET Pair
  <2>1. views \in SUBSET Pair
    BY DEF TypeInv, TypeOK
  <2> QED BY <1>3, <2>1 DEF SetOpen, SetOpenPlan, Inserted
<1>6. lastCmd' \in [Core -> Roles] /\ outbox' \subseteq sessions
  <2>1. lastCmd \in [Core -> Roles]
    BY DEF TypeInv, TypeOK
  <2> QED BY <2>1, RoleOfTyped DEF SetOpen, Roles
<1> QED BY <1>1, <1>2, <1>4, <1>5, <1>6
       DEF TypeInv, TypeOK, HeldHasPlan, SetOpen, feedVars, gateVars, chartVars

LEMMA SpendTyped ==
  ASSUME TypeOK, NEW what \in Bounded, Spend(what)
  PROVE  left' \in [Bounded -> Nat]
<1>1. left[what] \in Nat /\ left[what] - 1 \in Nat
  BY DEF TypeOK, Spend
<1> QED BY <1>1 DEF TypeOK, Spend

LEMMA BoundedKinds ==
  {"charts", "edits", "modes", "moves", "losses", "runs", "refusals"} \subseteq Bounded
  BY DEF Bounded

LEMMA LingerDue ==
  ASSUME NEW l \in Lingers, NEW p \in l.leaving
  PROVE  [l EXCEPT !.due = @ \cup {p}] \in Lingers
  BY DEF Lingers

LEMMA SessionTyped ==
  ASSUME TypeInv, SendRole \/ CandleLingerEnds \/ BookLingerEnds
  PROVE  TypeInv'
<1>1. CASE SendRole
  BY <1>1 DEF TypeInv, TypeOK, HeldHasPlan, SendRole, PostRole, gateVars, chartVars
<1>2. CASE CandleLingerEnds
  <2>1. candles' \in Lingers
    <3>1. PICK p \in candles.leaving : candles' = [candles EXCEPT !.due = @ \cup {p}]
      BY <1>2 DEF CandleLingerEnds
    <3>2. candles \in Lingers
      BY DEF TypeInv, TypeOK
    <3> QED BY <3>1, <3>2, LingerDue
  <2> QED BY <1>2, <2>1 DEF TypeInv, TypeOK, HeldHasPlan, CandleLingerEnds, feedVars, gateVars, chartVars
<1>3. CASE BookLingerEnds
  <2>1. orderbooks' \in Lingers
    <3>1. PICK p \in orderbooks.leaving : orderbooks' = [orderbooks EXCEPT !.due = @ \cup {p}]
      BY <1>3 DEF BookLingerEnds
    <3>2. orderbooks \in Lingers
      BY DEF TypeInv, TypeOK
    <3> QED BY <3>1, <3>2, LingerDue
  <2> QED BY <1>3, <2>1 DEF TypeInv, TypeOK, HeldHasPlan, BookLingerEnds, feedVars, gateVars, chartVars
<1> QED BY <1>1, <1>2, <1>3

LEMMA ChartsTyped ==
  ASSUME TypeInv, Charts
  PROVE  TypeInv'
<1> SUFFICES ASSUME NEW c \in Core, NEW m \in Market,
                    OpenChart(c, m) \/ CloseChart(c, m) \/ HideBook(c, m)
             PROVE  TypeInv'
  BY DEF Charts
<1>1. CASE OpenChart(c, m)
  <2>1. left' \in [Bounded -> Nat]
    BY <1>1, BoundedKinds, SpendTyped DEF OpenChart, TypeInv
  <2>2. open' \subseteq Pair /\ books' \subseteq open'
    BY <1>1 DEF OpenChart, TypeInv, TypeOK, Pair
  <2> QED BY <1>1, <2>1, <2>2
         DEF TypeInv, TypeOK, HeldHasPlan, OpenChart, planVars, feedVars, gateVars
<1>2. CASE CloseChart(c, m)
  BY <1>2 DEF TypeInv, TypeOK, HeldHasPlan, CloseChart, planVars, feedVars, gateVars
<1>3. CASE HideBook(c, m)
  BY <1>3 DEF TypeInv, TypeOK, HeldHasPlan, HideBook, planVars, feedVars, gateVars
<1> QED BY <1>1, <1>2, <1>3

LEMMA FreshFeedTyped ==
  ASSUME TypeInv, NEW c \in Core, FreshFeed(c)
  PROVE  /\ latest' \in [Core -> Roles] /\ plan' \in [Core -> Roles]
         /\ applied' \in [Core -> AppliedRoles] /\ held' \in [Core -> BOOLEAN]
         /\ client' \in [Core -> Clients] /\ chan' \in [Core -> Seq(Messages)]
         /\ HeldHasPlan'
<1>1. NewClient \in Clients
  BY DEF NewClient, Clients
<1>2. <<>> \in Seq(Messages)
  OBVIOUS
<1> QED BY <1>1, <1>2 DEF TypeInv, TypeOK, HeldHasPlan, FreshFeed, Roles, AppliedRoles

LEMMA ClearCoordinationTyped ==
  ASSUME TypeOK, NEW c \in Core, ClearCoordination(c)
  PROVE  /\ venue' \in [Core -> Venue \cup {NoVenue}]
         /\ route' \in [Core -> Core \cup {NoCore}]
         /\ providers' \in [Venue -> Core \cup {NoCore}]
         /\ lastCmd' \in [Core -> Roles]
  BY DEF TypeOK, ClearCoordination, Roles

LEMMA RespawnTyped ==
  ASSUME TypeInv, NEW c \in Core, Respawn(c),
         stale' \subseteq sessions, recent' \subseteq sessions,
         actual' \in [Core -> Venue], left' \in [Bounded -> Nat]
  PROVE  TypeInv'
<1>1. FreshFeed(c) /\ ClearCoordination(c)
  BY DEF Respawn
<1>2. /\ latest' \in [Core -> Roles] /\ plan' \in [Core -> Roles]
      /\ applied' \in [Core -> AppliedRoles] /\ held' \in [Core -> BOOLEAN]
      /\ client' \in [Core -> Clients] /\ chan' \in [Core -> Seq(Messages)]
      /\ HeldHasPlan'
  BY <1>1, FreshFeedTyped
<1>3. /\ venue' \in [Core -> Venue \cup {NoVenue}]
      /\ route' \in [Core -> Core \cup {NoCore}]
      /\ providers' \in [Venue -> Core \cup {NoCore}]
      /\ lastCmd' \in [Core -> Roles]
  BY <1>1, ClearCoordinationTyped DEF TypeInv
<1>4. ready' \subseteq sessions
  BY DEF Respawn, TypeInv, TypeOK
<1> QED BY <1>2, <1>3, <1>4 DEF TypeInv, TypeOK, Respawn, chartVars

LEMMA SettingsTyped ==
  ASSUME TypeInv, Settings
  PROVE  TypeInv'
<1>1. CASE SetMode
  <2>1. left' \in [Bounded -> Nat]
    BY <1>1, BoundedKinds, SpendTyped DEF SetMode, TypeInv
  <2>2. NoLinger \in Lingers
    BY DEF NoLinger, Lingers
  <2> QED BY <1>1, <2>1, <2>2
         DEF TypeInv, TypeOK, HeldHasPlan, SetMode, Roles, feedVars, gateVars, chartVars
<1>2. ASSUME NEW c \in Core, Reconnect(c)
      PROVE  TypeInv'
  <2>1. left' \in [Bounded -> Nat]
    BY <1>2, BoundedKinds, SpendTyped DEF Reconnect, TypeInv
  <2> QED BY <1>2, <2>1, RespawnTyped DEF TypeInv, TypeOK, Reconnect
<1>3. ASSUME NEW c \in Core, NEW v \in Venue, Readdress(c, v)
      PROVE  TypeInv'
  <2>1. left' \in [Bounded -> Nat]
    BY <1>3, BoundedKinds, SpendTyped DEF Readdress, TypeInv
  <2> QED BY <1>3, <2>1, RespawnTyped DEF TypeInv, TypeOK, Readdress, gateVars
<1>4. ASSUME NEW c \in Core, Deactivate(c)
      PROVE  TypeInv'
  <2>1. FreshFeed(c) /\ ClearCoordination(c)
    BY <1>4 DEF Deactivate
  <2>2. candles' \in Lingers /\ orderbooks' \in Lingers
    BY <1>4, ForgetTyped DEF TypeInv, TypeOK, Deactivate
  <2>3. left' \in [Bounded -> Nat]
    BY <1>4, BoundedKinds, SpendTyped DEF Deactivate, TypeInv
  <2>4. /\ latest' \in [Core -> Roles] /\ plan' \in [Core -> Roles]
        /\ applied' \in [Core -> AppliedRoles] /\ held' \in [Core -> BOOLEAN]
        /\ client' \in [Core -> Clients] /\ chan' \in [Core -> Seq(Messages)]
        /\ HeldHasPlan'
    BY <2>1, FreshFeedTyped
  <2>5. /\ venue' \in [Core -> Venue \cup {NoVenue}]
        /\ route' \in [Core -> Core \cup {NoCore}]
        /\ providers' \in [Venue -> Core \cup {NoCore}]
        /\ lastCmd' \in [Core -> Roles]
    BY <2>1, ClearCoordinationTyped DEF TypeInv
  <2> QED BY <1>4, <2>2, <2>3, <2>4, <2>5 DEF TypeInv, TypeOK, Deactivate, chartVars
<1>5. ASSUME NEW c \in Core, Activate(c)
      PROVE  TypeInv'
  BY <1>5 DEF TypeInv, TypeOK, HeldHasPlan, Activate, planVars, feedVars, gateVars, chartVars
<1> QED BY <1>1, <1>2, <1>3, <1>4, <1>5 DEF Settings

LEMMA RespawnStaleTyped ==
  ASSUME TypeInv, NEW c \in Core, RespawnStale(c)
  PROVE  TypeInv'
  BY RespawnTyped DEF TypeInv, TypeOK, RespawnStale

LEMMA GapEndsTyped ==
  ASSUME TypeInv, NEW c \in Core, GapEnds(c)
  PROVE  TypeInv'
  BY DEF TypeInv, TypeOK, HeldHasPlan, GapEnds, planVars, feedVars, chartVars

LEMMA HearTyped ==
  ASSUME TypeInv, NEW c \in Core, Hear(c)
  PROVE  TypeInv'
<1>1. Head(chan[c]) \in Messages /\ Tail(chan[c]) \in Seq(Messages)
  BY DEF Hear, TypeInv, TypeOK
<1>2. venue' \in [Core -> Venue \cup {NoVenue}]
  BY <1>1 DEF Hear, TypeInv, TypeOK, Messages
<1>3. ready' \subseteq sessions' /\ stale' \subseteq sessions'
  BY DEF Hear, TypeInv, TypeOK, Requested
<1>4. chan' \in [Core -> Seq(Messages)]
  BY <1>1 DEF Hear, TypeInv, TypeOK
<1> QED BY <1>2, <1>3, <1>4 DEF TypeInv, TypeOK, HeldHasPlan, Hear, planVars, chartVars

LEMMA AdoptTyped ==
  ASSUME TypeInv, NEW c \in Core, Adopt(c)
  PROVE  TypeInv'
<1>1. Adopted(c) \in Roles /\ Adopted(c) # NoRole
  BY DEF TypeInv, TypeOK, Adopt, Adopted, Unapplied
<1> QED BY <1>1 DEF TypeInv, TypeOK, HeldHasPlan, Adopt, planVars, gateVars, chartVars

LEMMA CalledTyped ==
  ASSUME NEW k \in Clients, NEW t \in BOOLEAN, NEW subs \in SUBSET Market
  PROVE  [k EXCEPT !.trades = t, !.subs = subs] \in Clients
  BY DEF Clients

LEMMA ApplyTyped ==
  ASSUME TypeInv, NEW c \in Core, Apply(c)
  PROVE  TypeInv'
<1>1. CASE plan[c] = applied[c]
  BY <1>1 DEF TypeInv, TypeOK, HeldHasPlan, Apply, planVars, gateVars, chartVars
<1>2. CASE plan[c] # applied[c]
  <2> DEFINE had == IF applied[c] = NoRole THEN {} ELSE applied[c].books
  <2> DEFINE toggles == (plan[c].books \ had) \cup (had \ plan[c].books)
  <2>1. plan[c] \in Role
    BY DEF TypeInv, TypeOK, HeldHasPlan, Apply, Roles
  <2>2. plan[c].provider \in BOOLEAN /\ plan[c].markets \in SUBSET Market
        /\ plan[c].books \in SUBSET Market
    BY <2>1 DEF Role, MarketPlan
  <2>3. had \in SUBSET Market
    BY DEF TypeInv, TypeOK, AppliedRoles, MarketPlan
  <2> DEFINE flipped(s, done) == (s \ done) \cup (plan[c].books \cap done)
  <2>4. PICK refused \in SUBSET toggles :
           /\ IF refused = {} THEN UNCHANGED left ELSE Spend("refusals")
           /\ client' = [client EXCEPT ![c].trades = plan[c].provider,
                                       ![c].subs = flipped(@, toggles \ refused)]
           /\ applied' = [applied EXCEPT
                  ![c] = Recorded(plan[c], flipped(had, toggles \ refused))]
    BY <1>2 DEF Apply
  <2>5. left' \in [Bounded -> Nat]
    BY <2>4 DEF TypeInv, TypeOK, Spend, Bounded
  <2>6. client' \in [Core -> Clients]
    <3>1. client \in [Core -> Clients]
      BY DEF TypeInv, TypeOK
    <3>2. flipped(client[c].subs, toggles \ refused) \in SUBSET Market
      BY <2>2, <3>1 DEF Clients
    <3> HIDE DEF flipped, toggles
    <3>3. [client[c] EXCEPT !.trades = plan[c].provider,
                            !.subs = flipped(@, toggles \ refused)] \in Clients
      BY <2>2, <3>1, <3>2, CalledTyped
    <3> QED BY <2>4, <3>1, <3>3
  <2>7. applied' \in [Core -> AppliedRoles]
    <3>1. flipped(had, toggles \ refused) \in SUBSET Market
      BY <2>2, <2>3
    <3>2. Recorded(plan[c], flipped(had, toggles \ refused)) \in AppliedRoles
      BY <2>1, <3>1 DEF Recorded, Role, AppliedRoles, MarketPlan
    <3> QED BY <2>4, <3>2 DEF TypeInv, TypeOK
  <2> QED BY <2>5, <2>6, <2>7 DEF TypeInv, TypeOK, HeldHasPlan, Apply, planVars, gateVars, chartVars
<1> QED BY <1>1, <1>2

LEMMA LinkTyped ==
  ASSUME TypeInv, NEW c \in Core,
         NoticeMove(c) \/ Comes(c) \/ Faults(c)
  PROVE  TypeInv'
<1>1. ASSUME NEW msg \in Messages, Publish(c, msg)
      PROVE  chan' \in [Core -> Seq(Messages)]
  BY <1>1 DEF Publish, TypeInv, TypeOK
<1>2. Says("ready") \in Messages /\ Says("down") \in Messages /\ Says("stale") \in Messages
  BY DEF Says, Messages
<1>3. Named(actual[c]) \in Messages
  BY DEF Named, Messages, TypeInv, TypeOK
<1>4. client \in [Core -> Clients] /\ NewClient \in Clients /\ actual[c] \in Venue
  BY DEF TypeInv, TypeOK, NewClient, Clients
<1>5. CASE NoticeMove(c)
  <2>1. client' \in [Core -> Clients]
    BY <1>4, <1>5 DEF NoticeMove, Clients
  <2>2. chan' \in [Core -> Seq(Messages)]
    BY <1>1, <1>2, <1>5 DEF NoticeMove
  <2> QED BY <1>5, <2>1, <2>2
         DEF TypeInv, TypeOK, HeldHasPlan, NoticeMove, planVars, gateVars, chartVars
<1>6. CASE TellIdentity(c)
  <2>1. client' \in [Core -> Clients]
    BY <1>4, <1>6 DEF TellIdentity, Clients
  <2>2. chan' \in [Core -> Seq(Messages)]
    BY <1>1, <1>3, <1>6 DEF TellIdentity
  <2> QED BY <1>6, <2>1, <2>2
         DEF TypeInv, TypeOK, HeldHasPlan, TellIdentity, planVars, gateVars, chartVars
<1>7. CASE BecomeReady(c)
  <2>1. client' \in [Core -> Clients]
    BY <1>4, <1>7 DEF BecomeReady, Clients
  <2>2. chan' \in [Core -> Seq(Messages)]
    BY <1>1, <1>2, <1>7 DEF BecomeReady
  <2> QED BY <1>7, <2>1, <2>2
         DEF TypeInv, TypeOK, HeldHasPlan, BecomeReady, planVars, gateVars, chartVars
<1>8. CASE LoseLink(c)
  <2>1. left' \in [Bounded -> Nat]
    BY <1>8, BoundedKinds, SpendTyped DEF LoseLink, TypeInv
  <2>2. client' \in [Core -> Clients]
    BY <1>4, <1>8 DEF LoseLink, Clients
  <2>3. chan' \in [Core -> Seq(Messages)]
    BY <1>1, <1>2, <1>8 DEF LoseLink
  <2> QED BY <1>8, <2>1, <2>2, <2>3
         DEF TypeInv, TypeOK, HeldHasPlan, LoseLink, planVars, gateVars, chartVars
<1>9. CASE NewRun(c)
  <2>1. left' \in [Bounded -> Nat]
    BY <1>9, BoundedKinds, SpendTyped DEF NewRun, TypeInv
  <2>2. client' \in [Core -> Clients]
    BY <1>4, <1>9 DEF NewRun
  <2>3. chan' \in [Core -> Seq(Messages)]
    BY <1>1, <1>2, <1>9 DEF NewRun
  <2>4. applied' \in [Core -> AppliedRoles]
    BY <1>9 DEF NewRun, BeginClient, AppliedRoles, TypeInv, TypeOK
  <2> QED BY <1>9, <2>1, <2>2, <2>3, <2>4
         DEF TypeInv, TypeOK, HeldHasPlan, NewRun, planVars, gateVars, chartVars
<1>10. ASSUME NEW v \in Venue, Move(c, v)
       PROVE  TypeInv'
  <2>1. left' \in [Bounded -> Nat]
    BY <1>10, BoundedKinds, SpendTyped DEF Move, TypeInv
  <2>2. client' \in [Core -> Clients]
    BY <1>4, <1>10 DEF Move, Clients
  <2> QED BY <1>10, <2>1, <2>2 DEF TypeInv, TypeOK, HeldHasPlan, Move, planVars, gateVars, chartVars
<1> QED BY <1>5, <1>6, <1>7, <1>8, <1>9, <1>10 DEF Comes, Faults

LEMMA TypeStep == TypeInv /\ [Next]_vars => TypeInv'
<1> SUFFICES ASSUME TypeInv, [Next]_vars PROVE TypeInv'
  OBVIOUS
<1>1. CASE UNCHANGED vars
  BY <1>1 DEF TypeInv, TypeOK, HeldHasPlan, vars, planVars, feedVars, gateVars, chartVars
<1>2. CASE SessionTurn
  BY <1>2, SetOpenTyped, SessionTyped, HearTyped, RespawnStaleTyped DEF SessionTurn
<1>3. CASE Time
  BY <1>3, SessionTyped, GapEndsTyped DEF Time
<1>4. CASE Charts \/ Settings
  BY <1>4, ChartsTyped, SettingsTyped
<1>5. ASSUME NEW c \in Core, FeedTurn(c) \/ Comes(c) \/ Faults(c)
      PROVE  TypeInv'
  BY <1>5, AdoptTyped, ApplyTyped, LinkTyped DEF FeedTurn
<1> QED BY <1>1, <1>2, <1>3, <1>4, <1>5 DEF Next

(* The variables keep their types: the session's plan, the roles on their  *)
(* way to the feeds and the calls made for them.                           *)
THEOREM MarketTypeCorrect == Spec => []TypeOK
<1>1. TypeInv => TypeOK
  BY DEF TypeInv
<1> QED BY <1>1, TypeInit, TypeStep, PTL DEF Spec

-----------------------------------------------------------------------------
(* The plan has what it serves *)

PlanInv == ServedHasView /\ LeavingServed

LEMMA SetOpenPlanned ==
  ASSUME PlanInv, SetOpen
  PROVE  PlanInv'
<1> DEFINE deposed == Deposed(providers')
<1> DEFINE want == Wanted(open, route')
<1> DEFINE shown == Wanted(books, route')
<1> DEFINE kept == Forget(candles, deposed)
<1> DEFINE keptBooks == Forget(orderbooks, deposed)
<1>1. /\ candles' = Linger(kept, want)
      /\ orderbooks' = Linger(keptBooks, shown)
      /\ views' = ((views \ Of(views, deposed)) \cup Inserted(kept, want)) \ Expired(kept, want)
  BY DEF SetOpen, SetOpenPlan
<1>2. kept.leaving \subseteq kept.served /\ keptBooks.leaving \subseteq keptBooks.served
  BY DEF PlanInv, LeavingServed, Forget, Of
<1>3. kept.served \subseteq views \ Of(views, deposed)
  BY DEF PlanInv, ServedHasView, Forget, Of
<1> HIDE DEF deposed, want, shown, kept, keptBooks
<1>4. LeavingServed'
  BY <1>1, <1>2 DEF LeavingServed, Linger
<1>5. ServedHasView'
  BY <1>1, <1>3 DEF ServedHasView, Linger, Inserted, Expired
<1> QED BY <1>4, <1>5 DEF PlanInv

LEMMA PlanStep == PlanInv /\ TypeInv /\ [Next]_vars => PlanInv'
<1> SUFFICES ASSUME PlanInv, TypeInv, [Next]_vars PROVE PlanInv'
  OBVIOUS
<1> USE DEF PlanInv, ServedHasView, LeavingServed
<1>1. ASSUME UNCHANGED <<candles, orderbooks, views>>
      PROVE  PlanInv'
  BY <1>1
<1>2. CASE UNCHANGED vars
  BY <1>1, <1>2 DEF vars, planVars
<1>3. CASE SessionTurn
  <2>1. ASSUME NEW c \in Core, Hear(c) \/ RespawnStale(c)
        PROVE  PlanInv'
    BY <1>1, <2>1 DEF Hear, RespawnStale, Respawn, planVars
  <2>2. CASE SendRole
    BY <1>1, <2>2 DEF SendRole
  <2> QED BY <1>3, <2>1, <2>2, SetOpenPlanned DEF SessionTurn
<1>4. CASE Time
  <2>1. candles \in Lingers /\ orderbooks \in Lingers
    BY DEF TypeInv, TypeOK
  <2>2. CASE CandleLingerEnds
    BY <2>1, <2>2 DEF CandleLingerEnds, Lingers
  <2>3. CASE BookLingerEnds
    BY <2>1, <2>3 DEF BookLingerEnds, Lingers
  <2>4. ASSUME NEW c \in Core, GapEnds(c)
        PROVE  PlanInv'
    BY <1>1, <2>4 DEF GapEnds, planVars
  <2> QED BY <1>4, <2>2, <2>3, <2>4 DEF Time
<1>5. CASE Charts
  BY <1>1, <1>5 DEF Charts, OpenChart, CloseChart, HideBook, planVars
<1>6. CASE Settings
  <2>1. CASE SetMode
    BY <2>1 DEF SetMode, NoLinger
  <2>2. ASSUME NEW c \in Core, Reconnect(c) \/ Activate(c)
        PROVE  PlanInv'
    BY <1>1, <2>2 DEF Reconnect, Activate, Respawn, planVars
  <2>3. ASSUME NEW c \in Core, NEW v \in Venue, Readdress(c, v)
        PROVE  PlanInv'
    BY <1>1, <2>3 DEF Readdress, Respawn
  <2>4. ASSUME NEW c \in Core, Deactivate(c)
        PROVE  PlanInv'
    BY <2>4 DEF Deactivate, Forget, Of
  <2> QED BY <1>6, <2>1, <2>2, <2>3, <2>4 DEF Settings
<1>7. ASSUME NEW c \in Core, FeedTurn(c) \/ Comes(c) \/ Faults(c)
      PROVE  PlanInv'
  BY <1>1, <1>7 DEF FeedTurn, Comes, Faults, Adopt, Apply, NoticeMove, TellIdentity,
     BecomeReady, LoseLink, NewRun, Move, planVars
<1> QED BY <1>2, <1>3, <1>4, <1>5, <1>6, <1>7 DEF Next

(* Every market the coordinator serves has a view in the store, and every  *)
(* deadline belongs to a market it serves: depositions, respawns, removals *)
(* and mode changes leave no remainder of an earlier provider behind.      *)
THEOREM PlanCorrect == Spec => [](ServedHasView /\ LeavingServed)
<1>1. Init => PlanInv
  BY DEF Init, PlanInv, ServedHasView, LeavingServed, NoLinger
<1>2. PlanInv => ServedHasView /\ LeavingServed
  BY DEF PlanInv
<1> QED BY <1>1, <1>2, TypeInit, TypeStep, PlanStep, PTL DEF Spec

-----------------------------------------------------------------------------
(* The role reaches the feed *)

RoleInv == RoleDelivered /\ AppliesLatest

(* A feed that is replaced is owed nothing. *)
LEMMA ReplacedOwed ==
  ASSUME RoleInv, TypeInv, NEW c \in Core, FreshFeed(c), ClearCoordination(c),
         UNCHANGED outbox
  PROVE  RoleInv'
<1>1. ASSUME NEW d \in Core, d # c
      PROVE  /\ lastCmd'[d] = lastCmd[d] /\ latest'[d] = latest[d]
             /\ plan'[d] = plan[d] /\ held'[d] = held[d]
  BY <1>1 DEF FreshFeed, ClearCoordination, TypeInv, TypeOK
<1>2. lastCmd'[c] = NoRole /\ ~held'[c]
  BY DEF FreshFeed, ClearCoordination, TypeInv, TypeOK
<1> QED BY <1>1, <1>2 DEF RoleInv, RoleDelivered, AppliesLatest

LEMMA RoleStep == RoleInv /\ TypeInv /\ [Next]_vars => RoleInv'
<1> SUFFICES ASSUME RoleInv, TypeInv, [Next]_vars PROVE RoleInv'
  OBVIOUS
<1>1. ASSUME UNCHANGED <<lastCmd, outbox, latest, plan, held>>
      PROVE  RoleInv'
  BY <1>1 DEF RoleInv, RoleDelivered, AppliesLatest
<1>2. CASE UNCHANGED vars
  BY <1>1, <1>2 DEF vars, planVars, feedVars
<1>3. CASE SetOpen
  <2> DEFINE known == [c \in Core |-> IF c \in Deposed(providers') THEN NoRole ELSE lastCmd[c]]
  <2>1. \A c \in Core : c \notin outbox' => lastCmd'[c] = known[c]
    BY <1>3 DEF SetOpen
  <2>2. \A c \in Core : known[c] # NoRole => known[c] = lastCmd[c]
    OBVIOUS
  <2>3. outbox = {} /\ UNCHANGED <<latest, plan, held>>
    BY <1>3 DEF SetOpen, feedVars
  <2> HIDE DEF known
  <2> QED BY <2>1, <2>2, <2>3 DEF RoleInv, RoleDelivered, AppliesLatest
<1>4. CASE SendRole
  BY <1>4 DEF SendRole, PostRole, RoleInv, RoleDelivered, AppliesLatest, TypeInv, TypeOK
<1>5. ASSUME NEW c \in Core, Hear(c)
      PROVE  RoleInv'
  BY <1>1, <1>5 DEF Hear, planVars
<1>6. ASSUME NEW c \in Core, RespawnStale(c)
      PROVE  RoleInv'
  BY <1>6, ReplacedOwed DEF RespawnStale, Respawn
<1>7. CASE Time
  BY <1>1, <1>7 DEF Time, CandleLingerEnds, BookLingerEnds, GapEnds, planVars, feedVars
<1>8. CASE Charts
  BY <1>1, <1>8 DEF Charts, OpenChart, CloseChart, HideBook, planVars, feedVars
<1>9. CASE Settings
  <2>1. CASE SetMode
    BY <2>1 DEF SetMode, feedVars, RoleInv, RoleDelivered, AppliesLatest
  <2>2. ASSUME NEW c \in Core, Reconnect(c) \/ Deactivate(c)
        PROVE  RoleInv'
    BY <2>2, ReplacedOwed DEF Reconnect, Deactivate, Respawn
  <2>3. ASSUME NEW c \in Core, NEW v \in Venue, Readdress(c, v)
        PROVE  RoleInv'
    BY <2>3, ReplacedOwed DEF Readdress, Respawn
  <2>4. ASSUME NEW c \in Core, Activate(c)
        PROVE  RoleInv'
    BY <1>1, <2>4 DEF Activate, planVars, feedVars
  <2> QED BY <1>9, <2>1, <2>2, <2>3, <2>4 DEF Settings
<1>10. ASSUME NEW c \in Core, Adopt(c)
       PROVE  RoleInv'
  BY <1>10 DEF Adopt, Adopted, planVars, RoleInv, RoleDelivered, AppliesLatest, TypeInv, TypeOK
<1>11. ASSUME NEW c \in Core, Apply(c)
       PROVE  RoleInv'
  BY <1>11 DEF Apply, planVars, RoleInv, RoleDelivered, AppliesLatest, TypeInv, TypeOK
<1>12. ASSUME NEW c \in Core, NoticeMove(c) \/ Comes(c) \/ Faults(c)
       PROVE  RoleInv'
  BY <1>1, <1>12 DEF NoticeMove, Comes, Faults, TellIdentity, BecomeReady, LoseLink, NewRun,
     Move, planVars
<1> QED BY <1>2, <1>3, <1>4, <1>5, <1>6, <1>7, <1>8, <1>9, <1>10, <1>11, <1>12
       DEF Next, SessionTurn, FeedTurn

(* A role the coordinator remembers sending is the one the core's present  *)
(* feed holds or is about to be sent, and while a feed makes the calls for *)
(* a role no newer one has been published.                                 *)
THEOREM RoleCorrect == Spec => [](RoleDelivered /\ AppliesLatest)
<1>1. Init => RoleInv
  BY DEF Init, RoleInv, RoleDelivered, AppliesLatest
<1>2. RoleInv => RoleDelivered /\ AppliesLatest
  BY DEF RoleInv
<1> QED BY <1>1, <1>2, TypeInit, TypeStep, RoleStep, PTL DEF Spec

(* A feed between two of its calls holds the newest role the coordinator   *)
(* published to it: none is published while it holds the mutex, and one    *)
(* replaced takes its own away.                                            *)
THEOREM LatestCorrect == Spec => []AppliesLatest
<1> QED BY RoleCorrect, PTL

-----------------------------------------------------------------------------
(* What a feed believes *)

(* A feed that believes nothing applied has asked its client for no book. *)
NothingAsked == \A c \in Core : applied[c] = NoRole => client[c].subs = {}

BeliefInv == BelievesTruth /\ NothingAsked

LEMMA FreshBelief ==
  ASSUME BeliefInv, TypeInv, NEW c \in Core,
         applied' = [applied EXCEPT ![c] = NoRole],
         client' = [client EXCEPT ![c] = NewClient]
  PROVE  BeliefInv'
<1>1. applied'[c] = NoRole /\ client'[c].subs = {}
  BY DEF TypeInv, TypeOK, NewClient
<1>2. \A d \in Core : d # c => applied'[d] = applied[d] /\ client'[d] = client[d]
  BY DEF TypeInv, TypeOK
<1> QED BY <1>1, <1>2 DEF BeliefInv, BelievesTruth, NothingAsked

(* Nothing is asked of a client. *)
LEMMA QuietBelief ==
  ASSUME BeliefInv, UNCHANGED applied,
         \A d \in Core : client'[d].trades = client[d].trades /\ client'[d].subs = client[d].subs
  PROVE  BeliefInv'
  BY DEF BeliefInv, BelievesTruth, NothingAsked

LEMMA ApplyBelief ==
  ASSUME BeliefInv, TypeInv, NEW c \in Core, Apply(c)
  PROVE  BeliefInv'
<1>1. CASE plan[c] = applied[c]
  BY <1>1 DEF Apply, BeliefInv, BelievesTruth, NothingAsked
<1>2. CASE plan[c] # applied[c]
  <2> DEFINE had == IF applied[c] = NoRole THEN {} ELSE applied[c].books
  <2> DEFINE toggles == (plan[c].books \ had) \cup (had \ plan[c].books)
  <2> DEFINE flipped(s, done) == (s \ done) \cup (plan[c].books \cap done)
  <2>1. PICK refused \in SUBSET toggles :
           /\ client' = [client EXCEPT ![c].trades = plan[c].provider,
                                       ![c].subs = flipped(@, toggles \ refused)]
           /\ applied' = [applied EXCEPT
                  ![c] = Recorded(plan[c], flipped(had, toggles \ refused))]
    BY <1>2 DEF Apply
  <2>2. client[c].subs = had
    BY DEF BeliefInv, BelievesTruth, NothingAsked
  <2>3. plan[c] \in MarketPlan
    BY DEF TypeInv, TypeOK, HeldHasPlan, Apply, Roles, Role
  <2>4. had \in SUBSET Market
    BY DEF TypeInv, TypeOK, AppliedRoles, MarketPlan
  <2> DEFINE now == flipped(had, toggles \ refused)
  <2>5. now \in SUBSET Market
    BY <2>3, <2>4 DEF MarketPlan
  <2>6. client'[c].trades = plan[c].provider /\ client'[c].subs = now
    <3> HIDE DEF flipped, toggles, had
    <3>1. client \in [Core -> Clients]
      BY DEF TypeInv, TypeOK
    <3> QED BY <2>1, <2>2, <3>1 DEF Clients
  <2>7. applied'[c] = Recorded(plan[c], now)
    <3> HIDE DEF flipped, toggles, had
    <3> QED BY <2>1 DEF TypeInv, TypeOK
  <2>8. \A d \in Core : d # c => applied'[d] = applied[d] /\ client'[d] = client[d]
    <3> HIDE DEF flipped, toggles, had
    <3> QED BY <2>1 DEF TypeInv, TypeOK
  <2> HIDE DEF now
  <2>9. applied'[c] \in MarketPlan
    BY <2>3, <2>5, <2>7 DEF Recorded, MarketPlan
  <2>10. applied'[c].provider = plan[c].provider /\ applied'[c].books = now
    BY <2>3, <2>7 DEF Recorded, MarketPlan
  <2> QED BY <2>6, <2>8, <2>9, <2>10 DEF BeliefInv, BelievesTruth, NothingAsked
<1> QED BY <1>1, <1>2

LEMMA BeliefStep == BeliefInv /\ TypeInv /\ [Next]_vars => BeliefInv'
<1> SUFFICES ASSUME BeliefInv, TypeInv, [Next]_vars PROVE BeliefInv'
  OBVIOUS
<1>1. ASSUME UNCHANGED <<applied, client>>
      PROVE  BeliefInv'
  BY <1>1, QuietBelief
<1>2. ASSUME NEW c \in Core, FreshFeed(c)
      PROVE  BeliefInv'
  BY <1>2, FreshBelief DEF FreshFeed
<1>3. CASE UNCHANGED vars
  BY <1>1, <1>3 DEF vars, feedVars
<1>4. CASE SessionTurn \/ Time \/ Charts
  BY <1>1, <1>2, <1>4 DEF SessionTurn, SetOpen, SendRole, Hear, RespawnStale, Respawn, Time,
     CandleLingerEnds, BookLingerEnds, GapEnds, Charts, OpenChart, CloseChart, HideBook,
     feedVars
<1>5. CASE Settings
  BY <1>1, <1>2, <1>5 DEF Settings, SetMode, Reconnect, Readdress, Deactivate, Activate,
     Respawn, feedVars
<1>6. ASSUME NEW c \in Core, Adopt(c) \/ Apply(c)
      PROVE  BeliefInv'
  BY <1>1, <1>6, ApplyBelief DEF Adopt
<1>7. ASSUME NEW c \in Core, NewRun(c)
      PROVE  BeliefInv'
  BY <1>7, FreshBelief DEF NewRun, BeginClient
<1>8. ASSUME NEW c \in Core, NEW v \in Venue,
             \/ NoticeMove(c) \/ TellIdentity(c) \/ BecomeReady(c)
             \/ LoseLink(c) \/ Move(c, v)
      PROVE  BeliefInv'
  <2>1. client \in [Core -> Clients]
    BY DEF TypeInv, TypeOK
  <2>2. \A d \in Core : /\ client'[d].trades = client[d].trades
                        /\ client'[d].subs = client[d].subs
    BY <1>8, <2>1 DEF NoticeMove, TellIdentity, BecomeReady, LoseLink, Move, Clients
  <2>3. UNCHANGED applied
    BY <1>8 DEF NoticeMove, TellIdentity, BecomeReady, LoseLink, Move
  <2> QED BY <2>2, <2>3, QuietBelief
<1>9. ASSUME NEW c \in Core, FeedTurn(c) \/ Comes(c) \/ Faults(c)
      PROVE  BeliefInv'
  <2>1. actual[c] \in Venue
    BY DEF TypeInv, TypeOK
  <2> QED BY <1>6, <1>7, <1>8, <1>9, <2>1 DEF FeedTurn, Comes, Faults
<1> QED BY <1>3, <1>4, <1>5, <1>9 DEF Next

(* Whatever calls were refused and however many clients a feed has had,    *)
(* what it believes applied is what its present client was asked for.      *)
THEOREM BeliefCorrect == Spec => []BelievesTruth
<1>1. Init => BeliefInv
  BY DEF Init, BeliefInv, BelievesTruth, NothingAsked, NewClient
<1>2. BeliefInv => BelievesTruth
  BY DEF BeliefInv
<1> QED BY <1>1, <1>2, TypeInit, TypeStep, BeliefStep, PTL DEF Spec

-----------------------------------------------------------------------------
(* The plan serves the charts *)

LEMMA RoutesLead ==
  ASSUME TypeOK, NEW c \in Core, RouteBy(NextProviders)[c] # NoCore
  PROVE  c \in sessions /\ RouteBy(NextProviders)[c] \in sessions
<1>1. c \in sessions
  BY DEF RouteBy
<1>2. CASE mode = "PerCore"
  BY <1>1, <1>2 DEF RouteBy
<1>3. CASE mode # "PerCore"
  <2>1. mode = "Dedup" /\ venue[c] \in Venue
    BY <1>1, <1>3 DEF RouteBy, TypeOK
  <2>2. c \in On(venue[c]) /\ On(venue[c]) \in SUBSET Core
    BY <1>1 DEF On, TypeOK
  <2>3. Elected(venue[c]) \in On(venue[c])
    BY <2>1, <2>2, ElectedIsOn
  <2>4. RouteBy(NextProviders)[c] = Elected(venue[c])
    BY <1>1, <2>1, <2>2 DEF RouteBy, NextProviders
  <2> QED BY <1>1, <2>3, <2>4 DEF On
<1> QED BY <1>2, <1>3

LEMMA LingerServes ==
  ASSUME NEW l, NEW want
  PROVE  want \subseteq Linger(l, want).served
  BY DEF Linger

LEMMA ServingRole ==
  ASSUME NEW c, NEW to, NEW served, NEW shown, c \in Range(to)
  PROVE  LET role == RoleOf(c, to, served, shown)
         IN  /\ role.provider
             /\ role.markets = {m \in Market : <<c, m>> \in served}
             /\ role.books = {m \in role.markets : <<c, m>> \in shown}
<1> DEFINE markets == {m \in Market : <<c, m>> \in served}
<1>1. RoleOf(c, to, served, shown) =
        [provider |-> TRUE, markets |-> markets,
         books |-> {m \in markets : <<c, m>> \in shown}]
  BY Zenon DEF RoleOf
<1> HIDE DEF markets
<1>2. /\ RoleOf(c, to, served, shown).provider
      /\ RoleOf(c, to, served, shown).markets = markets
      /\ RoleOf(c, to, served, shown).books = {m \in markets : <<c, m>> \in shown}
  BY <1>1
<1> QED BY <1>2 DEF markets

LEMMA IdleRole ==
  ASSUME NEW c, NEW to, NEW served, NEW shown, RoleOf(c, to, served, shown).provider
  PROVE  c \in Range(to)
<1> DEFINE serves == c \in Range(to)
<1>1. RoleOf(c, to, served, shown).provider = serves
  BY DEF RoleOf
<1> QED BY <1>1

LEMMA SetOpenServes ==
  ASSUME TypeOK, SetOpen
  PROVE  ChartsServed'
<1> DEFINE role == [c \in Core |-> RoleOf(c, route', candles'.served, orderbooks'.served)]
<1>1. route' = RouteBy(NextProviders) /\ route' \in [Core -> Core \cup {NoCore}]
  BY NextProvidersTyped, RouteTyped DEF SetOpen
<1>2. sessions \subseteq Core /\ open \subseteq Pair /\ books \subseteq open
  BY DEF TypeOK
<1>3. UNCHANGED <<sessions, open, books>>
  BY DEF SetOpen, chartVars
<1>4. \A c \in sessions : lastCmd'[c] = role[c]
  BY <1>2 DEF SetOpen
<1>5. /\ Wanted(open, route') \subseteq candles'.served
      /\ Wanted(books, route') \subseteq orderbooks'.served
  BY LingerServes DEF SetOpen, SetOpenPlan
<1>6. ASSUME NEW c \in sessions, route'[c] # NoCore
      PROVE  /\ lastCmd'[route'[c]].provider
             /\ {p[2] : p \in Of(open, {c})} \subseteq lastCmd'[route'[c]].markets
             /\ {p[2] : p \in Of(books, {c})} \subseteq lastCmd'[route'[c]].books
  <2> DEFINE r == route'[c]
  <2>1. r \in sessions /\ r \in Range(route')
    BY <1>1, <1>2, <1>6, RoutesLead DEF Range
  <2>2. \A p \in Of(open, {c}) : p[2] \in Market /\ <<r, p[2]>> \in Wanted(open, route')
    BY <1>2, <1>6 DEF Of, Wanted, Pair
  <2>3. \A p \in Of(books, {c}) : p[2] \in Market /\ <<r, p[2]>> \in Wanted(books, route')
    BY <1>2, <1>6 DEF Of, Wanted, Pair
  <2>4. Of(books, {c}) \subseteq Of(open, {c})
    BY <1>2 DEF Of
  <2>5. lastCmd'[r] = RoleOf(r, route', candles'.served, orderbooks'.served)
    BY <1>2, <1>4, <2>1
  <2>6. /\ lastCmd'[r].provider
        /\ lastCmd'[r].markets = {m \in Market : <<r, m>> \in candles'.served}
        /\ lastCmd'[r].books = {m \in lastCmd'[r].markets : <<r, m>> \in orderbooks'.served}
    BY <2>1, <2>5, ServingRole
  <2> HIDE DEF r
  <2> QED BY <1>5, <2>2, <2>3, <2>4, <2>6 DEF r
<1>7. ASSUME NEW c \in sessions, lastCmd'[c].provider
      PROVE  \E d \in sessions : route'[d] = c
  <2>1. c \in Range(route')
    <3>1. lastCmd'[c] = RoleOf(c, route', candles'.served, orderbooks'.served)
      BY <1>2, <1>4
    <3> QED BY <1>7, <3>1, IdleRole
  <2>2. PICK d \in Core : route'[d] = c
    BY <1>1, <2>1 DEF Range
  <2>3. d \in sessions
    BY <1>1, <1>2, <2>2, RoutesLead
  <2> QED BY <2>2, <2>3
<1> QED BY <1>3, <1>6, <1>7 DEF ChartsServed

(* After every pass of the coordinator each routed core's open markets and *)
(* shown books are in the role of its provider, and every provider serves  *)
(* somebody, whatever was lingering and whoever was deposed.               *)
THEOREM PlanServes == Spec => PlanServesCharts
<1>1. TypeOK /\ [Next]_vars => [SetOpen => ChartsServed']_vars
  BY SetOpenServes
<1>2. TypeInv => TypeOK
  BY DEF TypeInv
<1> QED BY <1>1, <1>2, TypeInit, TypeStep, PTL DEF Spec, PlanServesCharts

=============================================================================
