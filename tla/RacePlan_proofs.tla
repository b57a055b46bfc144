---------------------------- MODULE RacePlan_proofs ----------------------------
(***************************************************************************)
(* Facts about the race plan that hold for every race distance, tank,      *)
(* regulation and proposal: what is planned can be run, the revisions tell *)
(* the plan, and a lap line leaves the strategist's choices feasible       *)
(* together.                                                               *)
(***************************************************************************)
EXTENDS RacePlan, TLAPS

Cars == [lap : 1..Laps, left : 1..2, level : 0..Tank, known : BOOLEAN, green : BOOLEAN,
         pit : BOOLEAN, hadPit : BOOLEAN, stops : Nat, clean : Nat]

\* The clean laps of a stint were laps of the race.
Driven(c) == c \in Cars /\ c.clean < c.lap

Events == [type : {"regulation_change"}, window : Regulations] \cup [type : {"pit_exit"}]

\* A history holds one regulation at most.
OneRule(events) ==
  /\ events \in Seq(Events)
  /\ \A i, j \in DOMAIN events :
       events[i].type = "regulation_change" /\ events[j].type = "regulation_change" => i = j

ElementMaps == [Elements -> Slots \cup {NoElement}]

\* A plan's elements, each with a figure that can be meant.
Planned(els) ==
  /\ els \in ElementMaps
  /\ \A n \in Elements : els[n] # NoElement => els[n].val \in Figures(n)
-------------------------------------------------------------------------------
(***************************************************************************)
(* The fuel window.                                                        *)
(***************************************************************************)
LEMMA Larger ==
  ASSUME NEW a \in Int, NEW b \in Int
  PROVE  /\ AtLeast(a, b) \in Int /\ AtLeast(a, b) >= a /\ AtLeast(a, b) >= b
         /\ AtLeast(a, b) = a \/ AtLeast(a, b) = b
         /\ AtMost(a, b) \in Int /\ AtMost(a, b) <= a /\ AtMost(a, b) <= b
         /\ AtMost(a, b) = a \/ AtMost(a, b) = b
BY DEF AtLeast, AtMost

LEMMA Halves ==
  ASSUME NEW n \in Int
  PROVE  /\ n \div 2 \in Int /\ 2 * (n \div 2) <= n /\ n <= 2 * (n \div 2) + 1
         /\ HalvesUp(n) \in Int /\ n <= 2 * HalvesUp(n) /\ 2 * HalvesUp(n) <= n + 1
BY DEF HalvesUp

\* What is short by less than k + 1 divisors is short by k of them.
LEMMA Quotient ==
  ASSUME NEW a \in Nat, NEW b \in Nat \ {0}, NEW k \in Nat, a < b * (k + 1)
  PROVE  a \div b \in Nat /\ a \div b <= k
<1> DEFINE q == a \div b
<1>1. q \in Nat /\ b * q <= a
  OBVIOUS
<1> HIDE DEF q
<1>2. ASSUME q > k PROVE FALSE
  <2>1. PICK d \in Nat : q = (k + 1) + d
    <3>1. q - (k + 1) \in Nat /\ q = (k + 1) + (q - (k + 1))
      BY <1>1, <1>2
    <3> QED BY <3>1
  <2>2. b * q = b * (k + 1) + b * d /\ b * d >= 0 /\ b * (k + 1) \in Int /\ b * d \in Int
    BY <2>1
  <2> QED BY <1>1, <2>2
<1>3. q <= k
  BY <1>1, <1>2
<1> QED BY <1>1, <1>3 DEF q

LEMMA CarFigures ==
  ASSUME NEW c, Driven(c)
  PROVE  /\ c.lap \in 1..Laps /\ c.left \in 1..2 /\ c.level \in 0..Tank
         /\ c.clean \in Nat /\ c.clean < c.lap /\ c.known \in BOOLEAN
         /\ Laps \in Nat /\ Tank \in Nat /\ Tank > 1
BY SizesAssumption DEF Driven, Cars

LEMMA Distance ==
  ASSUME NEW c, Driven(c)
  PROVE  /\ ToFinish(c) \in 1..(2 * Laps) /\ Margin(c) \in Int
         /\ ToFinish(c) - c.left = 2 * (Laps - c.lap)
         /\ StopRequired(c) <=> c.level < ToFinish(c)
         /\ Margin(c) >= -(2 * Laps)
BY CarFigures DEF ToFinish, Margin, StopRequired

LEMMA Latest ==
  ASSUME NEW c, Driven(c)
  PROVE  /\ LatestLap(c) \in Int /\ LatestLap(c) >= c.lap
         /\ StopRequired(c) => LatestLap(c) <= Laps
<1> DEFINE x == c.level - c.left
           h == x \div 2
<1>1. /\ c.lap \in 1..Laps /\ Laps \in Nat /\ c.level \in Int /\ c.left \in Int
      /\ ToFinish(c) - c.left = 2 * (Laps - c.lap)
      /\ StopRequired(c) => c.level < ToFinish(c)
      /\ ToFinish(c) \in Int
  BY CarFigures, Distance
<1>2. h \in Int /\ 2 * h <= c.level - c.left
  <2>1. x \in Int
    BY <1>1
  <2>2. h \in Int /\ 2 * h <= x
    <3> HIDE DEF x
    <3> QED BY <2>1, Halves
  <2> QED BY <2>2
<1>3. LatestLap(c) = c.lap + AtLeast(0, h)
  BY DEF LatestLap
<1> HIDE DEF h
<1>4. AtLeast(0, h) \in Int /\ AtLeast(0, h) >= 0 /\ (AtLeast(0, h) = 0 \/ AtLeast(0, h) = h)
  BY <1>2, Larger
<1>5. StopRequired(c) => h <= Laps - c.lap
  BY <1>1, <1>2
<1> QED BY <1>1, <1>3, <1>4, <1>5

LEMMA Earliest ==
  ASSUME NEW c, Driven(c)
  PROVE  EarliestLap(c) \in c.lap..Laps
<1> DEFINE h == HalvesUp(ToFinish(c) - c.left - Tank)
<1>1. /\ c.lap \in 1..Laps /\ Laps \in Nat /\ Tank \in Nat
      /\ ToFinish(c) - c.left = 2 * (Laps - c.lap)
  BY CarFigures, Distance
<1>2. h \in Int /\ h <= Laps - c.lap
  <2>1. 2 * (Laps - c.lap) - Tank \in Int
    BY <1>1
  <2>2. h = HalvesUp(2 * (Laps - c.lap) - Tank)
    BY <1>1
  <2>3. h \in Int /\ 2 * h <= 2 * (Laps - c.lap) - Tank + 1
    BY <2>1, <2>2, Halves
  <2> QED BY <1>1, <2>3, CarFigures
<1>3. EarliestLap(c) = c.lap + AtLeast(0, h)
  BY DEF EarliestLap
<1> HIDE DEF h
<1>4. AtLeast(0, h) \in Int /\ AtLeast(0, h) >= 0 /\ (AtLeast(0, h) = 0 \/ AtLeast(0, h) = h)
  BY <1>2, Larger
<1> QED BY <1>1, <1>2, <1>3, <1>4

LEMMA Target ==
  ASSUME NEW c, Driven(c)
  PROVE  TargetLap(c) \in Int /\ (StopRequired(c) => TargetLap(c) \in 1..Laps)
<1> DEFINE x == c.level - c.left - 1
           h == x \div 2
           reach == c.lap + AtLeast(0, h)
           first == AtLeast(EarliestLap(c), c.lap)
           last == AtMost(reach, LatestLap(c))
<1>1. /\ c.lap \in 1..Laps /\ Laps \in Nat /\ c.level \in Int /\ c.left \in Int
      /\ EarliestLap(c) \in c.lap..Laps /\ LatestLap(c) \in Int
      /\ StopRequired(c) => LatestLap(c) <= Laps
  BY CarFigures, Earliest, Latest
<1>2. h \in Int
  <2>1. x \in Int
    BY <1>1
  <2> HIDE DEF x
  <2> QED BY <2>1, Halves
<1>3. TargetLap(c) = AtLeast(last, first)
  BY DEF TargetLap
<1> HIDE DEF h
<1>4. reach \in Int
  <2>1. AtLeast(0, h) \in Int
    BY <1>2, Larger
  <2> QED BY <1>1, <2>1
<1> HIDE DEF reach
<1>5. last \in Int /\ last <= LatestLap(c)
  BY <1>1, <1>4, Larger
<1>6. first \in c.lap..Laps
  <2>1. c.lap \in Int /\ EarliestLap(c) \in Int
    BY <1>1
  <2>2. first = EarliestLap(c) \/ first = c.lap
    BY <2>1, Larger
  <2> QED BY <1>1, <2>2
<1> HIDE DEF first, last
<1>7. AtLeast(last, first) \in Int /\ AtLeast(last, first) >= first
      /\ (AtLeast(last, first) = last \/ AtLeast(last, first) = first)
  <2>1. first \in Int
    BY <1>1, <1>6
  <2> QED BY <1>5, <2>1, Larger
<1> QED BY <1>1, <1>3, <1>5, <1>6, <1>7

LEMMA Stops ==
  ASSUME NEW c, Driven(c)
  PROVE  /\ StopsNeeded(c) \in 0..Laps
         /\ StopRequired(c) => StopsNeeded(c) >= 1
<1>1. /\ Laps \in Nat \ {0} /\ Tank \in Nat /\ Tank > 1 /\ Margin(c) \in Int
      /\ Margin(c) >= -(2 * Laps)
  BY CarFigures, Distance, SizesAssumption
<1>2. CASE ~StopRequired(c)
  BY <1>1, <1>2 DEF StopsNeeded
<1>3. CASE StopRequired(c)
  <2> DEFINE a == Tank - 1 - Margin(c)
             q == a \div Tank
  <2>1. Margin(c) < 0
    BY <1>3 DEF StopRequired
  <2>2. a \in Nat /\ a < Tank * (Laps + 1)
    <3>1. Tank * (Laps + 1) = Tank * Laps + Tank /\ Tank * Laps \in Int
      BY <1>1
    <3>2. Tank * Laps >= 2 * Laps
      <4>1. PICK d \in Nat : Tank = 2 + d
        <5>1. Tank - 2 \in Nat /\ Tank = 2 + (Tank - 2)
          BY <1>1
        <5> QED BY <5>1
      <4>2. (2 + d) * Laps = 2 * Laps + d * Laps /\ d * Laps >= 0 /\ d * Laps \in Int
        BY <1>1, <4>1
      <4> QED BY <1>1, <4>1, <4>2
    <3>3. a \in Nat /\ a <= Tank - 1 + 2 * Laps
      BY <1>1, <2>1
    <3> QED BY <1>1, <3>1, <3>2, <3>3
  <2>3. q \in Nat /\ q <= Laps
    <3> HIDE DEF a
    <3> QED BY <1>1, <2>2, Quotient
  <2>4. StopsNeeded(c) = AtLeast(1, q)
    BY <1>3 DEF StopsNeeded
  <2> HIDE DEF q
  <2> QED BY <1>1, <2>3, <2>4 DEF AtLeast
<1> QED BY <1>2, <1>3

LEMMA Stint ==
  ASSUME NEW c, Driven(c), NEW stop \in Int
  PROVE  /\ LapsBefore(c, stop) \in Int
         /\ FuelAtStop(c, stop) \in Nat /\ LapsAfter(c, stop) \in Nat
         /\ Refuel(c, stop) \in 0..Tank
<1>1. /\ c.lap \in Int /\ c.left \in Int /\ c.level \in Int /\ ToFinish(c) \in Int
      /\ Tank \in Nat
  BY CarFigures, Distance
<1>2. LapsBefore(c, stop) \in Int
  BY <1>1 DEF LapsBefore, AtLeast
<1>3. FuelAtStop(c, stop) \in Nat
  BY <1>1, <1>2 DEF FuelAtStop, AtLeast
<1>4. LapsAfter(c, stop) \in Nat
  BY <1>1, <1>2 DEF LapsAfter, AtLeast
<1>5. Refuel(c, stop) \in 0..Tank
  BY <1>1, <1>3, <1>4 DEF Refuel, AtLeast, AtMost
<1> QED BY <1>2, <1>3, <1>4, <1>5
-------------------------------------------------------------------------------
(***************************************************************************)
(* The regulation, and what the data supports.                             *)
(***************************************************************************)
LEMMA PendingIsKnown ==
  ASSUME NEW c, NEW events, OneRule(events)
  PROVE  Pending(c, events) \in Regulations \cup {NoRule}
<1> DEFINE at == {i \in DOMAIN events : events[i].type = "regulation_change"}
           last == CHOOSE i \in at : \A j \in at : j <= i
           served == \E i \in last..Len(events) : events[i].type = "pit_exit"
<1>1. CASE at = {}
  BY <1>1 DEF Pending, MandatoryStop
<1>2. CASE at # {}
  <2>1. PICK i \in at : TRUE
    BY <1>2
  <2>2. at = {i} /\ i \in Nat
    BY <2>1 DEF OneRule
  <2>3. last = i
    BY <2>2
  <2>4. events[i].window \in Regulations
    BY <2>1 DEF OneRule, Events
  <2>5. MandatoryStop(events) = [window |-> events[last].window, served |-> served]
    BY <1>2 DEF MandatoryStop
  <2> HIDE DEF served, last
  <2>6. MandatoryStop(events).window \in Regulations
    BY <2>3, <2>4, <2>5
  <2> QED BY <2>6 DEF Pending
<1> QED BY <1>1, <1>2

LEMMA FiguresHold ==
  /\ Figures("stop_count") = 0..Laps
  /\ Figures("next_stop_lap") = 1..Laps \cup UNION {w.from..w.to : w \in Regulations}
  /\ Figures("fuel_to_add") = 0..Tank
  /\ Figures("fuel_per_lap") = Saves
  /\ Figures("pace_target") = 1..Laps
  /\ Figures("tyre_posture") = Postures
BY DEF Figures

LEMMA FiguresAreValues ==
  ASSUME NEW n \in Elements
  PROVE  Figures(n) \subseteq Int \cup Postures /\ (n # "tyre_posture" => Figures(n) \subseteq Int)
<1>1. UNION {w.from..w.to : w \in Regulations} \subseteq Int
  BY SizesAssumption
<1>2. 0..Laps \subseteq Int /\ 1..Laps \subseteq Int /\ 0..Tank \subseteq Int /\ Saves \subseteq Int
  BY SizesAssumption DEF Saves
<1> QED BY <1>1, <1>2, FiguresHold DEF Elements

LEMMA NewSlot ==
  ASSUME NEW n \in Elements, NEW v \in Figures(n), NEW by \in {"derived", "agent"}
  PROVE  New(v, by) \in Slots /\ New(v, by) # NoElement /\ New(v, by).val = v /\ New(v, by).by = by
<1>1. New(v, by) \in Slots
  BY FiguresAreValues DEF New, Slots
<1>2. New(v, by) # NoElement
  BY <1>1, NoneAssumption
<1> QED BY <1>1, <1>2 DEF New

Plans == [els : ElementMaps, done : Nat]
Known(p) == p = NoPlan \/ (p \in Plans /\ Planned(p.els))

LEMMA ElemsPlanned == ASSUME NEW p, Known(p) PROVE Planned(Elems(p))
BY DEF Known, Planned, Elems, Empty, ElementMaps, Plans

LEMMA DerivedFits ==
  ASSUME NEW c, Driven(c), NEW p, Known(p), NEW events, NEW n \in DOMAIN Derived(c, p, events)
  PROVE  n \in Elements /\ Derived(c, p, events)[n] \in Figures(n)
<1> DEFINE chosen == Elems(p)["next_stop_lap"]
           lap == IF chosen # NoElement /\ chosen.by = "agent" THEN chosen.val ELSE TargetLap(c)
           d == Derived(c, p, events)
<1>1. /\ Laps \in Nat \ {0} /\ c.clean \in Nat /\ c.clean < c.lap /\ c.lap <= Laps
      /\ FitLaps \in Nat \ {0}
  BY CarFigures, SizesAssumption
<1>2. lap \in Int
  <2>1. chosen # NoElement => chosen.val \in Int
    BY ElemsPlanned, FiguresAreValues DEF Planned, Elements
  <2> QED BY <2>1, Target
<1>3. /\ n \in Elements
      /\ n \in {"next_stop_lap", "fuel_to_add"} => StopRequired(c)
      /\ n \in TyreElements => Fitted(c)
  BY DEF Derived, Elements, TyreElements
<1>4. CASE n = "stop_count"
  <2>1. d[n] = 1 \/ d[n] = StopsNeeded(c)
    BY <1>3, <1>4 DEF Derived
  <2>2. d[n] \in 0..Laps
    BY <1>1, <2>1, Stops
  <2> QED BY <1>3, <1>4, <2>2, FiguresHold
<1>5. CASE n = "next_stop_lap"
  <2>1. d[n] = TargetLap(c)
    BY <1>3, <1>5 DEF Derived
  <2>2. d[n] \in 1..Laps
    BY <1>3, <1>5, <2>1, Target
  <2> QED BY <1>3, <1>5, <2>2, FiguresHold
<1>6. CASE n = "fuel_to_add"
  <2>1. d[n] = Refuel(c, lap)
    BY <1>3, <1>6 DEF Derived
  <2>2. d[n] \in 0..Tank
    <3> HIDE DEF lap
    <3> QED BY <1>2, <2>1, Stint
  <2> QED BY <1>3, <1>6, <2>2, FiguresHold
<1>7. CASE n = "fuel_per_lap"
  <2>1. d[n] = Learned
    BY <1>3, <1>7 DEF Derived
  <2> QED BY <1>3, <1>7, <2>1, FiguresHold DEF Learned, Saves
<1>8. CASE n = "pace_target"
  <2>1. d[n] = c.clean /\ Fitted(c)
    BY <1>3, <1>8 DEF Derived, TyreElements
  <2>2. d[n] \in 1..Laps
    BY <1>1, <2>1, CarFigures DEF Fitted
  <2> QED BY <1>3, <1>8, <2>2, FiguresHold
<1>9. CASE n = "tyre_posture"
  <2>1. d[n] \in {Conserve, Neutral}
    BY <1>3, <1>9 DEF Derived
  <2> QED BY <1>3, <1>9, <2>1, FiguresHold DEF Postures
<1> QED BY <1>3, <1>4, <1>5, <1>6, <1>7, <1>8, <1>9 DEF Elements

\* With a stop still to be made by the regulation, the data asks for one at least.
LEMMA DerivedStops ==
  ASSUME NEW c, Driven(c), c.known, NEW p, NEW events, Pending(c, events) # NoRule
  PROVE  /\ "stop_count" \in DOMAIN Derived(c, p, events)
         /\ Derived(c, p, events)["stop_count"] \in Nat
         /\ Derived(c, p, events)["stop_count"] >= 1
<1>1. "stop_count" \in DOMAIN Derived(c, p, events)
  BY DEF Derived
<1>2. Derived(c, p, events)["stop_count"] = IF ~StopRequired(c) THEN 1 ELSE StopsNeeded(c)
  BY <1>1 DEF Derived, Elements
<1> QED BY <1>1, <1>2, Stops, SizesAssumption

\* What a check reads of a plan: its own element, the stops, and the stop's lap.
LEMMA FeasibleReads ==
  ASSUME NEW c, NEW rule, NEW x, NEW y, NEW name \in Elements, x[name] = y[name],
         name # "stop_count" => x["stop_count"] = y["stop_count"],
         name \notin {"stop_count", "next_stop_lap"} => x["next_stop_lap"] = y["next_stop_lap"]
  PROVE  Feasible(c, x, name, rule) <=> Feasible(c, y, name, rule)
<1>1. CASE name = "stop_count"
  BY <1>1 DEF Feasible
<1>2. CASE name = "next_stop_lap"
  BY <1>2 DEF Feasible, OneStop
<1>3. CASE name = "fuel_to_add"
  BY <1>3 DEF Feasible, OneStop
<1>4. CASE name = "fuel_per_lap"
  BY <1>4 DEF Feasible
<1>5. CASE name = "pace_target"
  BY <1>5 DEF Feasible
<1>6. CASE name = "tyre_posture"
  BY <1>6 DEF Feasible
<1> QED BY <1>1, <1>2, <1>3, <1>4, <1>5, <1>6 DEF Elements
-------------------------------------------------------------------------------
(***************************************************************************)
(* The refresh.  Tells: the changes so far, read over the plan it started  *)
(* from, give the plan as it now is.                                       *)
(***************************************************************************)
Chosen(e) == e # NoElement /\ e.by = "agent"

Tells(old, acc) ==
  /\ DOMAIN acc.changes \subseteq Elements
  /\ \A n \in Elements :
       IF n \in DOMAIN acc.changes THEN ValueOf(acc.els, n) = acc.changes[n]
       ELSE acc.els[n] = old[n]

LEMMA SetFacts ==
  ASSUME NEW acc, Planned(acc.els), NEW name \in Elements,
         NEW e \in Slots \cup {NoElement}, e # NoElement => e.val \in Figures(name)
  PROVE  /\ Planned(Set(acc, name, e).els)
         /\ Set(acc, name, e).els[name] = e
         /\ \A n \in Elements \ {name} : Set(acc, name, e).els[n] = acc.els[n]
         /\ \A old : Tells(old, acc) => Tells(old, Set(acc, name, e))
<1> DEFINE v == IF e = NoElement THEN NoElement ELSE e.val
           els == [acc.els EXCEPT ![name] = e]
           changes == [n \in DOMAIN acc.changes \cup {name} |->
                         IF n # name THEN acc.changes[n] ELSE v]
           new == Set(acc, name, e)
<1>1. new.els = els /\ new.changes = changes
  BY DEF Set
<1>2. els \in ElementMaps /\ els[name] = e /\ \A n \in Elements \ {name} : els[n] = acc.els[n]
  BY DEF Planned, ElementMaps
<1>3. Planned(els)
  BY <1>2 DEF Planned
<1>4. ASSUME NEW old, Tells(old, acc) PROVE Tells(old, new)
  <2>1. DOMAIN changes = DOMAIN acc.changes \cup {name}
    OBVIOUS
  <2>2. changes[name] = v /\ \A n \in DOMAIN acc.changes \ {name} : changes[n] = acc.changes[n]
    OBVIOUS
  <2>3. ValueOf(els, name) = v
    BY <1>2 DEF ValueOf
  <2> HIDE DEF new, els, changes, v
  <2>4. ASSUME NEW n \in Elements, n # name
        PROVE  IF n \in DOMAIN changes THEN ValueOf(els, n) = changes[n] ELSE els[n] = old[n]
    <3>1. els[n] = acc.els[n] /\ ValueOf(els, n) = ValueOf(acc.els, n)
      BY <1>2, <2>4 DEF ValueOf
    <3>2. n \in DOMAIN changes <=> n \in DOMAIN acc.changes
      BY <2>1, <2>4
    <3>3. n \in DOMAIN acc.changes => changes[n] = acc.changes[n]
      BY <2>2, <2>4
    <3> QED BY <1>4, <3>1, <3>2, <3>3 DEF Tells
  <2> QED BY <1>1, <1>4, <2>1, <2>2, <2>3, <2>4 DEF Tells
<1> QED BY <1>1, <1>2, <1>3, <1>4

\* A turn leaves the other elements alone, keeps a choice only where it is feasible in
\* `base`, and logs what it writes.
Turned(c, rule, d, base, name, acc, new) ==
  /\ Planned(new.els)
  /\ \A n \in Elements \ {name} : new.els[n] = acc.els[n]
  /\ Chosen(new.els[name]) => new.els[name] = acc.els[name] /\ Feasible(c, base, name, rule)
  /\ name \in DOMAIN d =>
       /\ new.els[name] # NoElement
       /\ Chosen(new.els[name]) \/ new.els[name].val = d[name]
  /\ \A old : Tells(old, acc) => Tells(old, new)

LEMMA TurnFacts ==
  ASSUME NEW c, NEW rule, NEW d, \A n \in DOMAIN d : n \in Elements /\ d[n] \in Figures(n),
         NEW base, NEW acc, Planned(acc.els), NEW name \in Elements
  PROVE  Turned(c, rule, d, base, name, acc, RefreshOne(c, acc, base, name, d, rule))
<1> DEFINE current == acc.els[name]
           new == RefreshOne(c, acc, base, name, d, rule)
<1>1. CASE Chosen(current) /\ Feasible(c, base, name, rule)
  <2>1. new = acc
    BY <1>1 DEF RefreshOne, Chosen
  <2> QED BY <1>1, <2>1 DEF Turned, Chosen
<1>2. CASE ~(Chosen(current) /\ Feasible(c, base, name, rule)) /\ name \in DOMAIN d
  <2>1. d[name] \in Figures(name)
    BY <1>2
  <2>2. CASE ~Chosen(current) /\ ValueOf(acc.els, name) = d[name]
    <3>1. new = acc
      BY <1>2, <2>2 DEF RefreshOne, Chosen
    <3>2. current # NoElement /\ current.val = d[name]
      BY <2>1, <2>2, NoneAssumption, FiguresAreValues DEF ValueOf
    <3> QED BY <2>2, <3>1, <3>2 DEF Turned
  <2>3. CASE ~(~Chosen(current) /\ ValueOf(acc.els, name) = d[name])
    <3> DEFINE e == New(d[name], "derived")
    <3>1. new = Set(acc, name, e)
      BY <1>2, <2>3 DEF RefreshOne, Chosen
    <3>2. e \in Slots /\ e # NoElement /\ e.val = d[name] /\ e.by = "derived"
      BY <2>1, NewSlot
    <3> HIDE DEF e
    <3> QED BY <2>1, <3>1, <3>2, SetFacts DEF Turned, Chosen
  <2> QED BY <2>2, <2>3
<1>3. CASE ~(Chosen(current) /\ Feasible(c, base, name, rule)) /\ name \notin DOMAIN d
  <2>1. CASE current = NoElement
    <3>1. new = acc
      BY <1>3, <2>1 DEF RefreshOne, Chosen
    <3> QED BY <1>3, <2>1, <3>1 DEF Turned, Chosen
  <2>2. CASE current # NoElement
    <3>1. new = Set(acc, name, NoElement)
      BY <1>3, <2>2 DEF RefreshOne, Chosen
    <3> QED BY <1>3, <3>1, SetFacts DEF Turned, Chosen
  <2> QED BY <2>1, <2>2
<1> QED BY <1>1, <1>2, <1>3

\* What a refresh leaves: a plan the changes tell, whose choices are feasible in it, and
\* which follows the data where nothing was chosen.
Settled(c, p, events, new) ==
  /\ Planned(new.els) /\ Tells(Elems(p), new)
  /\ \A n \in Elements :
       Chosen(new.els[n]) => Feasible(c, new.els, n, Pending(c, events))
  /\ "stop_count" \in DOMAIN Derived(c, p, events) =>
       /\ new.els["stop_count"] # NoElement
       /\ \/ Chosen(new.els["stop_count"])
          \/ new.els["stop_count"].val = Derived(c, p, events)["stop_count"]

LEMMA RefreshSettles ==
  ASSUME NEW c, Driven(c), NEW p, Known(p), NEW events
  PROVE  Settled(c, p, events, Refreshed(c, p, events))
<1> DEFINE d == Derived(c, p, events)
           rule == Pending(c, events)
           After(acc, name) == RefreshOne(c, acc, acc.els, name, d, rule)
           a0 == [els |-> Elems(p), changes |-> <<>>]
           a1 == After(a0, "stop_count")
           a2 == After(a1, "next_stop_lap")
           a3 == After(a2, "fuel_to_add")
           a4 == After(a3, "fuel_per_lap")
           a5 == After(a4, "pace_target")
           a6 == After(a5, "tyre_posture")
<1>1. Refreshed(c, p, events) = a6
  BY DEF Refreshed, Turn
<1>2. \A n \in DOMAIN d : n \in Elements /\ d[n] \in Figures(n)
  BY DerivedFits
<1> HIDE DEF d, rule
<1>3. Planned(a0.els) /\ Tells(Elems(p), a0)
  BY ElemsPlanned DEF Tells
<1>4. /\ "stop_count" \in Elements /\ "next_stop_lap" \in Elements
      /\ "fuel_to_add" \in Elements /\ "fuel_per_lap" \in Elements
      /\ "pace_target" \in Elements /\ "tyre_posture" \in Elements
  BY DEF Elements
<1> HIDE DEF a0
<1>5. Turned(c, rule, d, a0.els, "stop_count", a0, a1)
  BY <1>2, <1>3, <1>4, TurnFacts
<1> HIDE DEF a1
<1>6. Turned(c, rule, d, a1.els, "next_stop_lap", a1, a2)
  BY <1>2, <1>4, <1>5, TurnFacts DEF Turned
<1> HIDE DEF a2
<1>7. Turned(c, rule, d, a2.els, "fuel_to_add", a2, a3)
  BY <1>2, <1>4, <1>6, TurnFacts DEF Turned
<1> HIDE DEF a3
<1>8. Turned(c, rule, d, a3.els, "fuel_per_lap", a3, a4)
  BY <1>2, <1>4, <1>7, TurnFacts DEF Turned
<1> HIDE DEF a4
<1>9. Turned(c, rule, d, a4.els, "pace_target", a4, a5)
  BY <1>2, <1>4, <1>8, TurnFacts DEF Turned
<1> HIDE DEF a5
<1>10. Turned(c, rule, d, a5.els, "tyre_posture", a5, a6)
  BY <1>2, <1>4, <1>9, TurnFacts DEF Turned
<1> HIDE DEF a6, After
<1>11. Planned(a6.els) /\ Tells(Elems(p), a6)
  <2>1. Tells(Elems(p), a1)
    BY <1>3, <1>5 DEF Turned
  <2>2. Tells(Elems(p), a2)
    BY <1>6, <2>1 DEF Turned
  <2>3. Tells(Elems(p), a3)
    BY <1>7, <2>2 DEF Turned
  <2>4. Tells(Elems(p), a4)
    BY <1>8, <2>3 DEF Turned
  <2>5. Tells(Elems(p), a5)
    BY <1>9, <2>4 DEF Turned
  <2> QED BY <1>10, <2>5 DEF Turned
<1>12. /\ a6.els["stop_count"] = a1.els["stop_count"]
       /\ a2.els["stop_count"] = a1.els["stop_count"] /\ a3.els["stop_count"] = a1.els["stop_count"]
       /\ a4.els["stop_count"] = a1.els["stop_count"] /\ a5.els["stop_count"] = a1.els["stop_count"]
  BY <1>4, <1>6, <1>7, <1>8, <1>9, <1>10 DEF Turned
<1>13. /\ a6.els["next_stop_lap"] = a2.els["next_stop_lap"]
       /\ a3.els["next_stop_lap"] = a2.els["next_stop_lap"]
       /\ a4.els["next_stop_lap"] = a2.els["next_stop_lap"]
       /\ a5.els["next_stop_lap"] = a2.els["next_stop_lap"]
  BY <1>4, <1>7, <1>8, <1>9, <1>10 DEF Turned
<1>14. /\ a6.els["fuel_to_add"] = a3.els["fuel_to_add"]
       /\ a6.els["fuel_per_lap"] = a4.els["fuel_per_lap"]
       /\ a6.els["pace_target"] = a5.els["pace_target"]
  BY <1>4, <1>8, <1>9, <1>10 DEF Turned
<1>15. ASSUME NEW n \in Elements, Chosen(a6.els[n]) PROVE Feasible(c, a6.els, n, rule)
  <2>1. CASE n = "stop_count"
    <3>1. a0.els[n] = a1.els[n] /\ Feasible(c, a0.els, n, rule)
      BY <1>5, <1>12, <1>15, <2>1 DEF Turned
    <3> QED BY <1>12, <2>1, <3>1, FeasibleReads
  <2>2. CASE n = "next_stop_lap"
    <3>1. a1.els[n] = a2.els[n] /\ Feasible(c, a1.els, n, rule)
      BY <1>6, <1>13, <1>15, <2>2 DEF Turned
    <3> QED BY <1>12, <1>13, <2>2, <3>1, FeasibleReads
  <2>3. CASE n = "fuel_to_add"
    <3>1. a2.els[n] = a3.els[n] /\ Feasible(c, a2.els, n, rule)
      BY <1>7, <1>14, <1>15, <2>3 DEF Turned
    <3> QED BY <1>12, <1>13, <1>14, <2>3, <3>1, FeasibleReads
  <2>4. CASE n = "fuel_per_lap"
    <3>1. a3.els[n] = a4.els[n] /\ Feasible(c, a3.els, n, rule)
      BY <1>8, <1>14, <1>15, <2>4 DEF Turned
    <3> QED BY <1>12, <1>13, <1>14, <2>4, <3>1, FeasibleReads
  <2>5. CASE n = "pace_target"
    <3>1. a4.els[n] = a5.els[n] /\ Feasible(c, a4.els, n, rule)
      BY <1>9, <1>14, <1>15, <2>5 DEF Turned
    <3> QED BY <1>12, <1>13, <1>14, <2>5, <3>1, FeasibleReads
  <2>6. CASE n = "tyre_posture"
    <3>1. a5.els[n] = a6.els[n] /\ Feasible(c, a5.els, n, rule)
      BY <1>10, <1>15, <2>6 DEF Turned
    <3> QED BY <1>12, <1>13, <2>6, <3>1, FeasibleReads
  <2> QED BY <2>1, <2>2, <2>3, <2>4, <2>5, <2>6 DEF Elements
<1>16. "stop_count" \in DOMAIN d =>
         /\ a6.els["stop_count"] # NoElement
         /\ Chosen(a6.els["stop_count"]) \/ a6.els["stop_count"].val = d["stop_count"]
  BY <1>5, <1>12 DEF Turned
<1> QED BY <1>1, <1>11, <1>15, <1>16 DEF Settled, d, rule
-------------------------------------------------------------------------------
(***************************************************************************)
(* The proposal: what is accepted can be meant.                            *)
(***************************************************************************)
LEMMA AcceptedFits ==
  ASSUME NEW c, Driven(c), NEW events, OneRule(events), plan \in Plans, Planned(plan.els),
         NEW values,
         \A n \in DOMAIN values :
           n \in Elements /\ values[n] \in (IF n = "tyre_posture" THEN Postures ELSE Int),
         Accepts(c, values, events)
  PROVE  /\ Planned(Proposed(plan.els, values))
         /\ \A n \in DOMAIN values : values[n] \in Figures(n)
<1> DEFINE merged == Proposed(plan.els, values)
           stop == IF merged["next_stop_lap"] = NoElement THEN c.lap
                   ELSE merged["next_stop_lap"].val
           rule == Pending(c, events)
<1>1. /\ c.lap \in 1..Laps /\ c.level \in 0..Tank /\ c.clean \in Nat /\ c.clean < c.lap
      /\ Laps \in Nat /\ Tank \in Nat
  BY CarFigures
<1>2. /\ \A n \in DOMAIN values : merged[n] = New(values[n], "agent") /\ merged[n].val = values[n]
      /\ \A n \in Elements \ DOMAIN values : merged[n] = plan.els[n]
      /\ merged = [n \in Elements |-> merged[n]]
  BY DEF Proposed, New
<1>3. Backed(c, values, stop) /\ \A n \in DOMAIN values : Feasible(c, merged, n, rule)
  BY DEF Accepts
<1>4. merged["next_stop_lap"] # NoElement => merged["next_stop_lap"].val \in Int
  <2>1. "next_stop_lap" \in Elements /\ "next_stop_lap" # "tyre_posture"
    BY DEF Elements
  <2>2. plan.els["next_stop_lap"] # NoElement => plan.els["next_stop_lap"].val \in Int
    BY <2>1, FiguresAreValues DEF Planned
  <2> HIDE DEF merged
  <2> QED BY <1>2, <2>1, <2>2
<1> HIDE DEF merged
<1>5. stop \in Int
  BY <1>1, <1>4
<1> HIDE DEF stop
<1>6. ASSUME NEW n \in DOMAIN values PROVE values[n] \in Figures(n)
  <2> DEFINE v == values[n]
  <2>0. Feasible(c, merged, n, rule) /\ merged[n].val = v
    BY <1>2, <1>3
  <2>1. CASE n = "stop_count"
    <3>1. v \in Int /\ v >= StopsNeeded(c) /\ v <= HalvesUp(ToFinish(c))
      BY <2>0, <2>1 DEF Feasible
    <3>2. StopsNeeded(c) \in Nat /\ ToFinish(c) \in Int /\ ToFinish(c) <= 2 * Laps
      BY <1>1, Stops, Distance
    <3>3. HalvesUp(ToFinish(c)) \in Int /\ 2 * HalvesUp(ToFinish(c)) <= 2 * Laps + 1
      <4>1. HalvesUp(ToFinish(c)) \in Int /\ 2 * HalvesUp(ToFinish(c)) <= ToFinish(c) + 1
        BY <3>2, Halves
      <4> QED BY <1>1, <3>2, <4>1
    <3>4. v \in 0..Laps
      BY <1>1, <3>1, <3>2, <3>3
    <3> QED BY <2>1, <3>4, FiguresHold
  <2>2. CASE n = "next_stop_lap"
    <3>1. /\ v \in Int /\ c.lap <= v /\ v <= LatestLap(c)
          /\ rule # NoRule => Allows(rule, v)
          /\ StopRequired(c) \/ rule # NoRule
      BY <2>0, <2>2 DEF Feasible
    <3>2. CASE rule = NoRule
      <4>1. v \in 1..Laps
        BY <1>1, <3>1, <3>2, Latest
      <4> QED BY <2>2, <4>1, FiguresHold
    <3>3. CASE rule # NoRule
      <4>1. rule \in Regulations
        BY <3>3, PendingIsKnown
      <4>2. v \in rule.from..rule.to
        BY <3>1, <3>3, <4>1, SizesAssumption DEF Allows
      <4> QED BY <2>2, <4>1, <4>2, FiguresHold
    <3> QED BY <3>2, <3>3
  <2>3. CASE n = "fuel_to_add"
    <3> DEFINE lap == IF merged["next_stop_lap"] # NoElement THEN merged["next_stop_lap"].val
                      ELSE IF StopRequired(c) THEN TargetLap(c) ELSE c.lap
    <3>1. v <= Tank - FuelAtStop(c, lap)
      BY <2>0, <2>3 DEF Feasible
    <3>2. lap \in Int
      BY <1>1, <1>4, Target
    <3> HIDE DEF lap
    <3>3. FuelAtStop(c, lap) \in Nat
      BY <3>2, Stint
    <3>4. v \in DataFuel(c, stop)
      BY <1>3, <2>3 DEF Backed
    <3>5. /\ ToFinish(c) \in Nat /\ FuelAtStop(c, stop) \in Nat /\ Refuel(c, stop) \in Nat
          /\ Refuel(c, TargetLap(c)) \in Nat
      BY <1>1, <1>5, Distance, Stint, Target
    <3>6. v \in Nat
      BY <1>1, <3>4, <3>5 DEF DataFuel
    <3>7. v \in 0..Tank
      BY <1>1, <3>1, <3>3, <3>6
    <3> QED BY <2>3, <3>7, FiguresHold
  <2>4. CASE n = "fuel_per_lap"
    <3>1. v \in Saves
      BY <2>0, <2>4 DEF Feasible
    <3> QED BY <2>4, <3>1, FiguresHold
  <2>5. CASE n = "pace_target"
    <3>1. v \in 1..c.clean
      BY <1>3, <2>5 DEF Backed, DataPaces
    <3>2. v \in 1..Laps
      BY <1>1, <3>1
    <3> QED BY <2>5, <3>2, FiguresHold
  <2>6. CASE n = "tyre_posture"
    <3>1. v \in Postures
      BY <2>6
    <3> QED BY <2>6, <3>1, FiguresHold
  <2> QED BY <2>1, <2>2, <2>3, <2>4, <2>5, <2>6 DEF Elements
<1>7. ASSUME NEW n \in Elements
      PROVE  /\ merged[n] \in Slots \cup {NoElement}
             /\ merged[n] # NoElement => merged[n].val \in Figures(n)
  <2>1. CASE n \in DOMAIN values
    <3>1. values[n] \in Figures(n)
      BY <1>6, <2>1
    <3>2. New(values[n], "agent") \in Slots /\ New(values[n], "agent").val = values[n]
      BY <3>1, NewSlot
    <3> QED BY <1>2, <2>1, <3>1, <3>2
  <2>2. CASE n \notin DOMAIN values
    <3>1. merged[n] = plan.els[n]
      BY <1>2, <2>2
    <3> QED BY <3>1 DEF Planned, ElementMaps
  <2> QED BY <2>1, <2>2
<1>8. merged \in ElementMaps
  BY <1>2, <1>7 DEF ElementMaps
<1> QED BY <1>6, <1>7, <1>8 DEF Planned, merged

\* What is written is what the revision says: the values, and the refuel priced anew.
LEMMA RepricedTells ==
  ASSUME NEW c, Driven(c), NEW els, Planned(els), NEW values, DOMAIN values \subseteq Elements,
         \A n \in DOMAIN values : values[n] \in Figures(n),
         Planned(Proposed(els, values))
  PROVE  LET out == Repriced(c, Proposed(els, values), values)
         IN  Planned(out.els) /\ Tells(els, out)
<1> DEFINE merged == Proposed(els, values)
           acc == [els |-> merged, changes |-> values]
           fuel == Refuel(c, values["next_stop_lap"])
           out == Repriced(c, merged, values)
<1>1. Tells(els, acc)
  <2>1. ASSUME NEW n \in DOMAIN values PROVE ValueOf(merged, n) = values[n]
    <3>1. merged[n] = New(values[n], "agent")
      BY <2>1 DEF Proposed
    <3>2. New(values[n], "agent") # NoElement /\ New(values[n], "agent").val = values[n]
      BY <2>1, NewSlot
    <3> QED BY <3>1, <3>2 DEF ValueOf
  <2>2. \A n \in Elements \ DOMAIN values : merged[n] = els[n]
    BY DEF Proposed
  <2> HIDE DEF merged
  <2> QED BY <2>1, <2>2 DEF Tells
<1>2. acc.els = merged /\ acc.changes = values
  OBVIOUS
<1>3. CASE out = acc
  BY <1>1, <1>2, <1>3
<1>4. CASE out # acc
  <2>1. out = Set(acc, "fuel_to_add", New(fuel, "derived")) /\ "next_stop_lap" \in DOMAIN values
    BY <1>4 DEF Repriced
  <2>2. "next_stop_lap" \in Elements /\ "fuel_to_add" \in Elements
    BY DEF Elements
  <2>3. values["next_stop_lap"] \in Int
    BY <2>1, <2>2, FiguresAreValues
  <2>4. fuel \in Figures("fuel_to_add")
    BY <2>3, Stint, FiguresHold
  <2> DEFINE e == New(fuel, "derived")
  <2>5. e \in Slots /\ e # NoElement /\ e.val \in Figures("fuel_to_add")
    BY <2>2, <2>4, NewSlot
  <2> HIDE DEF e, acc, out, merged
  <2>6. out = Set(acc, "fuel_to_add", e)
    BY <2>1 DEF e
  <2>7. Planned(acc.els)
    BY <1>2 DEF merged
  <2>8. Planned(out.els) /\ Tells(els, out)
    BY <1>1, <2>2, <2>5, <2>6, <2>7, SetFacts
  <2> QED BY <2>8 DEF out, merged, acc
<1> QED BY <1>3, <1>4
-------------------------------------------------------------------------------
(***************************************************************************)
(* The race.                                                               *)
(***************************************************************************)
IInv ==
  /\ Driven(car) /\ OneRule(bus)
  /\ Known(plan) /\ (plan # NoPlan => plan.done <= car.stops)
  /\ snapshot # NoSnapshot => Driven(snapshot.car) /\ OneRule(snapshot.events)
  /\ tries \in 0..MaxTries
  /\ RevisionsTellThePlan

LEMMA InitInv == Init => IInv
<1> SUFFICES ASSUME Init PROVE IInv
  OBVIOUS
<1>1. Driven(car)
  <2>1. PICK f \in StartLevels :
          car = [lap |-> 1, left |-> 2, level |-> f, known |-> FALSE, green |-> TRUE,
                 pit |-> FALSE, hadPit |-> FALSE, stops |-> 0, clean |-> 0]
    BY DEF Init
  <2>2. f \in 0..Tank /\ 1 \in 1..Laps
    BY SizesAssumption
  <2> QED BY <2>1, <2>2 DEF Driven, Cars
<1>2. OneRule(bus)
  BY DEF Init, OneRule
<1>3. RevisionsTellThePlan
  BY DEF Init, RevisionsTellThePlan, Elems, Empty, ValueOf
<1> QED BY <1>1, <1>2, <1>3, SizesAssumption DEF Init, IInv, Known

LEMMA Revised ==
  ASSUME RevisionsTellThePlan, NEW els, NEW changes, NEW done \in Nat, Planned(els),
         Tells(Elems(plan), [els |-> els, changes |-> changes]), Revise(els, changes, done)
  PROVE  /\ Known(plan') /\ plan' # NoPlan /\ plan'.done = done /\ plan'.els = els
         /\ RevisionsTellThePlan'
<1>1. plan' = [els |-> els, done |-> done] /\ els \in ElementMaps
  BY DEF Revise, Planned
<1>2. plan' \in Plans /\ plan'.els = els /\ plan'.done = done
  BY <1>1 DEF Plans
<1>3. plan' # NoPlan
  BY <1>2, NoneAssumption DEF Plans, ElementMaps
<1>4. RevisionsTellThePlan'
  <2> SUFFICES ASSUME NEW n \in Elements PROVE shown'[n] = ValueOf(Elems(plan'), n)
    BY DEF RevisionsTellThePlan
  <2>1. Elems(plan') = els
    BY <1>2, <1>3 DEF Elems
  <2>2. shown'[n] = IF n \in DOMAIN changes THEN changes[n] ELSE shown[n]
    BY DEF Revise
  <2>3. shown[n] = ValueOf(Elems(plan), n)
    BY DEF RevisionsTellThePlan
  <2>4. IF n \in DOMAIN changes THEN ValueOf(els, n) = changes[n] ELSE els[n] = Elems(plan)[n]
    BY DEF Tells
  <2> QED BY <2>1, <2>2, <2>3, <2>4 DEF ValueOf
<1> QED BY <1>2, <1>3, <1>4 DEF Known

\* RefreshPlan, whatever car it is asked for.
LEMMA RefreshPlanSettles ==
  ASSUME IInv, NEW c, Driven(c), RefreshPlan(c)
  PROVE  /\ Known(plan') /\ RevisionsTellThePlan'
         /\ plan' # NoPlan => plan'.done = IF plan = NoPlan THEN 0 ELSE plan.done
         /\ ~c.pit /\ plan' # NoPlan =>
              \E new : plan'.els = new.els /\ Settled(c, plan, bus, new)
<1> DEFINE new == Refreshed(c, plan, bus)
<1>1. Settled(c, plan, bus, new)
  BY RefreshSettles DEF IInv
<1>2. \/ (c.pit \/ DOMAIN new.changes = {}) /\ UNCHANGED <<plan, shown>>
      \/ ~c.pit /\ Revise(new.els, new.changes, IF plan = NoPlan THEN 0 ELSE plan.done)
  BY DEF RefreshPlan
<1> HIDE DEF new
<1>3. CASE UNCHANGED <<plan, shown>> /\ (c.pit \/ DOMAIN new.changes = {})
  <2>1. Known(plan') /\ RevisionsTellThePlan'
    BY <1>3 DEF IInv, RevisionsTellThePlan, Elems, Known
  <2>2. ASSUME ~c.pit, plan' # NoPlan PROVE plan'.els = new.els
    <3>1. \A n \in Elements : new.els[n] = Elems(plan)[n]
      BY <1>1, <1>3, <2>2 DEF Settled, Tells
    <3>2. Elems(plan) = plan.els /\ plan.els \in ElementMaps /\ new.els \in ElementMaps
      BY <1>1, <1>3, <2>2 DEF IInv, Known, Plans, Elems, Settled, Planned
    <3>3. new.els = plan.els
      BY <3>1, <3>2 DEF ElementMaps
    <3> QED BY <1>3, <3>3
  <2> QED BY <1>1, <1>3, <2>1, <2>2
<1>4. CASE ~c.pit /\ Revise(new.els, new.changes, IF plan = NoPlan THEN 0 ELSE plan.done)
  <2> DEFINE done == IF plan = NoPlan THEN 0 ELSE plan.done
  <2>1. done \in Nat
    BY DEF IInv, Known, Plans
  <2>2. Planned(new.els) /\ Tells(Elems(plan), [els |-> new.els, changes |-> new.changes])
    BY <1>1 DEF Settled, Tells
  <2>3. Revise(new.els, new.changes, done)
    BY <1>4
  <2> HIDE DEF done
  <2>4. Known(plan') /\ plan'.done = done /\ plan'.els = new.els /\ RevisionsTellThePlan'
    BY <2>1, <2>2, <2>3, Revised DEF IInv
  <2> QED BY <1>1, <2>4 DEF done
<1> QED BY <1>2, <1>3, <1>4

\* A car whose figures are replaced by figures of the same kind is a car.
LEMMA Recorded ==
  ASSUME NEW La, NEW Le, NEW Lv, NEW B, NEW N,
         NEW c \in [lap : La, left : Le, level : Lv, known : B, green : B,
                    pit : B, hadPit : B, stops : N, clean : N],
         NEW lap \in La, NEW left \in Le, NEW level \in Lv, NEW known \in B, NEW green \in B,
         NEW pit \in B, NEW hadPit \in B, NEW stops \in N, NEW clean \in N
  PROVE  LET line == [c EXCEPT !.lap = lap, !.left = left, !.level = level, !.green = green,
                               !.hadPit = hadPit, !.known = known, !.clean = clean]
             exit == [c EXCEPT !.pit = pit, !.hadPit = hadPit, !.clean = clean,
                               !.stops = stops, !.level = level]
             half == [c EXCEPT !.left = left, !.level = level, !.green = green]
             cars == [lap : La, left : Le, level : Lv, known : B, green : B,
                      pit : B, hadPit : B, stops : N, clean : N]
         IN  /\ line \in cars /\ line.lap = lap /\ line.stops = c.stops /\ line.clean = clean
             /\ exit \in cars /\ exit.lap = c.lap /\ exit.stops = stops /\ exit.clean = clean
             /\ half \in cars /\ half.lap = c.lap /\ half.stops = c.stops /\ half.clean = c.clean
OBVIOUS

LEMMA LineCrossed ==
  ASSUME IInv, CrossLine
  PROVE  /\ IInv'
         /\ plan' # NoPlan /\ ~car'.pit =>
              \E new : plan'.els = new.els /\ Settled(car', plan, bus, new)
         /\ Driven(car')
<1>1. PICK burn \in Burns :
        LET isClean == car.green /\ burn = 1 /\ ~car.hadPit
            next == [car EXCEPT !.lap = @ + 1, !.left = 2, !.level = @ - burn, !.green = TRUE,
                                !.hadPit = FALSE, !.known = @ \/ isClean,
                                !.clean = @ + (IF isClean THEN 1 ELSE 0)]
        IN  car.level >= burn /\ car' = next /\ RefreshPlan(next)
  BY DEF CrossLine
<1> DEFINE lap == car.lap + 1
           level == car.level - burn
           isClean == car.green /\ burn = 1 /\ ~car.hadPit
           known == car.known \/ isClean
           clean == car.clean + (IF isClean THEN 1 ELSE 0)
           next == [car EXCEPT !.lap = lap, !.left = 2, !.level = level, !.green = TRUE,
                               !.hadPit = FALSE, !.known = known, !.clean = clean]
<1>2. car' = next /\ RefreshPlan(next) /\ car.level >= burn
  BY <1>1
<1>3. /\ lap \in 1..Laps /\ level \in 0..Tank /\ clean \in Nat /\ clean < lap
      /\ known \in BOOLEAN
  <2>1. car.lap < Laps /\ burn \in {0, 1}
    BY <1>1 DEF CrossLine, Burns
  <2>2. lap \in 1..Laps /\ level \in 0..Tank
    BY <1>2, <2>1, CarFigures DEF IInv
  <2>3. clean \in Nat /\ clean < lap
    BY CarFigures DEF IInv
  <2>4. known \in BOOLEAN
    BY CarFigures DEF IInv
  <2> QED BY <2>2, <2>3, <2>4
<1> HIDE DEF lap, level, clean, known
<1>4. Driven(next) /\ next.stops = car.stops
  <2>1. car \in Cars /\ 2 \in 1..2 /\ TRUE \in BOOLEAN /\ FALSE \in BOOLEAN
    BY DEF IInv, Driven
  <2>2. next \in Cars /\ next.lap = lap /\ next.stops = car.stops /\ next.clean = clean
    BY <1>3, <2>1, Recorded DEF Cars
  <2> QED BY <1>3, <2>2 DEF Driven
<1> HIDE DEF next
<1>5. /\ Known(plan') /\ RevisionsTellThePlan'
      /\ plan' # NoPlan => plan'.done = IF plan = NoPlan THEN 0 ELSE plan.done
      /\ ~next.pit /\ plan' # NoPlan =>
           \E new : plan'.els = new.els /\ Settled(next, plan, bus, new)
  BY <1>2, <1>4, RefreshPlanSettles
<1>6. UNCHANGED <<bus, snapshot, tries>>
  BY DEF CrossLine
<1>7. plan' # NoPlan => plan'.done <= car'.stops
  <2>1. car.stops \in Nat
    BY DEF IInv, Driven, Cars
  <2> QED BY <1>2, <1>4, <1>5, <2>1 DEF IInv
<1> QED BY <1>2, <1>4, <1>5, <1>6, <1>7 DEF IInv

\* The pit exit: what is cleared is logged as cleared.
LEMMA StopConsumed ==
  ASSUME IInv, NEW c, ConsumeStop(c)
  PROVE  /\ Known(plan') /\ RevisionsTellThePlan'
         /\ plan' # NoPlan => plan # NoPlan /\ plan'.done = plan.done + 1
<1>1. CASE plan = NoPlan
  BY <1>1 DEF ConsumeStop, IInv, RevisionsTellThePlan
<1>2. CASE plan # NoPlan
  <2> DEFINE gone == {n \in StopElements \cup TyreElements : plan.els[n] # NoElement}
             target == plan.els["fuel_per_lap"]
             relearn == target # NoElement /\ target.by = "agent" /\ c.known
             els == [n \in Elements |->
                       CASE n \in gone -> NoElement
                         [] n = "fuel_per_lap" /\ relearn -> New(Learned, "derived")
                         [] OTHER -> plan.els[n]]
             changes == [n \in gone \cup (IF relearn THEN {"fuel_per_lap"} ELSE {}) |->
                           IF n \in gone THEN NoElement ELSE Learned]
  <2>1. Revise(els, changes, plan.done + 1)
    BY <1>2 DEF ConsumeStop
  <2>2. plan \in Plans /\ Planned(plan.els) /\ plan.done + 1 \in Nat /\ Elems(plan) = plan.els
    BY <1>2 DEF IInv, Known, Plans, Elems
  <2>3. gone \subseteq Elements /\ "fuel_per_lap" \notin gone /\ "fuel_per_lap" \in Elements
    BY DEF StopElements, TyreElements, Elements
  <2>4. /\ New(Learned, "derived") \in Slots /\ New(Learned, "derived") # NoElement
        /\ New(Learned, "derived").val = Learned /\ Learned \in Figures("fuel_per_lap")
    <3>1. Learned \in Figures("fuel_per_lap")
      BY FiguresHold DEF Learned, Saves
    <3> QED BY <2>3, <3>1, NewSlot
  <2>5. ASSUME NEW n \in Elements
        PROVE  \/ n \in gone /\ els[n] = NoElement
               \/ n \notin gone /\ n = "fuel_per_lap" /\ relearn /\ els[n] = New(Learned, "derived")
               \/ n \notin gone /\ ~(n = "fuel_per_lap" /\ relearn) /\ els[n] = plan.els[n]
    <3> HIDE DEF gone, relearn
    <3>1. CASE n \in gone
      BY <2>3, <3>1
    <3>2. CASE n \notin gone /\ n = "fuel_per_lap" /\ relearn
      BY <3>2
    <3>3. CASE n \notin gone /\ ~(n = "fuel_per_lap" /\ relearn)
      BY <3>3
    <3> QED BY <3>1, <3>2, <3>3
  <2>6. Planned(els)
    <3>1. els = [n \in Elements |-> els[n]]
      OBVIOUS
    <3> HIDE DEF els, changes, gone, relearn
    <3>2. ASSUME NEW n \in Elements
          PROVE  /\ els[n] \in Slots \cup {NoElement}
                 /\ els[n] # NoElement => els[n].val \in Figures(n)
      BY <2>2, <2>4, <2>5 DEF Planned, ElementMaps
    <3>3. els \in ElementMaps
      BY <3>1, <3>2 DEF ElementMaps
    <3> QED BY <3>2, <3>3 DEF Planned
  <2>7. Tells(Elems(plan), [els |-> els, changes |-> changes])
    <3>1. DOMAIN changes = gone \cup (IF relearn THEN {"fuel_per_lap"} ELSE {})
      OBVIOUS
    <3>2. \A n \in DOMAIN changes : changes[n] = IF n \in gone THEN NoElement ELSE Learned
      OBVIOUS
    <3> HIDE DEF els, changes, gone, relearn
    <3>3. ASSUME NEW n \in Elements
          PROVE  IF n \in DOMAIN changes THEN ValueOf(els, n) = changes[n]
                 ELSE els[n] = Elems(plan)[n]
      BY <2>2, <2>4, <2>5, <3>1, <3>2 DEF ValueOf
    <3> QED BY <2>3, <3>1, <3>3 DEF Tells
  <2> HIDE DEF els, changes
  <2> QED BY <1>2, <2>1, <2>2, <2>6, <2>7, Revised DEF IInv
<1> QED BY <1>1, <1>2

LEMMA PitsLeft == ASSUME IInv, LeavePits PROVE IInv'
<1>1. PICK level \in {l \in Refuels : l >= car.level} \cup {car.level} :
        LET next == [car EXCEPT !.pit = FALSE, !.hadPit = TRUE, !.clean = 0,
                                !.stops = @ + 1, !.level = level]
        IN  car' = next /\ ConsumeStop(next)
  BY DEF LeavePits
<1> DEFINE stops == car.stops + 1
           next == [car EXCEPT !.pit = FALSE, !.hadPit = TRUE, !.clean = 0,
                               !.stops = stops, !.level = level]
<1>2. car' = next /\ ConsumeStop(next)
  BY <1>1
<1>3. /\ car \in Cars /\ stops \in Nat /\ stops > car.stops /\ level \in 0..Tank
      /\ FALSE \in BOOLEAN /\ TRUE \in BOOLEAN /\ 0 \in Nat /\ car.stops \in Nat
  BY SizesAssumption DEF IInv, Driven, Cars
<1>4. car.lap \in 1..Laps
  BY CarFigures DEF IInv
<1> HIDE DEF stops
<1>5. Driven(next) /\ next.stops = stops
  <2>1. next \in Cars /\ next.lap = car.lap /\ next.stops = stops /\ next.clean = 0
    BY <1>3, Recorded DEF Cars
  <2> QED BY <1>4, <2>1 DEF Driven
<1> HIDE DEF next
<1>6. Known(plan') /\ RevisionsTellThePlan' /\ (plan' # NoPlan => plan'.done <= car'.stops)
  <2>1. /\ Known(plan') /\ RevisionsTellThePlan'
        /\ plan' # NoPlan => plan # NoPlan /\ plan'.done = plan.done + 1
    BY <1>2, StopConsumed
  <2>2. plan # NoPlan => plan.done \in Nat /\ plan.done <= car.stops
    BY DEF IInv, Known, Plans
  <2>3. car'.stops = car.stops + 1
    BY <1>2, <1>5 DEF stops
  <2> QED BY <1>3, <2>1, <2>2, <2>3
<1>7. OneRule(bus')
  <2>1. /\ bus \in Seq(Events) /\ [type |-> "pit_exit"] \in Events
        /\ bus' = Append(bus, [type |-> "pit_exit"])
    BY DEF IInv, OneRule, Events, LeavePits
  <2>2. bus' \in Seq(Events) /\ Len(bus') = Len(bus) + 1 /\ DOMAIN bus' = 1..(Len(bus) + 1)
        /\ DOMAIN bus = 1..Len(bus) /\ Len(bus) \in Nat
    BY <2>1
  <2>3. ASSUME NEW i \in DOMAIN bus', bus'[i].type = "regulation_change"
        PROVE  i \in DOMAIN bus /\ bus[i].type = "regulation_change"
    <3>1. i = Len(bus) + 1 => bus'[i].type = "pit_exit"
      BY <2>1
    <3>2. i \in DOMAIN bus
      BY <2>2, <2>3, <3>1
    <3>3. bus'[i] = bus[i]
      BY <2>1, <2>2, <3>2
    <3> QED BY <2>3, <3>2, <3>3
  <2> QED BY <2>2, <2>3 DEF IInv, OneRule
<1> QED BY <1>2, <1>5, <1>6, <1>7 DEF IInv, LeavePits

LEMMA OneRuleWritten == ASSUME IInv, Regulate PROVE IInv'
<1>1. PICK window \in Regulations :
        bus' = Append(bus, [type |-> "regulation_change", window |-> window])
  BY DEF Regulate
<1> DEFINE e == [type |-> "regulation_change", window |-> window]
<1>2. bus \in Seq(Events) /\ e \in Events /\ bus' = Append(bus, e)
  BY <1>1 DEF IInv, OneRule, Events
<1> HIDE DEF e
<1>3. /\ bus' \in Seq(Events) /\ DOMAIN bus' = 1..(Len(bus) + 1) /\ DOMAIN bus = 1..Len(bus)
      /\ Len(bus) \in Nat
  BY <1>2
<1>4. ASSUME NEW i \in DOMAIN bus', bus'[i].type = "regulation_change" PROVE i = Len(bus) + 1
  <2>1. i \in DOMAIN bus => bus'[i] = bus[i]
    BY <1>2, <1>3
  <2>2. i \notin DOMAIN bus
    BY <1>4, <2>1 DEF Regulate
  <2> QED BY <1>3, <2>2
<1>5. OneRule(bus')
  BY <1>3, <1>4 DEF OneRule
<1> QED BY <1>5 DEF IInv, Regulate, RevisionsTellThePlan

LEMMA SnapshotTaken == ASSUME IInv, Wake PROVE IInv'
<1>1. PICK first \in 1..(Len(bus) + 1) :
        snapshot' = [car |-> car, events |-> SubSeq(bus, first, Len(bus))]
  BY DEF Wake
<1> DEFINE events == SubSeq(bus, first, Len(bus))
<1>2. bus \in Seq(Events) /\ Len(bus) \in Nat /\ first \in Nat /\ first >= 1
  BY DEF IInv, OneRule
<1>3. /\ events \in Seq(Events)
      /\ \A i \in DOMAIN events : first + i - 1 \in DOMAIN bus /\ events[i] = bus[first + i - 1]
  BY <1>2
<1>4. DOMAIN events \subseteq Int
  BY <1>3
<1> HIDE DEF events
<1>5. OneRule(events)
  <2>1. ASSUME NEW i \in DOMAIN events, NEW j \in DOMAIN events,
               events[i].type = "regulation_change", events[j].type = "regulation_change"
        PROVE  i = j
    <3>1. first + i - 1 = first + j - 1
      BY <1>3, <2>1 DEF IInv, OneRule
    <3> QED BY <1>2, <1>4, <3>1
  <2> QED BY <1>3, <2>1 DEF OneRule
<1>6. snapshot'.car = car /\ snapshot'.events = events
  BY <1>1 DEF events
<1> QED BY <1>5, <1>6 DEF IInv, Wake, RevisionsTellThePlan

\* What is new in a proposal that is accepted becomes the strategist's, and is logged.
LEMMA ProposalWritten == ASSUME IInv, Propose PROVE IInv'
<1> DEFINE new(proposal) == {n \in DOMAIN proposal : proposal[n] # ValueOf(plan.els, n)}
           values(proposal) == [n \in new(proposal) |-> proposal[n]]
           c == snapshot.car
           out(proposal) == Repriced(c, Proposed(plan.els, values(proposal)), values(proposal))
<1>1. PICK proposal \in Proposals :
        IF plan # NoPlan /\ Accepts(c, values(proposal), snapshot.events)
        THEN Revise(out(proposal).els, out(proposal).changes, plan.done)
        ELSE UNCHANGED <<plan, shown>>
  BY DEF Propose
<1>2. tries' \in 0..MaxTries
  BY SizesAssumption DEF IInv, Propose
<1>3. CASE UNCHANGED <<plan, shown>>
  BY <1>2, <1>3 DEF IInv, Propose, RevisionsTellThePlan
<1>4. CASE /\ plan # NoPlan /\ Accepts(c, values(proposal), snapshot.events)
           /\ Revise(out(proposal).els, out(proposal).changes, plan.done)
  <2> DEFINE v == values(proposal)
             els == out(proposal).els
             changes == out(proposal).changes
  <2>1. /\ plan \in Plans /\ Planned(plan.els) /\ plan.done \in Nat /\ Elems(plan) = plan.els
        /\ Driven(c) /\ OneRule(snapshot.events) /\ plan.done <= car.stops
    BY <1>4 DEF IInv, Known, Plans, Elems, Propose
  <2>2. \A n \in DOMAIN v :
          n \in Elements /\ v[n] \in (IF n = "tyre_posture" THEN Postures ELSE Int)
    BY ProposalsAssumption
  <2>3. Accepts(c, v, snapshot.events)
    BY <1>4
  <2>4. els = Repriced(c, Proposed(plan.els, v), v).els
        /\ changes = Repriced(c, Proposed(plan.els, v), v).changes
    OBVIOUS
  <2>5. Revise(els, changes, plan.done)
    BY <1>4
  <2> HIDE DEF v, els, changes
  <2>6. Planned(Proposed(plan.els, v)) /\ \A n \in DOMAIN v : v[n] \in Figures(n)
    BY <2>1, <2>2, <2>3, AcceptedFits
  <2>7. Planned(els) /\ Tells(plan.els, [els |-> els, changes |-> changes])
    <3>1. DOMAIN v \subseteq Elements
      BY <2>2
    <3> QED BY <2>1, <2>4, <2>6, <3>1, RepricedTells DEF Tells
  <2>8. Known(plan') /\ plan'.done = plan.done /\ RevisionsTellThePlan'
    BY <2>1, <2>5, <2>7, Revised DEF IInv
  <2> QED BY <1>2, <2>1, <2>8 DEF IInv, Propose
<1> QED BY <1>1, <1>3, <1>4

LEMMA HalfWayRound == ASSUME IInv, HalfWay PROVE IInv'
<1>1. PICK burn \in Burns :
        /\ car.level >= burn
        /\ car' = [car EXCEPT !.left = 1, !.level = @ - burn, !.green = @ /\ burn = 1]
  BY DEF HalfWay
<1> DEFINE level == car.level - burn
           green == car.green /\ burn = 1
           next == [car EXCEPT !.left = 1, !.level = level, !.green = green]
<1>2. car' = next
  BY <1>1
<1>3. /\ car \in Cars /\ 1 \in 1..2 /\ green \in BOOLEAN /\ level \in 0..Tank
  BY <1>1, CarFigures DEF IInv, Driven, Cars, Burns
<1> HIDE DEF level, green
<1>4. Driven(next) /\ next.stops = car.stops
  BY <1>3, Recorded DEF IInv, Driven, Cars
<1> HIDE DEF next
<1> QED BY <1>2, <1>4 DEF IInv, HalfWay, RevisionsTellThePlan

LEMMA PitsEntered == ASSUME IInv, EnterPits PROVE IInv'
<1>1. Driven(car') /\ car'.stops = car.stops
  BY DEF IInv, Driven, Cars, EnterPits
<1> QED BY <1>1 DEF IInv, EnterPits, RevisionsTellThePlan

LEMMA NextInv == IInv /\ [Next]_vars => IInv'
<1> SUFFICES ASSUME IInv, [Next]_vars PROVE IInv'
  OBVIOUS
<1>1. CASE HalfWay
  BY <1>1, HalfWayRound
<1>2. CASE CrossLine
  BY <1>2, LineCrossed
<1>3. CASE EnterPits
  BY <1>3, PitsEntered
<1>4. CASE LeavePits
  BY <1>4, PitsLeft
<1>5. CASE Regulate
  BY <1>5, OneRuleWritten
<1>6. CASE Wake
  BY <1>6, SnapshotTaken
<1>7. CASE Sleep
  BY <1>7 DEF Sleep, IInv, RevisionsTellThePlan
<1>8. CASE Propose
  BY <1>8, ProposalWritten
<1>9. CASE UNCHANGED vars
  BY <1>9 DEF vars, IInv, RevisionsTellThePlan
<1> QED BY <1>1, <1>2, <1>3, <1>4, <1>5, <1>6, <1>7, <1>8, <1>9 DEF Next
-------------------------------------------------------------------------------
\* What is planned can be run: at every moment the planned stop is on a lap of the race or
\* of a regulation's window, and the fuel to add at it is a tankful at most.  The values
\* that stop_plan, simulate_pit_outcome and a checked proposal write, for every distance,
\* tank, fuel level and burn.
THEOREM TypeCorrect == Spec => []TypeOK
<1>1. IInv => TypeOK
  <2> SUFFICES ASSUME IInv PROVE TypeOK
    OBVIOUS
  <2>1. car.lap \in 1..Laps /\ car.left \in 1..2 /\ car.level \in 0..Tank
    BY CarFigures DEF IInv
  <2>2. car.stops \in Nat
    BY DEF IInv, Driven, Cars
  <2>3. ASSUME plan # NoPlan PROVE plan.done \in 0..car.stops
    BY <2>2, <2>3 DEF IInv, Known, Plans
  <2>4. ASSUME plan # NoPlan, NEW n \in Elements, plan.els[n] # NoElement
        PROVE  plan.els[n].val \in Figures(n) /\ plan.els[n].by \in {"derived", "agent"}
    <3>1. plan.els[n] \in Slots /\ plan.els[n].val \in Figures(n)
      BY <2>4 DEF IInv, Known, Planned, ElementMaps
    <3> QED BY <3>1 DEF Slots
  <2> QED BY <2>1, <2>3, <2>4 DEF TypeOK, IInv
<1> QED BY InitInv, NextInv, <1>1, PTL DEF Spec

\* The accepted revisions, read in order, are the plan: no writer of the plan (the refresh
\* at the line, the pit exit, an accepted proposal with its re-priced refuel) changes an
\* element without logging it.
THEOREM RevisionsTell == Spec => []RevisionsTellThePlan
<1>1. IInv => RevisionsTellThePlan
  BY DEF IInv
<1> QED BY InitInv, NextInv, <1>1, PTL DEF Spec

\* The strategist's choices that refresh_plan keeps at a lap line are feasible together in
\* the plan it leaves, and a regulation still to be served is planned for, although each
\* element was judged in the plan as it stood at its own turn of the loop.
THEOREM LineSettles == Spec => SettledAtTheLine
<1> DEFINE A == (car'.lap # car.lap /\ ~car'.pit /\ plan' # NoPlan) =>
                  LET rule == Pending(car', bus)
                  IN  /\ \A n \in Elements :
                           (plan'.els[n] # NoElement /\ plan'.els[n].by = "agent")
                             => Feasible(car', plan'.els, n, rule)
                      /\ (rule # NoRule /\ car'.known) => plan'.els["stop_count"].val >= 1
<1>1. ASSUME IInv, [Next]_vars PROVE A
  <2> SUFFICES ASSUME car'.lap # car.lap, ~car'.pit, plan' # NoPlan PROVE A
    OBVIOUS
  <2>1. CrossLine
    <3>1. HalfWay \/ EnterPits \/ LeavePits => car'.lap = car.lap
      <4>1. car \in Cars
        BY <1>1 DEF IInv, Driven
      <4>2. HalfWay => car'.lap = car.lap
        BY <4>1 DEF HalfWay, Cars
      <4>3. EnterPits => car'.lap = car.lap
        BY <4>1 DEF EnterPits, Cars
      <4>4. LeavePits => car'.lap = car.lap
        BY <4>1 DEF LeavePits, Cars
      <4> QED BY <4>2, <4>3, <4>4
    <3>2. Regulate \/ Wake \/ Sleep \/ Propose \/ UNCHANGED vars => car' = car
      BY DEF Regulate, Wake, Sleep, Propose, vars
    <3> QED BY <1>1, <3>1, <3>2 DEF Next
  <2> DEFINE next == car'
             els == plan'.els
             rule == Pending(next, bus)
  <2>2. PICK new : els = new.els /\ Settled(next, plan, bus, new)
    BY <1>1, <2>1, LineCrossed
  <2>3. Driven(next)
    BY <1>1, <2>1, LineCrossed
  <2> HIDE DEF next, els
  <2>4. ASSUME NEW n \in Elements, els[n] # NoElement, els[n].by = "agent"
        PROVE  Feasible(next, els, n, rule)
    BY <2>2, <2>4 DEF Settled, Chosen
  <2>5. ASSUME rule # NoRule, next.known PROVE els["stop_count"].val >= 1
    <3>1. /\ "stop_count" \in DOMAIN Derived(next, plan, bus)
          /\ Derived(next, plan, bus)["stop_count"] \in Nat
          /\ Derived(next, plan, bus)["stop_count"] >= 1
      BY <2>3, <2>5, DerivedStops
    <3>2. CASE Chosen(els["stop_count"])
      <4>1. Feasible(next, els, "stop_count", rule)
        BY <2>4, <3>2 DEF Chosen, Elements
      <4> QED BY <2>5, <4>1 DEF Feasible
    <3>3. CASE ~Chosen(els["stop_count"])
      <4>1. els["stop_count"].val = Derived(next, plan, bus)["stop_count"]
        BY <2>2, <3>1, <3>3 DEF Settled
      <4> QED BY <3>1, <4>1
    <3> QED BY <3>2, <3>3
  <2> QED BY <2>4, <2>5 DEF next, els
<1> QED BY InitInv, NextInv, <1>1, PTL DEF Spec, SettledAtTheLine
===============================================================================
