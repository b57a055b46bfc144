------------------------------ MODULE RacePlan ------------------------------
(* The race plan (racestate/plan.py), the stop plan it is derived from         *)
(* (racestate/strategy_math.py, the window of engine._recompute_fuel_plan) and *)
(* the two ways it is written: the engine's refresh at each lap line and pit   *)
(* exit, and a strategist's proposal, checked against the snapshot its run was *)
(* shown and written into the live plan.  Distances are half laps and fuel is  *)
(* the half laps it lasts, so a lap burns two units and the reserve of half a  *)
(* lap is one.                                                                 *)
EXTENDS Integers, Sequences

CONSTANTS Laps,         \* laps of the race, as the sim counts them
          Tank,         \* the tank's capacity
          StartLevels,  \* fuel at the start
          Refuels,      \* levels a pit stop fills the tank to
          Regulations,  \* [from, to] windows of a mandatory stop
          FitLaps,      \* clean laps a stint needs before its lap times are fitted
          LongStint,    \* CONSERVE_MIN_LAPS_LEFT
          PaceBand,     \* PACE_BAND, in steps of the fitted lap time
          Proposals,    \* the proposals a model makes: partial functions on Elements
          MaxTries,     \* bound: proposals in a race
          MaxStops,     \* bound: pit stops in a race
          Push, Neutral, Conserve,
          NoPlan, NoElement, NoRule, NoSnapshot

Elements == {"stop_count", "next_stop_lap", "fuel_to_add", "fuel_per_lap", "pace_target", "tyre_posture"}
StopElements == {"stop_count", "next_stop_lap", "fuel_to_add"}
TyreElements == {"pace_target", "tyre_posture"}
Postures == {Push, Neutral, Conserve}
Slots == [val : Int \cup Postures, by : {"derived", "agent"}]

\* A tank holds a lap at least.
ASSUME SizesAssumption ==
  /\ Laps \in Nat \ {0} /\ Tank \in Nat \ {0, 1}
  /\ StartLevels \cup Refuels \subseteq 0..Tank
  /\ FitLaps \in Nat \ {0} /\ MaxTries \in Nat
  /\ \A w \in Regulations : w.from \in Int /\ w.to \in Int
ASSUME NoneAssumption ==
  /\ NoElement \notin Slots \cup Int \cup Postures
  /\ NoPlan \notin [els : [Elements -> Slots \cup {NoElement}], done : Nat]
\* _coerce: what a proposal holds is a number, or one of the postures.
ASSUME ProposalsAssumption ==
  \A p \in Proposals : \A n \in DOMAIN p :
    n \in Elements /\ p[n] \in (IF n = "tyre_posture" THEN Postures ELSE Int)

VARIABLES car,      \* the player, the fuel and the laps of RaceState
          bus,      \* regulations and pit exits in the bus history, oldest first
          plan,     \* RaceState.plan
          snapshot, \* what the strategist's run was shown: state, events
          tries,    \* proposals made
          shown     \* the plan its accepted revisions add up to

vars == <<car, bus, plan, snapshot, tries, shown>>

Learned == 20      \* fuel per lap, in tenths of a unit
Saves == {20, 18}  \* targets within MAX_FUEL_SAVE_FRACTION of it
Burns == {0, 1}    \* a half lap under a caution or under green

Init == /\ car \in {[lap |-> 1, left |-> 2, level |-> f, known |-> FALSE, green |-> TRUE,
                     pit |-> FALSE, hadPit |-> FALSE, stops |-> 0, clean |-> 0]
                       : f \in StartLevels}
        /\ bus = <<>>
        /\ plan = NoPlan
        /\ snapshot = NoSnapshot
        /\ tries = 0
        /\ shown = [n \in Elements |-> NoElement]

--------------------------------------------------------------------------
(* The fuel picture *)

AtLeast(a, b) == IF a >= b THEN a ELSE b
AtMost(a, b) == IF a <= b THEN a ELSE b
HalvesUp(n) == (n + 1) \div 2

ToFinish(c) == 2 * (Laps - c.lap) + c.left
Margin(c) == c.level - ToFinish(c)
StopRequired(c) == Margin(c) < 0
LatestLap(c) == c.lap + AtLeast(0, (c.level - c.left) \div 2)
EarliestLap(c) == c.lap + AtLeast(0, HalvesUp(ToFinish(c) - c.left - Tank))

StopsNeeded(c) ==
  IF StopRequired(c) THEN AtLeast(1, (Tank - 1 - Margin(c)) \div Tank) ELSE 0

\* strategy_math.stop_plan: the latest lap that keeps the reserve, inside the window.
TargetLap(c) ==
  LET reach == c.lap + AtLeast(0, (c.level - c.left - 1) \div 2)
  IN  AtLeast(AtMost(reach, LatestLap(c)), AtLeast(EarliestLap(c), c.lap))

\* strategy_math.simulate_pit_outcome for a stop at the end of `stop`.
LapsBefore(c, stop) == 2 * AtLeast(0, stop - c.lap) + c.left
FuelAtStop(c, stop) == AtLeast(0, c.level - LapsBefore(c, stop))
LapsAfter(c, stop) == AtLeast(0, ToFinish(c) - LapsBefore(c, stop))

\* Mutant: the refuel is not capped at the tank's capacity.
Refuel_Uncapped(c, stop) == AtLeast(0, LapsAfter(c, stop) + 1 - FuelAtStop(c, stop))

Refuel(c, stop) == AtLeast(0, AtMost(Tank, LapsAfter(c, stop) + 1) - FuelAtStop(c, stop))

Fitted(c) == c.clean >= FitLaps

--------------------------------------------------------------------------
(* The mandatory stop *)

\* mandatory_stop(events): the newest regulation, served by a later pit exit.
MandatoryStop(events) ==
  LET at == {i \in DOMAIN events : events[i].type = "regulation_change"}
      last == CHOOSE i \in at : \A j \in at : j <= i
  IN  IF at = {} THEN NoRule
      ELSE [window |-> events[last].window,
            served |-> \E i \in last..Len(events) : events[i].type = "pit_exit"]

Pending(c, events) ==
  LET rule == MandatoryStop(events)
  IN  IF rule = NoRule THEN NoRule
      ELSE IF rule.served \/ c.lap > rule.window.to THEN NoRule ELSE rule.window

Allows(window, lap) == window.from <= lap /\ lap <= window.to

--------------------------------------------------------------------------
(* Feasibility *)

ValueOf(els, name) == IF els[name] = NoElement THEN NoElement ELSE els[name].val
OneStop(els) == els["stop_count"] = NoElement \/ els["stop_count"].val = 1

\* The elements the plan `els` would fail on if only `name` were checked.
Feasible(c, els, name, rule) ==
  LET v == els[name].val
      lap == IF els["next_stop_lap"] # NoElement THEN els["next_stop_lap"].val
             ELSE IF StopRequired(c) THEN TargetLap(c) ELSE c.lap
      need == IF els["next_stop_lap"] = NoElement THEN ToFinish(c)
              ELSE LapsBefore(c, els["next_stop_lap"].val)
  IN  CASE name = "stop_count" ->
             /\ c.known
             /\ v >= StopsNeeded(c)
             /\ rule # NoRule => v >= 1
             /\ v <= HalvesUp(ToFinish(c))
        [] name = "next_stop_lap" ->
             /\ c.known
             /\ rule # NoRule => Allows(rule, v)
             /\ StopRequired(c) \/ rule # NoRule
             /\ c.lap <= v /\ v <= LatestLap(c)
             /\ OneStop(els) => v >= EarliestLap(c)
        [] name = "fuel_to_add" ->
             /\ c.known
             /\ v <= Tank - FuelAtStop(c, lap)
             /\ OneStop(els) => FuelAtStop(c, lap) + v >= LapsAfter(c, lap)
        [] name = "fuel_per_lap" ->
             /\ c.known
             /\ v \in Saves
             /\ c.level * Learned >= need * v
        [] name = "pace_target" ->
             /\ c.clean > 0
             /\ v - c.clean \in (-PaceBand)..PaceBand
        [] OTHER -> TRUE

--------------------------------------------------------------------------
(* Derivation and refresh *)

Empty == [n \in Elements |-> NoElement]
Elems(p) == IF p = NoPlan THEN Empty ELSE p.els

\* derive(): what the data supports now, by name.
Derived(c, p, events) ==
  LET chosen == Elems(p)["next_stop_lap"]
      lap == IF chosen # NoElement /\ chosen.by = "agent" THEN chosen.val ELSE TargetLap(c)
      end == IF chosen # NoElement THEN chosen.val
             ELSE IF c.known /\ StopRequired(c) THEN TargetLap(c) ELSE Laps
      value == [n \in Elements |->
                  CASE n = "stop_count" ->
                         IF ~StopRequired(c) /\ Pending(c, events) # NoRule THEN 1
                         ELSE StopsNeeded(c)
                    [] n = "next_stop_lap" -> TargetLap(c)
                    [] n = "fuel_to_add" -> Refuel(c, lap)
                    [] n = "fuel_per_lap" -> Learned
                    [] n = "pace_target" -> c.clean
                    [] OTHER -> IF end - c.lap >= LongStint THEN Conserve ELSE Neutral]
      names == (IF c.known THEN {"stop_count", "fuel_per_lap"} ELSE {})
               \cup (IF c.known /\ StopRequired(c) THEN {"next_stop_lap", "fuel_to_add"} ELSE {})
               \cup (IF Fitted(c) THEN TyreElements ELSE {})
  IN  [n \in names |-> value[n]]

New(val, by) == [val |-> val, by |-> by]

Set(acc, name, element) ==
  [els |-> [acc.els EXCEPT ![name] = element],
   changes |-> [n \in DOMAIN acc.changes \cup {name} |->
                  IF n # name THEN acc.changes[n]
                  ELSE IF element = NoElement THEN NoElement ELSE element.val]]

\* refresh_plan, of one element; `base` is the plan it judges `name` in.
RefreshOne(c, acc, base, name, derived, rule) ==
  LET current == acc.els[name]
      standing == current # NoElement /\ current.by = "agent"
  IN  IF standing /\ Feasible(c, base, name, rule) THEN acc
      ELSE IF name \in DOMAIN derived
      THEN IF ~standing /\ ValueOf(acc.els, name) = derived[name] THEN acc
           ELSE Set(acc, name, New(derived[name], "derived"))
      ELSE IF current = NoElement THEN acc
      ELSE Set(acc, name, NoElement)

\* Mutant: the element is judged in the plan as it stood before the refresh.
Turn_InTheOldPlan(c, p, events, acc, name) ==
  RefreshOne(c, acc, Elems(p), name, Derived(c, p, events), Pending(c, events))
\* A turn judges its element in the plan as the loop has made it.
Turn(c, p, events, acc, name) ==
  RefreshOne(c, acc, acc.els, name, Derived(c, p, events), Pending(c, events))

\* The loop, in the order of ELEMENTS.
Refreshed(c, p, events) ==
  LET After(acc, name) == Turn(c, p, events, acc, name)
      start == [els |-> Elems(p), changes |-> <<>>]
      stop == After(After(After(start, "stop_count"), "next_stop_lap"), "fuel_to_add")
  IN  After(After(After(stop, "fuel_per_lap"), "pace_target"), "tyre_posture")

Revise(els, changes, done) ==
  /\ plan' = [els |-> els, done |-> done]
  /\ shown' = [n \in Elements |-> IF n \in DOMAIN changes THEN changes[n] ELSE shown[n]]

\* engine._refresh_plan at a lap line, for the car as the line leaves it.
RefreshPlan(c) ==
  LET new == Refreshed(c, plan, bus)
  IN  IF c.pit \/ DOMAIN new.changes = {}
      THEN UNCHANGED <<plan, shown>>
      ELSE Revise(new.els, new.changes, IF plan = NoPlan THEN 0 ELSE plan.done)

\* _consume_stop: the stop was made, so the stop and tyre elements wait.
ConsumeStop(c) ==
  LET gone == {n \in StopElements \cup TyreElements : plan.els[n] # NoElement}
      target == plan.els["fuel_per_lap"]
      relearn == target # NoElement /\ target.by = "agent" /\ c.known
      els == [n \in Elements |->
                CASE n \in gone -> NoElement
                  [] n = "fuel_per_lap" /\ relearn -> New(Learned, "derived")
                  [] OTHER -> plan.els[n]]
      changes == [n \in gone \cup (IF relearn THEN {"fuel_per_lap"} ELSE {}) |->
                    IF n \in gone THEN NoElement ELSE Learned]
  IN  IF plan = NoPlan THEN UNCHANGED <<plan, shown>>
      ELSE Revise(els, changes, plan.done + 1)

--------------------------------------------------------------------------
(* The car *)

\* Half way round: the fuel window follows the car, the plan waits for the line.
HalfWay ==
  /\ car.left = 2
  /\ \E burn \in Burns :
       /\ car.level >= burn
       /\ car' = [car EXCEPT !.left = 1, !.level = @ - burn, !.green = @ /\ burn = 1]
  /\ UNCHANGED <<bus, plan, snapshot, tries, shown>>

\* engine._check_lap_boundary: the lap's fuel is learned if it was clean, then the plan refreshed.
CrossLine ==
  /\ car.left = 1 /\ car.lap < Laps
  /\ \E burn \in Burns :
       LET isClean == car.green /\ burn = 1 /\ ~car.hadPit
           next == [car EXCEPT !.lap = @ + 1, !.left = 2, !.level = @ - burn, !.green = TRUE,
                               !.hadPit = FALSE, !.known = @ \/ isClean,
                               !.clean = @ + (IF isClean THEN 1 ELSE 0)]
       IN  /\ car.level >= burn
           /\ car' = next
           /\ RefreshPlan(next)
  /\ UNCHANGED <<bus, snapshot, tries>>

\* engine._pit_transitions, "entry".
EnterPits ==
  /\ ~car.pit /\ car.left = 1 /\ car.stops < MaxStops
  /\ car' = [car EXCEPT !.pit = TRUE, !.hadPit = TRUE]
  /\ UNCHANGED <<bus, plan, snapshot, tries, shown>>

\* engine._pit_transitions, "exit": new tyres, a refuelled car, and the plan's stop consumed.
LeavePits ==
  /\ car.pit
  /\ \E level \in {l \in Refuels : l >= car.level} \cup {car.level} :
       LET next == [car EXCEPT !.pit = FALSE, !.hadPit = TRUE, !.clean = 0,
                               !.stops = @ + 1, !.level = level]
       IN  car' = next /\ ConsumeStop(next)
  /\ bus' = Append(bus, [type |-> "pit_exit"])
  /\ UNCHANGED <<snapshot, tries>>

\* The race director announces a mandatory stop (director/overlay.py).
Regulate ==
  /\ \A i \in DOMAIN bus : bus[i].type # "regulation_change"
  /\ \E window \in Regulations :
       bus' = Append(bus, [type |-> "regulation_change", window |-> window])
  /\ UNCHANGED <<car, plan, snapshot, tries, shown>>

--------------------------------------------------------------------------
(* The strategist *)

\* orchestrator._run_agent: a copy of the state and the newest EVENT_CONTEXT events.
Wake ==
  /\ snapshot = NoSnapshot /\ tries < MaxTries
  /\ \E first \in 1..(Len(bus) + 1) :
       snapshot' = [car |-> car, events |-> SubSeq(bus, first, Len(bus))]
  /\ UNCHANGED <<car, bus, plan, tries, shown>>

Sleep ==
  /\ snapshot # NoSnapshot
  /\ snapshot' = NoSnapshot
  /\ UNCHANGED <<car, bus, plan, tries, shown>>

\* The laps, fuel figures and lap times of proposal_facts that are the data's own.
DataLaps(c) ==
  1..c.lap \cup IF c.known
                THEN {EarliestLap(c), LatestLap(c)} \cup {LatestLap(c) + n : n \in 1..3}
                     \cup IF StopRequired(c) THEN {TargetLap(c)} ELSE {}
                ELSE {}
DataFuel(c, stop) ==
  {c.level, Tank} \cup IF c.known
                       THEN {ToFinish(c), FuelAtStop(c, stop), Refuel(c, stop), Refuel(c, TargetLap(c))}
                       ELSE {}
DataPaces(c) == 1..c.clean

\* _unsupported: the pit outcome asked for the proposed lap says that lap back.
Backed(c, values, stop) ==
  \A n \in DOMAIN values :
    CASE n = "next_stop_lap" -> values[n] \in DataLaps(c) \cup {stop}
      [] n = "fuel_to_add" -> values[n] \in DataFuel(c, stop)
      [] n = "fuel_per_lap" -> c.known
      [] n = "pace_target" -> values[n] \in DataPaces(c)
      [] OTHER -> TRUE

Proposed(els, values) ==
  [n \in Elements |-> IF n \in DOMAIN values THEN New(values[n], "agent") ELSE els[n]]

Accepts(c, values, events) ==
  LET merged == Proposed(plan.els, values)
      stop == IF merged["next_stop_lap"] = NoElement THEN c.lap ELSE merged["next_stop_lap"].val
  IN  /\ DOMAIN values # {}
      /\ Backed(c, values, stop)
      /\ \A n \in DOMAIN values : Feasible(c, merged, n, Pending(c, events))

\* Mutant: the fuel re-priced for a new stop lap is left out of the revision.
Repriced_Unlogged(c, els, values) ==
  LET fuel == Refuel(c, values["next_stop_lap"])
  IN  IF "next_stop_lap" \in DOMAIN values /\ "fuel_to_add" \notin DOMAIN values
         /\ c.known /\ ValueOf(els, "fuel_to_add") # fuel
      THEN [els |-> [els EXCEPT !["fuel_to_add"] = New(fuel, "derived")], changes |-> values]
      ELSE [els |-> els, changes |-> values]

\* The refuel follows the lap: re-priced for the new stop, as derived.
Repriced(c, els, values) ==
  LET fuel == Refuel(c, values["next_stop_lap"])
      acc == [els |-> els, changes |-> values]
  IN  IF "next_stop_lap" \in DOMAIN values /\ "fuel_to_add" \notin DOMAIN values
         /\ c.known /\ ValueOf(els, "fuel_to_add") # fuel
      THEN Set(acc, "fuel_to_add", New(fuel, "derived"))
      ELSE acc

\* engine.propose_plan_revision: checked against the snapshot, written into the live plan.
Propose ==
  /\ snapshot # NoSnapshot /\ tries < MaxTries
  /\ tries' = tries + 1
  /\ \E proposal \in Proposals :
       LET c == snapshot.car
           new == {n \in DOMAIN proposal : proposal[n] # ValueOf(plan.els, n)}
           values == [n \in new |-> proposal[n]]
       IN  IF plan # NoPlan /\ Accepts(c, values, snapshot.events)
           THEN LET out == Repriced(c, Proposed(plan.els, values), values)
                IN  Revise(out.els, out.changes, plan.done)
           ELSE UNCHANGED <<plan, shown>>
  /\ UNCHANGED <<car, bus, snapshot>>

Next == HalfWay \/ CrossLine \/ EnterPits \/ LeavePits \/ Regulate \/ Wake \/ Sleep \/ Propose
Spec == Init /\ [][Next]_vars

--------------------------------------------------------------------------
(* Properties *)

Figures(name) == CASE name = "stop_count" -> 0..Laps
                 [] name = "next_stop_lap" -> 1..Laps \cup UNION {w.from..w.to : w \in Regulations}
                 [] name = "fuel_to_add" -> 0..Tank
                 [] name = "fuel_per_lap" -> Saves
                 [] name = "pace_target" -> 1..Laps
                 [] OTHER -> Postures

\* A planned stop is on a lap of the race or of a regulation's window (which may end past
\* the flag: sanity_check does not look), and what goes in at it is a tankful at most: the
\* window arithmetic of stop_plan and simulate_pit_outcome, whatever was burnt.
TypeOK ==
  /\ car.lap \in 1..Laps /\ car.left \in 1..2 /\ car.level \in 0..Tank
  /\ plan = NoPlan \/ /\ plan.done \in 0..car.stops
                      /\ \A n \in Elements : \/ plan.els[n] = NoElement
                                             \/ /\ plan.els[n].val \in Figures(n)
                                                /\ plan.els[n].by \in {"derived", "agent"}
  /\ tries \in 0..MaxTries

\* Reading the accepted revisions in order, and nothing else, gives the plan: a change
\* that is written and not logged (propose_revision's re-priced fuel, a pit exit's
\* cleared elements) would leave the review and the journal with another plan.
RevisionsTellThePlan == \A n \in Elements : shown[n] = ValueOf(Elems(plan), n)

\* What a strategist set and refresh_plan kept at a lap line is feasible as one plan
\* with everything else it kept or derived there, not only element by element; and a
\* mandatory stop still to be made is planned for.
SettledAtTheLine ==
  [][ (car'.lap # car.lap /\ ~car'.pit /\ plan' # NoPlan) =>
        LET rule == Pending(car', bus)
        IN  /\ \A n \in Elements :
                 (plan'.els[n] # NoElement /\ plan'.els[n].by = "agent")
                   => Feasible(car', plan'.els, n, rule)
            /\ (rule # NoRule /\ car'.known) => plan'.els["stop_count"].val >= 1 ]_vars

\* plan.py's _consume_stop: after a pit exit "stop and tyre elements wait for the
\* data"; a stop that was made is not planned again from a picture older than it.
StopMadeIsNotReplanned ==
  [][ (Propose /\ plan' # plan /\ snapshot.car.stops < car.stops) =>
        plan'.els["next_stop_lap"] = plan.els["next_stop_lap"] ]_vars

\* plan.py: "the fuel to add is then priced for that lap".
RefuelIsForTheStop ==
  [][ (car'.lap # car.lap /\ ~car'.pit /\ plan' # plan) =>
        LET els == plan'.els
        IN  (/\ els["next_stop_lap"] # NoElement
             /\ els["fuel_to_add"] # NoElement /\ els["fuel_to_add"].by = "derived")
               => els["fuel_to_add"].val = Refuel(car', els["next_stop_lap"].val) ]_vars

=============================================================================
