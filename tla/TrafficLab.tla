----------------------------- MODULE TrafficLab -----------------------------
(***************************************************************************)
(* The TrafficLab simulation (trafficlab/src/lib.rs): two grids of         *)
(* junctions run side by side, one that computes what a green light lets   *)
(* through on every tick and one that looks it up in a cache.  A frame     *)
(* runs ticks of the first grid and then of the second until its time is   *)
(* up; the control panel changes the settings between frames.              *)
(*                                                                         *)
(* Time is in milliseconds, rates in 1/10000 vehicle per lane and second,  *)
(* the arrival accumulator in 1/60000 vehicle: the code's f64 arithmetic   *)
(* is exact enough for the same integers.  The random generator is the     *)
(* sequence of its draws, repeated.  Counters that are only displayed      *)
(* (ticks, seconds, vehicles so far, waiting time, hits, TPS) are left out.*)
(***************************************************************************)
EXTENDS Integers, Sequences, FiniteSets

CONSTANTS Panels,         \* the settings the first frame finds
          Draws,          \* the sequences of draws the generator may give
          PerLane,        \* vehicles a lane holds (8 in the code)
          CheckInterval,  \* ticks between two looks at the clock (32)
          MaxIters,       \* ticks of one side in a frame (50000)
          Rates, Cycles, Lanes, Speeds, Grids,   \* arguments of the setters
          MaxChanges      \* bound: calls of setters and reset

ASSUME TrafficAssumption ==
    /\ Panels \subseteq [vehicles : Nat, cycle : Nat, lanes : 1..6, speed : {1, 10, 100, 1000},
                         freeLeft : BOOLEAN, splitting : BOOLEAN]
    /\ Draws # {} /\ \A d \in Draws : d \in Seq(Nat) /\ d # <<>>
    /\ {PerLane, CheckInterval, MaxIters} \subseteq Nat \ {0}
    /\ Rates \union Cycles \union Lanes \union Speeds \union Grids \subseteq Nat
    /\ MaxChanges \in Nat

Sides == {"nocache", "cached"}
Arms == {"north", "south", "east", "west"}
Phases == {"NSGreen", "AllRed", "EWGreen"}
Greens(phase) == IF phase = "NSGreen" THEN {"north", "south"}
                 ELSE IF phase = "EWGreen" THEN {"east", "west"}
                 ELSE {}

VARIABLES config,    \* SimConfig
          size,      \* grid_size
          cells,     \* nocache and cached: each side's junctions, row-major
          cache,     \* sim_cache.store
          seeds,     \* the draws each side's generators start with
          pc,        \* which loop of step_frame runs, or "idle"
          iters,     \* ticks of that loop so far
          changes    \* bound
vars == <<config, size, cells, cache, seeds, pc, iters, changes>>

Least(a, b) == IF a < b THEN a ELSE b
Most(a, b) == IF a > b THEN a ELSE b

\* SimState::new; the seeds of two junctions differ.
Rotate(d) == Append(Tail(d), Head(d))
NewState(seed, i) ==
    [signal |-> "NSGreen", elapsed |-> 0, accum |-> 0, queues |-> [a \in Arms |-> 0],
     rng |-> IF i % 2 = 0 THEN seed ELSE Rotate(seed)]
NewGrid(n) == [s \in Sides |-> [i \in 0..(n * n - 1) |-> NewState(seeds[s], i)]]

Init == /\ config \in Panels
        /\ size = 1
        /\ seeds \in [Sides -> Draws]
        /\ cells = NewGrid(1)
        /\ cache = << >>
        /\ pc = "idle" /\ iters = 0 /\ changes = 0

-----------------------------------------------------------------------------
(* The control panel.                                                      *)

Change == pc = "idle" /\ changes < MaxChanges /\ changes' = changes + 1
Set(field, value) ==
    /\ Change /\ config' = [config EXCEPT ![field] = value]
    /\ UNCHANGED <<size, cells, cache, seeds, pc, iters>>

SetVehiclesPerMin == \E v \in Rates : Set("vehicles", v)
SetSignalCycleSecs == \E s \in Cycles : Set("cycle", Most(s, 10))
SetLaneCount == \E l \in Lanes : Set("lanes", Least(Most(l, 1), 6))
SetSpeedMultiplier == \E s \in Speeds : Set("speed", IF s \in {1, 10, 100, 1000} THEN s ELSE 1)
SetFreeLeftTurn == \E v \in BOOLEAN : Set("freeLeft", v)
SetMotorcycleSplitting == \E v \in BOOLEAN : Set("splitting", v)

Restart(n) == /\ size' = n /\ cells' = NewGrid(n) /\ cache' = << >>
              /\ UNCHANGED <<config, seeds, pc, iters>>
Reset == Change /\ Restart(size)
SetGridSize ==
    \E n \in Grids :
        LET m == Least(Most(n, 1), 3) IN
        Change /\ IF m # size THEN Restart(m)
                  ELSE UNCHANGED <<config, size, cells, cache, seeds, pc, iters>>

Control == \/ SetVehiclesPerMin \/ SetSignalCycleSecs \/ SetLaneCount \/ SetSpeedMultiplier
           \/ SetFreeLeftTurn \/ SetMotorcycleSplitting \/ SetGridSize \/ Reset

-----------------------------------------------------------------------------
(* One tick of one side.                                                   *)

HalfCycle == config.cycle * 500
Yellow == Least(Most(HalfCycle \div 10, 2000), 5000)
LaneCap == config.lanes * PerLane

\* Mutant: after the all-red phase north and south go first again.
AdvanceSignalNorthFirst(phase, elapsed) ==
    IF elapsed < (IF phase = "AllRed" THEN Yellow ELSE HalfCycle)
    THEN [signal |-> phase, elapsed |-> elapsed]
    ELSE [signal |-> IF phase = "NSGreen" THEN "AllRed" ELSE "NSGreen", elapsed |-> 0]
\* advance_signal.  East and west give way to north and south directly.
AdvanceSignal(phase, elapsed) ==
    IF elapsed < (IF phase = "AllRed" THEN Yellow ELSE HalfCycle)
    THEN [signal |-> phase, elapsed |-> elapsed]
    ELSE [signal |-> IF phase = "NSGreen" THEN "AllRed"
                     ELSE IF phase = "AllRed" THEN "EWGreen" ELSE "NSGreen",
          elapsed |-> 0]

ArmOf(draw) == <<"north", "south", "east", "west">>[(draw % 4) + 1]

Light(c) == AdvanceSignal(c.signal, c.elapsed + config.speed)
\* step_prepare: the signal, the arrivals (a quarter to each arm, the rest drawn)
\* and the cap on the queues.
Prepare(c) ==
    LET due == c.accum + config.vehicles * config.speed
        new == due \div 60000
        rest == new % 4
        draws == [i \in 1..rest |-> c.rng[((i - 1) % Len(c.rng)) + 1]]
        drawn(a) == Cardinality({i \in 1..rest : ArmOf(draws[i]) = a})
    IN  [signal |-> Light(c).signal, elapsed |-> Light(c).elapsed, accum |-> due % 60000,
         queues |-> [a \in Arms |-> Least(c.queues[a] + new \div 4 + drawn(a), LaneCap)],
         rng |-> [i \in 1..Len(c.rng) |-> c.rng[((i - 1 + rest) % Len(c.rng)) + 1]]]

Flow == (IF config.freeLeft THEN 5500 ELSE 4170) * (IF config.splitting THEN 12 ELSE 10)
\* compute_discharge
ComputeDischarge(signal) ==
    IF signal = "AllRed" THEN 0 ELSE (config.lanes * Flow * config.speed) \div (100000 * 1000)

\* apply_discharge
ApplyDischarge(c, discharge) ==
    [c EXCEPT !.queues = [a \in Arms |-> c.queues[a] -
        (IF a \in Greens(c.signal) THEN Least(c.queues[a], discharge) ELSE 0)]]

PhaseCode(signal) == IF signal = "NSGreen" THEN 0 ELSE IF signal = "AllRed" THEN 1 ELSE 2
Bit(flag, weight) == IF flag THEN weight ELSE 0
\* The phase in bits 0..3, the lanes in 4..11, two flags in 12 and 13, the speed above.
Pack(phase, lanes, left, split, speed) == phase + lanes * 16 + left + split + speed * 16384
\* Mutant: the flag that was added last is not part of the key.
DischargeKeyOld(signal) ==
    Pack(PhaseCode(signal), config.lanes, Bit(config.freeLeft, 4096), 0, Least(config.speed, 65535))
\* discharge_key: the fields do not overlap for the values the setters let through.
DischargeKey(signal) ==
    Pack(PhaseCode(signal), config.lanes, Bit(config.freeLeft, 4096), Bit(config.splitting, 8192),
         Least(config.speed, 65535))

\* step_nocache and step_cached: what the light lets through, and the cache after it.
Lookup(side, signal) ==
    IF side = "cached" /\ DischargeKey(signal) \in DOMAIN cache
    THEN cache[DischargeKey(signal)] ELSE ComputeDischarge(signal)
Step(side, c) == LET p == Prepare(c) IN ApplyDischarge(p, Lookup(side, p.signal))
CacheAfter(side, signals) ==
    IF side = "nocache" THEN cache
    ELSE [k \in DOMAIN cache \union {DischargeKey(g) : g \in signals} |->
            IF k \in DOMAIN cache THEN cache[k]
            ELSE ComputeDischarge(CHOOSE g \in signals : DischargeKey(g) = k)]

\* route_grid: a junction under green sends vehicles to the arms that face it,
\* as many as the light would let through and not as many as it did.  An arm
\* faces one junction or the edge of the grid.
Facing(i, arm) ==
    LET r == i \div size
        c == i % size
    IN  CASE arm = "north" -> IF r > 0 THEN {i - size} ELSE {}
          [] arm = "south" -> IF r + 1 < size THEN {i + size} ELSE {}
          [] arm = "east" -> IF c + 1 < size THEN {i + 1} ELSE {}
          [] arm = "west" -> IF c > 0 THEN {i - 1} ELSE {}
Route(signal) == IF ComputeDischarge(signal) = 0 THEN 0
                 ELSE Most((ComputeDischarge(signal) * 35) \div 100, 1)
RouteGrid(g, signals, i) ==
    [g EXCEPT !.queues = [a \in Arms |->
        IF \E j \in Facing(i, a) : a \in Greens(signals[j]) /\ Route(signals[j]) > 0
        THEN Least(g.queues[a] + Route(signals[CHOOSE j \in Facing(i, a) : TRUE]), LaneCap)
        ELSE g.queues[a]]]

-----------------------------------------------------------------------------
(* step_frame.                                                             *)

Enter == pc = "idle" /\ pc' = "nocache" /\ iters' = 0
Iterate(side) == pc = side /\ iters < MaxIters /\ iters' = iters + 1 /\ pc' = pc
\* The clock is read only on every CheckInterval-th tick.  A frame that is over
\* before its first tick leaves everything as it was.
Break(side) == /\ pc = side /\ (iters >= MaxIters \/ (iters > 0 /\ iters % CheckInterval = 0))
               /\ pc' = (IF side = "nocache" THEN "cached" ELSE "idle") /\ iters' = 0

BeginFrame == Enter /\ UNCHANGED <<config, size, cells, cache, seeds, changes>>
Tick(side) ==
    /\ Iterate(side)
    /\ LET signals == [i \in DOMAIN cells[side] |-> Light(cells[side][i]).signal]
       IN  /\ cells' = [cells EXCEPT ![side] =
                 [i \in DOMAIN @ |-> RouteGrid(Step(side, @[i]), signals, i)]]
           /\ cache' = CacheAfter(side, {signals[i] : i \in DOMAIN signals})
    /\ UNCHANGED <<config, size, seeds, changes>>
TimeUp(side) == Break(side) /\ UNCHANGED <<config, size, cells, cache, seeds, changes>>

Next == Control \/ BeginFrame \/ \E side \in Sides : Tick(side) \/ TimeUp(side)

\* The browser goes on calling step_frame, and step_frame comes to its end.
Fairness == WF_<<pc, iters>>(Enter \/ \E side \in Sides : Iterate(side) \/ Break(side))
Spec == Init /\ [][Next]_vars /\ Fairness

-----------------------------------------------------------------------------
\* Whatever the panel has been through since, a cached amount is the one that
\* the settings of the moment would give: step_cached does what step_nocache does.
CacheFaithful ==
    \A g \in Phases : DischargeKey(g) \in DOMAIN cache
                        => cache[DischargeKey(g)] = ComputeDischarge(g)

\* Once no vehicles arrive and the panel is left alone, a single junction empties,
\* on both sides, however full it was: every direction gets its green time, and
\* green lets vehicles through (not at the speeds where a tick is too short for one).
Quiet == config.vehicles = 0 /\ size = 1 /\ ComputeDischarge("NSGreen") > 0
Empty == \A side \in Sides : \A i \in DOMAIN cells[side] : \A a \in Arms :
            cells[side][i].queues[a] = 0
JunctionEmpties == <>[]Quiet => <>[]Empty
=============================================================================
