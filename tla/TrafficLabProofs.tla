-------------------------- MODULE TrafficLabProofs --------------------------
(***************************************************************************)
(* For any settings of the panel, any order of changes, frames and ticks   *)
(* and any grid: what the cached side looks up is what it would compute.   *)
(***************************************************************************)
EXTENDS TrafficLab, TLAPS

\* The settings the setters let through.
ConfigSet(A, B, C, D, E, F) ==
    [vehicles : A, cycle : B, lanes : C, speed : D, freeLeft : E, splitting : F]
Configs == ConfigSet(Nat, Nat, 1..6, {1, 10, 100, 1000}, BOOLEAN, BOOLEAN)

\* A key and an amount under the settings of another moment.
KeyOf(cfg, g) ==
    Pack(PhaseCode(g), cfg.lanes, Bit(cfg.freeLeft, 4096), Bit(cfg.splitting, 8192), Least(cfg.speed, 65535))
FlowOf(cfg) == (IF cfg.freeLeft THEN 5500 ELSE 4170) * (IF cfg.splitting THEN 12 ELSE 10)
AmountOf(cfg, g) ==
    IF g = "AllRed" THEN 0 ELSE (cfg.lanes * FlowOf(cfg) * cfg.speed) \div (100000 * 1000)

LEMMA OfTheMoment ==
    ASSUME NEW g
    PROVE  DischargeKey(g) = KeyOf(config, g) /\ ComputeDischarge(g) = AmountOf(config, g)
  BY DEF DischargeKey, KeyOf, ComputeDischarge, AmountOf, Flow, FlowOf

\* The bit fields do not overlap: two settings and phases with the same key agree
\* in everything the amount depends on.
LEMMA KeyDetermines ==
    ASSUME NEW c \in Configs, NEW d \in Configs, NEW g \in Phases, NEW h \in Phases,
           KeyOf(c, g) = KeyOf(d, h)
    PROVE  AmountOf(c, g) = AmountOf(d, h)
<1>1. \A x \in Configs : /\ x.lanes \in 1..6 /\ x.speed \in {1, 10, 100, 1000} /\ Least(x.speed, 65535) = x.speed
                         /\ x.freeLeft \in BOOLEAN /\ x.splitting \in BOOLEAN
  BY DEF Configs, ConfigSet, Least
<1>2. PhaseCode(g) \in 0..2 /\ PhaseCode(h) \in 0..2 /\ (PhaseCode(g) = PhaseCode(h) => g = h)
  BY DEF Phases, PhaseCode
<1>3. \A x \in Configs : Bit(x.freeLeft, 4096) \in {0, 4096} /\ Bit(x.splitting, 8192) \in {0, 8192}
  BY DEF Bit
<1>4. /\ Bit(c.freeLeft, 4096) = Bit(d.freeLeft, 4096) => c.freeLeft = d.freeLeft
      /\ Bit(c.splitting, 8192) = Bit(d.splitting, 8192) => c.splitting = d.splitting
  BY <1>1 DEF Bit
<1>5. Pack(PhaseCode(g), c.lanes, Bit(c.freeLeft, 4096), Bit(c.splitting, 8192), c.speed)
        = Pack(PhaseCode(h), d.lanes, Bit(d.freeLeft, 4096), Bit(d.splitting, 8192), d.speed)
  BY <1>1 DEF KeyOf
<1>6. /\ PhaseCode(g) = PhaseCode(h) /\ c.lanes = d.lanes /\ c.speed = d.speed
      /\ Bit(c.freeLeft, 4096) = Bit(d.freeLeft, 4096) /\ Bit(c.splitting, 8192) = Bit(d.splitting, 8192)
  <2> DEFINE a == PhaseCode(g)
             b == PhaseCode(h)
             fc == Bit(c.freeLeft, 4096)
             fd == Bit(d.freeLeft, 4096)
             sc == Bit(c.splitting, 8192)
             sd == Bit(d.splitting, 8192)
             lc == c.lanes
             ld == d.lanes
             vc == c.speed
             vd == d.speed
  <2>1. /\ a \in 0..2 /\ b \in 0..2 /\ lc \in 1..6 /\ ld \in 1..6
        /\ fc \in {0, 4096} /\ fd \in {0, 4096} /\ sc \in {0, 8192} /\ sd \in {0, 8192}
        /\ vc \in {1, 10, 100, 1000} /\ vd \in {1, 10, 100, 1000}
    BY <1>1, <1>2, <1>3
  <2>2. Pack(a, lc, fc, sc, vc) = Pack(b, ld, fd, sd, vd)
    BY <1>5
  <2> HIDE DEF a, b, fc, fd, sc, sd, lc, ld, vc, vd
  <2>3. a + lc * 16 + fc + sc + vc * 16384 = b + ld * 16 + fd + sd + vd * 16384
    BY <2>2 DEF Pack
  <2>4. vc = vd
    BY <2>1, <2>3
  <2>5. sc = sd
    BY <2>1, <2>3, <2>4
  <2>6. fc = fd
    BY <2>1, <2>3, <2>4, <2>5
  <2>7. lc = ld /\ a = b
    BY <2>1, <2>3, <2>4, <2>5, <2>6
  <2> QED
    BY <2>4, <2>5, <2>6, <2>7 DEF a, b, fc, fd, sc, sd, lc, ld, vc, vd
<1>7. FlowOf(c) = FlowOf(d)
  BY <1>4, <1>6 DEF FlowOf
<1> QED
  BY <1>2, <1>6, <1>7 DEF AmountOf

----------------------------------------------------------------------------
(* What CacheFaithful needs to be inductive: every amount in the cache was *)
(* computed under some settings, and its key says which.                   *)

Signals(f) == \A i \in DOMAIN f : f[i].signal \in Phases

Remembered(c) == \A k \in DOMAIN c : \E cfg \in Configs, g \in Phases : k = KeyOf(cfg, g) /\ c[k] = AmountOf(cfg, g)

CacheInv ==
    /\ config \in Configs
    /\ DOMAIN cells = Sides /\ \A side \in Sides : Signals(cells[side])
    /\ Remembered(cache)

\* A grid begins with every light green for north and south.
LEMMA NewGridSignals ==
    ASSUME NEW n
    PROVE  DOMAIN NewGrid(n) = Sides /\ \A side \in Sides : Signals(NewGrid(n)[side])
  BY DEF NewGrid, NewState, Signals, Phases

\* A junction's light after a tick is the one advance_signal chose.
LEMMA TickSignal ==
    ASSUME NEW side, NEW c, NEW signals, NEW i
    PROVE  RouteGrid(Step(side, c), signals, i).signal = Light(c).signal
<1>1. Prepare(c).signal = Light(c).signal /\ "signal" \in DOMAIN Prepare(c)
  BY DEF Prepare
<1>2. \A p, x : "signal" \in DOMAIN p => ApplyDischarge(p, x).signal = p.signal /\ "signal" \in DOMAIN ApplyDischarge(p, x)
  BY DEF ApplyDischarge
<1>3. Step(side, c).signal = Light(c).signal /\ "signal" \in DOMAIN Step(side, c)
  BY <1>1, <1>2 DEF Step
<1> QED
  BY <1>3 DEF RouteGrid

LEMMA LightPhase ==
    ASSUME NEW c, c.signal \in Phases
    PROVE  Light(c).signal \in Phases
  BY DEF Light, AdvanceSignal, Phases

\* The cache after a tick.
LEMMA CacheAfterRemembers ==
    ASSUME config \in Configs, Remembered(cache), NEW side, NEW S \in SUBSET Phases
    PROVE  Remembered(CacheAfter(side, S))
<1> DEFINE after == CacheAfter(side, S)
<1>1. CASE side = "nocache"
  BY <1>1 DEF CacheAfter
<1>2. CASE side # "nocache"
  <2>1. after = [k \in DOMAIN cache \union {DischargeKey(g) : g \in S} |->
                   IF k \in DOMAIN cache THEN cache[k]
                   ELSE ComputeDischarge(CHOOSE g \in S : DischargeKey(g) = k)]
    BY <1>2 DEF CacheAfter
  <2> SUFFICES ASSUME NEW k \in DOMAIN after
               PROVE  \E cfg \in Configs, g \in Phases : k = KeyOf(cfg, g) /\ after[k] = AmountOf(cfg, g)
    BY DEF Remembered
  <2>2. CASE k \in DOMAIN cache
    <3>1. after[k] = cache[k]
      BY <2>1, <2>2
    <3> QED
      BY <2>2, <3>1 DEF Remembered
  <2>3. CASE k \notin DOMAIN cache
    <3> DEFINE h == CHOOSE g \in S : DischargeKey(g) = k
    <3>1. \E g \in S : DischargeKey(g) = k
      BY <2>1, <2>3
    <3>2. h \in S /\ DischargeKey(h) = k
      BY <3>1
    <3>3. after[k] = ComputeDischarge(h)
      BY <2>1, <2>3
    <3> HIDE DEF h
    <3>4. k = KeyOf(config, h) /\ after[k] = AmountOf(config, h) /\ h \in Phases
      BY <3>2, <3>3, OfTheMoment
    <3> QED
      BY <3>4
  <2> QED
    BY <2>2, <2>3
<1> QED
  BY <1>1, <1>2

\* A setter changes one field.
LEMMA SetField ==
    ASSUME NEW A, NEW B, NEW C, NEW D, NEW E, NEW F,
           NEW c \in ConfigSet(A, B, C, D, E, F)
    PROVE  /\ \A x \in A : [c EXCEPT !["vehicles"] = x] \in ConfigSet(A, B, C, D, E, F)
           /\ \A x \in B : [c EXCEPT !["cycle"] = x] \in ConfigSet(A, B, C, D, E, F)
           /\ \A x \in C : [c EXCEPT !["lanes"] = x] \in ConfigSet(A, B, C, D, E, F)
           /\ \A x \in D : [c EXCEPT !["speed"] = x] \in ConfigSet(A, B, C, D, E, F)
           /\ \A x \in E : [c EXCEPT !["freeLeft"] = x] \in ConfigSet(A, B, C, D, E, F)
           /\ \A x \in F : [c EXCEPT !["splitting"] = x] \in ConfigSet(A, B, C, D, E, F)
  BY DEF ConfigSet

LEMMA SetKeeps ==
    ASSUME CacheInv, NEW field, NEW value, Set(field, value), [config EXCEPT ![field] = value] \in Configs
    PROVE  CacheInv'
  BY DEF Set, CacheInv

LEMMA ControlKeeps ==
    ASSUME CacheInv, Control
    PROVE  CacheInv'
<1>0. config \in Configs
  BY DEF CacheInv
<1>1. CASE SetVehiclesPerMin
  <2>1. PICK x \in Rates : Set("vehicles", x)
    BY <1>1 DEF SetVehiclesPerMin
  <2> DEFINE y == x
  <2>2. y \in Nat
    BY TrafficAssumption DEF Most, Least
  <2> HIDE DEF y
  <2>3. [config EXCEPT !["vehicles"] = y] \in Configs
    BY <1>0, <2>2 DEF Configs, ConfigSet
  <2>4. Set("vehicles", y)
    BY <2>1 DEF y
  <2> QED
    BY <2>3, <2>4, SetKeeps
<1>2. CASE SetSignalCycleSecs
  <2>1. PICK x \in Cycles : Set("cycle", Most(x, 10))
    BY <1>2 DEF SetSignalCycleSecs
  <2> DEFINE y == Most(x, 10)
  <2>2. y \in Nat
    BY TrafficAssumption DEF Most, Least
  <2> HIDE DEF y
  <2>3. [config EXCEPT !["cycle"] = y] \in Configs
    BY <1>0, <2>2 DEF Configs, ConfigSet
  <2>4. Set("cycle", y)
    BY <2>1 DEF y
  <2> QED
    BY <2>3, <2>4, SetKeeps
<1>3. CASE SetLaneCount
  <2>1. PICK x \in Lanes : Set("lanes", Least(Most(x, 1), 6))
    BY <1>3 DEF SetLaneCount
  <2> DEFINE y == Least(Most(x, 1), 6)
  <2>2. y \in 1..6
    <3> DEFINE z == Most(x, 1)
    <3>1. z \in Nat \ {0}
      BY TrafficAssumption DEF Most
    <3> HIDE DEF z
    <3>2. Least(z, 6) \in 1..6
      BY <3>1 DEF Least
    <3> QED
      BY <3>2 DEF z
  <2> HIDE DEF y
  <2>3. [config EXCEPT !["lanes"] = y] \in Configs
    BY <1>0, <2>2 DEF Configs, ConfigSet
  <2>4. Set("lanes", y)
    BY <2>1 DEF y
  <2> QED
    BY <2>3, <2>4, SetKeeps
<1>4. CASE SetSpeedMultiplier
  <2>1. PICK x \in Speeds : Set("speed", IF x \in {1, 10, 100, 1000} THEN x ELSE 1)
    BY <1>4 DEF SetSpeedMultiplier
  <2> DEFINE y == IF x \in {1, 10, 100, 1000} THEN x ELSE 1
  <2>2. y \in {1, 10, 100, 1000}
    BY TrafficAssumption DEF Most, Least
  <2> HIDE DEF y
  <2>3. [config EXCEPT !["speed"] = y] \in Configs
    BY <1>0, <2>2 DEF Configs, ConfigSet
  <2>4. Set("speed", y)
    BY <2>1 DEF y
  <2> QED
    BY <2>3, <2>4, SetKeeps
<1>5. CASE SetFreeLeftTurn
  <2>1. PICK x \in BOOLEAN : Set("freeLeft", x)
    BY <1>5 DEF SetFreeLeftTurn
  <2> DEFINE y == x
  <2>2. y \in BOOLEAN
    BY TrafficAssumption DEF Most, Least
  <2> HIDE DEF y
  <2>3. [config EXCEPT !["freeLeft"] = y] \in Configs
    BY <1>0, <2>2, SetField DEF Configs
  <2>4. Set("freeLeft", y)
    BY <2>1 DEF y
  <2> QED
    BY <2>3, <2>4, SetKeeps
<1>6. CASE SetMotorcycleSplitting
  <2>1. PICK x \in BOOLEAN : Set("splitting", x)
    BY <1>6 DEF SetMotorcycleSplitting
  <2> DEFINE y == x
  <2>2. y \in BOOLEAN
    BY TrafficAssumption DEF Most, Least
  <2> HIDE DEF y
  <2>3. [config EXCEPT !["splitting"] = y] \in Configs
    BY <1>0, <2>2, SetField DEF Configs
  <2>4. Set("splitting", y)
    BY <2>1 DEF y
  <2> QED
    BY <2>3, <2>4, SetKeeps
<1>7. ASSUME NEW n, Restart(n) PROVE CacheInv'
  <2>1. cells' = NewGrid(n) /\ cache' = << >> /\ config' = config
    BY <1>7 DEF Restart
  <2>2. Remembered(<< >>)
    BY DEF Remembered
  <2> QED
    BY <1>0, <2>1, <2>2, NewGridSignals DEF CacheInv
<1>8. CASE Reset
  BY <1>7, <1>8 DEF Reset
<1>9. CASE SetGridSize
  BY <1>7, <1>9 DEF SetGridSize, CacheInv
<1> QED
  BY <1>1, <1>2, <1>3, <1>4, <1>5, <1>6, <1>8, <1>9 DEF Control

LEMMA TickKeeps ==
    ASSUME CacheInv, NEW side \in Sides, Tick(side)
    PROVE  CacheInv'
<1> DEFINE signals == [i \in DOMAIN cells[side] |-> Light(cells[side][i]).signal]
           grid == [i \in DOMAIN cells[side] |-> RouteGrid(Step(side, cells[side][i]), signals, i)]
<1>1. /\ cells' = [cells EXCEPT ![side] = grid]
      /\ cache' = CacheAfter(side, {signals[i] : i \in DOMAIN signals}) /\ config' = config
  BY DEF Tick
<1>2. \A i \in DOMAIN cells[side] : Light(cells[side][i]).signal \in Phases
  BY LightPhase DEF CacheInv, Signals
<1>3. {signals[i] : i \in DOMAIN signals} \in SUBSET Phases
  BY <1>2
<1>4. Remembered(cache')
  BY <1>1, <1>3, CacheAfterRemembers DEF CacheInv
<1>5. Signals(grid)
  BY <1>2, TickSignal DEF Signals
<1> HIDE DEF grid
<1>6. DOMAIN cells' = Sides /\ \A s \in Sides : Signals(cells'[s])
  BY <1>1, <1>5 DEF CacheInv
<1> QED
  BY <1>1, <1>4, <1>6 DEF CacheInv

LEMMA CacheInvInit == Init => CacheInv
<1> SUFFICES ASSUME Init PROVE CacheInv
  OBVIOUS
<1>1. config \in Configs
  BY TrafficAssumption DEF Init, Configs, ConfigSet
<1>2. Remembered(<< >>)
  BY DEF Remembered
<1> QED
  BY <1>1, <1>2, NewGridSignals DEF Init, CacheInv

LEMMA CacheInvStep == CacheInv /\ [Next]_vars => CacheInv'
<1> SUFFICES ASSUME CacheInv, [Next]_vars PROVE CacheInv'
  OBVIOUS
<1>1. ASSUME UNCHANGED <<config, cells, cache>> PROVE CacheInv'
  BY <1>1 DEF CacheInv
<1> QED
  BY <1>1, ControlKeeps, TickKeeps DEF Next, vars, BeginFrame, TimeUp

\* Whatever the panel went through, an amount in the cache under the key of the
\* moment is the amount the settings of the moment give: the cached side of the
\* simulation computes what the other side computes (discharge_key is injective
\* on what compute_discharge reads).
THEOREM CacheIsFaithful == Spec => []CacheFaithful
<1>1. CacheInv => CacheFaithful
  <2> SUFFICES ASSUME CacheInv, NEW g \in Phases, DischargeKey(g) \in DOMAIN cache
               PROVE  cache[DischargeKey(g)] = ComputeDischarge(g)
    BY DEF CacheFaithful
  <2>1. PICK cfg \in Configs, h \in Phases : /\ DischargeKey(g) = KeyOf(cfg, h)
                                             /\ cache[DischargeKey(g)] = AmountOf(cfg, h)
    BY DEF CacheInv, Remembered
  <2>2. AmountOf(config, g) = AmountOf(cfg, h)
    BY <2>1, OfTheMoment, KeyDetermines DEF CacheInv
  <2> QED
    BY <2>1, <2>2, OfTheMoment
<1> QED
  BY <1>1, CacheInvInit, CacheInvStep, PTL DEF Spec
=============================================================================
