-------------------------------- MODULE Signals --------------------------------
(***************************************************************************)
(* The signal generators, one step at a time, the references from one      *)
(* point to another, and the shared world.                                 *)
(*                                                                         *)
(* Values are in thousandths, to which the code rounds what it gives out.  *)
(* A generator g has a model, bounds <<low, high>> or <<>>, and what its   *)
(* configuration says.  Its state s has the value it keeps, what it gave   *)
(* out last, an integral and the last error.  A step t brings the seconds  *)
(* since the last one and since the start, the noise that is drawn, and    *)
(* what its references resolve to, or Missing.                             *)
(*                                                                         *)
(* Sources: adapters/simulation/generators/*.py, world.py.                 *)
(***************************************************************************)
EXTENDS Rounding, SequencesExt

CONSTANT Missing  \* no such point, or no number

Within(bounds, v) == bounds = <<>> \/ v \in bounds[1]..bounds[2]

(* clamp.  Mutant: only from above.                                        *)
CappedAbove(bounds, v) == IF bounds # <<>> /\ v > bounds[2] THEN bounds[2] ELSE v

Bound(bounds, v) == IF bounds = <<>> THEN v ELSE Clamp(bounds[1], bounds[2], v)

(* _finish *)
Finish(g, t, v) == Bound(g.bounds, v + t.noise)

Emit(s, out) == [s EXCEPT !.out = out]
Keep(s, value, out) == [s EXCEPT !.value = value, !.out = out]

-----------------------------------------------------------------------------
Constant(g, s, t) == Emit(s, Finish(g, t, g.level))

(* t.sine is the sine of the hour, from -1000 to 1000. *)
Sine(g, s, t) == Emit(s, Finish(g, t, g.level + (g.amplitude * t.sine) \div 1000))

GaussianNoise(g, s, t) == Emit(s, Bound(g.bounds, g.level + t.noise))

(* The walk is kept within its bounds; it is drawn to its centre by a      *)
(* percentage of the way.                                                  *)
RandomWalk(g, s, t) ==
  LET drawn == s.value + t.noise
      v == Bound(g.bounds, drawn + ((g.level - drawn) * g.percent) \div 100)
  IN  Keep(s, v, v)

(* The states are given out as they are, without bounds. *)
MultistateCycle(g, s, t) ==
  Emit(s, IF g.states = <<>> THEN s.value
          ELSE g.states[((t.seconds \div (IF g.period < 1 THEN 1 ELSE g.period)) % Len(g.states)) + 1])

Square(g, s, t) ==
  Emit(s, Finish(g, t, IF 100 * (t.seconds % g.period) < Clamp(0, 100, g.percent) * g.period
                       THEN g.level + g.amplitude ELSE g.level))

(* The way to the target that is left shrinks by a percentage, which is    *)
(* exponential in the time; without a target the value is given out again. *)
FirstOrderLag(g, s, t) ==
  LET v == IF t.target = Missing THEN s.value
           ELSE s.value + ((t.target - s.value) * t.percent) \div 100
  IN  Keep(s, v, Finish(g, t, v))

(* Mutant: the last step is as long as the others. *)
RampOvershooting(g, s, t) ==
  LET delta == g.level - s.value
      step == g.rate * t.dt
      v == IF delta >= 0 THEN s.value + step ELSE s.value - step
  IN  Keep(s, v, Finish(g, t, v))

(* The kept value is not bounded, only the one that is given out.  Without *)
(* hold it goes to and fro about the target.                               *)
Ramp(g, s, t) ==
  LET delta == g.level - s.value
      step == g.rate * t.dt
      v == IF delta \in (-step)..step /\ g.hold THEN g.level
           ELSE IF delta >= 0 THEN s.value + step ELSE s.value - step
  IN  Keep(s, v, Finish(g, t, v))

(* The integral is clamped to the bounds of the output, which are set for  *)
(* every controller.  Gains are in thousandths.                            *)
PidActuator(g, s, t) ==
  LET error == IF g.reverse THEN t.process - t.target ELSE t.target - t.process
      integral == Bound(g.bounds, s.integral + error * t.dt)
      slope == IF s.error = Missing \/ t.dt <= 0 THEN 0 ELSE (error - s.error) \div t.dt
      out == Bound(g.bounds, (g.kp * error + g.ki * integral + g.kd * slope) \div 1000)
  IN  IF t.process = Missing \/ t.target = Missing THEN Emit(s, s.value)
      ELSE [value |-> out, out |-> out, integral |-> integral, error |-> error]

(* t.result is the value of the expression, Missing if it or one of its    *)
(* sources is. *)
Derived(g, s, t) ==
  IF t.result = Missing THEN Emit(s, Bound(g.bounds, s.value))
  ELSE Keep(s, Bound(g.bounds, t.result), Bound(g.bounds, t.result))

WorldVar(g, s, t) ==
  LET v == Finish(g, t, (g.percent * t.target) \div 100 + g.level)
  IN  IF t.target = Missing THEN Emit(s, s.value) ELSE Keep(s, v, v)

Step(g, s, t) ==
  CASE g.model = "constant" -> Constant(g, s, t)
    [] g.model = "sine" -> Sine(g, s, t)
    [] g.model = "random_walk" -> RandomWalk(g, s, t)
    [] g.model = "gaussian_noise" -> GaussianNoise(g, s, t)
    [] g.model = "multistate_cycle" -> MultistateCycle(g, s, t)
    [] g.model = "square" -> Square(g, s, t)
    [] g.model = "first_order_lag" -> FirstOrderLag(g, s, t)
    [] g.model = "ramp" -> Ramp(g, s, t)
    [] g.model = "pid_actuator" -> PidActuator(g, s, t)
    [] g.model = "derived" -> Derived(g, s, t)
    [] g.model = "world_var" -> WorldVar(g, s, t)

-----------------------------------------------------------------------------
(* resolve_ref.  A key is a device and the parts of an object name; a      *)
(* reference is a whole key, the name of an object, or its last part.  The *)
(* first key that fits counts, in the order the values were entered.       *)
Resolve(keys, ref) ==
  LET FirstOf(Fits(_)) == SelectInSeq(keys, Fits)
      whole == FirstOf(LAMBDA k : k = ref)
      object == FirstOf(LAMBDA k : Tail(k) = ref)
      bare == FirstOf(LAMBDA k : <<Last(k)>> = ref)
  IN  IF whole # 0 THEN whole ELSE IF object # 0 THEN object ELSE bare

(* WorldModel.step: occupancy by the hour, and air that changes with it; a *)
(* share of the way is given in percent.  The zone takes part of the       *)
(* outdoor temperature, of the people and of the valves.                   *)
Occupied(mode, hour) == mode = "24x7" \/ (mode = "office" /\ hour \in 7..18)

CO2Occupied == 900000
CO2Empty == 420000
HumidityOccupied == 55000
HumidityEmpty == 42000

Relax(v, target, percent) == v + ((target - v) * percent) \div 100

WorldStep(w, mode, hour, outdoor, dt, share, cooling, heating, fan) ==
  LET occupied == Occupied(mode, hour)
      authority == (12 * (heating - cooling) * (IF fan = Missing THEN 100 ELSE 20 + (80 * fan) \div 100)) \div 10
  IN  [outdoor |-> outdoor,
       co2 |-> Relax(w.co2, IF occupied THEN CO2Occupied ELSE CO2Empty, share),
       humidity |-> Relax(w.humidity, IF occupied THEN HumidityOccupied ELSE HumidityEmpty, share),
       zone |-> w.zone + ((outdoor - w.zone + (IF occupied THEN 3000 ELSE 0) + authority) * dt) \div 7200]

-----------------------------------------------------------------------------
(* A generator stays within its bounds, at every step, except a cycle of   *)
(* states, which has none, and a controller or a mirror of the world that  *)
(* has had nothing to follow yet: it gives out what the point was.         *)
InBounds(g, s, t) ==
  LET u == Step(g, s, t)
  IN  \/ Within(g.bounds, u.out)
      \/ g.model = "multistate_cycle"
      \/ g.model \in {"pid_actuator", "world_var"} /\ u.out = s.value
         /\ (t.target = Missing \/ t.process = Missing)

(* What follows a target comes nearer and does not pass it, whatever the   *)
(* time of a step; an integral is never wound up beyond the bounds.        *)
Follows(g, s, t) ==
  LET u == Step(g, s, t)
      target == IF g.model = "ramp" THEN g.level ELSE t.target
      Between(a, v, b) == (a <= v /\ v <= b) \/ (b <= v /\ v <= a)
  IN  /\ (g.model = "first_order_lag" /\ target # Missing) \/ (g.model = "ramp" /\ g.hold) =>
           Between(s.value, u.value, target)
      /\ g.model = "pid_actuator" /\ Within(g.bounds, s.integral) => Within(g.bounds, u.integral)

(* A reference is to the most exact fit, whatever comes first.             *)
ResolvesExactly(keys, ref) ==
  LET found == Resolve(keys, ref)
      Fit(k) == IF k = ref THEN 3 ELSE IF Tail(k) = ref THEN 2 ELSE IF <<Last(k)>> = ref THEN 1 ELSE 0
  IN  IF found = 0 THEN \A i \in DOMAIN keys : Fit(keys[i]) = 0
      ELSE Fit(keys[found]) > 0 /\ \A i \in DOMAIN keys :
             Fit(keys[i]) <= Fit(keys[found]) /\ (Fit(keys[i]) = Fit(keys[found]) => found <= i)

(* The air stays between its two levels, and an empty zone without heating *)
(* and cooling comes nearer to the outdoor temperature without passing it, *)
(* as long as a step is at most two simulated hours.                       *)
WorldStays(w, mode, hour, outdoor, dt, share, cooling, heating, fan) ==
  LET u == WorldStep(w, mode, hour, outdoor, dt, share, cooling, heating, fan)
      Between(a, v, b) == (a <= v /\ v <= b) \/ (b <= v /\ v <= a)
  IN  /\ w.co2 \in CO2Empty..CO2Occupied => u.co2 \in CO2Empty..CO2Occupied
      /\ w.humidity \in HumidityEmpty..HumidityOccupied => u.humidity \in HumidityEmpty..HumidityOccupied
      /\ dt <= 7200 /\ heating = cooling /\ ~Occupied(mode, hour) => Between(w.zone, u.zone, outdoor)
================================================================================
