------------------------------ MODULE Prediction ------------------------------
(***************************************************************************)
(* The predictions of failures, the health of an asset and the figures of  *)
(* the fleet.                                                              *)
(*                                                                         *)
(* A point has its value, the count, mean and deviation of the last hour   *)
(* of history, the hard limits of its unit, and the rows of its stored     *)
(* forecasts.  A row has the time it was made, the minute from now it is   *)
(* about (negative: past) and three quantiles.  Values are in fiftieths.   *)
(* None stands for what is missing.                                        *)
(*                                                                         *)
(* Source: application/prediction_service.py.                              *)
(***************************************************************************)
EXTENDS Rounding, Positions, SequencesExt

CONSTANT None

MinHistory == 8

(* The deviation, a fiftieth of the mean if there is none, or one.         *)
Spread(p) ==
  IF p.deviation # 0 THEN p.deviation
  ELSE IF p.mean # 0 THEN (IF p.mean > 0 THEN p.mean ELSE -p.mean) \div 50
  ELSE 50

(* The operating envelope: four deviations, or the hard limits inside.     *)
High(p) == Min({p.mean + 4 * Spread(p)} \cup ({p.hardHigh} \ {None}))
Low(p) == Max({p.mean - 4 * Spread(p)} \cup ({p.hardLow} \ {None}))

Beyond(v, p) == v # None /\ (v >= High(p) \/ v <= Low(p))

(* A batch by the time it is about, rows without a time first.             *)
Earlier(a, b) == b.at # None /\ (a.at = None \/ a.at < b.at)

ByTime(rows, batch) ==
  LET order == InOrder(batch, {e \in batch \X batch : Earlier(rows[e[1]], rows[e[2]])})
  IN  [k \in 1..Cardinality(batch) |-> rows[order[k]]]

(* _latest_trajectory.  Mutant: all batches that are stored.               *)
EveryTrajectory(rows) == ByTime(rows, DOMAIN rows)

LatestTrajectory(rows) ==
  LET newest == Max({rows[i].made : i \in DOMAIN rows})
  IN  IF rows = <<>> THEN <<>> ELSE ByTime(rows, {i \in DOMAIN rows : rows[i].made = newest})

LevelFor(eta) == IF eta <= 30 THEN "critical" ELSE IF eta <= 120 THEN "high" ELSE "elevated"

Prediction(p, level, eta, predicted, rising, confidence) ==
  [point |-> p.name, device |-> p.device, level |-> level, eta |-> eta, predicted |-> predicted,
   bound |-> IF rising THEN High(p) ELSE Low(p), rising |-> rising, confidence |-> confidence]

(* _degradation_watch: from the first to the last step, past ones too.     *)
Watch(p, steps) ==
  LET known == {k \in DOMAIN steps : steps[k].p50 # None}
      last == steps[Max(known)].p50
      slope == last - steps[Min(known)].p50
      span == High(p) - Low(p)
      margin == IF slope > 0 THEN High(p) - last ELSE last - Low(p)
  IN  IF /\ Cardinality(known) >= 2 /\ span > 0
         /\ 2 * (IF slope > 0 THEN slope ELSE -slope) > Spread(p)
         /\ 5 * margin < 2 * span
      THEN <<Prediction(p, "watch", None, last, slope > 0, "low")>>
      ELSE <<>>

(* Whether a step counts as a breach to come.  Mutant: a past one does.    *)
BreachesEver(f, p) == f.at # None /\ Beyond(f.p50, p)

Breaches(f, p) == f.at # None /\ f.at >= 0 /\ Beyond(f.p50, p)

(* _evaluate_point: the value first, then the first step that is beyond.   *)
EvaluateAlong(p, steps) ==
  LET first == SelectInSeq(steps, LAMBDA f : Breaches(f, p))
      step == steps[first]
      rising == step.p50 >= High(p)
      edge == IF rising THEN step.p90 # None /\ step.p90 >= High(p)
              ELSE step.p10 # None /\ step.p10 <= Low(p)
  IN  IF p.count < MinHistory \/ steps = <<>> THEN <<>>
      ELSE IF Beyond(p.value, p)
      THEN <<Prediction(p, "critical", 0, p.value, p.value >= High(p), "high")>>
      ELSE IF first # 0
      THEN <<Prediction(p, LevelFor(step.at), step.at, step.p50, rising,
                        IF edge THEN "high" ELSE "medium")>>
      ELSE Watch(p, steps)

Evaluate(p) == EvaluateAlong(p, LatestTrajectory(p.rows))

(* scan_predictions: the critical points, the most urgent first.           *)
Rank == [critical |-> 0, high |-> 1, elevated |-> 2, watch |-> 3]

MoreUrgent(a, b) ==
  \/ Rank[a.level] < Rank[b.level]
  \/ Rank[a.level] = Rank[b.level] /\ a.eta # None /\ (b.eta = None \/ a.eta < b.eta)

(* The critical points that something is predicted for. *)
Warned(points) == {i \in DOMAIN points : points[i].critical /\ Evaluate(points[i]) # <<>>}

Ranked(result) ==
  LET found == DOMAIN result
      order == InOrder(found, {e \in found \X found : MoreUrgent(result[e[1]], result[e[2]])})
  IN  [k \in 1..Cardinality(found) |-> result[order[k]]]

Scan(points) == Ranked([i \in Warned(points) |-> Evaluate(points[i])[1]])

-----------------------------------------------------------------------------
Weight == [critical |-> 40, high |-> 25, medium |-> 10, low |-> 5]

SumOver(f, S) == MapThenSumSet(LAMBDA i : f[i], S)

OfDevice(seq, device) == {i \in DOMAIN seq : seq[i].device = device}
Failures(predictions) == {i \in DOMAIN predictions : predictions[i].level # "watch"}

Score(device, alarms, predictions) ==
  LET weights == [i \in DOMAIN alarms |-> Weight[alarms[i].severity]]
      failures == OfDevice(predictions, device) \cap Failures(predictions)
  IN  Clamp(0, 100, 100 - SumOver(weights, OfDevice(alarms, device)) - 20 * Cardinality(failures))

(* asset_health *)
HealthBy(predictions, device, alarms) ==
  LET score == Score(device, alarms, predictions)
      etas == {predictions[i].eta : i \in OfDevice(predictions, device)} \ {None}
  IN  [score |-> score,
       status |-> IF score >= 80 THEN "Healthy" ELSE IF score >= 50 THEN "Watch" ELSE "At-Risk",
       rul |-> IF etas = {} THEN None ELSE Min(etas)]

Health(device, alarms, points) == HealthBy(Scan(points), device, alarms)

(* fleet_kpi, for the sequence of the devices of the assets. *)
KpiBy(predictions, assets, alarms) ==
  LET scores == [i \in DOMAIN assets |-> Score(assets[i], alarms, predictions)]
      n == Len(assets)
  IN  [average |-> IF n = 0 THEN 100 ELSE Round(SumOver(scores, DOMAIN assets), n),
       atRisk |-> Cardinality({i \in DOMAIN assets : scores[i] < 50}),
       failures |-> Cardinality(Failures(predictions)),
       levels |-> [l \in DOMAIN Rank |->
                    Cardinality({i \in DOMAIN predictions : predictions[i].level = l})]]

Kpi(assets, alarms, points) == KpiBy(Scan(points), assets, alarms)

-----------------------------------------------------------------------------
(* A failure is predicted for a point exactly if its value is beyond its   *)
(* envelope now, or a step of its newest forecast that is not past will    *)
(* be; the time that is given is that of the first such step, and the      *)
(* bound the one that is passed.  A watch has no such step, and heads for  *)
(* its bound; nothing says that its forecast is not past.                  *)
GroundedFor(p) ==
  LET result == Evaluate(p)
      newest == {i \in DOMAIN p.rows : \A j \in DOMAIN p.rows : p.rows[j].made <= p.rows[i].made}
      ahead == {i \in newest : p.rows[i].at # None /\ p.rows[i].at >= 0 /\ Beyond(p.rows[i].p50, p)}
      now == Beyond(p.value, p)
  IN  p.count >= MinHistory /\ p.rows # <<>> =>
        /\ (result # <<>> /\ result[1].level # "watch") <=> (now \/ ahead # {})
        /\ result # <<>> =>
             LET r == result[1]
             IN  /\ r.level # "watch" =>
                      /\ r.eta = (IF now THEN 0 ELSE Min({p.rows[i].at : i \in ahead}))
                      /\ IF r.rising THEN r.predicted >= r.bound ELSE r.predicted <= r.bound
                 /\ r.level = "watch" =>
                      \E i, j \in {k \in newest : p.rows[k].p50 # None} :
                        IF r.rising THEN p.rows[i].p50 < p.rows[j].p50
                        ELSE p.rows[i].p50 > p.rows[j].p50

(* Every critical point that something is predicted for is in the scan,    *)
(* the most urgent first; an asset lives as long as its first failure is   *)
(* away; and the figures of the fleet are those of its assets.  One        *)
(* predicted failure alone leaves an asset healthy, however near it is.    *)
HealthAgrees(assets, alarms, points) ==
  LET predictions == Scan(points)
      health == [i \in DOMAIN assets |-> Health(assets[i], alarms, points)]
      kpi == Kpi(assets, alarms, points)
      AtRisk == {i \in DOMAIN assets : health[i].status = "At-Risk"}
      Near(r, d) == r.device = d /\ r.level # "watch"
  IN  /\ Len(predictions) = Cardinality(Warned(points))
      /\ \A i \in Warned(points) : \E k \in DOMAIN predictions : predictions[k] = Evaluate(points[i])[1]
      /\ \A i, j \in DOMAIN predictions : i < j => ~MoreUrgent(predictions[j], predictions[i])
      /\ \A i \in DOMAIN assets :
           /\ health[i].score \in 0..100
           /\ health[i].rul # None <=> \E k \in DOMAIN predictions : Near(predictions[k], assets[i])
           /\ \A k \in DOMAIN predictions :
                Near(predictions[k], assets[i]) => health[i].rul <= predictions[k].eta
           /\ health[i].status = "Healthy" =>
                \A k \in DOMAIN alarms : alarms[k].device = assets[i] => alarms[k].severity \in {"medium", "low"}
      /\ kpi.atRisk = Cardinality(AtRisk)
      /\ kpi.failures = kpi.levels["critical"] + kpi.levels["high"] + kpi.levels["elevated"]
      /\ assets # <<>> => /\ \E i \in DOMAIN assets : health[i].score <= kpi.average
                          /\ \E i \in DOMAIN assets : health[i].score >= kpi.average
================================================================================
