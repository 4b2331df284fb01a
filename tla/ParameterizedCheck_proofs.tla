------------------------ MODULE ParameterizedCheck_proofs ------------------------
(***************************************************************************)
(* check_parameterized: proofs for every configuration, every pair of      *)
(* circuits, any number of additional instantiations and any timeout.      *)
(*                                                                         *)
(* CountInv, VerdictInv and TimeInv are inductive, given Typed.  They say  *)
(* of each place of the flow what has been counted by then, what a check   *)
(* can have found, and how much of the timeout has been used up.           *)
(***************************************************************************)
EXTENDS ParameterizedCheck, TLAPS

Fields == {"time", "started", "performed"}
Counts == [Fields -> Nat]

ReportRecords ==
    [equivalence : Criteria, instantiations : Nat, time : Nat, started : Nat, performed : Nat]

Labels == {"zx", "instantiateZero", "checkZero", "loop", "returned"}

\* The type of every variable
Typed ==
    /\ circuits \in CircuitPairs
    /\ config \in Configurations /\ (config.timed <=> limit > 0)
    /\ limit \in Nat /\ additional \in Nat /\ round \in 0 .. additional
    /\ timeout \in Int /\ (limit = 0 => timeout = 0)
    /\ runtime \in Nat
    /\ res \in ReportRecords
    /\ totals \in Counts /\ spent \in Counts
    /\ elapsed \in Nat /\ instantiated \in Nat /\ refuted \in BOOLEAN
    /\ pc \in Labels
    /\ IF circuits.equivalent THEN differing = {} ELSE "random" \in differing

\* Up to the end, everything is counted.
CountInv ==
    /\ pc # "returned" => totals = spent
    /\ pc = "zx" => instantiated = 0 /\ spent = Nothing
    /\ pc = "instantiateZero" => instantiated = 0
    /\ pc = "checkZero" => instantiated = 1
    /\ pc \in {"zx", "instantiateZero", "checkZero"} => round = 0
    /\ pc = "loop" => instantiated = round + 1
    /\ TotalsCoverChecks

\* Up to the end, nothing is decided, and there is time left, unless the ZX checker has taken
\* it all.
VerdictInv ==
    /\ pc # "returned" => ~refuted
    /\ pc \notin {"instantiateZero", "returned"} => timeout >= 0
    /\ VerdictFollowsChecks

LongestCheck == Max(CheckTimes)
LongestJoin == Max(JoinTimes)
LongestInstantiation == Max(InstantiationTimes)

\* How long the joins of n checks may take
Joins(n) == n * LongestJoin

\* What has gone of the timeout, and on top of it: the joins, and in the loop the check of the
\* first instance.
TimeInv ==
    /\ pc = "zx" => elapsed = 0 /\ timeout = limit
    /\ limit > 0 /\ timeout # 0 =>
         /\ pc = "instantiateZero" => elapsed <= LongestCheck + Joins(1)
         /\ pc \in {"instantiateZero", "checkZero"} => elapsed + timeout <= limit + Joins(1)
         /\ pc = "loop" => elapsed + timeout <= limit + LongestCheck + Joins(instantiated + 1)
         /\ pc = "returned" =>
              elapsed < limit + 2 * LongestCheck + LongestInstantiation + Joins(instantiated + 1)

-----------------------------------------------------------------------------
(* Reports and sums *)

\* The constructor keeps a configuration a configuration, with a deciding checker if it had one.
LEMMA PreparedFacts ==
    ASSUME NEW c \in Configurations, NEW p \in Circuits
    PROVE  /\ Prepared(c, p) \in Configurations
           /\ Prepared(c, p).timed = c.timed
           /\ c.alternating \/ c.construction
                => Prepared(c, p).alternating \/ Prepared(c, p).construction
<1> DEFINE falls == c.alternating /\ ~p.alternatable
           bound == IF c.simulation /\ c.maxSims > p.stimuli THEN p.stimuli ELSE c.maxSims
           q == [c EXCEPT !.alternating = c.alternating /\ ~falls,
                          !.construction = c.construction \/ falls,
                          !.maxSims = bound]
<1>1. Prepared(c, p) = q
  BY DEF Prepared, Configurations
<1>2. bound \in Nat
  BY DEF Configurations, Circuits
<1>3. (c.alternating /\ ~falls) \in BOOLEAN /\ (c.construction \/ falls) \in BOOLEAN
  OBVIOUS
<1>4. q \in Configurations
  BY <1>2, <1>3 DEF Configurations
<1>5. /\ q.timed = c.timed /\ q.alternating = (c.alternating /\ ~falls)
      /\ q.construction = (c.construction \/ falls)
  BY DEF Configurations
<1> HIDE DEF q
<1> QED
  BY <1>1, <1>4, <1>5

\* The configurations of the checks
LEMMA ConfigurationsOfChecks ==
    ASSUME Typed, NEW p \in Circuits
    PROVE  /\ ZXOnly \in Configurations
           /\ WithoutZX(p) \in Configurations
           /\ WithoutZX(p).timed = config.timed /\ WithoutZX(p).zx = FALSE
           /\ config.alternating \/ config.construction
                => WithoutZX(p).alternating \/ WithoutZX(p).construction
<1>1. circuits \in Circuits /\ config \in Configurations
  BY InputAssumption DEF Typed
<1>2. ZXOnly \in Configurations
  <2>1. Prepared(config, circuits) \in Configurations
    BY <1>1, PreparedFacts
  <2> QED
    BY <2>1 DEF ZXOnly, Configurations
<1> DEFINE c == Prepared(config, p)
<1>3. c \in Configurations /\ c.timed = config.timed
      /\ (config.alternating \/ config.construction => c.alternating \/ c.construction)
  BY <1>1, PreparedFacts
<1>4. WithoutZX(p) = [c EXCEPT !.zx = FALSE]
  BY DEF WithoutZX
<1> HIDE DEF c
<1> QED
  BY <1>2, <1>3, <1>4 DEF Configurations

\* The largest of a set of times that has one
LEMMA LongestOf ==
    ASSUME NEW times, times \subseteq Nat,
           \E longest \in times : \A time \in times : time <= longest
    PROVE  /\ Max(times) \in Nat
           /\ \A t \in times : t \in Nat /\ t <= Max(times)
<1>1. \E x \in times : \A y \in times : x >= y
  OBVIOUS
<1>2. Max(times) \in times /\ \A y \in times : Max(times) >= y
  BY <1>1 DEF Max
<1> QED
  BY <1>2

\* There is a longest check, a longest join and a longest instantiation.
LEMMA LongestIs ==
    /\ LongestCheck \in Nat /\ LongestJoin \in Nat /\ LongestInstantiation \in Nat
    /\ \A t \in CheckTimes : t \in Nat /\ t <= LongestCheck
    /\ \A t \in JoinTimes : t \in Nat /\ t <= LongestJoin
    /\ \A t \in InstantiationTimes : t \in Nat /\ t <= LongestInstantiation
<1>1. LongestCheck \in Nat /\ \A t \in CheckTimes : t \in Nat /\ t <= LongestCheck
  BY InputAssumption, TimeAssumption, LongestOf DEF LongestCheck
<1>2. LongestJoin \in Nat /\ \A t \in JoinTimes : t \in Nat /\ t <= LongestJoin
  BY InputAssumption, TimeAssumption, LongestOf DEF LongestJoin
<1>3. /\ LongestInstantiation \in Nat
      /\ \A t \in InstantiationTimes : t \in Nat /\ t <= LongestInstantiation
  BY InputAssumption, TimeAssumption, LongestOf DEF LongestInstantiation
<1> QED
  BY <1>1, <1>2, <1>3

\* Every check adds a join.
LEMMA JoinsAre ==
    ASSUME NEW n \in Nat
    PROVE  /\ Joins(n) \in Nat /\ Joins(n + 1) = Joins(n) + LongestJoin
           /\ Joins(1) = LongestJoin
<1> DEFINE L == LongestJoin
<1>1. L \in Nat
  BY LongestIs
<1> HIDE DEF L
<1>2. n * L \in Nat /\ (n + 1) * L = n * L + L /\ 1 * L = L
  BY <1>1
<1> QED
  BY <1>2 DEF Joins, L

\* The time that a check takes is what it reports, and what it takes to join its threads.
LEMMA TakesTime ==
    ASSUME elapsed \in Nat, NEW time \in Nat, NEW r \in ReportRecords, Takes(time, r)
    PROVE  elapsed' \in Nat /\ elapsed' <= elapsed + time + r.time + LongestJoin
<1>1. PICK joining \in JoinTimes : elapsed' = elapsed + time + r.time + joining
  BY DEF Takes
<1>2. r.time \in Nat /\ joining \in Nat /\ joining <= LongestJoin /\ LongestJoin \in Nat
  BY LongestIs DEF ReportRecords
<1> DEFINE t == r.time
           L == LongestJoin
<1> HIDE DEF t, L
<1>3. /\ elapsed + time + t + joining \in Nat
      /\ elapsed + time + t + joining <= elapsed + time + t + L
  BY <1>2 DEF t, L
<1> QED
  BY <1>1, <1>3 DEF t, L

\* What there is in a report
LEMMA ReportFacts ==
    ASSUME NEW c \in Configurations, NEW p, NEW r \in Reports(c, p)
    PROVE  /\ r \in ReportRecords /\ r.equivalence \in Verdicts(c, p)
           /\ r.instantiations = 0 /\ r.time \in Nat /\ r.time <= LongestCheck
<1> DEFINE simulations == 0 .. IF c.simulation THEN c.maxSims ELSE 0
<1>1. r \in [equivalence : Verdicts(c, p), instantiations : {0}, time : CheckTimes,
             started : simulations, performed : simulations]
  BY DEF Reports
<1>2. simulations \subseteq Nat
  BY DEF Configurations
<1>3. CheckTimes \subseteq Nat /\ Verdicts(c, p) \subseteq Criteria
  BY InputAssumption DEF Verdicts
<1> DEFINE V == Verdicts(c, p)
           T == CheckTimes
<1> HIDE DEF simulations, V, T
<1>4. r \in [equivalence : V, instantiations : {0}, time : T, started : simulations,
             performed : simulations]
  BY <1>1 DEF V, T
<1>5. V \subseteq Criteria /\ T \subseteq Nat
  BY <1>3 DEF V, T
<1>6. r.equivalence \in V /\ r.instantiations = 0 /\ r.time \in T
      /\ r.started \in simulations /\ r.performed \in simulations
  BY <1>4
<1>7. r.equivalence \in Criteria /\ r.instantiations \in Nat /\ r.time \in Nat
      /\ r.started \in Nat /\ r.performed \in Nat
  <2>1. r.instantiations \in Nat
    BY <1>6
  <2> QED
    BY <1>2, <1>5, <1>6, <2>1, Zenon
<1>8. r = [equivalence |-> r.equivalence, instantiations |-> r.instantiations, time |-> r.time,
           started |-> r.started, performed |-> r.performed]
  BY <1>4
<1>9. r \in ReportRecords
  BY <1>7, <1>8, Zenon DEF ReportRecords
<1>10. r.time <= LongestCheck
  BY <1>6, LongestIs DEF T
<1> QED
  BY <1>6, <1>7, <1>9, <1>10 DEF V

\* Sums are field by field.
LEMMA AddedIs ==
    ASSUME NEW sums \in Counts, NEW r \in ReportRecords
    PROVE  /\ Added(sums, r) \in Counts
           /\ sums = Nothing => \A field \in Fields : Added(sums, r)[field] = r[field]
<1>1. DOMAIN sums = Fields
  BY DEF Counts
<1>2. \A field \in Fields : r[field] \in Nat
  <2>1. r["time"] = r.time /\ r["started"] = r.started /\ r["performed"] = r.performed
    OBVIOUS
  <2> QED
    BY <2>1 DEF Fields, ReportRecords
<1>3. \A field \in Fields : sums[field] \in Nat /\ sums[field] + r[field] \in Nat
  BY <1>2 DEF Counts
<1>4. Added(sums, r) = [field \in Fields |-> sums[field] + r[field]]
  BY <1>1 DEF Added
<1>5. Nothing["time"] = 0 /\ Nothing["started"] = 0 /\ Nothing["performed"] = 0
  BY DEF Nothing
<1>6. sums = Nothing => \A field \in Fields : sums[field] + r[field] = r[field]
  BY <1>2, <1>5 DEF Fields
<1> QED
  BY <1>3, <1>4, <1>6 DEF Counts

\* A report says how many instantiations there were, and the totals.
Tells(r, n, sums) ==
    /\ r \in ReportRecords /\ r.instantiations = n
    /\ \A field \in Fields : r[field] = sums[field]

\* What is written into a report
LEMMA WrittenIs ==
    ASSUME NEW r \in ReportRecords, NEW sums \in Counts, NEW n \in Nat
    PROVE  /\ Tells(Written(r, sums, n), n, sums)
           /\ Written(r, sums, n).equivalence = r.equivalence
           /\ \A e \in Criteria :
                LET w == [Written(r, sums, n) EXCEPT !.equivalence = e]
                IN  Tells(w, n, sums) /\ w.equivalence = e
<1>1. sums.time = sums["time"] /\ sums.started = sums["started"]
      /\ sums.performed = sums["performed"]
  OBVIOUS
<1>2. \A field \in Fields : sums[field] \in Nat
  BY DEF Counts
<1> DEFINE v == Written(r, sums, n)
<1>3. /\ v \in ReportRecords /\ v.equivalence = r.equivalence /\ v.instantiations = n
      /\ v.time = sums["time"] /\ v.started = sums["started"] /\ v.performed = sums["performed"]
  BY <1>1, <1>2 DEF Written, ReportRecords, Fields
<1> HIDE DEF v
<1>4. v["time"] = v.time /\ v["started"] = v.started /\ v["performed"] = v.performed
  OBVIOUS
<1>5. Tells(v, n, sums)
  BY <1>3, <1>4 DEF Tells, Fields
<1>6. ASSUME NEW e \in Criteria
      PROVE  LET w == [v EXCEPT !.equivalence = e] IN Tells(w, n, sums) /\ w.equivalence = e
  <2> DEFINE w == [v EXCEPT !.equivalence = e]
  <2>1. /\ w \in ReportRecords /\ w.equivalence = e /\ w.instantiations = n
        /\ w.time = v.time /\ w.started = v.started /\ w.performed = v.performed
    BY <1>3 DEF ReportRecords
  <2> HIDE DEF w
  <2>2. w["time"] = w.time /\ w["started"] = w.started /\ w["performed"] = w.performed
    OBVIOUS
  <2>3. Tells(w, n, sums)
    BY <1>3, <2>1, <2>2 DEF Tells, Fields
  <2> QED
    BY <2>1, <2>3 DEF w
<1> QED
  BY <1>3, <1>5, <1>6 DEF v

\* What it is when the verdict is replaced, too
LEMMA RewrittenIs ==
    ASSUME NEW r \in ReportRecords, NEW sums \in Counts, NEW n \in Nat, NEW e \in Criteria,
           NEW w, w = [Written(r, sums, n) EXCEPT !.equivalence = e]
    PROVE  /\ Tells(w, n, sums) /\ w.equivalence = e
           /\ w \in ReportRecords /\ w.instantiations = n
<1>1. Tells(w, n, sums) /\ w.equivalence = e
  BY WrittenIs
<1> QED
  BY <1>1 DEF Tells

\* Instances are circuits without parameters, and as equivalent as their parameters say.
LEMMA InstanceFacts ==
    ASSUME Typed, NEW how, NEW p \in Instances(how)
    PROVE  /\ p \in Circuits /\ p.symbolic = FALSE /\ p.empty = circuits.empty
           /\ how \notin differing => p.equivalent = TRUE
           /\ how \in differing /\ how # "phases" => p.equivalent = FALSE
<1>1. circuits \in Circuits
  BY InputAssumption DEF Typed
<1>2. PICK e \in BOOLEAN :
        /\ p = [circuits EXCEPT !.symbolic = FALSE, !.equivalent = e]
        /\ how \notin differing => e = TRUE
        /\ how \in differing /\ how # "phases" => e = FALSE
  BY DEF Instances
<1> QED
  BY <1>1, <1>2 DEF Circuits

-----------------------------------------------------------------------------
(* The invariants *)

IInv == Typed /\ CountInv /\ VerdictInv /\ TimeInv

\* The four parts hold initially.
LEMMA InitIInv == Init => IInv
<1> SUFFICES ASSUME Init PROVE IInv
  OBVIOUS
<1>0. Nothing \in Counts
  <2>1. Nothing["time"] = 0 /\ Nothing["started"] = 0 /\ Nothing["performed"] = 0
        /\ Nothing = [f \in Fields |-> Nothing[f]]
    BY DEF Nothing, Fields
  <2> QED
    BY <2>1 DEF Counts, Fields
<1>1. PICK c \in Requests : config = [c EXCEPT !.timed = limit > 0]
  BY DEF Init
<1>2. c \in Configurations /\ limit \in Nat
  BY InputAssumption DEF Init
<1>3. config \in Configurations /\ (config.timed <=> limit > 0)
  <2>1. (limit > 0) \in BOOLEAN
    OBVIOUS
  <2> QED
    BY <1>1, <1>2, <2>1 DEF Configurations
<1>4. res \in ReportRecords
  BY DEF Init, ReportRecords, Criteria
<1>5. IF circuits.equivalent THEN differing = {} ELSE "random" \in differing
  <2>1. CASE circuits.equivalent
    BY <2>1 DEF Init
  <2>2. CASE ~circuits.equivalent
    <3>1. PICK d : differing = d \cup {"random"}
      BY <2>2 DEF Init
    <3> QED
      BY <2>2, <3>1
  <2> QED
    BY <2>1, <2>2
<1>6. Typed
  <2>1. additional \in Nat /\ 0 \in 0 .. additional
    BY InputAssumption DEF Init
  <2>2. /\ circuits \in CircuitPairs /\ pc \in Labels /\ round = 0 /\ timeout = limit /\ runtime = 0
        /\ totals = Nothing /\ spent = Nothing /\ elapsed = 0 /\ instantiated = 0 /\ refuted = FALSE
    BY DEF Init, Labels
  <2>3. /\ round \in 0 .. additional /\ timeout \in Int /\ (limit = 0 => timeout = 0)
        /\ runtime \in Nat /\ elapsed \in Nat /\ instantiated \in Nat
    BY <1>2, <2>1, <2>2
  <2>4. refuted \in BOOLEAN
    BY <2>2, Zenon
  <2> QED
    BY <1>0, <1>2, <1>3, <1>4, <1>5, <2>1, <2>2, <2>3, <2>4, Zenon DEF Typed
<1>7. CountInv
  BY DEF Init, CountInv, TotalsCoverChecks
<1>8. VerdictInv
  BY <1>2 DEF Init, VerdictInv, VerdictFollowsChecks
<1>9. TimeInv
  BY <1>2 DEF Init, TimeInv
<1> QED
  BY <1>6, <1>7, <1>8, <1>9 DEF IInv

\* A report that tells of all instantiations, and the totals of all checks, covers the checks.
LEMMA TellingCovers ==
    ASSUME Typed', Tells(res', instantiated', spent')
    PROVE  TotalsCoverChecks'
<1>1. DOMAIN spent' = Fields
  BY DEF Typed, Counts
<1> QED
  BY <1>1 DEF TotalsCoverChecks, Tells

\* What time is left, and whether it is taken for no timeout
LEMMA AdjustedIs ==
    ASSUME NEW left \in Int, NEW time \in Nat
    PROVE  /\ Adjusted(left, time) \in Int
           /\ left = 0 => Adjusted(left, time) = 0
           /\ left # 0 => Adjusted(left, time) = left - time
  BY DEF Adjusted

\* One check, with an instantiation or without, is within the bound,
LEMMA WithinBound ==
    ASSUME NEW l \in Nat, l > 0, NEW check \in Nat, NEW inst \in Nat, NEW joins \in Nat,
           NEW gone \in Nat, gone <= check + inst + joins
    PROVE  gone < l + 2 * check + inst + joins
  OBVIOUS

\* and so is another one that is begun in time.
LEMMA OneMore ==
    ASSUME NEW l \in Nat, NEW check \in Nat, NEW inst \in Nat, NEW joins \in Nat, NEW join \in Nat,
           NEW left \in Nat, left # 0, NEW gone \in Nat, gone + left <= l + check + joins,
           NEW time \in Nat, time <= check, NEW pause \in Nat, pause <= inst,
           NEW later \in Nat, later <= gone + pause + time + join
    PROVE  /\ later < l + 2 * check + inst + (joins + join)
           /\ later + (left - pause - time) <= l + check + (joins + join)
  OBVIOUS

\* The ZX checker on its own
LEMMA CheckZXKeeps ==
    ASSUME IInv, CheckZX
    PROVE  IInv'
<1> USE DEF IInv
<1>1. PICK r \in Reports(ZXOnly, circuits) :
        /\ Check(r) /\ Takes(0, r)
        /\ res' = r
        /\ \/ r.equivalence = "Equivalent" /\ pc' = "returned" /\ UNCHANGED <<totals, timeout>>
           \/ /\ r.equivalence # "Equivalent" /\ pc' = "instantiateZero"
              /\ totals' = Added(totals, r) /\ timeout' = Adjusted(limit, r.time)
  BY DEF CheckZX
<1>2. pc = "zx" /\ UNCHANGED <<input, round, runtime, instantiated>>
  BY DEF CheckZX
<1>3. /\ circuits \in Circuits /\ config \in Configurations
      /\ circuits.symbolic \/ circuits.empty
      /\ ZXOnly \in Configurations
  BY InputAssumption, SymbolicAssumption, ConfigurationsOfChecks DEF Typed
<1>4. /\ r \in ReportRecords /\ r.equivalence \in Verdicts(ZXOnly, circuits)
      /\ r.instantiations = 0 /\ r.time \in Nat /\ r.time <= LongestCheck
  BY <1>3, ReportFacts
<1>5. ZXOnly.zx = TRUE
  <2>1. Prepared(config, circuits) \in Configurations
    BY <1>3, PreparedFacts
  <2> QED
    BY <2>1 DEF ZXOnly, Configurations
<1>6. /\ r.equivalence # "NotEquivalent"
      /\ r.equivalence = "Equivalent" => circuits.equivalent \/ circuits.empty
  <2>1. circuits.empty => r.equivalence = "Equivalent"
    BY <1>4, <1>5 DEF Verdicts, AnythingToExecute
  <2> QED
    BY <1>3, <1>4, <2>1 DEF Verdicts
<1>7. /\ totals = spent /\ spent = Nothing /\ spent \in Counts /\ instantiated = 0 /\ round = 0
      /\ ~refuted /\ limit \in Nat /\ elapsed \in Nat
      /\ timeout \in Int /\ timeout >= 0 /\ (limit = 0 => timeout = 0)
      /\ elapsed = 0 /\ timeout = limit
  BY <1>2 DEF CountInv, VerdictInv, TimeInv, Typed
<1>8. /\ spent' = Added(spent, r) /\ spent' \in Counts
      /\ \A field \in Fields : spent'[field] = r[field]
      /\ refuted' = FALSE
  BY <1>1, <1>4, <1>6, <1>7, AddedIs DEF Check
<1>9. /\ timeout' \in Int /\ elapsed' \in Nat /\ totals' \in Counts
      /\ limit = 0 => timeout' = 0
  <2>1. /\ Adjusted(limit, r.time) \in Int
        /\ limit = 0 => Adjusted(limit, r.time) = 0
    BY <1>4, <1>7, AdjustedIs
  <2>2. Added(totals, r) \in Counts
    BY <1>4, <1>7, AddedIs
  <2>3. elapsed' \in Nat
    BY <1>1, <1>4, <1>7, TakesTime
  <2> QED
    BY <1>1, <1>7, <2>1, <2>2, <2>3
<1>10. Typed'
  BY <1>1, <1>2, <1>4, <1>8, <1>9 DEF Typed, input, Labels
<1>11. CountInv'
  <2>1. Tells(res', instantiated', spent')
    BY <1>1, <1>2, <1>4, <1>7, <1>8 DEF Tells
  <2>2. pc' # "returned" => totals' = spent'
    BY <1>1, <1>7, <1>8
  <2> QED
    BY <1>1, <1>2, <1>7, <1>10, <2>1, <2>2, TellingCovers DEF CountInv
<1>12. pc' # "returned" /\ limit > 0 => timeout' = limit - r.time
  <2>1. /\ limit = 0 => Adjusted(limit, r.time) = 0
        /\ limit # 0 => Adjusted(limit, r.time) = limit - r.time
    BY <1>4, <1>7, AdjustedIs
  <2> QED
    BY <1>1, <1>4, <1>7, <2>1
<1>13. VerdictInv'
  <2>1. pc' # "returned" => pc' = "instantiateZero"
    BY <1>1
  <2> QED
    BY <1>1, <1>2, <1>6, <1>8, <2>1 DEF VerdictInv, VerdictFollowsChecks, input
<1>14. TimeInv'
  <2>1. limit' = limit
    BY <1>2 DEF input
  <2>2. elapsed' <= LongestCheck + Joins(1)
    <3>1. elapsed' <= r.time + LongestJoin
      BY <1>1, <1>4, <1>7, TakesTime, LongestIs
    <3>2. Joins(1) = LongestJoin /\ LongestJoin \in Nat /\ LongestCheck \in Nat /\ r.time \in Nat
      BY <1>4, JoinsAre, LongestIs
    <3> QED
      BY <1>4, <1>9, <3>1, <3>2
  <2>3. CASE pc' = "returned"
    <3>1. instantiated' + 1 = 1
      BY <1>2, <1>7
    <3>2. limit > 0 => elapsed' < limit + 2 * LongestCheck + LongestInstantiation + Joins(1)
      BY <1>7, <1>9, <2>2, WithinBound, JoinsAre, LongestIs
    <3> QED
      BY <2>1, <2>3, <3>1, <3>2 DEF TimeInv
  <2>4. CASE pc' = "instantiateZero"
    <3>1. limit > 0 /\ timeout' # 0 => elapsed' + timeout' <= limit + Joins(1)
      <4>1. /\ elapsed' <= 0 + 0 + r.time + LongestJoin /\ elapsed' \in Int
            /\ r.time \in Int /\ limit \in Int /\ LongestJoin \in Nat
        BY <1>1, <1>4, <1>7, TakesTime, LongestIs
      <4>3. Joins(1) = LongestJoin
        BY JoinsAre
      <4>2. limit > 0 => timeout' = limit - r.time
        BY <1>12, <2>4, Zenon
      <4> QED
        BY <4>1, <4>2, <4>3
    <3> QED
      BY <2>1, <2>2, <2>4, <3>1 DEF TimeInv
  <2> QED
    BY <1>1, <2>3, <2>4
<1> QED
  BY <1>10, <1>11, <1>13, <1>14

-----------------------------------------------------------------------------
(* The other steps *)

\* The first instantiation, after which the time may be up
LEMMA InstantiateZeroKeeps ==
    ASSUME IInv, InstantiateZero
    PROVE  IInv'
<1> USE DEF IInv
<1>1. /\ pc = "instantiateZero" /\ UNCHANGED <<input, round, totals, spent, refuted>>
      /\ runtime' \in InstantiationTimes
      /\ timeout' = Adjusted(timeout, runtime')
      /\ elapsed' = elapsed + runtime' /\ instantiated' = 1
      /\ \/ /\ timeout' < 0 /\ pc' = "returned"
            /\ res' = [Written(res, totals, 1) EXCEPT !.equivalence = "NoInformation"]
         \/ timeout' >= 0 /\ pc' = "checkZero" /\ res' = res
  BY DEF InstantiateZero
<1>2. /\ totals = spent /\ round = 0 /\ ~refuted /\ limit \in Nat /\ elapsed \in Nat
      /\ timeout \in Int /\ (limit = 0 => timeout = 0)
      /\ limit > 0 /\ timeout # 0 =>
           elapsed <= LongestCheck + Joins(1) /\ elapsed + timeout <= limit + Joins(1)
      /\ res \in ReportRecords /\ totals \in Counts
  BY <1>1 DEF CountInv, VerdictInv, TimeInv, Typed
<1>3. runtime' \in Nat /\ runtime' <= LongestInstantiation /\ LongestInstantiation \in Nat
  BY <1>1, LongestIs
<1>4. /\ timeout' \in Int /\ (timeout = 0 => timeout' = 0)
      /\ timeout # 0 => timeout' = timeout - runtime'
  BY <1>1, <1>2, <1>3, AdjustedIs
<1>5. pc' = "returned" => Tells(res', 1, totals) /\ res'.equivalence = "NoInformation"
  <2>1. "NoInformation" \in Criteria
    BY DEF Criteria
  <2>2. pc' = "returned" => res' = [Written(res, totals, 1) EXCEPT !.equivalence = "NoInformation"]
    BY <1>1
  <2>3. res \in ReportRecords /\ totals \in Counts /\ 1 \in Nat
    BY <1>2
  <2> QED
    BY <2>1, <2>2, <2>3, RewrittenIs
<1>6. res' \in ReportRecords
  BY <1>1, <1>2, <1>5 DEF Tells
<1>7. Typed'
  <2>1. elapsed' \in Nat /\ instantiated' \in Nat /\ (limit = 0 => timeout' = 0) /\ runtime' \in Nat
    BY <1>1, <1>2, <1>3, <1>4
  <2> QED
    BY <1>1, <1>4, <1>6, <2>1 DEF Typed, input, Labels
<1>8. CountInv'
  <2>1. pc' = "returned" => TotalsCoverChecks'
    BY <1>1, <1>2, <1>5, <1>7, TellingCovers
  <2> QED
    BY <1>1, <1>2, <2>1 DEF CountInv, TotalsCoverChecks
<1>9. VerdictInv'
  <2>1. limit' = limit /\ UNCHANGED <<refuted, circuits, config>>
    BY <1>1 DEF input
  <2>2. pc' = "returned" => timeout' < 0 /\ limit # 0
    BY <1>1, <1>2, <1>4
  <2>3. VerdictFollowsChecks'
    BY <1>2, <1>5, <2>1, <2>2 DEF VerdictFollowsChecks
  <2>4. ~refuted' /\ (pc' # "returned" => timeout' >= 0)
    BY <1>1, <1>2
  <2> QED
    BY <2>3, <2>4 DEF VerdictInv
<1>10. TimeInv'
  <2>1. limit' = limit
    BY <1>1 DEF input
  <2>2. ASSUME limit > 0, timeout' # 0
        PROVE  /\ elapsed' + timeout' <= limit + Joins(1)
               /\ elapsed' < limit + 2 * LongestCheck + LongestInstantiation + Joins(2)
    <3>0. PICK time \in InstantiationTimes : time = runtime'
      BY <1>1
    <3>1. timeout # 0 /\ elapsed' = elapsed + time /\ timeout' = timeout - time
      BY <1>1, <1>4, <2>2, <3>0
    <3>2. /\ timeout \in Int /\ elapsed + timeout <= limit + Joins(1)
          /\ limit \in Nat /\ elapsed \in Nat /\ elapsed <= LongestCheck + Joins(1)
      BY <1>2, <2>2, <3>1
    <3>3. /\ time \in Nat /\ time <= LongestInstantiation
          /\ LongestInstantiation \in Nat /\ LongestCheck \in Nat
      BY LongestIs
    <3>4. Joins(1) \in Nat /\ Joins(2) \in Nat /\ Joins(1) <= Joins(2)
      <4>1. Joins(1) \in Nat /\ Joins(1 + 1) = Joins(1) + LongestJoin /\ LongestJoin \in Nat
        BY JoinsAre, LongestIs
      <4>2. 1 + 1 = 2
        OBVIOUS
      <4> QED
        BY <4>1, <4>2
    <3>5. (elapsed + time) + (timeout - time) <= limit + Joins(1)
      BY <3>2, <3>3, <3>4
    <3>6. /\ elapsed + time \in Nat
          /\ elapsed + time <= LongestCheck + LongestInstantiation + Joins(2)
      BY <3>2, <3>3, <3>4
    <3>7. elapsed + time < limit + 2 * LongestCheck + LongestInstantiation + Joins(2)
      BY <2>2, <3>2, <3>3, <3>4, <3>6, WithinBound
    <3> QED
      BY <3>1, <3>5, <3>7
  <2>3. instantiated' + 1 = 2
    BY <1>1
  <2> QED
    BY <1>1, <2>1, <2>2, <2>3 DEF TimeInv
<1> QED
  BY <1>7, <1>8, <1>9, <1>10

\* What a check of an instance can report
LEMMA InstanceReport ==
    ASSUME Typed, NEW how, NEW p \in Instances(how), NEW r \in Reports(WithoutZX(p), p)
    PROVE  /\ r \in ReportRecords /\ r.time \in Nat /\ r.time <= LongestCheck
           /\ r.equivalence = "NotEquivalent" => ~circuits.equivalent
           /\ how = "random" /\ r.equivalence = "Equivalent" => circuits.equivalent \/ circuits.empty
           /\ limit = 0 /\ (config.alternating \/ config.construction)
                => r.equivalence \in {"Equivalent", "NotEquivalent"}
<1> DEFINE c == WithoutZX(p)
<1>1. /\ p \in Circuits /\ p.symbolic = FALSE /\ p.empty = circuits.empty
      /\ how \notin differing => p.equivalent = TRUE
      /\ how \in differing /\ how # "phases" => p.equivalent = FALSE
  BY InstanceFacts
<1>2. /\ c \in Configurations /\ c.timed = config.timed /\ c.zx = FALSE
      /\ (config.alternating \/ config.construction) => (c.alternating \/ c.construction)
  BY <1>1, ConfigurationsOfChecks
<1>3. /\ r \in ReportRecords /\ r.time \in Nat /\ r.time <= LongestCheck
      /\ r.equivalence \in Verdicts(c, p)
  BY <1>2, ReportFacts
<1>4. /\ IF circuits.equivalent THEN differing = {} ELSE "random" \in differing
      /\ config.timed <=> limit > 0
  BY DEF Typed
<1> HIDE DEF c
<1>5. /\ r.equivalence = "Equivalent" => p.equivalent \/ p.empty
      /\ r.equivalence = "NotEquivalent" => ~p.equivalent
  BY <1>3 DEF Verdicts
<1>6. ~c.timed /\ (c.alternating \/ c.construction)
        => r.equivalence \in {"Equivalent", "NotEquivalent"}
  BY <1>1, <1>2, <1>3 DEF Verdicts
<1>7. limit = 0 => ~c.timed
  BY <1>2, <1>4
<1>8. r.equivalence = "NotEquivalent" => ~circuits.equivalent
  BY <1>1, <1>4, <1>5
<1>9. how = "random" /\ r.equivalence = "Equivalent" => circuits.equivalent \/ circuits.empty
  BY <1>1, <1>4, <1>5
<1> QED
  BY <1>2, <1>3, <1>6, <1>7, <1>8, <1>9

\* What every check of an instance adds to
LEMMA CheckAdds ==
    ASSUME IInv, pc # "returned", NEW r \in ReportRecords, Check(r)
    PROVE  /\ spent' = Added(totals, r) /\ spent' \in Counts
           /\ refuted' \in BOOLEAN
           /\ refuted' <=> r.equivalence = "NotEquivalent"
<1>1. totals = spent /\ spent \in Counts /\ ~refuted
  BY DEF IInv, CountInv, VerdictInv, Typed
<1>2. spent' = Added(spent, r) /\ refuted' = (refuted \/ r.equivalence = "NotEquivalent")
  BY DEF Check
<1>3. Added(spent, r) \in Counts
  BY <1>1, AddedIs
<1> QED
  BY <1>1, <1>2, <1>3

\* The check of the first instance, for which no time is counted
LEMMA CheckZeroKeeps ==
    ASSUME IInv, CheckZero
    PROVE  IInv'
<1> USE DEF IInv
<1>0. PICK p \in Instances("zero") :
        \E r \in Reports(WithoutZX(p), p) :
          /\ Check(r) /\ Takes(0, r)
          /\ totals' = Added(totals, r)
          /\ \/ r.equivalence = "NotEquivalent" /\ res' = Written(r, totals', 1) /\ pc' = "returned"
             \/ r.equivalence # "NotEquivalent" /\ res' = r /\ pc' = "loop"
  BY DEF CheckZero
<1>1. PICK r \in Reports(WithoutZX(p), p) :
        /\ Check(r) /\ Takes(0, r)
        /\ totals' = Added(totals, r)
        /\ \/ r.equivalence = "NotEquivalent" /\ res' = Written(r, totals', 1) /\ pc' = "returned"
           \/ r.equivalence # "NotEquivalent" /\ res' = r /\ pc' = "loop"
  BY <1>0
<1>2. pc = "checkZero" /\ UNCHANGED <<input, round, timeout, runtime, instantiated>>
  BY DEF CheckZero
<1>3. /\ r \in ReportRecords /\ r.time \in Nat /\ r.time <= LongestCheck
      /\ r.equivalence = "NotEquivalent" => ~circuits.equivalent
  BY InstanceReport
<1>4. /\ spent' = totals' /\ spent' \in Counts /\ refuted' \in BOOLEAN
      /\ refuted' <=> r.equivalence = "NotEquivalent"
  BY <1>1, <1>2, <1>3, CheckAdds
<1>5. /\ round = 0 /\ instantiated = 1 /\ limit \in Nat /\ elapsed \in Nat
      /\ timeout \in Int /\ timeout >= 0
      /\ limit > 0 /\ timeout # 0 => elapsed + timeout <= limit + Joins(1)
  BY <1>2 DEF CountInv, VerdictInv, TimeInv, Typed
<1>6. pc' = "returned" => Tells(res', 1, spent') /\ res'.equivalence = "NotEquivalent"
  BY <1>1, <1>3, <1>4, WrittenIs
<1>7. res' \in ReportRecords
  BY <1>1, <1>3, <1>6 DEF Tells
<1>8. Typed'
  <2>1. elapsed' \in Nat
    BY <1>1, <1>3, <1>5, TakesTime
  <2> QED
    BY <1>1, <1>2, <1>4, <1>7, <2>1 DEF Typed, input, Labels
<1>9. CountInv'
  <2>1. pc' = "returned" => TotalsCoverChecks'
    BY <1>2, <1>5, <1>6, <1>8, TellingCovers
  <2> QED
    BY <1>1, <1>2, <1>4, <1>5, <2>1 DEF CountInv, TotalsCoverChecks
<1>10. VerdictInv'
  <2>1. limit' = limit /\ UNCHANGED <<circuits, config>>
    BY <1>2 DEF input
  <2>2. VerdictFollowsChecks'
    BY <1>1, <1>3, <1>6, <2>1 DEF VerdictFollowsChecks
  <2> QED
    BY <1>1, <1>2, <1>4, <1>5, <2>2 DEF VerdictInv
<1>11. TimeInv'
  <2>1. limit' = limit
    BY <1>2 DEF input
  <2>2. /\ Joins(1) \in Nat /\ Joins(2) = Joins(1) + LongestJoin
        /\ LongestJoin \in Nat /\ LongestCheck \in Nat /\ LongestInstantiation \in Nat
    <3>1. Joins(1) \in Nat /\ Joins(1 + 1) = Joins(1) + LongestJoin
      BY JoinsAre
    <3>2. 1 + 1 = 2
      OBVIOUS
    <3> QED
      BY <3>1, <3>2, LongestIs
  <2>3. elapsed' \in Nat /\ elapsed' <= elapsed + r.time + LongestJoin
    BY <1>1, <1>3, <1>5, TakesTime
  <2>4. limit > 0 /\ timeout # 0 => elapsed' + timeout <= limit + LongestCheck + Joins(2)
    BY <1>3, <1>5, <2>2, <2>3
  <2>5. limit > 0 /\ timeout # 0 =>
          elapsed' < limit + 2 * LongestCheck + LongestInstantiation + Joins(2)
    BY <1>5, <2>2, <2>3, <2>4
  <2>6. instantiated' + 1 = 2
    BY <1>2, <1>5
  <2> QED
    BY <1>1, <1>2, <2>1, <2>4, <2>5, <2>6 DEF TimeInv
<1> QED
  BY <1>8, <1>9, <1>10, <1>11

\* An iteration of the loop, in which the time may run out
LEMMA CheckPhasesKeeps ==
    ASSUME IInv, CheckPhases
    PROVE  IInv'
<1> USE DEF IInv
<1>0. PICK p \in Instances("phases") :
        \E r \in Reports(WithoutZX(p), p) :
          /\ Check(r) /\ Takes(runtime', r)
          /\ timeout' = AdjustedByBoth(r)
          /\ \/ /\ timeout' < 0
                /\ res' = [Written(r, totals, round + 2) EXCEPT !.equivalence = "NoInformation"]
                /\ pc' = "returned" /\ UNCHANGED totals
             \/ /\ timeout' >= 0
                /\ totals' = Added(totals, r)
                /\ \/ /\ r.equivalence = "NotEquivalent"
                      /\ res' = Written(r, totals', round + 2)
                      /\ pc' = "returned"
                   \/ r.equivalence # "NotEquivalent" /\ res' = r /\ UNCHANGED pc
  BY DEF CheckPhases
<1>1. PICK r \in Reports(WithoutZX(p), p) :
        /\ Check(r) /\ Takes(runtime', r)
        /\ timeout' = AdjustedByBoth(r)
        /\ \/ /\ timeout' < 0
              /\ res' = [Written(r, totals, round + 2) EXCEPT !.equivalence = "NoInformation"]
              /\ pc' = "returned" /\ UNCHANGED totals
           \/ /\ timeout' >= 0
              /\ totals' = Added(totals, r)
              /\ \/ /\ r.equivalence = "NotEquivalent"
                    /\ res' = Written(r, totals', round + 2)
                    /\ pc' = "returned"
                 \/ r.equivalence # "NotEquivalent" /\ res' = r /\ UNCHANGED pc
  BY <1>0
<1>2. /\ pc = "loop" /\ round < additional /\ round' = round + 1 /\ instantiated' = instantiated + 1
      /\ runtime' \in InstantiationTimes /\ UNCHANGED input
  BY DEF CheckPhases
<1>3. /\ r \in ReportRecords /\ r.time \in Nat /\ r.time <= LongestCheck
      /\ r.equivalence = "NotEquivalent" => ~circuits.equivalent
  BY InstanceReport
<1>4. /\ spent' = Added(totals, r) /\ spent' \in Counts /\ refuted' \in BOOLEAN
      /\ refuted' <=> r.equivalence = "NotEquivalent"
  BY <1>1, <1>2, <1>3, CheckAdds
<1>5. /\ instantiated = round + 1 /\ limit \in Nat /\ elapsed \in Nat /\ totals \in Counts
      /\ additional \in Nat /\ round \in 0 .. additional
      /\ timeout \in Int /\ timeout >= 0 /\ (limit = 0 => timeout = 0)
      /\ limit > 0 /\ timeout # 0 =>
           elapsed + timeout <= limit + LongestCheck + Joins(instantiated + 1)
  BY <1>2 DEF CountInv, VerdictInv, TimeInv, Typed
<1>6. runtime' \in Nat /\ runtime' <= LongestInstantiation /\ LongestInstantiation \in Nat
  BY <1>2, LongestIs
<1>7. /\ timeout' \in Int /\ (timeout = 0 => timeout' = 0)
      /\ timeout' # 0 => timeout # 0 /\ timeout' = timeout - runtime' - r.time
  <2> DEFINE left == Adjusted(timeout, runtime')
  <2>1. left \in Int /\ (timeout = 0 => left = 0) /\ (timeout # 0 => left = timeout - runtime')
    BY <1>5, <1>6, AdjustedIs
  <2>2. timeout' = Adjusted(left, r.time)
    BY <1>1 DEF AdjustedByBoth
  <2> HIDE DEF left
  <2>3. timeout' \in Int /\ (left = 0 => timeout' = 0) /\ (left # 0 => timeout' = left - r.time)
    BY <1>3, <2>1, <2>2, AdjustedIs
  <2> QED
    BY <2>1, <2>3
<1>8. round + 2 \in Nat /\ instantiated' = round + 2 /\ "NoInformation" \in Criteria
      /\ round' \in 0 .. additional /\ round + 2 < additional + 2 /\ 1 < round + 2
  BY <1>2, <1>5 DEF Criteria
<1>9. pc' = "returned" /\ timeout' < 0 =>
        res' \in ReportRecords /\ res'.instantiations = round + 2 /\ res'.equivalence = "NoInformation"
  <2>1. pc' = "returned" /\ timeout' < 0 =>
          res' = [Written(r, totals, round + 2) EXCEPT !.equivalence = "NoInformation"]
    BY <1>1, <1>7
  <2> QED
    BY <1>3, <1>5, <1>8, <2>1, RewrittenIs
<1>10. pc' = "returned" /\ timeout' >= 0 =>
         Tells(res', round + 2, spent') /\ res'.equivalence = "NotEquivalent"
         /\ r.equivalence = "NotEquivalent"
  <2>1. pc' = "returned" /\ timeout' >= 0 =>
          res' = Written(r, spent', round + 2) /\ r.equivalence = "NotEquivalent"
    BY <1>1, <1>2, <1>4, <1>7
  <2> QED
    BY <1>3, <1>4, <1>8, <2>1, WrittenIs
<1>11. /\ pc' \in {"loop", "returned"}
       /\ pc' = "loop" => totals' = spent' /\ res' = r /\ r.equivalence # "NotEquivalent" /\ timeout' >= 0
       /\ totals' \in Counts
  BY <1>1, <1>2, <1>4, <1>5
<1>12. res' \in ReportRecords
  BY <1>3, <1>7, <1>9, <1>10, <1>11 DEF Tells
<1>13. Typed'
  <2>1. elapsed' \in Nat /\ instantiated' \in Nat /\ (limit = 0 => timeout' = 0)
    BY <1>1, <1>3, <1>5, <1>6, <1>7, <1>8, TakesTime
  <2> QED
    BY <1>2, <1>4, <1>6, <1>7, <1>8, <1>11, <1>12, <2>1 DEF Typed, input, Labels
<1>14. CountInv'
  <2>0. additional' = additional
    BY <1>2 DEF input
  <2>1. pc' = "returned" /\ timeout' >= 0 => TotalsCoverChecks'
    BY <1>8, <1>10, <1>13, TellingCovers
  <2>2. pc' = "returned" /\ timeout' < 0 => TotalsCoverChecks'
    BY <1>8, <1>9, <2>0 DEF TotalsCoverChecks
  <2>3. instantiated' = round' + 1
    BY <1>2, <1>5
  <2>4. pc' = "returned" => TotalsCoverChecks'
    BY <1>7, <2>1, <2>2
  <2> QED
    BY <1>11, <2>3, <2>4 DEF CountInv, TotalsCoverChecks
<1>15. VerdictInv'
  <2>1. limit' = limit /\ UNCHANGED <<circuits, config>>
    BY <1>2 DEF input
  <2>2. timeout' < 0 => limit # 0
    BY <1>5, <1>7
  <2>3. CASE timeout' < 0
    BY <1>7, <1>9, <1>11, <2>1, <2>2, <2>3 DEF VerdictInv, VerdictFollowsChecks
  <2>4. CASE timeout' >= 0
    <3>1. VerdictFollowsChecks'
      BY <1>3, <1>10, <2>1, <2>4 DEF VerdictFollowsChecks
    <3> QED
      BY <1>4, <1>11, <2>4, <3>1 DEF VerdictInv
  <2> QED
    BY <1>7, <2>3, <2>4
<1>16. TimeInv'
  <2>1. limit' = limit
    BY <1>2 DEF input
  <2>2. PICK pause \in InstantiationTimes : pause = runtime'
    BY <1>2
  <2>3. PICK later \in Nat : later = elapsed' /\ later <= elapsed + pause + r.time + LongestJoin
    BY <1>1, <1>3, <1>5, <1>6, <2>2, TakesTime
  <2>4. /\ pause \in Nat /\ pause <= LongestInstantiation
        /\ LongestJoin \in Nat /\ LongestCheck \in Nat /\ LongestInstantiation \in Nat
    BY LongestIs
  <2>5. Joins(instantiated + 1) \in Nat /\ Joins(instantiated' + 1) = Joins(instantiated + 1) + LongestJoin
    <3>1. instantiated + 1 \in Nat /\ instantiated' + 1 = (instantiated + 1) + 1
      BY <1>2, <1>5
    <3> QED
      BY <3>1, JoinsAre
  <2>6. ASSUME limit > 0, timeout' # 0
        PROVE  /\ later < limit + 2 * LongestCheck + LongestInstantiation + Joins(instantiated' + 1)
               /\ later + timeout' <= limit + LongestCheck + Joins(instantiated' + 1)
    <3>1. timeout \in Nat /\ timeout # 0 /\ timeout' = timeout - pause - r.time
      BY <1>5, <1>7, <2>2, <2>6
    <3>2. elapsed + timeout <= limit + LongestCheck + Joins(instantiated + 1)
      BY <1>5, <2>6, <3>1
    <3>3. /\ later < limit + 2 * LongestCheck + LongestInstantiation
                        + (Joins(instantiated + 1) + LongestJoin)
          /\ later + (timeout - pause - r.time)
               <= limit + LongestCheck + (Joins(instantiated + 1) + LongestJoin)
      BY <1>3, <1>5, <2>3, <2>4, <2>5, <3>1, <3>2, OneMore
    <3> QED
      BY <2>5, <3>1, <3>3
  <2> QED
    BY <1>11, <2>1, <2>3, <2>6 DEF TimeInv
<1> QED
  BY <1>13, <1>14, <1>15, <1>16

\* The last check, after which the flow returns
LEMMA CheckRandomKeeps ==
    ASSUME IInv, CheckRandom
    PROVE  IInv'
<1> USE DEF IInv
<1>0. PICK time \in InstantiationTimes, p \in Instances("random") :
        \E r \in Reports(WithoutZX(p), p) :
          /\ Check(r) /\ Takes(time, r)
          /\ totals' = Added(totals, r)
          /\ res' = [Written(r, totals', additional + 2) EXCEPT
                       !.equivalence = IF timeout' < 0 THEN "NoInformation" ELSE @]
  BY DEF CheckRandom
<1>1. PICK r \in Reports(WithoutZX(p), p) :
        /\ Check(r) /\ Takes(time, r)
        /\ totals' = Added(totals, r)
        /\ res' = [Written(r, totals', additional + 2) EXCEPT
                     !.equivalence = IF timeout' < 0 THEN "NoInformation" ELSE @]
  BY <1>0
<1>2. /\ pc = "loop" /\ round = additional /\ instantiated' = instantiated + 1
      /\ timeout' = Adjusted(timeout, runtime) /\ pc' = "returned"
      /\ UNCHANGED <<input, round, runtime>>
  BY DEF CheckRandom
<1>3. /\ r \in ReportRecords /\ r.time \in Nat /\ r.time <= LongestCheck
      /\ r.equivalence = "NotEquivalent" => ~circuits.equivalent
      /\ r.equivalence = "Equivalent" => circuits.equivalent \/ circuits.empty
      /\ limit = 0 /\ (config.alternating \/ config.construction)
           => r.equivalence \in {"Equivalent", "NotEquivalent"}
  BY InstanceReport
<1>4. /\ spent' = totals' /\ spent' \in Counts /\ refuted' \in BOOLEAN
      /\ refuted' <=> r.equivalence = "NotEquivalent"
  BY <1>1, <1>2, <1>3, CheckAdds
<1>5. /\ instantiated = round + 1 /\ limit \in Nat /\ elapsed \in Nat /\ additional \in Nat
      /\ timeout \in Int /\ timeout >= 0 /\ (limit = 0 => timeout = 0) /\ runtime \in Nat
      /\ limit > 0 /\ timeout # 0 =>
           elapsed + timeout <= limit + LongestCheck + Joins(instantiated + 1)
  BY <1>2 DEF CountInv, VerdictInv, TimeInv, Typed
<1>6. time \in Nat /\ time <= LongestInstantiation /\ LongestInstantiation \in Nat
  BY LongestIs
<1>7. timeout' \in Int /\ (timeout = 0 => timeout' = 0)
  BY <1>2, <1>5, AdjustedIs
<1>8. additional + 2 \in Nat /\ instantiated' = additional + 2
  BY <1>2, <1>5
<1>9. /\ Tells(res', instantiated', spent')
      /\ res'.equivalence = IF timeout' < 0 THEN "NoInformation" ELSE r.equivalence
  <2> DEFINE w == Written(r, spent', additional + 2)
             e == IF timeout' < 0 THEN "NoInformation" ELSE r.equivalence
  <2>1. w.equivalence = r.equivalence /\ e \in Criteria
    <3>1. r.equivalence \in Criteria
      BY <1>3 DEF ReportRecords
    <3>2. "NoInformation" \in Criteria
      BY DEF Criteria
    <3>3. w.equivalence = r.equivalence
      BY <1>3, <1>4, <1>8, WrittenIs
    <3> QED
      BY <3>1, <3>2, <3>3
  <2>2. res' = [w EXCEPT !.equivalence = e]
    BY <1>1, <1>4, <2>1
  <2>3. Tells([w EXCEPT !.equivalence = e], additional + 2, spent')
        /\ [w EXCEPT !.equivalence = e].equivalence = e
    BY <1>3, <1>4, <1>8, <2>1, RewrittenIs
  <2> QED
    BY <1>8, <2>2, <2>3
<1>10. Typed'
  <2>1. elapsed' \in Nat /\ instantiated' \in Nat /\ (limit = 0 => timeout' = 0)
    BY <1>1, <1>3, <1>5, <1>6, <1>7, <1>8, TakesTime
  <2>2. res' \in ReportRecords
    BY <1>9 DEF Tells
  <2> QED
    BY <1>2, <1>4, <1>7, <2>1, <2>2 DEF Typed, input, Labels
<1>11. CountInv'
  <2>1. TotalsCoverChecks'
    BY <1>9, <1>10, TellingCovers
  <2> QED
    BY <1>2, <2>1 DEF CountInv
<1>12. VerdictInv'
  <2>1. limit' = limit /\ UNCHANGED <<circuits, config>>
    BY <1>2 DEF input
  <2>2. limit = 0 => ~(timeout' < 0)
    BY <1>5, <1>7
  <2>3. timeout' >= 0 => ~(timeout' < 0)
    BY <1>7
  <2>4. VerdictFollowsChecks'
    BY <1>3, <1>4, <1>9, <2>1, <2>2, <2>3 DEF VerdictFollowsChecks
  <2> QED
    BY <1>2, <2>4 DEF VerdictInv
<1>13. TimeInv'
  <2>1. limit' = limit
    BY <1>2 DEF input
  <2>2. PICK later \in Nat : later = elapsed' /\ later <= elapsed + time + r.time + LongestJoin
    BY <1>1, <1>3, <1>5, <1>6, TakesTime
  <2>3. LongestJoin \in Nat /\ LongestCheck \in Nat /\ LongestInstantiation \in Nat
    BY LongestIs
  <2>4. Joins(instantiated + 1) \in Nat /\ Joins(instantiated' + 1) = Joins(instantiated + 1) + LongestJoin
    <3>1. instantiated + 1 \in Nat /\ instantiated' + 1 = (instantiated + 1) + 1
      BY <1>2, <1>5
    <3> QED
      BY <3>1, JoinsAre
  <2>5. ASSUME limit > 0, timeout' # 0
        PROVE  later < limit + 2 * LongestCheck + LongestInstantiation + Joins(instantiated' + 1)
    <3>1. timeout \in Nat /\ timeout # 0
      BY <1>5, <1>7, <2>5
    <3>2. elapsed + timeout <= limit + LongestCheck + Joins(instantiated + 1)
      BY <1>5, <2>5, <3>1
    <3>3. later < limit + 2 * LongestCheck + LongestInstantiation
                    + (Joins(instantiated + 1) + LongestJoin)
      BY <1>3, <1>5, <1>6, <2>2, <2>3, <2>4, <3>1, <3>2, OneMore
    <3> QED
      BY <2>4, <3>3
  <2> QED
    BY <1>2, <2>1, <2>2, <2>5 DEF TimeInv
<1> QED
  BY <1>10, <1>11, <1>12, <1>13

\* Every step keeps the invariants,
LEMMA NextIInv == IInv /\ [Next]_vars => IInv'
<1> SUFFICES ASSUME IInv, [Next]_vars PROVE IInv'
  OBVIOUS
<1>1. CASE UNCHANGED vars
  BY <1>1 DEF vars, input, IInv, Typed, CountInv, TotalsCoverChecks, VerdictInv,
     VerdictFollowsChecks, TimeInv
<1>2. CASE Terminated
  BY <1>1, <1>2 DEF Terminated
<1> QED
  BY <1>1, <1>2, CheckZXKeeps, InstantiateZeroKeeps, CheckZeroKeeps, CheckPhasesKeeps,
     CheckRandomKeeps DEF Next

\* so that they hold throughout.
LEMMA AlwaysIInv == Spec => []IInv
  BY InitIInv, NextIInv, PTL DEF Spec

-----------------------------------------------------------------------------
(* The theorems *)

\* Whichever way the flow is left, the report tells how often the circuits were instantiated, and
\* the statistics of all checks together (parameterized.py, __write_stats).
THEOREM TotalsAreCovered == Spec => []TotalsCoverChecks
<1>1. IInv => TotalsCoverChecks
  BY DEF IInv, CountInv
<1> QED
  BY <1>1, AlwaysIInv, PTL

\* The report is true, and it is a decision when there is no timeout and a checker that decides.
THEOREM VerdictIsThatOfTheChecks == Spec => []VerdictFollowsChecks
<1>1. IInv => VerdictFollowsChecks
  BY DEF IInv, VerdictInv
<1> QED
  BY <1>1, AlwaysIInv, PTL

\* However many instantiations there are, two checks and one instantiation are all that comes on
\* top of the timeout, besides the joins, unless the timeout is used up exactly.
THEOREM TimeIsBounded == Spec => []TimeBounded
<1>1. IInv => TimeBounded
  <2> DEFINE bound == limit + 2 * LongestCheck + LongestInstantiation + Joins(instantiated + 1)
  <2> SUFFICES ASSUME IInv, limit > 0, timeout # 0
               PROVE  elapsed < bound
    BY DEF TimeBounded, LongestCheck, LongestInstantiation, LongestJoin, Joins
  <2>1. /\ limit \in Nat /\ elapsed \in Nat /\ timeout \in Int /\ instantiated \in Nat
        /\ pc \in Labels
        /\ pc \notin {"instantiateZero", "returned"} => timeout >= 0
    BY DEF IInv, Typed, VerdictInv
  <2>2. LongestCheck \in Nat /\ LongestInstantiation \in Nat /\ LongestJoin \in Nat
    BY LongestIs
  <2>3. Joins(1) \in Nat /\ Joins(instantiated + 1) \in Nat /\ Joins(1) <= Joins(instantiated + 1)
    <3>1. Joins(1) = LongestJoin
      BY JoinsAre
    <3>2. Joins(instantiated) \in Nat /\ Joins(instantiated + 1) = Joins(instantiated) + LongestJoin
      BY <2>1, JoinsAre
    <3> QED
      BY <2>2, <3>1, <3>2
  <2>4. CASE pc = "returned"
    BY <2>4 DEF IInv, TimeInv
  <2>5. CASE pc = "zx"
    <3>1. elapsed = 0
      BY <2>5 DEF IInv, TimeInv
    <3> QED
      BY <2>1, <2>2, <2>3, <3>1
  <2>6. CASE pc = "instantiateZero"
    <3>1. elapsed <= LongestCheck + Joins(1)
      BY <2>6 DEF IInv, TimeInv
    <3> QED
      BY <2>1, <2>2, <2>3, <3>1
  <2>7. CASE pc = "checkZero"
    <3>1. elapsed + timeout <= limit + Joins(1) /\ timeout >= 0
      BY <2>1, <2>7 DEF IInv, TimeInv
    <3> QED
      BY <2>1, <2>2, <2>3, <3>1
  <2>8. CASE pc = "loop"
    <3>1. elapsed + timeout <= limit + LongestCheck + Joins(instantiated + 1) /\ timeout >= 0
      BY <2>1, <2>8 DEF IInv, TimeInv
    <3> QED
      BY <2>1, <2>2, <2>3, <3>1
  <2> QED
    BY <2>1, <2>4, <2>5, <2>6, <2>7, <2>8 DEF Labels
<1> QED
  BY <1>1, AlwaysIInv, PTL
================================================================================
