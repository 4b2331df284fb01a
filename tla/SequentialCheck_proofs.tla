------------------------- MODULE SequentialCheck_proofs -------------------------
(***************************************************************************)
(* Proofs about SequentialCheck and LifeCycle, for every configuration,    *)
(* every pair of circuits, any number of simulations and any number of     *)
(* runs of one manager.                                                    *)
(*                                                                         *)
(* The inductive invariant IInv adds three facts to the type invariant:    *)
(* where the main thread can be in which stage (ControlAgrees), how the    *)
(* three counters of simulations relate there (CountsAgree), and that the  *)
(* clamp in the constructor still holds (ClampHolds).  TimerInv adds where *)
(* the timer is, and, for the flag that is seen at once, how far it has    *)
(* got with its signals (SignalInv) and which simulations it can have cut  *)
(* short (FinishedAgree).                                                  *)
(*                                                                         *)
(* VerdictInv is about what a run concludes: which results can have been   *)
(* handled at a stage (ResultsAgree), what the simulations amount to while *)
(* they are under way (SimulationAgrees), that the other checkers run only *)
(* if nothing is decided (OthersAgree), and that the verdict and the       *)
(* counterexample are those of the results (VerdictAgrees, CexAgrees).     *)
(* PromptInv and UntimedInv say who can be the reason that a check is left *)
(* out.                                                                    *)
(***************************************************************************)
EXTENDS LifeCycle, SequenceTheorems, TLAPS

\* Inside a stage the main thread is at one of these labels.
StageLabels == {"begin", "create", "loop", "check", "run", "result", "conclude"}

ControlAgrees ==
    /\ mainPc \in StageLabels <=> stage # "none"
    /\ mainPc \in {"loop", "conclude"} => stage = "simulation"
    /\ mainPc = "check" => stage # "simulation"
    /\ mainPc \in {"loop", "check", "run", "result"} => checkers # << >>
    /\ mainPc \in StageLabels => (stage = "symbolic" <=> circuits.symbolic)

\* A simulation has been started and is not counted as performed yet.
Simulating == stage = "simulation" /\ mainPc \in {"run", "result"}

CountsAgree ==
    /\ Simulating => started = performed + 1
    /\ ~Simulating /\ mainPc \notin {"threw", "terminated"} => started = performed
    /\ ~(stage = "simulation" /\ mainPc = "result") => completed <= performed

ClampHolds ==
    /\ config.simulation => config.maxSims <= circuits.stimuli
    /\ stage = "simulation" /\ mainPc # "begin" => config.simulation
    /\ generated = started /\ started <= circuits.stimuli

IInv == TypeOK /\ ControlAgrees /\ CountsAgree /\ ClampHolds

-----------------------------------------------------------------------------

\* What the constructor makes of a configuration is one, and is clamped.
LEMMA PreparedIsClamped ==
    ASSUME NEW c \in Configurations, NEW p \in Circuits
    PROVE  /\ Prepared(c, p) \in Configurations
           /\ Prepared(c, p).simulation => Prepared(c, p).maxSims <= p.stimuli
<1> DEFINE falls == c.alternating /\ ~p.alternatable
           limit == IF c.simulation /\ c.maxSims > p.stimuli THEN p.stimuli ELSE c.maxSims
           q == [c EXCEPT !.alternating = c.alternating /\ ~falls,
                          !.construction = c.construction \/ falls,
                          !.maxSims = limit]
<1>1. Prepared(c, p) = q
  BY DEF Prepared, Configurations
<1>2. c.maxSims \in Nat /\ p.stimuli \in Nat
  BY DEF Configurations, Circuits
<1>3. limit \in Nat /\ (c.simulation => limit <= p.stimuli)
  BY <1>2
<1>4. (c.alternating /\ ~falls) \in BOOLEAN /\ (c.construction \/ falls) \in BOOLEAN
  OBVIOUS
<1>5. q \in Configurations
  BY <1>3, <1>4 DEF Configurations
<1>6. q.simulation = c.simulation /\ q.maxSims = limit
  BY DEF Configurations
<1> QED
  BY <1>1, <1>3, <1>5, <1>6

\* The inductive invariant holds initially.
LEMMA InitIInv == Init => IInv
<1> SUFFICES ASSUME Init PROVE IInv
  OBVIOUS
<1>1. circuits \in Circuits /\ config \in Configurations
      /\ (config.simulation => config.maxSims <= circuits.stimuli)
  BY PreparedIsClamped, InputAssumption DEF Init
<1>2. config.maxSims \in Nat
  BY <1>1 DEF Configurations
<1>3. TypeOK
  <2>1. checkers \in Seq(CheckerRecords)
    BY DEF Init
  <2>2. done \in SUBSET Threads /\ handled \in SUBSET (Kinds \X Criteria)
    BY DEF Init
  <2>3. started \in 0 .. config.maxSims /\ performed \in 0 .. started
        /\ completed \in 0 .. started /\ next \in Nat \ {0}
    BY <1>2 DEF Init
  <2> QED
    BY <1>1, <2>1, <2>2, <2>3 DEF Init, TypeOK, Stages, Criteria
<1>4. ControlAgrees /\ CountsAgree /\ ClampHolds
  <2>1. circuits.stimuli \in Nat
    BY <1>1 DEF Circuits
  <2> QED
    BY <1>1, <1>2, <2>1 DEF Init, ControlAgrees, CountsAgree, ClampHolds, Simulating, StageLabels
<1> QED
  BY <1>3, <1>4 DEF IInv

\* A checker's result, or its flag, is changed in place.
LEMMA CheckersKeepType ==
    ASSUME NEW s \in Seq(CheckerRecords), NEW i \in 1 .. Len(s), NEW e \in Criteria
    PROVE  /\ [s EXCEPT ![i].equivalence = e] \in Seq(CheckerRecords)
           /\ [s EXCEPT ![i].signalled = TRUE] \in Seq(CheckerRecords)
           /\ Len([s EXCEPT ![i].equivalence = e]) = Len(s)
           /\ Len([s EXCEPT ![i].signalled = TRUE]) = Len(s)
<1> DEFINE r == [s[i] EXCEPT !.equivalence = e]
           t == [s[i] EXCEPT !.signalled = TRUE]
<1>1. s[i] \in CheckerRecords
  OBVIOUS
<1>2. r \in CheckerRecords /\ t \in CheckerRecords
  BY <1>1 DEF CheckerRecords
<1>3. ASSUME NEW x \in CheckerRecords
      PROVE  [s EXCEPT ![i] = x] \in Seq(CheckerRecords)
             /\ Len([s EXCEPT ![i] = x]) = Len(s)
  BY <1>3, ExceptSeq
<1> QED
  BY <1>2, <1>3

-----------------------------------------------------------------------------

\* What the steps below share: the counters are numbers, and none is above maxSims.
LEMMA Numbers ==
    ASSUME TypeOK
    PROVE  /\ config.maxSims \in Nat /\ circuits.stimuli \in Nat
           /\ started \in Nat /\ performed \in Nat /\ completed \in Nat
           /\ performed <= started /\ completed <= started
           /\ started <= config.maxSims
           /\ Len(checkers) \in Nat
  BY DEF TypeOK, Configurations, Circuits

\* What a checker finds is a criterion.
LEMMA FindingsAreCriteria ==
    ASSUME NEW k \in Kinds, NEW p
    PROVE  Findings(k, p) \subseteq Criteria
  BY DEF Findings, Kinds, Criteria

\* Inside a stage there is a kind of checker, and once the checker is built there is
\* a result.
LEMMA CurrentChecker ==
    ASSUME IInv
    PROVE  /\ mainPc \in StageLabels => Kind \in Kinds
           /\ mainPc \in {"run", "result"} =>
                Current \in 1 .. Len(checkers) /\ Result \in Criteria
<1>1. mainPc \in StageLabels => Kind \in Kinds
  BY DEF IInv, TypeOK, ControlAgrees, Stages, Kind, Kinds
<1>2. ASSUME mainPc \in {"run", "result"}
      PROVE  Current \in 1 .. Len(checkers) /\ Result \in Criteria
  <2>1. checkers \in Seq(CheckerRecords) /\ checkers # << >>
    BY <1>2 DEF IInv, TypeOK, ControlAgrees
  <2>2. Len(checkers) \in 1 .. Len(checkers)
    BY <2>1, EmptySeq
  <2>3. checkers[Len(checkers)] \in CheckerRecords
    BY <2>1, <2>2
  <2> QED
    BY <2>2, <2>3 DEF Current, Result, CheckerRecords
<1> QED
  BY <1>1, <1>2

\* A handler keeps the history a set of results.
LEMMA HandledKeepsType ==
    ASSUME IInv, NEW kinds, Conclude(kinds)
    PROVE  handled' \in SUBSET (Kinds \X Criteria) /\ Result \in Criteria
  BY CurrentChecker DEF Conclude, IInv, TypeOK, StageLabels

\* The main thread keeps the type of every variable.
LEMMA MainTypeOK ==
    ASSUME IInv, Proceed \/ RunToEnd
    PROVE  TypeOK'
<1> USE DEF IInv
<1>0. /\ config.maxSims \in Nat
      /\ started \in Nat /\ performed \in Nat /\ completed \in Nat
      /\ performed <= started /\ completed <= started /\ started <= config.maxSims
  BY Numbers
<1>1. CASE StartTimer
  <2>1. completed' \in 0 .. started' /\ started' = started /\ config' = config
    BY <1>0, <1>1 DEF StartTimer, EnterRun, input
  <2>2. done' \in SUBSET Threads /\ equivalence' \in Criteria
    BY <1>1 DEF StartTimer, EnterRun, Criteria
  <2>3. /\ timerPc' \in {"idle", "test"} /\ late' = FALSE /\ moved' = FALSE
        /\ expired' = FALSE /\ next' = 1 /\ last' = 0
    BY <1>1 DEF StartTimer
  <2>4. UNCHANGED <<circuits, config, memory, generated, started, performed, cexFound, checkers>>
        /\ handled' = {}
    BY <1>1 DEF StartTimer, EnterRun, input
  <2>5. stage' \in Stages /\ mainPc' = "begin"
    BY <1>1 DEF StartTimer, Goto, Stages
  <2>6. handled' \in SUBSET (Kinds \X Criteria)
    BY <2>4
  <2>7. late' \in BOOLEAN /\ moved' \in BOOLEAN /\ expired' \in BOOLEAN
    BY <2>3
  <2>8. next' \in Nat \ {0} /\ last' \in Nat
    BY <2>3
  <2>9. started' \in 0 .. config'.maxSims /\ performed' \in 0 .. started' /\ generated' \in Nat
    BY <2>4 DEF TypeOK
  <2> QED
    BY <2>1, <2>2, <2>3, <2>4, <2>5, <2>6, <2>7, <2>8, <2>9 DEF TypeOK
<1>2. CASE Begin
  BY <1>2 DEF Begin, TypeOK, Goto, Stages, resultVars, timerVars, input
<1>3. CASE Create
  <2>1. Kind \in Kinds
    BY <1>3, CurrentChecker DEF Create, StageLabels
  <2>2. checkers' \in Seq(CheckerRecords)
    BY <1>3, <2>1 DEF Create, TypeOK, CheckerRecords, Criteria
  <2>3. moved' \in BOOLEAN
    BY <1>3 DEF Create, TypeOK
  <2> QED
    BY <1>3, <2>2, <2>3 DEF Create, TypeOK, Goto, Stages, resultVars, timerVars, input
<1>4. CASE CreateThrows
  BY <1>4 DEF CreateThrows, TypeOK, Leave, Goto, Stages, resultVars, timerVars, input
<1>5. CASE Skip
  BY <1>5 DEF Skip, TypeOK, GotoFollowing, Following, Goto, Stages, resultVars, timerVars, input
<1>6. CASE SkipZX
  BY <1>6 DEF SkipZX, TypeOK, Leave, GotoFollowing, Following, Goto, Stages, timerVars, input, Criteria
<1>7. CASE LoopSimulation
  BY <1>0, <1>7 DEF LoopSimulation, TypeOK, Goto, Stages, timerVars, input, CountsAgree, SimulationsFinished, Simulating
<1>8. CASE LeaveLoop
  BY <1>8 DEF LeaveLoop, TypeOK, Goto, Stages, resultVars, timerVars, input
<1>9. CASE CheckDone
  BY <1>9 DEF CheckDone, TypeOK, GotoFollowing, Following, Goto, Stages, resultVars, timerVars, input
<1>10. CASE Abort
  <2>1. Current \in 1 .. Len(checkers) /\ Result \in Criteria
    BY <1>10, CurrentChecker DEF Abort
  <2>2. PICK e \in Criteria : checkers' = [checkers EXCEPT ![Current].equivalence = e]
    BY <1>10, <2>1 DEF Abort, Result, Criteria
  <2>3. checkers \in Seq(CheckerRecords)
    BY DEF TypeOK
  <2>4. checkers' \in Seq(CheckerRecords)
    BY <2>1, <2>2, <2>3, CheckersKeepType
  <2> QED
    BY <1>10, <2>4 DEF Abort, TypeOK, Goto, Stages, resultVars, timerVars, input
<1>11. CASE HandleSimulation
  <2>1. handled' \in SUBSET (Kinds \X Criteria)
    BY <1>11, HandledKeepsType DEF HandleSimulation
  <2>2. performed' \in 0 .. started
    BY <1>0, <1>11 DEF HandleSimulation, Conclude, CountsAgree, Simulating
  <2> QED
    BY <1>11, <2>1, <2>2 DEF HandleSimulation, Conclude, TypeOK, Leave, Goto, Stages,
       Criteria, KeepGoing, timerVars, input
<1>12. CASE ConcludeSimulations
  BY <1>12 DEF ConcludeSimulations, TypeOK, GotoFollowing, Following, Goto, Stages, Finish, KeepGoing, SetBy, NotifyTimer, Threads, timerVars, input
<1>13. CASE HandleDecision
  <2>1. handled' \in SUBSET (Kinds \X Criteria) /\ Result \in Criteria
    BY <1>13, HandledKeepsType DEF HandleDecision
  <2>2. equivalence' \in Criteria
    BY <1>13, <2>1 DEF HandleDecision, TypeOK, Criteria
  <2>3. done' \in SUBSET Threads
    BY <1>13 DEF HandleDecision, TypeOK, Finish, KeepGoing, SetBy, Threads
  <2>4. timerPc' \in {timerPc, "test"} /\ UNCHANGED <<late, next, last>>
    BY <1>13 DEF HandleDecision, Finish, KeepGoing, NotifyTimer, timerVars
  <2> QED
    BY <1>13, <2>1, <2>2, <2>3, <2>4 DEF HandleDecision, Conclude, TypeOK, GotoFollowing,
       Following, Goto, Stages, input
<1>14. CASE HandleZX
  <2>1. handled' \in SUBSET (Kinds \X Criteria) /\ Result \in Criteria
    BY <1>14, HandledKeepsType DEF HandleZX
  <2>2. equivalence' \in Criteria
    BY <1>14, <2>1 DEF HandleZX, TypeOK, Criteria
  <2>3. done' \in SUBSET Threads
    BY <1>14 DEF HandleZX, TypeOK, Finish, KeepGoing, SetBy, Threads
  <2>4. timerPc' \in {timerPc, "test"} /\ UNCHANGED <<late, next, last>>
    BY <1>14 DEF HandleZX, Finish, KeepGoing, NotifyTimer, timerVars
  <2> QED
    BY <1>14, <2>1, <2>2, <2>3, <2>4 DEF HandleZX, Conclude, TypeOK, GotoFollowing,
       Following, Goto, Stages, input
<1>15. CASE HandleSymbolic
  <2>1. handled' \in SUBSET (Kinds \X Criteria) /\ Result \in Criteria
    BY <1>15, HandledKeepsType DEF HandleSymbolic
  <2>2. equivalence' \in Criteria
    BY <1>15, <2>1 DEF HandleSymbolic, TypeOK, Criteria
  <2>3. done' \in SUBSET Threads
    BY <1>15 DEF HandleSymbolic, TypeOK, Finish, KeepGoing, SetBy, Threads
  <2>4. timerPc' \in {timerPc, "test"} /\ UNCHANGED <<late, next, last>>
    BY <1>15 DEF HandleSymbolic, Finish, KeepGoing, NotifyTimer, timerVars
  <2> QED
    BY <1>15, <2>1, <2>2, <2>3, <2>4 DEF HandleSymbolic, Conclude, TypeOK, GotoFollowing,
       Following, Goto, Stages, input
<1>16. CASE Join
  BY <1>16 DEF Join, TypeOK, Goto, Stages, resultVars, timerVars, input
<1>17. CASE Complete
  <2>1. Current \in 1 .. Len(checkers) /\ Kind \in Kinds
    BY <1>17, CurrentChecker DEF Complete, StageLabels
  <2>2. PICK e \in Criteria : checkers' = [checkers EXCEPT ![Current].equivalence = e]
    BY <1>17, <2>1, FindingsAreCriteria DEF Complete
  <2>3. checkers \in Seq(CheckerRecords)
    BY DEF TypeOK
  <2>4. checkers' \in Seq(CheckerRecords)
    BY <2>1, <2>2, <2>3, CheckersKeepType
  <2>5. completed' \in 0 .. started
    BY <1>0, <1>17 DEF Complete, CountsAgree, Simulating, Kind, TypeOK
  <2> QED
    BY <1>17, <2>4, <2>5 DEF Complete, TypeOK, Goto, Stages, resultVars, timerVars, input
<1>18. CASE RunThrows
  BY <1>18 DEF RunThrows, TypeOK, Leave, Goto, Stages, resultVars, timerVars, input
<1>19. CASE ReturnAtOnce
  <2>1. completed' \in 0 .. started' /\ handled' \in SUBSET (Kinds \X Criteria)
    BY <1>0, <1>19 DEF ReturnAtOnce
  <2>2. done' \in SUBSET Threads /\ equivalence' \in Criteria
    BY <1>19 DEF ReturnAtOnce, Criteria, Threads
  <2> QED
    BY <1>19, <2>1, <2>2 DEF ReturnAtOnce, TypeOK, Goto, Stages, timerVars, input
<1> QED
  BY <1>1, <1>2, <1>3, <1>4, <1>5, <1>6, <1>7, <1>8, <1>9, <1>10, <1>11, <1>12,
     <1>13, <1>14, <1>15, <1>16, <1>17, <1>18, <1>19 DEF Proceed, RunToEnd

\* What the timer and its surroundings leave alone
LEMMA TimerLeavesAlone ==
    ASSUME TimerStep \/ Environment \/ TimePasses \/ Terminated \/ UNCHANGED vars
    PROVE  UNCHANGED <<circuits, config, memory, stage, mainPc, resultVars, moved, completed>>
  BY DEF TimerStep, Environment, TimePasses, Terminated, Test, Block, TimeOut, SetDone,
     EvaluateRange, Signal, EndSignal, SpuriousWake, BecomeVisible, DeadlinePasses,
     timerRest, timerVars, resultVars, input, vars

\* The timer and its surroundings keep the type of every variable, and the number of
\* checkers.
LEMMA TimerTypeOK ==
    ASSUME IInv, TimerStep \/ Environment \/ TimePasses \/ Terminated \/ UNCHANGED vars
    PROVE  TypeOK' /\ Len(checkers') = Len(checkers)
<1> USE DEF IInv
<1>0. UNCHANGED <<circuits, config, memory, stage, mainPc, resultVars, moved, completed>>
  BY TimerLeavesAlone
<1>1. done' \in {done, Threads, done \cup {"timer"}}
  BY DEF TimerStep, Environment, TimePasses, Terminated, Test, Block, TimeOut, SetDone,
     EvaluateRange, Signal, EndSignal, SpuriousWake, BecomeVisible, DeadlinePasses,
     vars, SetBy
<1>2. done' \in SUBSET Threads
  BY <1>1 DEF Threads, TypeOK
<1>3. late' \in BOOLEAN /\ expired' \in BOOLEAN
  BY DEF TimerStep, Environment, TimePasses, Terminated, Test, Block, TimeOut, SetDone,
     EvaluateRange, Signal, EndSignal, SpuriousWake, BecomeVisible, DeadlinePasses,
     timerRest, timerVars, vars, TypeOK
<1>4. next' \in {next, 1, next + 1}
  BY DEF TimerStep, Environment, TimePasses, Terminated, Test, Block, TimeOut, SetDone,
     EvaluateRange, Signal, EndSignal, SpuriousWake, BecomeVisible, DeadlinePasses,
     timerRest, timerVars, vars
<1>5. done' \in SUBSET Threads /\ late' \in BOOLEAN /\ expired' \in BOOLEAN /\ next' \in Nat \ {0}
  BY <1>2, <1>3, <1>4 DEF TypeOK
<1>6. last' \in Nat
  BY LenProperties DEF TimerStep, Environment, TimePasses, Terminated, Test, Block, TimeOut,
     SetDone, EvaluateRange, Signal, EndSignal, SpuriousWake, BecomeVisible, DeadlinePasses,
     timerRest, timerVars, vars, TypeOK
<1>7. timerPc' \in {timerPc, "test", "block", "blocked", "set", "range", "signal",
                    "finished", "signalled", "crashed"}
  BY DEF TimerStep, Environment, TimePasses, Terminated, Test, Block, TimeOut, SetDone,
     EvaluateRange, Signal, EndSignal, SpuriousWake, BecomeVisible, DeadlinePasses,
     timerVars, vars
<1>8. checkers' \in Seq(CheckerRecords) /\ Len(checkers') = Len(checkers)
  <2>1. \/ checkers' = checkers
        \/ next \in DOMAIN checkers /\ checkers' = [checkers EXCEPT ![next].signalled = TRUE]
    BY DEF TimerStep, Environment, TimePasses, Terminated, Test, Block, TimeOut, SetDone,
       EvaluateRange, Signal, EndSignal, SpuriousWake, BecomeVisible, DeadlinePasses, vars
  <2>2. checkers \in Seq(CheckerRecords) /\ DOMAIN checkers = 1 .. Len(checkers)
    BY LenProperties DEF TypeOK
  <2>3. "Equivalent" \in Criteria
    BY DEF Criteria
  <2>4. CASE checkers' = checkers
    BY <2>2, <2>4
  <2>5. CASE next \in 1 .. Len(checkers) /\ checkers' = [checkers EXCEPT ![next].signalled = TRUE]
    BY <2>2, <2>3, <2>5, CheckersKeepType
  <2> QED
    BY <2>1, <2>2, <2>4, <2>5
<1> QED
  BY <1>0, <1>5, <1>6, <1>7, <1>8 DEF TypeOK, resultVars

\* The main thread is always about the same circuits, configuration and memory.
LEMMA MainKeepsCircuits ==
    ASSUME Proceed \/ RunToEnd
    PROVE  circuits' = circuits /\ config' = config /\ memory' = memory
  BY DEF Proceed, RunToEnd, ReturnAtOnce, StartTimer, Begin, Create, CreateThrows, Skip, SkipZX,
     LoopSimulation, LeaveLoop, CheckDone, Abort, HandleSimulation, ConcludeSimulations,
     HandleDecision, HandleZX, HandleSymbolic, Join, Complete, RunThrows, Conclude, input

\* Every step preserves the inductive invariant.
LEMMA NextIInv ==
    ASSUME IInv, [Next]_vars
    PROVE  IInv'
<1>1. CASE TimerStep \/ Environment \/ TimePasses \/ Terminated \/ UNCHANGED vars
  <2>1. TypeOK' /\ Len(checkers') = Len(checkers)
    BY <1>1, TimerTypeOK
  <2>2. UNCHANGED <<circuits, config, memory, stage, mainPc, resultVars, moved, completed>>
    BY <1>1, TimerLeavesAlone
  <2>3. checkers # << >> => checkers' # << >>
    BY <2>1, EmptySeq DEF IInv, TypeOK
  <2> QED
    BY <2>1, <2>2, <2>3 DEF IInv, ControlAgrees, CountsAgree, ClampHolds, Simulating, resultVars
<1>2. CASE Proceed \/ RunToEnd
  <2>1. TypeOK'
    BY <1>2, MainTypeOK
  <2>2. ControlAgrees'
    <3> USE DEF ControlAgrees, StageLabels, Goto, GotoFollowing, Following, Leave
    <3>0. TypeOK /\ stage \in Stages /\ ControlAgrees
      BY DEF IInv, TypeOK
    <3>1. circuits' = circuits
      BY <1>2, MainKeepsCircuits
    <3>2. CASE ReturnAtOnce \/ StartTimer
      BY <3>0, <3>1, <3>2 DEF ReturnAtOnce, StartTimer
    <3>3. CASE Begin \/ CreateThrows \/ Skip \/ SkipZX
      BY <3>0, <3>1, <3>3 DEF Begin, CreateThrows, Skip, SkipZX, Stages
    <3>4. CASE Create
      <4>1. checkers' # << >>
        BY <3>4, <3>0 DEF Create, TypeOK
      <4> QED
        BY <3>0, <3>1, <3>4, <4>1 DEF Create, Stages
    <3>5. CASE LoopSimulation \/ LeaveLoop \/ CheckDone
      BY <3>0, <3>1, <3>5 DEF LoopSimulation, LeaveLoop, CheckDone, resultVars, Stages
    <3>6. CASE Complete \/ Abort
      <4>1. checkers' # << >>
        BY <3>0, <3>6 DEF Complete, Abort
      <4> QED
        BY <3>0, <3>1, <3>6, <4>1 DEF Complete, Abort, Stages
    <3>7. CASE HandleSimulation \/ HandleDecision \/ HandleZX \/ HandleSymbolic
      BY <3>0, <3>1, <3>7 DEF HandleSimulation, HandleDecision, HandleZX, HandleSymbolic,
         Conclude
    <3>8. CASE ConcludeSimulations \/ Join \/ RunThrows
      BY <3>0, <3>1, <3>8 DEF ConcludeSimulations, Join, RunThrows
    <3> QED
      BY <1>2, <3>2, <3>3, <3>4, <3>5, <3>6, <3>7, <3>8 DEF Proceed, RunToEnd
  <2>3. CountsAgree'
    <3> USE DEF IInv, ControlAgrees, CountsAgree, Simulating, Stages, StageLabels, Goto,
                GotoFollowing, Following, Leave
    <3>0. TypeOK /\ completed \in Nat /\ performed \in Nat /\ started \in Nat
          /\ stage \in Stages
      BY Numbers DEF TypeOK
    <3>1. CASE LoopSimulation
      BY <3>0, <3>1 DEF LoopSimulation
    <3>2. CASE HandleSimulation
      BY <3>0, <3>2, Numbers DEF HandleSimulation, Conclude
    <3>3. CASE Complete
      BY <3>0, <3>3 DEF Complete, resultVars, Kind
    <3>4. CASE ConcludeSimulations
      BY <3>0, <3>4 DEF ConcludeSimulations
    <3>5. CASE StartTimer
      BY <3>0, <3>5 DEF StartTimer, EnterRun
    <3>6. CASE Begin
      BY <3>0, <3>6 DEF Begin, resultVars
    <3>7. CASE LeaveLoop \/ Join
      BY <3>0, <3>7 DEF LeaveLoop, Join, resultVars
    <3>8. CASE Create \/ CreateThrows
      BY <3>0, <3>8 DEF Create, CreateThrows, resultVars
    <3>9. CASE Skip
      BY <3>0, <3>9 DEF Skip, resultVars
    <3>10. CASE CheckDone \/ Abort \/ RunThrows
      BY <3>0, <3>10, Numbers DEF CheckDone, Abort, RunThrows, resultVars
    <3>11. CASE SkipZX
      BY <3>0, <3>11 DEF SkipZX, Usable, Kind
    <3>12. CASE HandleDecision \/ HandleZX \/ HandleSymbolic
      BY <3>0, <3>12 DEF HandleDecision, HandleZX, HandleSymbolic, Conclude
    <3>13. CASE ReturnAtOnce
      BY <3>0, <3>13 DEF ReturnAtOnce
    <3> QED
      BY <1>2, <3>1, <3>2, <3>3, <3>4, <3>5, <3>10, <3>11, <3>12, <3>13, <3>8, <3>9, <3>6, <3>7 DEF Proceed, RunToEnd
  <2>4. ClampHolds'
    <3>1. circuits' = circuits /\ config' = config
      BY <1>2, MainKeepsCircuits
    <3>2. generated' = started' /\ started' <= circuits.stimuli
      <4>1. CASE LoopSimulation
        BY <4>1, Numbers DEF LoopSimulation, IInv, ControlAgrees, CountsAgree, Simulating,
           ClampHolds, SimulationsFinished
      <4>2. CASE ~LoopSimulation
        BY <1>2, <4>2 DEF Proceed, RunToEnd, ReturnAtOnce, StartTimer, EnterRun, Begin, Create,
           CreateThrows, Skip, SkipZX, LeaveLoop, CheckDone, Abort, HandleSimulation,
           ConcludeSimulations, HandleDecision, HandleZX, HandleSymbolic, Join, Complete,
           RunThrows, Conclude, resultVars, IInv, ClampHolds
      <4> QED
        BY <4>1, <4>2
    <3>3. stage' = "simulation" /\ mainPc' # "begin" => config.simulation
      BY <1>2 DEF Proceed, RunToEnd, ReturnAtOnce, StartTimer, Begin, Create, CreateThrows,
         Skip, SkipZX, LoopSimulation, LeaveLoop, CheckDone, Abort, HandleSimulation,
         ConcludeSimulations, HandleDecision, HandleZX, HandleSymbolic, Join, Complete,
         RunThrows, Conclude, Goto, GotoFollowing, Following, Leave, Wanted, IInv, ClampHolds
    <3> QED
      BY <3>1, <3>2, <3>3 DEF IInv, ClampHolds
  <2> QED
    BY <2>1, <2>2, <2>3, <2>4 DEF IInv
<1> QED
  BY <1>1, <1>2 DEF Next

\* Between two runs a manager is asked to run again, reset, or told to use other checkers.
LEMMA LifeSteps ==
    ASSUME [LifeNext]_lifeVars
    PROVE  [Next]_vars \/ RunAgain \/ Reset \/ Select
  BY DEF LifeNext, lifeVars

\* What happens between two runs preserves the inductive invariant.
LEMMA BetweenIInv ==
    ASSUME IInv, RunAgain \/ Reset \/ Select
    PROVE  IInv'
<1> USE DEF IInv
<1>0. /\ TypeOK /\ ControlAgrees /\ stage \in Stages
      /\ circuits.stimuli \in Nat /\ config.maxSims \in Nat
  BY Numbers DEF TypeOK
<1>1. CASE RunAgain
  <2>1. TypeOK'
    BY <1>0, <1>1 DEF RunAgain, input, resultVars, timerVars, TypeOK
  <2> QED
    BY <1>0, <1>1, <2>1 DEF RunAgain, ControlAgrees, CountsAgree, ClampHolds, Simulating,
       StageLabels, input, resultVars
<1>2. CASE Reset
  <2>1. TypeOK'
    <3>1. checkers' \in Seq(CheckerRecords) /\ handled' \in SUBSET (Kinds \X Criteria)
      BY <1>2 DEF Reset
    <3>2. started' \in 0 .. config.maxSims /\ performed' \in 0 .. started'
          /\ completed' \in 0 .. started' /\ generated' \in Nat
      BY <1>0, <1>2 DEF Reset
    <3> QED
      BY <1>0, <1>2, <3>1, <3>2 DEF Reset, input, timerVars, TypeOK, Criteria
  <2> QED
    BY <1>0, <1>2, <2>1 DEF Reset, ControlAgrees, CountsAgree, ClampHolds, Simulating,
       StageLabels, input
<1>3. CASE Select
  <2>1. config' \in Configurations /\ config'.maxSims = config.maxSims
    <3>1. PICK kinds :
            config' = [config EXCEPT !.alternating = "alternating" \in kinds,
                                     !.construction = "construction" \in kinds,
                                     !.simulation = "simulation" \in kinds,
                                     !.zx = "zx" \in kinds]
      BY <1>3 DEF Select
    <3>2. config \in Configurations
      BY <1>0 DEF TypeOK
    <3>3. \A k : (k \in kinds) \in BOOLEAN
      OBVIOUS
    <3> QED
      BY <3>1, <3>2, <3>3 DEF Configurations
  <2>2. TypeOK'
    BY <1>0, <1>3, <2>1 DEF Select, resultVars, timerVars, TypeOK
  <2> QED
    BY <1>0, <1>3, <2>1, <2>2 DEF Select, ControlAgrees, CountsAgree, ClampHolds, Simulating,
       StageLabels, resultVars
<1> QED
  BY <1>1, <1>2, <1>3

\* The inductive invariant is one, in one run and in several.
LEMMA Invariance == Spec \/ LifeSpec => []IInv
<1>1. IInv /\ [Next]_vars => IInv'
  BY NextIInv
<1>2. IInv /\ [LifeNext]_lifeVars => IInv'
  BY NextIInv, BetweenIInv, LifeSteps
<1>3. LifeInit => IInv
  BY InitIInv DEF LifeInit
<1> QED
  BY InitIInv, <1>1, <1>2, <1>3, PTL DEF Spec, LifeSpec

-----------------------------------------------------------------------------
(* Theorems *)

\* Every variable keeps its type, in every run of a manager: above all, whatever the timer
\* does and wherever a run is cut short, simulations are never performed more often than
\* started, nor started more often than maxSims.
THEOREM TypeCorrect == Spec \/ LifeSpec => []TypeOK
<1>1. IInv => TypeOK
  BY DEF IInv
<1> QED
  BY Invariance, <1>1, PTL

\* The state generator is never asked for a stimulus more than there are, for any
\* number of qubits, any maxSims asked for and any number of runs.
THEOREM StimuliAlwaysSuffice == Spec \/ LifeSpec => []StimuliSuffice
<1>1. IInv => StimuliSuffice
  BY Numbers DEF IInv, ClampHolds, StimuliSuffice
<1> QED
  BY Invariance, <1>1, PTL

-----------------------------------------------------------------------------
(* The timer *)

\* Where the timer is once it has begun to signal the checkers, and where it is while no run is
\* under way
Signalling == {"signal", "signalled", "crashed"}
AtRest == {"idle", "finished", "signalled"}

\* Only a timer signals checkers, and without a timeout there is none.
TimerAgrees ==
    /\ ~config.timed => timerPc = "idle" /\ (done = {} \/ Done)
    /\ mainPc \in {"start", "returned", "threw"} => timerPc \in AtRest
    /\ mainPc \in {"loop", "check", "run", "result"} /\ checkers[Current].signalled
         => timerPc \in Signalling

\* At first the timeout thread is at rest.
LEMMA InitTimerAgrees == Init => TimerAgrees
  BY DEF Init, TimerAgrees, AtRest

\* A step of a run keeps to what is known of the timeout thread.
LEMMA NextTimerAgrees ==
    ASSUME IInv, IInv', TimerAgrees, [Next]_vars
    PROVE  TimerAgrees'
<1> USE DEF TimerAgrees, Signalling, AtRest, Done
<1>0. TypeOK /\ ControlAgrees
  BY DEF IInv
<1>1. CASE ReturnAtOnce \/ StartTimer
  BY <1>1 DEF ReturnAtOnce, StartTimer, EnterRun, Goto, timerVars, input, Threads
<1>2. CASE Begin \/ Skip \/ SkipZX \/ CreateThrows \/ LeaveLoop \/ Join \/ RunThrows
           \/ LoopSimulation \/ CheckDone
  BY <1>2 DEF Begin, Skip, SkipZX, CreateThrows, LeaveLoop, Join, RunThrows, LoopSimulation, CheckDone, Goto, Leave,
     GotoFollowing, timerVars, input, Current
<1>3. CASE Create
  <2>1. checkers'[Len(checkers')].signalled = FALSE
    BY <1>0, <1>3 DEF Create, TypeOK
  <2> QED
    BY <1>3, <2>1 DEF Create, Goto, timerVars, input, Current
<1>4. CASE Abort \/ Complete
  <2>1. Current \in 1 .. Len(checkers) /\ checkers \in Seq(CheckerRecords)
    BY <1>0, <1>4, CurrentChecker DEF Abort, Complete, TypeOK
  <2>2. PICK e : checkers' = [checkers EXCEPT ![Current].equivalence = e]
    BY <1>4 DEF Abort, Complete
  <2>3. Len(checkers') = Len(checkers)
        /\ checkers'[Current].signalled = checkers[Current].signalled
    BY <2>1, <2>2 DEF CheckerRecords
  <2> QED
    BY <1>4, <2>3 DEF Abort, Complete, Goto, timerVars, input, Current
<1>5. CASE HandleSimulation \/ ConcludeSimulations \/ HandleDecision \/ HandleZX \/ HandleSymbolic
  <2>1. /\ mainPc' \in {"returned", "terminated", "loop", "conclude", "begin", "join"}
        /\ mainPc' = "returned" => ~config.timed
        /\ mainPc' = "loop" => mainPc = "result"
    BY <1>5 DEF HandleSimulation, ConcludeSimulations, HandleDecision, HandleZX, HandleSymbolic,
       Conclude, Goto, GotoFollowing, Leave
  <2>2. \/ UNCHANGED <<done, timerVars>>
        \/ Done' /\ timerPc' = IF timerPc = "blocked" THEN "test" ELSE timerPc
    BY <1>5 DEF HandleSimulation, ConcludeSimulations, HandleDecision, HandleZX, HandleSymbolic,
       Finish, KeepGoing, SetBy, NotifyTimer, Threads
  <2>3. UNCHANGED <<config, checkers>>
    BY <1>5 DEF HandleSimulation, ConcludeSimulations, HandleDecision, HandleZX, HandleSymbolic,
       Conclude, input
  <2> QED
    BY <2>1, <2>2, <2>3 DEF timerVars, Current
<1>6. CASE TimerStep \/ Environment \/ TimePasses \/ Terminated \/ UNCHANGED vars
  <2>1. UNCHANGED <<circuits, config, memory, stage, mainPc, resultVars, moved, completed>>
        /\ Len(checkers') = Len(checkers)
    BY <1>6, TimerLeavesAlone, TimerTypeOK
  <2>2. /\ checkers' # checkers => timerPc' \in Signalling
        /\ timerPc \in Signalling => timerPc' \in Signalling
        /\ timerPc = "idle" => timerPc' = "idle" /\ done' \in {done, Threads}
        /\ timerPc \in AtRest => timerPc' = timerPc
        /\ done = {} => done' \in {{}, Threads, {"timer"}}
    BY <1>6
       DEF TimerStep, Environment, TimePasses, Terminated, Test, Block, TimeOut, SetDone,
       EvaluateRange, Signal, EndSignal, SpuriousWake, BecomeVisible, DeadlinePasses,
       timerVars, vars, SetBy
  <2>3. Done' \/ done' = {} \/ config.timed
    BY <1>6, <2>2
       DEF TimerStep, Environment, TimePasses, Terminated, Test, Block, TimeOut, SetDone,
       EvaluateRange, Signal, EndSignal, SpuriousWake, BecomeVisible, DeadlinePasses,
       timerVars, vars, SetBy, Threads
  <2> QED
    BY <2>1, <2>2, <2>3 DEF Current
<1> QED
  BY <1>1, <1>2, <1>3, <1>4, <1>5, <1>6
     DEF Next, Proceed, RunToEnd

\* It is at rest again between the runs of a life cycle.
LEMMA BetweenTimerAgrees ==
    ASSUME IInv, TimerAgrees, RunAgain \/ Reset \/ Select
    PROVE  TimerAgrees'
<1>1. mainPc' = "start" /\ UNCHANGED <<done, timerVars>> /\ config'.timed = config.timed
      /\ timerPc \in AtRest
  <2>1. ASSUME Select
        PROVE  config'.timed = config.timed
    BY <2>1 DEF Select, IInv, TypeOK, Configurations
  <2> QED
    BY <2>1 DEF RunAgain, Reset, Select, input, timerVars, TimerAgrees
<1> QED
  BY <1>1 DEF TimerAgrees, timerVars, Done

\* How far the timer has got, when every thread sees the flag at once.  Once it has
\* set the flag, no checker is started any more; so the one that runs was in the
\* vector when the timer looked at its end, and the vector has not moved since.
SignalInv ==
    /\ done \in {{}, Threads}
    /\ mainPc \in StageLabels \cup {"join"} /\ timerPc \in {"range"} \cup Signalling
         => done = Threads
    /\ timerPc = "signal" /\ mainPc = "run" =>
         /\ ~moved
         /\ last = Len(checkers)
         /\ \A i \in 1 .. Len(checkers) : i < next => checkers[i].signalled
    /\ moved => timerPc \in Signalling
    /\ timerPc = "signalled" /\ mainPc = "run" => checkers[Len(checkers)].signalled

\* At first nobody has been signalled.
LEMMA InitSignalInv == Init => SignalInv
  BY DEF Init, SignalInv, StageLabels, Signalling

\* Signalling a checker leaves it signalled, and every other one as it was.
LEMMA SignalOne ==
    ASSUME NEW s \in Seq(CheckerRecords), NEW i \in 1 .. Len(s), NEW j \in 1 .. Len(s),
           i = j \/ s[j].signalled
    PROVE  [s EXCEPT ![i].signalled = TRUE][j].signalled
<1>1. s[i] \in CheckerRecords /\ s[j] \in CheckerRecords
  OBVIOUS
<1> QED
  BY <1>1 DEF CheckerRecords

\* When every thread sees the flag at once, a step of a run keeps to how far the timer has got.
LEMMA NextSignalInv ==
    ASSUME memory = "sequential", IInv, IInv', SignalInv, [Next]_vars
    PROVE  SignalInv'
<1> USE DEF StageLabels, Signalling
<1>0. checkers \in Seq(CheckerRecords) /\ next \in Nat /\ Len(checkers) \in Nat
      /\ DOMAIN checkers = 1 .. Len(checkers)
      /\ (mainPc = "run" => Len(checkers) > 0)
  BY LenProperties, EmptySeq DEF IInv, TypeOK, ControlAgrees
<1>1. CASE ReturnAtOnce \/ StartTimer
  BY <1>1 DEF ReturnAtOnce, StartTimer, EnterRun, Goto, timerVars, SignalInv
<1>2. CASE Begin \/ Skip \/ SkipZX \/ CreateThrows \/ LeaveLoop \/ Join \/ RunThrows
  BY <1>2 DEF Begin, Skip, SkipZX, CreateThrows, LeaveLoop, Join, RunThrows, Goto, Leave,
     GotoFollowing, timerVars, SignalInv
<1>3. CASE Create
  BY <1>3 DEF Create, Goto, timerVars, SignalInv
<1>4. CASE LoopSimulation \/ CheckDone
  BY <1>4 DEF LoopSimulation, CheckDone, Done, Threads, Goto, GotoFollowing, timerVars, SignalInv
<1>5. CASE Abort \/ Complete
  BY <1>5 DEF Abort, Complete, Goto, timerVars, SignalInv
<1>6. CASE HandleSimulation \/ ConcludeSimulations \/ HandleDecision \/ HandleZX \/ HandleSymbolic
  <2>1. mainPc \in StageLabels /\ mainPc' # "run"
    BY <1>6 DEF HandleSimulation, ConcludeSimulations, HandleDecision, HandleZX, HandleSymbolic,
       Conclude, Goto, GotoFollowing, Leave
  <2>2. \/ UNCHANGED <<done, timerVars>>
        \/ done' = Threads /\ timerPc' = IF timerPc = "blocked" THEN "test" ELSE timerPc
    BY <1>6 DEF HandleSimulation, ConcludeSimulations, HandleDecision, HandleZX, HandleSymbolic,
       Finish, KeepGoing, SetBy, NotifyTimer
  <2>3. UNCHANGED moved
    BY <1>6 DEF HandleSimulation, ConcludeSimulations, HandleDecision, HandleZX, HandleSymbolic,
       Conclude
  <2> QED
    BY <2>1, <2>2, <2>3 DEF SignalInv, timerVars
<1>7. CASE Test \/ Block \/ TimeOut \/ SpuriousWake \/ DeadlinePasses \/ UNCHANGED vars
  BY <1>7 DEF Test, Block, TimeOut, SpuriousWake, DeadlinePasses, vars, timerRest, timerVars,
     SignalInv
<1>8. CASE SetDone \/ BecomeVisible
  BY <1>8 DEF SetDone, BecomeVisible, SetBy, timerRest, timerVars, SignalInv
<1>9. CASE EvaluateRange
  BY <1>9 DEF EvaluateRange, timerRest, SignalInv
<1>10. CASE Signal
  <2>1. UNCHANGED <<mainPc, moved, done, last>>
    BY <1>10 DEF Signal, timerRest
  <2>2. CASE mainPc = "run"
    <3>1. /\ ~moved /\ last = Len(checkers)
          /\ \A i \in 1 .. Len(checkers) : i < next => checkers[i].signalled
          /\ timerPc = "signal" /\ next <= last /\ next' = next + 1
      BY <1>10, <2>2 DEF Signal, SignalInv
    <3>2. /\ next \in 1 .. Len(checkers)
          /\ checkers' = [checkers EXCEPT ![next].signalled = TRUE]
          /\ timerPc' = "signal"
      <4>1. next > 0
        BY DEF IInv, TypeOK
      <4> QED
        BY <1>0, <1>10, <3>1, <4>1 DEF Signal
    <3>3. Len(checkers') = Len(checkers)
      BY <1>0, <3>2, CheckersKeepType DEF Criteria
    <3>4. ASSUME NEW i \in 1 .. Len(checkers), i < next + 1
          PROVE  checkers'[i].signalled
      <4>1. i = next \/ checkers[i].signalled
        BY <1>0, <3>1, <3>4
      <4> QED
        BY <1>0, <3>2, <4>1, SignalOne
    <3> QED
      BY <2>1, <3>1, <3>2, <3>3, <3>4 DEF SignalInv
  <2>3. CASE mainPc # "run"
    BY <1>10, <2>1, <2>3 DEF Signal, SignalInv
  <2> QED
    BY <2>2, <2>3
<1>11. CASE EndSignal
  BY <1>0, <1>11 DEF EndSignal, timerRest, SignalInv
<1> QED
  BY <1>1, <1>2, <1>3, <1>4, <1>5, <1>6, <1>7, <1>8, <1>9, <1>10, <1>11
     DEF Next, Proceed, RunToEnd, TimerStep, Environment, TimePasses, Terminated

\* How many simulations count as performed, and how many have come to their end, when every
\* thread sees the flag at once
FinishedAgree ==
    IF Simulating
    THEN /\ mainPc = "run" => performed = completed
         /\ mainPc = "result" => \/ completed = performed + 1
                                 \/ completed = performed /\ timerPc \in Signalling
    ELSE \/ performed = completed
         \/ performed = completed + 1 /\ timerPc \in Signalling

\* The two counts of simulations drift apart only when the timer has begun to signal.
LEMMA NextFinishedAgree ==
    ASSUME memory = "sequential", IInv, IInv', SignalInv, TimerAgrees, FinishedAgree, [Next]_vars
    PROVE  FinishedAgree'
<1> USE DEF FinishedAgree, Simulating, Signalling
<1>0. TypeOK /\ ControlAgrees /\ performed \in Nat /\ completed \in Nat
  BY Numbers DEF IInv
<1>1. CASE ReturnAtOnce \/ StartTimer
  BY <1>0, <1>1 DEF ReturnAtOnce, StartTimer, EnterRun, Goto
<1>2. CASE Begin \/ Skip \/ SkipZX \/ CreateThrows \/ LeaveLoop \/ Join \/ RunThrows
           \/ CheckDone \/ Create
  BY <1>0, <1>2 DEF Begin, Skip, SkipZX, CreateThrows, LeaveLoop, Join, RunThrows, CheckDone,
     Create, Goto, Leave, GotoFollowing, Following, timerVars, resultVars, ControlAgrees
<1>3. CASE LoopSimulation
  <2>1. ~(timerPc \in Signalling)
    BY <1>3 DEF LoopSimulation, Done, SignalInv, StageLabels, Threads
  <2> QED
    BY <1>0, <1>3, <2>1 DEF LoopSimulation, Goto, timerVars, ControlAgrees
<1>4. CASE Abort
  BY <1>0, <1>4 DEF Abort, Goto, timerVars, resultVars, TimerAgrees
<1>5. CASE Complete
  BY <1>0, <1>5 DEF Complete, Goto, timerVars, resultVars, Kind
<1>6. CASE HandleSimulation
  BY <1>0, <1>6 DEF HandleSimulation, Conclude, Goto, Leave, KeepGoing, timerVars
<1>7. CASE ConcludeSimulations \/ HandleDecision \/ HandleZX \/ HandleSymbolic
  <2>1. ~Simulating /\ ~Simulating' /\ UNCHANGED <<performed, completed>>
    BY <1>0, <1>7 DEF ConcludeSimulations, HandleDecision, HandleZX, HandleSymbolic,
       Conclude, Goto, GotoFollowing, Following
  <2>2. timerPc \in Signalling => timerPc' = timerPc
    BY <1>7 DEF ConcludeSimulations, HandleDecision, HandleZX, HandleSymbolic,
       Finish, KeepGoing, NotifyTimer, timerVars
  <2> QED
    BY <2>1, <2>2
<1>8. CASE TimerStep \/ Environment \/ TimePasses \/ Terminated \/ UNCHANGED vars
  <2>1. UNCHANGED <<circuits, config, memory, stage, mainPc, resultVars, moved, completed>>
    BY <1>8, TimerLeavesAlone
  <2>2. timerPc \in Signalling => timerPc' \in Signalling
    BY <1>8
       DEF TimerStep, Environment, TimePasses, Terminated, Test, Block, TimeOut, SetDone,
       EvaluateRange, Signal, EndSignal, SpuriousWake, BecomeVisible, DeadlinePasses,
       timerVars, vars
  <2> QED
    BY <2>1, <2>2 DEF resultVars
<1> QED
  BY <1>1, <1>2, <1>3, <1>4, <1>5, <1>6, <1>7, <1>8 DEF Next, Proceed, RunToEnd

\* Nothing of this is disturbed between the runs of a life cycle.
LEMMA BetweenSignals ==
    ASSUME IInv, SignalInv, FinishedAgree, RunAgain \/ Reset \/ Select
    PROVE  SignalInv' /\ FinishedAgree'
<1>1. mainPc' = "start" /\ UNCHANGED <<done, timerVars, moved, memory>>
      /\ mainPc \notin {"run", "result"}
  BY DEF RunAgain, Reset, Select, input
<1>2. SignalInv'
  BY <1>1 DEF SignalInv, StageLabels, timerVars
<1>3. FinishedAgree'
  <2>1. \/ UNCHANGED <<performed, completed>>
        \/ performed' = 0 /\ completed' = 0
    BY DEF RunAgain, Reset, Select, resultVars
  <2> QED
    BY <1>1, <2>1 DEF FinishedAgree, Simulating, timerVars
<1> QED
  BY <1>2, <1>3

\* What is undefined behaviour is decided once and for all.
LEMMA MemoryStays == ASSUME [LifeNext]_lifeVars \/ [Next]_vars PROVE memory' = memory
<1>1. CASE TimerStep \/ Environment \/ TimePasses \/ Terminated \/ UNCHANGED vars
  BY <1>1, TimerLeavesAlone
<1>2. CASE Proceed \/ RunToEnd
  BY <1>2, MainKeepsCircuits
<1>3. CASE RunAgain \/ Reset \/ Select
  BY <1>3 DEF RunAgain, Reset, Select, input
<1> QED
  BY <1>1, <1>2, <1>3, LifeSteps DEF Next

\* Where the timer is, and what follows from it if every thread sees the flag at once.
TimerInv ==
    /\ TimerAgrees
    /\ memory = "sequential" => SignalInv /\ FinishedAgree

\* What is known of the timeout thread holds in every reachable state.
LEMMA TimerInvariance == Spec \/ LifeSpec => []TimerInv
<1>1. Init => TimerInv
  BY InitTimerAgrees, InitSignalInv DEF TimerInv, Init, FinishedAgree, Simulating
<1>2. TimerInv /\ IInv /\ IInv' /\ [Next]_vars => TimerInv'
  BY NextTimerAgrees, NextSignalInv, NextFinishedAgree, MemoryStays DEF TimerInv
<1>3. TimerInv /\ IInv /\ IInv' /\ [LifeNext]_lifeVars => TimerInv'
  BY <1>2, LifeSteps, BetweenTimerAgrees, BetweenSignals, MemoryStays DEF TimerInv
<1> QED
  BY Invariance, <1>1, <1>2, <1>3, PTL DEF Spec, LifeSpec, LifeInit

\* If every thread sees the flag at once, a run that goes on after the timeout is that
\* of a checker told to stop, however many checkers there are and whatever the main
\* thread was in the middle of when the timeout came.
THEOREM CheckersSignalled == Spec \/ LifeSpec => []EveryCheckerSignalled
<1>1. TimerInv => EveryCheckerSignalled
  BY DEF TimerInv, SignalInv, EveryCheckerSignalled, Current
<1> QED
  BY TimerInvariance, <1>1, PTL

\* If every thread sees the flag at once, the simulations that are counted as performed are
\* those that came to their end, and at most one more: however many there are, wherever the
\* timeout comes, and also when earlier runs have counted some.
THEOREM PerformedSimulationsFinished == Spec \/ LifeSpec => []PerformedAreFinished
<1>1. IInv /\ TimerInv => PerformedAreFinished
  BY Numbers DEF IInv, TimerInv, FinishedAgree, Simulating, Signalling, PerformedAreFinished
<1> QED
  BY Invariance, TimerInvariance, <1>1, PTL

-----------------------------------------------------------------------------
(* What a run concludes *)


\* A checker found this, or nothing.
Sound(k, e) == e \in Findings(k, circuits) \cup {"NoInformation"}

\* The kinds of checkers whose results may have been handled before a stage
Before(s) == CASE s = "alternating" -> {"simulation"}
               [] s = "construction" -> {"simulation", "alternating"}
               [] s = "zx" -> {"simulation", "alternating", "construction"}
               [] s = "simulation" -> {"simulation"}
               [] OTHER -> {}

\* What checkers find is sound, and they are the ones that are configured and come first.
ResultsAgree ==
    /\ mainPc \in {"loop", "check", "run", "result"} => Sound(Kind, Result)
    /\ mainPc \in StageLabels \ {"begin"} /\ stage # "symbolic" => config[stage]
    /\ \A k \in Kinds, e \in Criteria : <<k, e>> \in handled =>
         /\ Sound(k, e)
         /\ mainPc # "start" => IF circuits.symbolic THEN k = "zx" ELSE config[k]
         /\ mainPc \in StageLabels => k \in Before(stage)

\* What does not touch the results or the checker at hand
LEMMA ResultStays ==
    ASSUME IInv, TimerStep \/ Environment \/ TimePasses \/ Terminated \/ UNCHANGED vars,
           mainPc \in {"loop", "check", "run", "result"}
    PROVE  Result' = Result
<1>1. checkers \in Seq(CheckerRecords) /\ checkers # << >>
  BY DEF IInv, TypeOK, ControlAgrees
<1>2. Len(checkers') = Len(checkers)
  BY TimerTypeOK
<1>3. \/ checkers' = checkers
      \/ next \in DOMAIN checkers /\ checkers' = [checkers EXCEPT ![next].signalled = TRUE]
  BY DEF TimerStep, Environment, TimePasses, Terminated, Test, Block, TimeOut, SetDone,
     EvaluateRange, Signal, EndSignal, SpuriousWake, BecomeVisible, DeadlinePasses, vars
<1>4. Len(checkers) \in 1 .. Len(checkers)
  BY <1>1, EmptySeq
<1>5. CASE next \in DOMAIN checkers /\ checkers' = [checkers EXCEPT ![next].signalled = TRUE]
  BY <1>1, <1>2, <1>4, <1>5 DEF Result, Current, CheckerRecords
<1> QED
  BY <1>2, <1>3, <1>5 DEF Result, Current

\* Every step hands on results of the kinds that are configured, and sound ones.
LEMMA NextResultsAgree ==
    ASSUME IInv, IInv', ResultsAgree, [Next]_vars
    PROVE  ResultsAgree'
<1> USE DEF ResultsAgree, StageLabels
<1>0. TypeOK /\ ControlAgrees /\ stage \in Stages /\ TypeOK'
  BY DEF IInv, TypeOK
<1>1. CASE ReturnAtOnce \/ StartTimer
  BY <1>1 DEF ReturnAtOnce, StartTimer, EnterRun, Goto
<1>2. CASE Begin
  BY <1>0, <1>2 DEF Begin, Wanted, Goto, input, resultVars, Sound, Kind, Stages
<1>3. CASE Skip \/ SkipZX \/ LeaveLoop \/ Join \/ CreateThrows \/ RunThrows \/ ConcludeSimulations
  BY <1>0, <1>3 DEF Skip, SkipZX, LeaveLoop, Join, CreateThrows, RunThrows, ConcludeSimulations, Goto,
     GotoFollowing, Following, Leave, input, resultVars, Sound, Before, Stages, ControlAgrees
<1>4. CASE Create
  <2>1. Result' = "NoInformation"
    BY <1>0, <1>4 DEF Create, Result, Current, TypeOK
  <2> QED
    BY <1>0, <1>4, <2>1 DEF Create, Goto, input, resultVars, Sound, Kind
<1>5. CASE LoopSimulation \/ CheckDone
  BY <1>0, <1>5 DEF LoopSimulation, CheckDone, Goto, GotoFollowing, Following, input, resultVars,
     Sound, Before, Stages, ControlAgrees, Kind, Result, Current
<1>6. CASE Abort \/ Complete
  <2>1. Current \in 1 .. Len(checkers) /\ checkers \in Seq(CheckerRecords)
    BY <1>0, <1>6, CurrentChecker DEF Abort, Complete, TypeOK
  <2>2. PICK e : /\ checkers' = [checkers EXCEPT ![Current].equivalence = e]
                 /\ e \in Findings(Kind, circuits) \cup {"NoInformation", Result}
    BY <1>6 DEF Abort, Complete, Result
  <2>3. Result' = e
    BY <2>1, <2>2 DEF CheckerRecords, Result, Current
  <2>4. UNCHANGED <<circuits, config, stage, handled, Kind>> /\ mainPc' = "result" /\ mainPc = "run"
    BY <1>6 DEF Abort, Complete, Goto, Kind, input, resultVars
  <2> QED
    BY <2>2, <2>3, <2>4 DEF Sound
<1>7. CASE HandleSimulation \/ HandleDecision \/ HandleZX \/ HandleSymbolic
  <2>1. /\ handled' = handled \cup {<<Kind, Result>>}
        /\ UNCHANGED <<circuits, config, checkers>>
        /\ mainPc = "result"
    BY <1>7 DEF HandleSimulation, HandleDecision, HandleZX, HandleSymbolic, Conclude, input
  <2>2. Kind \in Kinds /\ Result \in Criteria /\ Sound(Kind, Result) /\ Result' = Result
        /\ IF circuits.symbolic THEN Kind = "zx" ELSE config[Kind]
    BY <1>0, <2>1, CurrentChecker DEF Kind, Result, Current, ControlAgrees
  <2>3. stage # "none"
    BY <1>0, <2>1 DEF ControlAgrees
  <2>4. \/ mainPc' \in {"loop", "conclude"} /\ stage = "simulation" /\ stage' = "simulation"
        \/ mainPc' \in {"returned", "terminated", "join"} /\ stage' = "none"
        \/ mainPc' = "begin" /\ stage' = Following /\ stage \in {"alternating", "construction"}
    BY <1>7 DEF HandleSimulation, HandleDecision, HandleZX, HandleSymbolic, Conclude, Goto,
       GotoFollowing, Leave, Following
  <2>5. mainPc' \in StageLabels => \A k \in Before(stage) \cup {Kind} : k \in Before(stage')
    BY <1>0, <2>3, <2>4 DEF Following, Before, Kind
  <2> QED
    BY <2>1, <2>2, <2>3, <2>4, <2>5 DEF Sound, Kind
<1>8. CASE TimerStep \/ Environment \/ TimePasses \/ Terminated \/ UNCHANGED vars
  BY <1>8, TimerLeavesAlone, ResultStays DEF resultVars, Sound, Kind
<1> QED
  BY <1>1, <1>2, <1>3, <1>4, <1>5, <1>6, <1>7, <1>8 DEF Next, Proceed, RunToEnd

\* The simulations suggest this, or have found that.
SimEq == <<"simulation", "Equivalent">>
SimNeq == <<"simulation", "NotEquivalent">>

\* No checker that has been handled decides.
UndecidedBy(seen) ==
    \A k \in Kinds : /\ <<k, "NotEquivalent">> \notin seen
                     /\ k # "simulation" => <<k, "Equivalent">> \notin seen

Undecided == UndecidedBy(handled)

\* What has been handled while the simulations are under way
SimulationAgrees ==
    stage = "simulation" =>
      /\ mainPc \in {"begin", "create"} => SimEq \notin handled
      /\ SimNeq \in handled => mainPc = "conclude"
      /\ mainPc \in {"loop", "run"} =>
           Result = IF SimEq \in handled THEN "Equivalent" ELSE "NoInformation"
      /\ mainPc = "result" /\ Result = "NoInformation" => SimEq \notin handled
      /\ mainPc = "conclude" => SimulationsFinished \/ Done \/ SimNeq \in handled

\* The other checkers run only if nothing has been decided, and all simulations performed.
OthersAgree ==
    stage \in {"alternating", "construction", "zx"} =>
        \/ mainPc = "begin" /\ Done
        \/ Undecided /\ (config.simulation => SimulationsFinished)

\* The verdict is what the results amount to.
VerdictAgrees == circuits.empty \/ equivalence = Summary(handled, performed = config.maxSims)

\* There is a counterexample if a simulation found one, and only for circuits that differ.
CexAgrees ==
    /\ SimNeq \in handled => cexFound \/ mainPc = "conclude"
    /\ cexFound => ~circuits.equivalent

\* A run of nothing, or on nothing, returns at once.
ReturnsAtOnce ==
    /\ circuits.empty \/ ~AnythingToExecute(config) => mainPc \in {"start", "returned"}
    /\ mainPc = "returned" /\ ~AnythingToExecute(config) => equivalence = "NoInformation"
    /\ mainPc = "returned" /\ AnythingToExecute(config) /\ circuits.empty
         => equivalence = "Equivalent"

\* What the results amount to, when something is decided
LEMMA SummaryOfRefuted ==
    ASSUME NEW seen, NEW b, NEW k \in Kinds, <<k, "NotEquivalent">> \in seen
    PROVE  Summary(seen, b) = "NotEquivalent"
<1>1. \E j \in Kinds : <<j, "NotEquivalent">> \in seen
  OBVIOUS
<1> QED
  BY <1>1 DEF Summary

\* Results one of which shows equivalence, and none of which refutes it, sum up to that.
LEMMA SummaryOfShown ==
    ASSUME NEW seen, NEW b, NEW k \in Kinds \ {"simulation"}, <<k, "Equivalent">> \in seen,
           \A j \in Kinds : <<j, "NotEquivalent">> \notin seen
    PROVE  Summary(seen, b) = "Equivalent"
<1>1. ~\E j \in Kinds : <<j, "NotEquivalent">> \in seen
  OBVIOUS
<1>2. \E j \in Kinds \ {"simulation"} : <<j, "Equivalent">> \in seen
  OBVIOUS
<1> QED
  BY <1>1, <1>2 DEF Summary

\* What the results amount to, when nothing is decided
LEMMA SummaryOfUndecided ==
    ASSUME NEW seen, UndecidedBy(seen), NEW b \in BOOLEAN
    PROVE  Summary(seen, b) =
             IF <<"zx", "ProbablyNotEquivalent">> \in seen
             THEN IF SimEq \in seen /\ b THEN "NoInformation" ELSE "ProbablyNotEquivalent"
             ELSE IF SimEq \in seen THEN "ProbablyEquivalent" ELSE "NoInformation"
  BY DEF UndecidedBy, Summary, SimEq, Kinds

\* The simulations go on until one finds something, all are done, or the flag is set.
LEMMA NextSimulationAgrees ==
    ASSUME IInv, IInv', ResultsAgree, ResultsAgree', SimulationAgrees, [Next]_vars
    PROVE  SimulationAgrees'
<1> USE DEF SimulationAgrees, StageLabels
<1>0. TypeOK /\ ControlAgrees
  BY DEF IInv, TypeOK
<1>1. CASE ReturnAtOnce \/ StartTimer
  BY <1>1 DEF ReturnAtOnce, StartTimer, EnterRun, Goto
<1>2. CASE Begin \/ LeaveLoop \/ LoopSimulation
  BY <1>0, <1>2 DEF Begin, LeaveLoop, LoopSimulation, Goto, resultVars, SimulationsFinished, Done,
     Result, Current, input
<1>3. CASE Skip \/ SkipZX \/ Join \/ CreateThrows \/ RunThrows \/ ConcludeSimulations \/ CheckDone
           \/ HandleDecision \/ HandleZX \/ HandleSymbolic
  BY <1>0, <1>3 DEF Skip, SkipZX, Join, CreateThrows, RunThrows, ConcludeSimulations, CheckDone, Goto,
     HandleDecision, HandleZX, HandleSymbolic, Conclude, GotoFollowing, Following, Leave, Kind, ControlAgrees
<1>4. CASE Create
  <2>1. Result' = "NoInformation"
    BY <1>0, <1>4 DEF Create, Result, Current, TypeOK
  <2> QED
    BY <1>0, <1>4, <2>1 DEF Create, Goto, input, resultVars
<1>5. CASE Abort \/ Complete
  <2>1. Current \in 1 .. Len(checkers) /\ checkers \in Seq(CheckerRecords)
    BY <1>0, <1>5, CurrentChecker DEF Abort, Complete, TypeOK
  <2>2. PICK e : /\ checkers' = [checkers EXCEPT ![Current].equivalence = e]
                 /\ stage = "simulation" => e \in {"Equivalent", "NotEquivalent", Result}
    BY <1>5 DEF Abort, Complete, Result, Findings, Kind
  <2>3. Result' = e
    BY <2>1, <2>2 DEF CheckerRecords, Result, Current
  <2> QED
    BY <1>5, <2>2, <2>3 DEF Abort, Complete, Goto, resultVars
<1>6. CASE HandleSimulation
  <2>1. checkers' = checkers /\ handled' = handled \cup {<<"simulation", Result>>}
        /\ stage = "simulation" /\ mainPc = "result"
    BY <1>6 DEF HandleSimulation, Conclude, Kind
  <2> QED
    BY <1>0, <1>6, <2>1 DEF HandleSimulation, Goto, Leave, Result, Current, SimEq, SimNeq
<1>7. CASE TimerStep \/ Environment \/ TimePasses \/ Terminated \/ UNCHANGED vars
  <2>1. Done => Done'
    BY <1>7 DEF TimerStep, Environment, TimePasses, Terminated, Test, Block, TimeOut, SetDone,
       EvaluateRange, Signal, EndSignal, SpuriousWake, BecomeVisible, DeadlinePasses, vars,
       Done, Threads, SetBy
  <2> QED
    BY <1>7, <2>1, TimerLeavesAlone, ResultStays DEF resultVars, SimulationsFinished
<1> QED
  BY <1>1, <1>2, <1>3, <1>4, <1>5, <1>6, <1>7 DEF Next, Proceed, RunToEnd

\* A run ends at once if it has nothing to do.
LEMMA NextReturnsAtOnce ==
    ASSUME IInv, ReturnsAtOnce, [Next]_vars
    PROVE  ReturnsAtOnce'
<1> USE DEF ReturnsAtOnce
<1>1. CASE ReturnAtOnce \/ StartTimer
  BY <1>1 DEF ReturnAtOnce, StartTimer, Goto, input
<1>2. CASE (Proceed \/ RunToEnd) /\ ~ReturnAtOnce /\ ~StartTimer
  <2>1. mainPc \notin {"start", "returned"} /\ UNCHANGED <<circuits, config>>
    BY <1>2, MainKeepsCircuits
       DEF Proceed, RunToEnd, Begin, Create, CreateThrows, Skip, SkipZX, LoopSimulation,
       LeaveLoop, CheckDone, Abort, HandleSimulation, ConcludeSimulations, HandleDecision,
       HandleZX, HandleSymbolic, Join, Complete, RunThrows, Conclude
  <2> QED
    BY <2>1
<1>3. CASE TimerStep \/ Environment \/ TimePasses \/ Terminated \/ UNCHANGED vars
  BY <1>3, TimerLeavesAlone DEF resultVars
<1> QED
  BY <1>1, <1>2, <1>3 DEF Next

\* What is decided sets the flag, and the checks that follow are skipped.
LEMMA NextOthersAgree ==
    ASSUME IInv, IInv', ResultsAgree, ResultsAgree', SimulationAgrees, OthersAgree,
           VerdictAgrees, ReturnsAtOnce, [Next]_vars
    PROVE  OthersAgree'
<1> USE DEF OthersAgree, Undecided, UndecidedBy
<1>0. TypeOK /\ ControlAgrees
  BY DEF IInv, TypeOK
<1>1. CASE ReturnAtOnce \/ StartTimer
  BY <1>1 DEF ReturnAtOnce, StartTimer, EnterRun, Goto
<1>2. CASE Begin \/ Create \/ Abort \/ Complete
  BY <1>0, <1>2 DEF Begin, Create, Abort, Complete, Goto, Wanted, SimulationsFinished, input,
     resultVars, Kind, Stages, ControlAgrees
<1>3. CASE LeaveLoop \/ LoopSimulation \/ Join \/ CreateThrows \/ RunThrows \/ HandleSimulation
           \/ HandleZX \/ HandleSymbolic
  BY <1>0, <1>3 DEF LeaveLoop, LoopSimulation, Join, CreateThrows, RunThrows, HandleSimulation,
     Goto, HandleZX, HandleSymbolic, Conclude, GotoFollowing, Following, Leave, ControlAgrees
<1>4. CASE Skip
  <2>1. CASE stage = "simulation"
    <3>1. Undecided /\ ~config.simulation
      BY <1>4, <2>1 DEF Skip, Wanted, ResultsAgree, SimulationAgrees, Before, SimNeq,
         StageLabels, Kinds, Criteria
    <3> QED
      BY <1>4, <2>1, <3>1 DEF Skip, GotoFollowing, Goto, Following, input, resultVars
  <2>2. CASE stage # "simulation"
    BY <1>4, <2>2 DEF Skip, GotoFollowing, Goto, Following, input, resultVars,
       SimulationsFinished, Done
  <2> QED
    BY <2>1, <2>2
<1>5. CASE SkipZX
  BY <1>0, <1>5 DEF SkipZX, Usable, Kind, GotoFollowing, Goto, Following, Leave
<1>6. CASE CheckDone
  BY <1>0, <1>6 DEF CheckDone, GotoFollowing, Goto, Following, input, resultVars,
     SimulationsFinished, Done, ControlAgrees
<1>7. CASE ConcludeSimulations
  <2>1. stage = "simulation" /\ mainPc = "conclude" /\ ~circuits.empty
    BY <1>0, <1>7 DEF ConcludeSimulations, ControlAgrees, ReturnsAtOnce
  <2>2. SimNeq \in handled => equivalence = "NotEquivalent"
    BY <2>1, SummaryOfRefuted DEF VerdictAgrees, SimNeq, Kinds
  <2>3. SimNeq \notin handled => Undecided
    BY <2>1 DEF ResultsAgree, Before, SimNeq, StageLabels, Kinds, Criteria
  <2>4. equivalence = "NotEquivalent" => Done'
    BY <1>7 DEF ConcludeSimulations, Finish, SetBy, Done, Threads
  <2>5. Done => Done'
    BY <1>7 DEF ConcludeSimulations, Finish, KeepGoing, SetBy, Done, Threads
  <2> QED
    BY <1>7, <2>1, <2>2, <2>3, <2>4, <2>5 DEF ConcludeSimulations, GotoFollowing, Following,
       Goto, SimulationAgrees, SimulationsFinished, input
<1>8. CASE HandleDecision
  <2>1. /\ stage \in {"alternating", "construction"} /\ mainPc = "result" /\ Undecided
        /\ config.simulation => SimulationsFinished
        /\ handled' = handled \cup {<<stage, Result>>}
    BY <1>8 DEF HandleDecision, Conclude, Kind
  <2>2. Result # "NoInformation" => Done'
    BY <1>8 DEF HandleDecision, Finish, SetBy, Done, Threads
  <2>3. Result = "NoInformation" => Undecided'
    BY <2>1
  <2> QED
    BY <1>8, <2>1, <2>2, <2>3 DEF HandleDecision, Conclude, GotoFollowing, Following, Goto,
       SimulationsFinished, input
<1>9. CASE TimerStep \/ Environment \/ TimePasses \/ Terminated \/ UNCHANGED vars
  <2>1. Done => Done'
    BY <1>9 DEF TimerStep, Environment, TimePasses, Terminated, Test, Block, TimeOut, SetDone,
       EvaluateRange, Signal, EndSignal, SpuriousWake, BecomeVisible, DeadlinePasses, vars,
       Done, Threads, SetBy
  <2> QED
    BY <1>9, <2>1, TimerLeavesAlone DEF resultVars, SimulationsFinished
<1> QED
  BY <1>1, <1>2, <1>3, <1>4, <1>5, <1>6, <1>7, <1>8, <1>9 DEF Next, Proceed, RunToEnd

\* The verdict that has been reached is what the results amount to.
LEMMA NextVerdictAgrees ==
    ASSUME IInv, IInv', ResultsAgree, SimulationAgrees, OthersAgree, VerdictAgrees,
           ReturnsAtOnce, [Next]_vars
    PROVE  VerdictAgrees'
<1> USE DEF VerdictAgrees
<1>0. TypeOK /\ ControlAgrees /\ (performed = config.maxSims) \in BOOLEAN
  BY DEF IInv, TypeOK
<1>1. CASE ReturnAtOnce \/ StartTimer
  BY <1>1 DEF ReturnAtOnce, StartTimer, EnterRun, Summary, input
<1>2. CASE Begin \/ Create \/ Abort \/ Complete \/ Skip \/ LeaveLoop \/ LoopSimulation \/ Join
           \/ CreateThrows \/ RunThrows \/ CheckDone \/ ConcludeSimulations
  BY <1>0, <1>2 DEF Begin, Create, Abort, Complete, Skip, LeaveLoop, LoopSimulation, Join,
     CreateThrows, RunThrows, CheckDone, ConcludeSimulations, input, resultVars
<1>3. CASE TimerStep \/ Environment \/ TimePasses \/ Terminated \/ UNCHANGED vars
  BY <1>3, TimerLeavesAlone DEF resultVars
<1>4. CASE SkipZX
  <2>1. mainPc = "begin" /\ (stage = "symbolic" \/ stage = "zx")
    BY <1>0, <1>4 DEF SkipZX, Usable, Kind
  <2>2. CASE stage = "symbolic" \/ OnlyZXCheckerConfigured(config)
    <3>1. \A k \in Kinds, e \in Criteria : <<k, e>> \notin handled
      BY <1>0, <2>1, <2>2 DEF ResultsAgree, Before, StageLabels, OnlyZXCheckerConfigured,
         OtherCheckers, ControlAgrees, Kinds
    <3>2. Summary(handled, performed = config.maxSims) = "NoInformation"
      BY <3>1 DEF Summary, Kinds, Criteria
    <3> QED
      BY <1>4, <2>2, <3>2 DEF SkipZX, input
  <2>3. CASE ~(stage = "symbolic" \/ OnlyZXCheckerConfigured(config))
    BY <1>4, <2>3 DEF SkipZX, input
  <2> QED
    BY <2>2, <2>3
<1>5. CASE HandleSimulation
  <2>1. /\ stage = "simulation" /\ mainPc = "result" /\ Kind = "simulation"
        /\ handled' = handled \cup {<<"simulation", Result>>}
        /\ circuits' = circuits /\ config' = config
    BY <1>5 DEF HandleSimulation, Conclude, Kind, input
  <2>2. \A k \in Kinds, e \in Criteria : <<k, e>> \in handled => k = "simulation"
    BY <2>1 DEF ResultsAgree, Before, StageLabels
  <2>3. SimNeq \notin handled
    BY <2>1 DEF SimulationAgrees
  <2>4. UndecidedBy(handled)
    BY <2>2, <2>3 DEF UndecidedBy, SimNeq, Kinds, Criteria
  <2>5. CASE Result = "NotEquivalent"
    <3>1. Summary(handled', (performed = config.maxSims)') = "NotEquivalent"
      BY <2>1, <2>5, SummaryOfRefuted DEF Kinds
    <3> QED
      BY <1>5, <2>5, <3>1 DEF HandleSimulation
  <2>6. CASE Result \in {"Equivalent", "NoInformation"}
    <3>1. UndecidedBy(handled') /\ <<"zx", "ProbablyNotEquivalent">> \notin handled'
          /\ <<"zx", "ProbablyNotEquivalent">> \notin handled
      BY <2>1, <2>2, <2>4, <2>6 DEF UndecidedBy, Kinds, Criteria
    <3>2. Summary(handled, performed = config.maxSims)
            = IF SimEq \in handled THEN "ProbablyEquivalent" ELSE "NoInformation"
      BY <1>0, <2>4, <3>1, SummaryOfUndecided
    <3>3. Summary(handled', (performed = config.maxSims)')
            = IF SimEq \in handled' THEN "ProbablyEquivalent" ELSE "NoInformation"
      BY <3>1, SummaryOfUndecided DEF IInv, TypeOK
    <3> QED
      BY <1>5, <2>1, <2>6, <3>2, <3>3 DEF HandleSimulation, SimEq, SimulationAgrees,
         ReturnsAtOnce
  <2> QED
    BY <1>5, <2>5, <2>6 DEF HandleSimulation
<1>6. CASE HandleDecision
  <2>1. /\ stage \in {"alternating", "construction"} /\ mainPc = "result"
        /\ handled' = handled \cup {<<stage, Result>>}
        /\ UNCHANGED <<circuits, config, performed>>
    BY <1>6 DEF HandleDecision, Conclude, Kind, input
  <2>2. Undecided /\ Result \in {"Equivalent", "NotEquivalent", "NoInformation"}
    BY <2>1 DEF OthersAgree, ResultsAgree, Sound, Findings, Kind
  <2>3. CASE Result = "NoInformation"
    <3>1. UndecidedBy(handled')
      BY <2>1, <2>2, <2>3 DEF Undecided, UndecidedBy
    <3>2. Summary(handled', (performed = config.maxSims)') = Summary(handled, performed = config.maxSims)
      <4>1. /\ SimEq \in handled' <=> SimEq \in handled
            /\ <<"zx", "ProbablyNotEquivalent">> \in handled'
                 <=> <<"zx", "ProbablyNotEquivalent">> \in handled
        BY <2>1, <2>3 DEF SimEq
      <4>2. UndecidedBy(handled) /\ (performed = config.maxSims)' = (performed = config.maxSims)
        BY <2>1, <2>2 DEF Undecided
      <4> QED
        BY <1>0, <3>1, <4>1, <4>2, SummaryOfUndecided
    <3> QED
      BY <1>6, <2>1, <2>3, <3>2 DEF HandleDecision
  <2>4. CASE Result \in {"Equivalent", "NotEquivalent"}
    <3>1. equivalence' = Result /\ stage \in Kinds
      BY <1>6, <2>1, <2>4 DEF HandleDecision, Kinds
    <3>2. Summary(handled', (performed = config.maxSims)') = Result
      <4>1. CASE Result = "NotEquivalent"
        BY <2>1, <3>1, <4>1, SummaryOfRefuted
      <4>2. CASE Result = "Equivalent"
        <5>1. \A j \in Kinds : <<j, "NotEquivalent">> \notin handled'
          BY <2>1, <2>2, <4>2 DEF Undecided, UndecidedBy
        <5>2. stage \in Kinds \ {"simulation"} /\ <<stage, "Equivalent">> \in handled'
          BY <2>1, <3>1, <4>2
        <5> QED
          BY <4>2, <5>1, <5>2, SummaryOfShown
      <4> QED
        BY <2>4, <4>1, <4>2
    <3> QED
      BY <3>1, <3>2
  <2> QED
    BY <2>2, <2>3, <2>4
<1>7. CASE HandleZX \/ HandleSymbolic
  <2>1. /\ stage \in {"zx", "symbolic"} /\ mainPc = "result"
        /\ handled' = handled \cup {<<"zx", Result>>}
        /\ UNCHANGED <<circuits, config, performed>>
    BY <1>7 DEF HandleZX, HandleSymbolic, Conclude, Kind, input
  <2>2. Result \in {"Equivalent", "ProbablyNotEquivalent", "NoInformation"} /\ stage # "none"
    BY <2>1 DEF ResultsAgree, Sound, Findings, Kind
  <2>3. /\ Undecided
        /\ <<"zx", "ProbablyNotEquivalent">> \notin handled
        /\ SimEq \in handled => stage = "zx" /\ performed = config.maxSims
    <3>1. \A k \in Kinds, e \in Criteria : <<k, e>> \in handled =>
            k # "zx" /\ stage = "zx" /\ config[k]
      BY <1>0, <2>1 DEF ResultsAgree, Before, StageLabels, ControlAgrees
    <3>2. stage = "symbolic" => Undecided
      BY <3>1 DEF Undecided, UndecidedBy, Criteria
    <3>3. stage = "zx" => Undecided /\ (config.simulation => performed = config.maxSims)
      BY <2>1 DEF OthersAgree, SimulationsFinished
    <3> QED
      BY <2>1, <3>1, <3>2, <3>3 DEF SimEq, Kinds, Criteria
  <2>4. circuits.empty \/ equivalence = IF SimEq \in handled THEN "ProbablyEquivalent" ELSE "NoInformation"
    BY <1>0, <2>3, SummaryOfUndecided DEF Undecided
  <2>5. ~circuits.empty
    BY <2>1 DEF ReturnsAtOnce
  <2>6. CASE Result = "Equivalent"
    <3>1. Summary(handled', (performed = config.maxSims)') = "Equivalent"
      <4>1. \A j \in Kinds : <<j, "NotEquivalent">> \notin handled'
        BY <2>1, <2>3, <2>6 DEF Undecided, UndecidedBy
      <4> QED
        BY <2>1, <2>6, <4>1, SummaryOfShown DEF Kinds
    <3> QED
      BY <1>7, <2>6, <3>1 DEF HandleZX, HandleSymbolic
  <2>7. CASE Result \in {"ProbablyNotEquivalent", "NoInformation"}
    <3>1. UndecidedBy(handled')
      BY <2>1, <2>3, <2>7 DEF Undecided, UndecidedBy
    <3>2. Summary(handled', performed = config.maxSims) =
             IF Result = "ProbablyNotEquivalent"
             THEN IF SimEq \in handled THEN "NoInformation" ELSE "ProbablyNotEquivalent"
             ELSE IF SimEq \in handled THEN "ProbablyEquivalent" ELSE "NoInformation"
      BY <1>0, <2>1, <2>3, <2>7, <3>1, SummaryOfUndecided DEF SimEq
    <3>3. equivalence' = IF Result = "ProbablyNotEquivalent"
             THEN IF SimEq \in handled THEN "NoInformation" ELSE "ProbablyNotEquivalent"
             ELSE IF SimEq \in handled THEN "ProbablyEquivalent" ELSE "NoInformation"
      <4>1. CASE HandleZX
        BY <2>4, <2>5, <2>7, <4>1 DEF HandleZX
      <4>2. CASE HandleSymbolic
        BY <2>3, <2>7, <4>2 DEF HandleSymbolic, Conclude
      <4> QED
        BY <1>7, <4>1, <4>2
    <3> QED
      BY <2>1, <3>2, <3>3
  <2> QED
    BY <2>2, <2>6, <2>7
<1> QED
  BY <1>1, <1>2, <1>3, <1>4, <1>5, <1>6, <1>7 DEF Next, Proceed, RunToEnd

\* There is a counterexample only for circuits that differ.
LEMMA NextCexAgrees ==
    ASSUME IInv, ResultsAgree, SimulationAgrees, VerdictAgrees, ReturnsAtOnce, CexAgrees, [Next]_vars
    PROVE  CexAgrees'
<1> USE DEF CexAgrees
<1>0. TypeOK /\ ControlAgrees
  BY DEF IInv
<1>1. CASE ReturnAtOnce \/ StartTimer
  BY <1>1 DEF ReturnAtOnce, StartTimer, EnterRun, input
<1>2. CASE Begin \/ Create \/ Abort \/ Complete \/ Skip \/ SkipZX \/ LeaveLoop \/ LoopSimulation \/ Join \/ CreateThrows
           \/ RunThrows \/ CheckDone
  BY <1>0, <1>2 DEF Begin, Create, Abort, Complete, Skip, SkipZX, LeaveLoop, LoopSimulation, Join, CreateThrows,
     RunThrows, CheckDone, Goto, GotoFollowing, Leave, input, resultVars
<1>3. CASE TimerStep \/ Environment \/ TimePasses \/ Terminated \/ UNCHANGED vars
  BY <1>3, TimerLeavesAlone DEF resultVars
<1>4. CASE ConcludeSimulations
  <2>1. mainPc = "conclude" /\ stage = "simulation" /\ ~circuits.empty
    BY <1>0, <1>4 DEF ConcludeSimulations, ControlAgrees, ReturnsAtOnce
  <2>2. SimNeq \in handled <=> equivalence = "NotEquivalent"
    <3>1. SimNeq \in handled => equivalence = "NotEquivalent"
      BY <2>1, SummaryOfRefuted DEF VerdictAgrees, SimNeq, Kinds
    <3>2. ASSUME SimNeq \notin handled
          PROVE  equivalence # "NotEquivalent"
      <4>1. Undecided
        BY <2>1, <3>2 DEF Undecided, UndecidedBy, ResultsAgree, Before, SimNeq, StageLabels, Kinds, Criteria
      <4> QED
        BY <2>1, <4>1, SummaryOfUndecided DEF VerdictAgrees, Undecided
    <3> QED
      BY <3>1, <3>2
  <2>3. SimNeq \in handled => ~circuits.equivalent
    BY DEF ResultsAgree, Sound, Findings, SimNeq, Kinds, Criteria
  <2> QED
    BY <1>4, <2>2, <2>3 DEF ConcludeSimulations, input
<1>5. CASE HandleSimulation
  BY <1>5 DEF HandleSimulation, Conclude, Kind, Goto, Leave, SimNeq, SimulationAgrees, input
<1>6. CASE HandleDecision \/ HandleZX \/ HandleSymbolic
  BY <1>0, <1>6 DEF HandleDecision, HandleZX, HandleSymbolic, Conclude, Kind, SimNeq, input, ControlAgrees
<1> QED
  BY <1>1, <1>2, <1>3, <1>4, <1>5, <1>6 DEF Next, Proceed, RunToEnd
\* What happens between two runs leaves the results be, or drops all of them.
LEMMA BetweenVerdicts ==
    ASSUME IInv, ResultsAgree, VerdictAgrees, CexAgrees, RunAgain \/ Reset \/ Select
    PROVE  /\ ResultsAgree' /\ SimulationAgrees' /\ OthersAgree'
           /\ VerdictAgrees' /\ CexAgrees' /\ ReturnsAtOnce'
<1>1. /\ mainPc' = "start" /\ mainPc \in {"start", "returned", "threw"}
      /\ stage = "none" /\ stage' = stage /\ circuits' = circuits
  BY DEF RunAgain, Reset, Select, input, IInv, ControlAgrees, StageLabels
<1>2. config'.maxSims = config.maxSims
  <2>1. CASE Select
    <3>1. PICK kinds :
            config' = [config EXCEPT !.alternating = "alternating" \in kinds,
                                     !.construction = "construction" \in kinds,
                                     !.simulation = "simulation" \in kinds,
                                     !.zx = "zx" \in kinds]
      BY <2>1 DEF Select
    <3>2. config \in Configurations
      BY DEF IInv, TypeOK
    <3> QED
      BY <3>1, <3>2 DEF Configurations
  <2>2. CASE RunAgain \/ Reset
    BY <2>2 DEF RunAgain, Reset, input
  <2> QED
    BY <2>1, <2>2
<1>3. \/ UNCHANGED <<handled, equivalence, performed, cexFound>>
      \/ handled' = {} /\ equivalence' = "NoInformation" /\ cexFound' = FALSE
  BY DEF RunAgain, Reset, Select, resultVars
<1>4. \A b \in BOOLEAN : Summary({}, b) = "NoInformation"
  BY DEF Summary
<1>5. ResultsAgree'
  BY <1>1, <1>3 DEF ResultsAgree, Sound, StageLabels
<1>6. SimulationAgrees' /\ OthersAgree'
  BY <1>1 DEF SimulationAgrees, OthersAgree
<1>7. VerdictAgrees'
  BY <1>1, <1>2, <1>3, <1>4 DEF VerdictAgrees
<1>8. CexAgrees' /\ ReturnsAtOnce'
  BY <1>1, <1>3 DEF CexAgrees, ReturnsAtOnce
<1> QED
  BY <1>5, <1>6, <1>7, <1>8

\* All of it together
VerdictInv ==
    /\ ResultsAgree /\ SimulationAgrees /\ OthersAgree
    /\ VerdictAgrees /\ CexAgrees /\ ReturnsAtOnce

\* All of it is invariant, in one run and in several.
LEMMA VerdictInvariance == Spec \/ LifeSpec => []VerdictInv
<1> USE DEF VerdictInv
<1>1. Init => VerdictInv
  BY DEF Init, ResultsAgree, SimulationAgrees, OthersAgree, VerdictAgrees, CexAgrees,
     ReturnsAtOnce, StageLabels, Summary
<1>2. VerdictInv /\ IInv /\ IInv' /\ [Next]_vars => VerdictInv'
  BY NextResultsAgree, NextSimulationAgrees, NextOthersAgree, NextVerdictAgrees,
     NextCexAgrees, NextReturnsAtOnce
<1>3. VerdictInv /\ IInv /\ IInv' /\ [LifeNext]_lifeVars => VerdictInv'
  BY <1>2, LifeSteps, BetweenVerdicts
<1> QED
  BY Invariance, <1>1, <1>2, <1>3, PTL DEF Spec, LifeSpec, LifeInit

-----------------------------------------------------------------------------
(* Decisions that nothing stands in the way of *)

Decides == config.alternating \/ config.construction

\* Without a timeout, or if every thread sees the flag at once, the main thread goes on after
\* the check of a checker that decides only if it has been told to stop.  After a simulation
\* that has no result, run() returns.
PromptInv ==
    /\ memory = "sequential" \/ ~config.timed =>
         /\ stage \in {"construction", "zx"} /\ config.alternating => mainPc = "begin" /\ Done
         /\ stage = "zx" /\ config.construction => mainPc = "begin" /\ Done
         /\ mainPc = "join" /\ ~circuits.symbolic /\ Decides => Done
         /\ stage \in {"alternating", "construction"} /\ mainPc = "result"
            /\ Result = "NoInformation" => Done
    /\ <<"simulation", "NoInformation">> \in handled
         => mainPc \in {"start", "returned", "terminated"}

\* A checker that decides has a result, unless it has been signalled.
LEMMA NextPromptInv ==
    ASSUME IInv, IInv', TimerInv, ResultsAgree, PromptInv, [Next]_vars
    PROVE  PromptInv'
<1> USE DEF PromptInv, Decides
<1>0. TypeOK /\ ControlAgrees /\ stage \in Stages
  BY DEF IInv, TypeOK
<1>1. CASE ReturnAtOnce \/ StartTimer
  BY <1>1 DEF ReturnAtOnce, StartTimer, EnterRun, Goto
<1>2. CASE Begin \/ Create \/ LeaveLoop \/ LoopSimulation \/ Join \/ CreateThrows \/ RunThrows
           \/ ConcludeSimulations
  BY <1>0, <1>2 DEF Begin, Create, LeaveLoop, LoopSimulation, Join, CreateThrows, RunThrows,
     ConcludeSimulations, Goto, GotoFollowing, Following, Leave, Wanted, Kind, Done, input,
     resultVars, ControlAgrees, Stages, StageLabels
<1>3. CASE Skip \/ SkipZX
  BY <1>0, <1>3 DEF Skip, SkipZX, Wanted, Usable, Goto, GotoFollowing, Following, Leave, Kind,
     Done, input, resultVars, ControlAgrees, Stages, StageLabels
<1>4. CASE CheckDone
  BY <1>0, <1>4 DEF CheckDone, Goto, GotoFollowing, Following, Done, input, resultVars,
     ControlAgrees, Stages, StageLabels
<1>5. CASE Abort \/ Complete
  <2>1. /\ mainPc = "run" /\ mainPc' = "result"
        /\ UNCHANGED <<stage, done, circuits, config, memory, handled>>
    BY <1>5 DEF Abort, Complete, Goto, input, resultVars
  <2>2. ASSUME memory = "sequential" \/ ~config.timed,
               stage \in {"alternating", "construction"}, Result' = "NoInformation"
        PROVE  Done
    <3>1. CASE Abort
      <4>1. timerPc \in Signalling
        BY <2>1, <3>1 DEF Abort, TimerInv, TimerAgrees
      <4> QED
        BY <2>1, <2>2, <4>1 DEF TimerInv, TimerAgrees, SignalInv, Signalling, StageLabels,
           Done, Threads
    <3>2. CASE Complete
      <4>1. Current \in 1 .. Len(checkers) /\ checkers \in Seq(CheckerRecords)
        BY <1>0, <2>1, CurrentChecker DEF TypeOK
      <4>2. PICK e : /\ checkers' = [checkers EXCEPT ![Current].equivalence = e]
                     /\ e \in Findings(Kind, circuits)
        BY <3>2 DEF Complete
      <4>3. Result' = e
        BY <4>1, <4>2 DEF CheckerRecords, Result, Current
      <4> QED
        BY <2>2, <4>2, <4>3 DEF Findings, Kind
    <3> QED
      BY <1>5, <3>1, <3>2
  <2> QED
    BY <2>1, <2>2 DEF Done
<1>6. CASE HandleSimulation
  <2>1. /\ stage = "simulation" /\ mainPc = "result" /\ Kind = "simulation"
        /\ stage' \in {"simulation", "none"}
        /\ mainPc' \in {"returned", "terminated", "conclude", "loop"}
        /\ handled' = handled \cup {<<"simulation", Result>>}
        /\ Result = "NoInformation" => mainPc' \in {"returned", "terminated"}
    BY <1>6 DEF HandleSimulation, Conclude, Kind, Goto, Leave
  <2> QED
    BY <2>1
<1>7. CASE HandleDecision
  <2>1. /\ stage \in {"alternating", "construction"} /\ mainPc = "result"
        /\ handled' = handled \cup {<<stage, Result>>}
        /\ mainPc' = "begin"
        /\ UNCHANGED <<circuits, config, memory>>
    BY <1>7 DEF HandleDecision, Conclude, Kind, GotoFollowing, Following, Goto, input
  <2>2. (memory = "sequential" \/ ~config.timed) => Done'
    BY <1>7, <2>1 DEF HandleDecision, Finish, KeepGoing, SetBy, Done, Threads
  <2> QED
    BY <2>1, <2>2
<1>8. CASE HandleZX \/ HandleSymbolic
  <2>1. /\ stage \in {"zx", "symbolic"} /\ mainPc = "result" /\ stage' = "none" /\ mainPc' = "join"
        /\ handled' = handled \cup {<<"zx", Result>>} /\ Done'
    BY <1>8 DEF HandleZX, HandleSymbolic, Conclude, Kind, GotoFollowing, Following, Goto, input,
       Finish, SetBy, Done, Threads
  <2> QED
    BY <2>1
<1>9. CASE TimerStep \/ Environment \/ TimePasses \/ Terminated \/ UNCHANGED vars
  <2>1. Done => Done'
    BY <1>9 DEF TimerStep, Environment, TimePasses, Terminated, Test, Block, TimeOut, SetDone,
       EvaluateRange, Signal, EndSignal, SpuriousWake, BecomeVisible, DeadlinePasses, vars,
       Done, Threads, SetBy
  <2> QED
    BY <1>9, <2>1, TimerLeavesAlone, ResultStays DEF resultVars
<1> QED
  BY <1>1, <1>2, <1>3, <1>4, <1>5, <1>6, <1>7, <1>8, <1>9 DEF Next, Proceed, RunToEnd

\* Without a timeout, only a decision makes run() stop before the checkers that decide have
\* had their turn.
UntimedInv == ~config.timed =>
    /\ mainPc = "result" => Kind = "zx" \/ Result # "NoInformation"
    /\ ~circuits.symbolic /\ Decides =>
         /\ Done /\ mainPc \in StageLabels \cup {"join"} => ~Undecided
         /\ mainPc = "returned" /\ ~circuits.empty => ~Undecided

\* Without a timer the flag is set by a decision, or by a check that comes last.
LEMMA NextUntimedInv ==
    ASSUME IInv, IInv', TimerInv, VerdictInv, PromptInv, UntimedInv, [Next]_vars
    PROVE  UntimedInv'
<1> USE DEF UntimedInv, Decides, StageLabels
<1>0. TypeOK /\ ControlAgrees /\ stage \in Stages
  BY DEF IInv, TypeOK
<1>a. ASSUME handled \subseteq handled', ~Undecided
      PROVE  ~Undecided'
  BY <1>a DEF Undecided, UndecidedBy
<1>1. CASE ReturnAtOnce \/ StartTimer
  BY <1>1 DEF ReturnAtOnce, StartTimer, EnterRun, Goto, Done, AnythingToExecute, input
<1>2. CASE Begin \/ Create \/ LeaveLoop \/ LoopSimulation \/ CreateThrows \/ RunThrows
           \/ Skip \/ SkipZX \/ CheckDone \/ Join
  <2>1. UNCHANGED <<circuits, config, handled, done>>
    BY <1>2 DEF Begin, Create, LeaveLoop, LoopSimulation, CreateThrows, RunThrows, Skip, SkipZX,
       CheckDone, Join, resultVars, input
  <2>2. mainPc' # "result" /\ (Done' <=> Done) /\ (Undecided' <=> Undecided)
    BY <1>2, <2>1 DEF Begin, Create, LeaveLoop, LoopSimulation, CreateThrows, RunThrows, Skip, SkipZX,
       CheckDone, Join, Goto, GotoFollowing, Leave, Done, Undecided
  <2>3. mainPc \in StageLabels \cup {"join"}
    BY <1>2 DEF Begin, Create, LeaveLoop, LoopSimulation, CreateThrows, RunThrows, Skip, SkipZX,
       CheckDone, Join
  <2>4. mainPc' = "returned" => mainPc = "join" \/ stage = "symbolic"
    BY <1>2 DEF Begin, Create, LeaveLoop, LoopSimulation, CreateThrows, RunThrows, Skip, SkipZX,
       CheckDone, Join, Goto, GotoFollowing, Leave
  <2>5. stage = "symbolic" => circuits.symbolic
    BY <1>0, <2>3 DEF ControlAgrees
  <2> QED
    BY <2>1, <2>2, <2>3, <2>4, <2>5 DEF PromptInv
<1>3. CASE Abort
  <2>1. timerPc \in Signalling
    BY <1>3 DEF Abort, TimerInv, TimerAgrees
  <2>2. config.timed
    BY <2>1 DEF TimerInv, TimerAgrees, Signalling
  <2> QED
    BY <1>3, <2>2 DEF Abort, input
<1>4. CASE Complete
  <2>1. Current \in 1 .. Len(checkers) /\ checkers \in Seq(CheckerRecords)
        /\ Kind \in Kinds
    BY <1>0, <1>4, CurrentChecker DEF TypeOK, Complete
  <2>2. PICK e : /\ checkers' = [checkers EXCEPT ![Current].equivalence = e]
                 /\ e \in Findings(Kind, circuits)
    BY <1>4 DEF Complete
  <2>3. Result' = e /\ Kind' = Kind
    <3>1. Kind' = Kind
      BY <1>4 DEF Complete, Goto, Kind
    <3>2. Result' = e
      BY <2>1, <2>2 DEF CheckerRecords, Result, Current
    <3> QED
      BY <3>1, <3>2
  <2>4. Kind # "zx" => e # "NoInformation"
    BY <2>1, <2>2 DEF Findings, Kinds
  <2>5. /\ UNCHANGED <<circuits, config, handled, done>> /\ mainPc' = "result" /\ mainPc = "run"
    BY <1>4 DEF Complete, Goto, resultVars, input
  <2> QED
    BY <2>3, <2>4, <2>5 DEF Done, Undecided
<1>5. CASE HandleSimulation
  <2>1. /\ Kind = "simulation" /\ mainPc = "result"
        /\ handled \subseteq handled' /\ UNCHANGED <<circuits, config, done>>
    BY <1>5 DEF HandleSimulation, Conclude, Kind, KeepGoing, input
  <2>2. ~config.timed => mainPc' \in {"conclude", "loop"}
    BY <1>5, <2>1 DEF HandleSimulation, Goto
  <2> QED
    BY <1>a, <2>1, <2>2 DEF Done
<1>6. CASE ConcludeSimulations
  <2>1. /\ mainPc = "conclude" /\ stage = "simulation" /\ ~circuits.empty /\ mainPc' = "begin"
        /\ UNCHANGED <<circuits, config, handled>>
    BY <1>0, <1>6 DEF ConcludeSimulations, ControlAgrees, VerdictInv, ReturnsAtOnce,
       GotoFollowing, Following, Goto, input
  <2>2. ASSUME Done', ~Done, Decides
        PROVE  ~Undecided
    <3>1. equivalence = "NotEquivalent"
      BY <1>6, <2>2 DEF ConcludeSimulations, KeepGoing, Done, OnlySimulationCheckerConfigured,
         OtherCheckers
    <3> QED
      BY <1>0, <2>1, <3>1, SummaryOfUndecided DEF VerdictInv, VerdictAgrees, Undecided, IInv, TypeOK
  <2> QED
    BY <2>1, <2>2 DEF Undecided
<1>7. CASE HandleDecision
  <2>1. /\ stage \in {"alternating", "construction"} /\ mainPc = "result" /\ mainPc' = "begin"
        /\ handled' = handled \cup {<<stage, Result>>}
        /\ UNCHANGED <<circuits, config>> /\ Kind = stage
    BY <1>7 DEF HandleDecision, Conclude, Kind, GotoFollowing, Following, Goto, input
  <2>2. ~config.timed => Result \in {"Equivalent", "NotEquivalent"}
    BY <2>1 DEF VerdictInv, ResultsAgree, Sound, Findings
  <2>3. Result \in {"Equivalent", "NotEquivalent"} => ~Undecided'
    BY <2>1 DEF Undecided, UndecidedBy, Kinds
  <2> QED
    BY <2>1, <2>2, <2>3
<1>8. CASE HandleZX \/ HandleSymbolic
  <2>1. /\ stage \in {"zx", "symbolic"} /\ mainPc = "result" /\ mainPc' = "join"
        /\ UNCHANGED <<circuits, config>>
    BY <1>8 DEF HandleZX, HandleSymbolic, Conclude, GotoFollowing, Following, Goto, input
  <2>2. ~config.timed => ~Decides \/ circuits.symbolic
    BY <1>0, <2>1 DEF PromptInv, ControlAgrees
  <2> QED
    BY <2>1, <2>2
<1>9. CASE TimerStep \/ Environment \/ TimePasses \/ Terminated \/ UNCHANGED vars
  <2>1. UNCHANGED <<circuits, config, memory, stage, mainPc, handled>>
    BY <1>9, TimerLeavesAlone DEF resultVars
  <2>2. ~config.timed => timerPc = "idle" /\ (done = {} \/ Done)
    BY DEF TimerInv, TimerAgrees
  <2>3. ~config.timed => (Done' => Done)
    BY <1>9, <2>2 DEF TimerStep, Environment, TimePasses, Terminated, Test, Block, TimeOut,
       SetDone, EvaluateRange, Signal, EndSignal, SpuriousWake, BecomeVisible, DeadlinePasses,
       vars, Done
  <2>4. mainPc = "result" => Result' = Result
    BY <1>9, ResultStays
  <2> QED
    BY <2>1, <2>3, <2>4 DEF Kind, Undecided
<1> QED
  BY <1>1, <1>2, <1>3, <1>4, <1>5, <1>6, <1>7, <1>8, <1>9 DEF Next, Proceed, RunToEnd

\* Both hold in one run and in several.
LEMMA PromptInvariance == Spec \/ LifeSpec => [](PromptInv /\ UntimedInv)
<1> DEFINE Both == PromptInv /\ UntimedInv
<1>1. Init => Both
  BY DEF Init, PromptInv, UntimedInv, StageLabels, Done
<1>2. Both /\ TimerInv /\ VerdictInv /\ IInv /\ IInv' /\ [Next]_vars => Both'
  BY NextPromptInv, NextUntimedInv DEF VerdictInv
<1>3. Both /\ IInv /\ (RunAgain \/ Reset \/ Select) => Both'
  <2> SUFFICES ASSUME Both, IInv, RunAgain \/ Reset \/ Select PROVE Both'
    OBVIOUS
  <2>1. mainPc' = "start" /\ stage' = "none" /\ UNCHANGED memory
    BY DEF RunAgain, Reset, Select, input, IInv, ControlAgrees, StageLabels
  <2> QED
    BY <2>1 DEF PromptInv, UntimedInv, StageLabels
<1>4. Both /\ TimerInv /\ VerdictInv /\ IInv /\ IInv' /\ [LifeNext]_lifeVars => Both'
  BY <1>2, <1>3, LifeSteps
<1> QED
  BY Invariance, TimerInvariance, VerdictInvariance, <1>1, <1>2, <1>4, PTL
     DEF Spec, LifeSpec, LifeInit

-----------------------------------------------------------------------------
(* Theorems *)

\* In every state of every run the verdict is what the results amount to that the main thread
\* has looked at, whatever they are, whenever the timeout comes and whatever the memory does;
\* a counterexample is reported if one was found, and never for circuits that are
\* equivalent; and where the code says that the ZX checker must be the only one, it is, or
\* all simulations had been performed before.
THEOREM VerdictsFollow == Spec \/ LifeSpec => []VerdictFollowsResults
<1>1. IInv /\ VerdictInv /\ PromptInv => VerdictFollowsResults
  <2> SUFFICES ASSUME IInv, VerdictInv, PromptInv PROVE VerdictFollowsResults
    OBVIOUS
  <2>1. mainPc = "returned" /\ SimNeq \in handled => cexFound
    BY DEF VerdictInv, CexAgrees
  <2>2. ASSUME memory = "sequential", mainPc = "result", stage = "zx",
               Result = "NoInformation", equivalence = "NoInformation"
        PROVE  /\ OtherCheckers(config) = {"zx"}
               /\ config.simulation => handled = {} /\ SimulationsFinished
    <3>1. /\ ~config.alternating /\ ~config.construction /\ config.zx /\ ~circuits.symbolic
          /\ config["alternating"] = config.alternating
          /\ config["construction"] = config.construction
      BY <2>2 DEF PromptInv, VerdictInv, ResultsAgree, IInv, ControlAgrees, StageLabels
    <3>2. Undecided /\ (config.simulation => SimulationsFinished) /\ ~circuits.empty
      BY <2>2 DEF VerdictInv, OthersAgree, ReturnsAtOnce
    <3>3. SimEq \notin handled
      <4>1. /\ <<"zx", "ProbablyNotEquivalent">> \notin handled
        BY <2>2 DEF VerdictInv, ResultsAgree, StageLabels, Before, Kinds, Criteria
      <4> QED
        BY <2>2, <3>2, <4>1, SummaryOfUndecided
           DEF VerdictInv, VerdictAgrees, Undecided, IInv, TypeOK
    <3>4. \A k \in Kinds, e \in Criteria : <<k, e>> \notin handled
      <4> SUFFICES ASSUME NEW k \in Kinds, NEW e \in Criteria, <<k, e>> \in handled
                   PROVE  FALSE
        OBVIOUS
      <4>1. k = "simulation" /\ Sound(k, e)
        BY <2>2, <3>1 DEF VerdictInv, ResultsAgree, StageLabels, Before
      <4>2. e \in {"Equivalent", "NotEquivalent", "NoInformation"}
        BY <4>1 DEF Sound, Findings
      <4> QED
        BY <2>2, <3>2, <3>3, <4>1, <4>2 DEF Undecided, UndecidedBy, SimEq, PromptInv
    <3>5. handled = {}
      BY <3>4 DEF IInv, TypeOK
    <3> QED
      BY <3>1, <3>2, <3>5 DEF OtherCheckers
  <2> QED
    BY <2>1, <2>2 DEF VerdictFollowsResults, VerdictInv, VerdictAgrees, CexAgrees, SimNeq
<1> QED
  BY Invariance, VerdictInvariance, PromptInvariance, <1>1, PTL

\* Every run keeps what the flows promise: it never claims what is not so, and tells the truth
\* whenever there is a checker that decides and no timeout.
THEOREM PromiseIsKept == Spec \/ LifeSpec => []PromiseKept
<1>1. IInv /\ VerdictInv /\ UntimedInv => PromiseKept
  <2> SUFFICES ASSUME IInv, VerdictInv, UntimedInv, mainPc = "returned"
               PROVE  equivalence \in Verdicts(config, circuits)
    BY DEF PromiseKept
  <2> USE DEF VerdictInv
  <2>0. equivalence \in Criteria
    BY DEF IInv, TypeOK
  <2>1. CASE ~AnythingToExecute(config)
    BY <2>0, <2>1 DEF ReturnsAtOnce, Verdicts, AnythingToExecute
  <2>2. CASE AnythingToExecute(config) /\ circuits.empty
    BY <2>0, <2>2 DEF ReturnsAtOnce, Verdicts
  <2>3. CASE AnythingToExecute(config) /\ ~circuits.empty
    <3>1. equivalence = Summary(handled, performed = config.maxSims)
      BY <2>3 DEF VerdictAgrees
    <3>2. \A k \in Kinds, e \in Criteria : <<k, e>> \in handled =>
            /\ e \in Findings(k, circuits) \cup {"NoInformation"}
            /\ IF circuits.symbolic THEN k = "zx" ELSE config[k]
      BY DEF ResultsAgree, Sound
    <3>3. equivalence = "Equivalent" => circuits.equivalent
      <4>1. equivalence = "Equivalent" => \E k \in Kinds \ {"simulation"} : <<k, "Equivalent">> \in handled
        BY <3>1 DEF Summary
      <4> QED
        BY <3>2, <4>1 DEF Findings, Kinds, Criteria
    <3>4. equivalence = "NotEquivalent" => ~circuits.equivalent /\ ~circuits.symbolic
      <4>1. equivalence = "NotEquivalent" => \E k \in Kinds : <<k, "NotEquivalent">> \in handled
        BY <3>1 DEF Summary
      <4> QED
        BY <3>2, <4>1 DEF Findings, Kinds, Criteria
    <3>5. equivalence = "ProbablyEquivalent" => config.simulation /\ ~circuits.symbolic
      <4>1. equivalence = "ProbablyEquivalent" => SimEq \in handled
        BY <3>1 DEF Summary, SimEq
      <4> QED
        BY <3>2, <4>1 DEF SimEq, Kinds, Criteria
    <3>6. equivalence = "ProbablyNotEquivalent" => config.zx \/ circuits.symbolic
      <4>1. equivalence = "ProbablyNotEquivalent" => <<"zx", "ProbablyNotEquivalent">> \in handled
        BY <3>1 DEF Summary
      <4> QED
        BY <3>2, <4>1 DEF Kinds, Criteria
    <3>7. \/ equivalence \in {"Equivalent", "NotEquivalent"}
          \/ config.timed \/ circuits.symbolic \/ ~(config.alternating \/ config.construction)
      <4>1. ASSUME ~Undecided
            PROVE  equivalence \in {"Equivalent", "NotEquivalent"}
        <5>1. \/ \E k \in Kinds : <<k, "NotEquivalent">> \in handled
              \/ \E k \in Kinds \ {"simulation"} : <<k, "Equivalent">> \in handled
          BY <4>1 DEF Undecided, UndecidedBy
        <5> QED
          BY <3>1, <5>1 DEF Summary
      <4> QED
        BY <2>3, <4>1 DEF UntimedInv, Decides
    <3> QED
      BY <2>0, <2>3, <3>3, <3>4, <3>5, <3>6, <3>7 DEF Verdicts
  <2> QED
    BY <2>1, <2>2, <2>3
<1> QED
  BY Invariance, VerdictInvariance, PromptInvariance, <1>1, PTL
================================================================================
