------------------------------- MODULE LifeCycle -------------------------------
(***************************************************************************)
(* An EquivalenceCheckingManager that is used more than once: run() is     *)
(* called again, with or without reset(), and between two runs other       *)
(* checkers are chosen.  The runs are those of SequentialCheck.            *)
(***************************************************************************)
EXTENDS SequentialCheck

CONSTANTS
    MaxRuns,     \* how often run() is called: a bound
    Selections   \* the checkers to choose between two runs: sets of kinds

ASSUME LifeCycleAssumption == MaxRuns \in Nat \ {0} /\ Selections \subseteq SUBSET Kinds

VARIABLE runs    \* how many runs are over

lifeVars == <<vars, runs>>

LifeInit == Init /\ runs = 0

\* The bound on the number of runs; and nothing comes after a crash.
Used == runs + 1 < MaxRuns /\ timerPc # "crashed"

\* run() once more: nothing happens in between.
RunAgain ==
    /\ mainPc = "returned" /\ Used
    /\ mainPc' = "start"
    /\ runs' = runs + 1
    /\ UNCHANGED <<input, stage, done, resultVars, checkers, timerVars, moved, expired,
                   completed>>

\* The generator is not told to forget the states that it has handed out (a mistake).
ResetWithoutGenerator ==
    /\ mainPc \in {"returned", "threw"} /\ Used
    /\ mainPc' = "start"
    /\ runs' = runs + 1
    /\ equivalence' = "NoInformation" /\ cexFound' = FALSE /\ handled' = {}
    /\ started' = 0 /\ performed' = 0 /\ completed' = 0
    /\ checkers' = << >>
    /\ UNCHANGED <<input, stage, done, generated, timerVars, moved, expired>>

\* The results, the checkers and the states that the generator has handed out are dropped.
Reset ==
    /\ mainPc \in {"returned", "threw"} /\ Used
    /\ mainPc' = "start"
    /\ runs' = runs + 1
    /\ equivalence' = "NoInformation" /\ cexFound' = FALSE /\ handled' = {}
    /\ generated' = 0 /\ started' = 0 /\ performed' = 0 /\ completed' = 0
    /\ checkers' = << >>
    /\ UNCHANGED <<input, stage, done, timerVars, moved, expired>>

\* disableAllCheckers(), then some are enabled.  Simulations are enabled only if there are
\* stimuli for them: the constructor's clamp is not applied again.
Select ==
    /\ mainPc = "start" /\ runs > 0
    /\ \E kinds \in Selections :
         config' = [config EXCEPT !.alternating = "alternating" \in kinds,
                                  !.construction = "construction" \in kinds,
                                  !.simulation = "simulation" \in kinds,
                                  !.zx = "zx" \in kinds]
    /\ ~RunsInParallel(config', circuits)
    /\ config'.simulation => config.maxSims <= circuits.stimuli
    /\ UNCHANGED <<circuits, memory, stage, mainPc, done, resultVars, checkers, timerVars,
                   moved, expired, completed, runs>>

LifeNext == RunAgain \/ Reset \/ Select \/ (Next /\ UNCHANGED runs)

LifeSpec ==
    /\ LifeInit /\ [][LifeNext]_lifeVars
    /\ WF_vars(Proceed) /\ WF_vars(TimerStep) /\ WF_vars(TimePasses)
================================================================================
