---------------------------- MODULE ModelSelection ----------------------------
(***************************************************************************)
(* What is chosen on validation rows, by train and then by simulate, before*)
(* either loads a test row: train_baselines of models/service.py with the  *)
(* loops of logistic.py and gradient_boosting.py, then simulate of         *)
(* simulation/service.py with select_signal_model and select_signal_weight *)
(* of strategies/signal_adjusted.py.                                       *)
(*                                                                         *)
(* A log loss and a mean profit are small numbers in units of which the tie*)
(* tolerances are Tolerance; a candidate may fail, and so may any step.    *)
(***************************************************************************)
EXTENDS Integers, FiniteSets, SequencesExt

CONSTANTS
    LogisticGrid,   \* c_values, in the order of the configuration
    BoostingGrid,   \* <<max_leaf_nodes, l2_regularization, learning_rate>>, in product order
    Weights,        \* SIGNAL_WEIGHT_CANDIDATES, in order
    Losses, Profits,
    Tolerance,      \* _TIE_TOLERANCE and the tolerances of signal_adjusted.py
    Nothing

ASSUME SelectionAssumption ==
    /\ Losses \subseteq Nat /\ Losses # {} /\ Profits \subseteq Int /\ Tolerance \in Nat
    /\ LogisticGrid \in Seq(Nat) /\ BoostingGrid \in Seq(Nat \X Nat \X Nat) /\ Weights \in Seq(Nat)
    /\ Nothing \notin Losses \cup Profits \cup Nat
    /\ Nothing \notin [candidate : Nat, loss : Losses]

(* The schema of the experiment configuration fixes the values of each grid *)
(* and their order, signal_adjusted.py those of the weights: all ascend, and*)
(* product takes the learning rates outermost.                              *)
Ascending(s) == \A i, j \in DOMAIN s : i < j => s[i] < s[j]

ASSUME GridsAssumption ==
    /\ Ascending(LogisticGrid) /\ Ascending(Weights) /\ Weights # <<>>
    /\ \E few, many, weak, strong, slow, fast \in UNION {ToSet(key) : key \in ToSet(BoostingGrid)} :
          /\ few < many /\ weak < strong /\ slow < fast
          /\ BoostingGrid = <<<<few, weak, slow>>, <<few, strong, slow>>,
                              <<many, weak, slow>>, <<many, strong, slow>>,
                              <<few, weak, fast>>, <<few, strong, fast>>,
                              <<many, weak, fast>>, <<many, strong, fast>>>>

Families == <<"prior", "logistic_regression", "hist_gradient_boosting">>
Searched == {"logistic_regression", "hist_gradient_boosting"}

VARIABLES
    step,        \* where the study is
    inMemory,    \* partitions whose rows are in memory
    tried,       \* candidates of the current search that were evaluated
    selected,    \* best candidate so far of each searched family
    lowest,      \* least loss any of its candidates reached
    losses,      \* validation loss of each family in the experiment
    calibrated,  \* partitions whose rows the intensities come from
    model,       \* family the signal uses
    profits,     \* mean validation profit of each weight tried
    weight,      \* weight selected
    configured   \* signal_weight_ticks of the configuration

search == <<tried, selected, lowest>>
signal == <<losses, calibrated, model, profits, weight>>
studyVars == <<step, inMemory, search, signal, configured>>

Then(next) == step' = next

LoadTrainAndValidation ==
    /\ step = "load"
    /\ inMemory' = {"train", "validation"} /\ Then("logistic_regression")
    /\ UNCHANGED <<search, signal, configured>>

GridOf(family) == IF family = "logistic_regression" THEN LogisticGrid ELSE BoostingGrid

(* Ties: smaller C; fewer leaves, then more regularisation, then slower.    *)
Simpler(family, c, d) ==
    LET x == GridOf(family)[c]  y == GridOf(family)[d]
    IN  IF family = "logistic_regression" THEN x < y
        ELSE \/ x[1] < y[1]
             \/ x[1] = y[1] /\ x[2] > y[2]
             \/ x[1] = y[1] /\ x[2] = y[2] /\ x[3] < y[3]

Distance(a, b) == IF a > b THEN a - b ELSE b - a

PreferredWhenSimpler(family, c, loss) ==
    \/ selected[family] = Nothing
    \/ loss < selected[family].loss - Tolerance
    \/ Simpler(family, c, selected[family].candidate)

Preferred(family, c, loss) ==
    \/ selected[family] = Nothing
    \/ loss < selected[family].loss - Tolerance
    \/ Distance(loss, selected[family].loss) <= Tolerance
         /\ Simpler(family, c, selected[family].candidate)

TryCandidate(family) ==
    /\ step = family /\ tried < Len(GridOf(family))
    /\ tried' = tried + 1
    /\ \/ UNCHANGED <<selected, lowest>>      \* did not converge, or failed
       \/ \E loss \in Losses :
             /\ selected' = IF Preferred(family, tried', loss)
                            THEN [selected EXCEPT ![family] = [candidate |-> tried', loss |-> loss]]
                            ELSE selected
             /\ lowest' = [lowest EXCEPT ![family] =
                    IF @ = Nothing \/ loss < @ THEN loss ELSE @]
    /\ UNCHANGED <<step, inMemory, signal, configured>>

EndSearch(family) ==
    /\ step = family /\ tried = Len(GridOf(family))
    /\ tried' = 0
    /\ Then(IF selected[family] = Nothing THEN "failed"
            ELSE IF family = "logistic_regression" THEN "hist_gradient_boosting" ELSE "test")
    /\ UNCHANGED <<inMemory, selected, lowest, signal, configured>>

LoadTest ==
    /\ step = "test"
    /\ inMemory' = inMemory \cup {"test"} /\ Then("publish")
    /\ UNCHANGED <<search, signal, configured>>

NoneSelected == [f \in Searched |-> Nothing]

(* metrics-validation.json holds the loss of every family; train ends.      *)
PublishExperiment ==
    /\ step = "publish"
    /\ \E prior \in Losses :
          losses' = [f \in ToSet(Families) |-> IF f = "prior" THEN prior ELSE selected[f].loss]
    /\ selected' = NoneSelected /\ lowest' = NoneSelected
    /\ inMemory' = {} /\ Then("selection days")
    /\ UNCHANGED <<tried, calibrated, model, profits, weight, configured>>

-----------------------------------------------------------------------------
(* simulate: rows of the train and validation days first, to calibrate and  *)
(* to select; they are dropped before the test days are read.               *)

ReadSelectionDays ==
    /\ step = "selection days"
    /\ inMemory' = {"train", "validation"} /\ Then("calibrate")
    /\ configured' \in {Nothing} \cup ToSet(Weights)
    /\ UNCHANGED <<search, signal>>

(* The calibrator is made for the training dates, rows of others are passed *)
(* over and would be refused.                                               *)
Recordable(partition) == partition = "train"

Calibrate ==
    /\ step = "calibrate"
    /\ calibrated' = {p \in inMemory : Recordable(p)}
    /\ Then("fit")
    /\ UNCHANGED <<inMemory, search, losses, model, profits, weight, configured>>

FitIntensity ==
    /\ step = "fit"
    /\ Then("model")
    /\ UNCHANGED <<inMemory, search, signal, configured>>

SelectedModel ==
    Families[Min({i \in DOMAIN Families : losses[Families[i]] - Min(Range(losses)) <= Tolerance})]

SelectModel ==
    /\ step = "model"
    /\ model' = SelectedModel
    /\ Then("weights")
    /\ UNCHANGED <<inMemory, search, losses, calibrated, profits, weight, configured>>

TryWeight ==
    /\ step = "weights" /\ Len(profits) < Len(Weights)
    /\ \E profit \in Profits : profits' = Append(profits, profit)
    /\ UNCHANGED <<step, inMemory, search, losses, calibrated, model, weight, configured>>

SelectedWeight ==
    Weights[Min({i \in DOMAIN Weights : Max(Range(profits)) - profits[i] <= Tolerance})]

(* A configured weight must be the one that validation selects.             *)
SelectWeight ==
    /\ step = "weights" /\ Len(profits) = Len(Weights)
    /\ IF configured \in {Nothing, SelectedWeight}
       THEN weight' = SelectedWeight /\ inMemory' = {} /\ Then("test days")
       ELSE Then("failed") /\ UNCHANGED <<weight, inMemory>>
    /\ UNCHANGED <<search, losses, calibrated, model, profits, configured>>

ReadTestDays ==
    /\ step = "test days"
    /\ inMemory' = {"test"} /\ Then("scenarios")
    /\ UNCHANGED <<search, signal, configured>>

RunTestScenarios ==
    /\ step = "scenarios"
    /\ Then("done")
    /\ UNCHANGED <<inMemory, search, signal, configured>>

(* A cancellation, or rows or a file that cannot be used.                   *)
FailStudy ==
    /\ step \notin {"failed", "done"}
    /\ Then("failed") /\ inMemory' = {}
    /\ UNCHANGED <<search, signal, configured>>

StudyStart ==
    /\ step = "load" /\ inMemory = {} /\ tried = 0
    /\ selected = NoneSelected /\ lowest = NoneSelected
    /\ losses = Nothing /\ calibrated = {} /\ model = Nothing /\ profits = <<>> /\ weight = Nothing
    /\ configured = Nothing

StudyNext ==
    \/ LoadTrainAndValidation \/ (\E f \in Searched : TryCandidate(f) \/ EndSearch(f)) \/ LoadTest
    \/ PublishExperiment \/ ReadSelectionDays \/ Calibrate \/ FitIntensity \/ SelectModel \/ TryWeight
    \/ SelectWeight \/ ReadTestDays \/ RunTestScenarios \/ FailStudy

StudySpec == StudyStart /\ [][StudyNext]_studyVars

-----------------------------------------------------------------------------
Within(family, times) == selected[family].loss <= lowest[family] + times * Tolerance

(* Whenever test rows are in memory the choices are made, from all declared *)
(* candidates, and good.  In train: each family by its complete grid, the   *)
(* logistic one within a tolerance of its best candidate, the boosted one   *)
(* within three, because a tie is taken against the last choice and the     *)
(* simpler key may win three times in a row.  In simulate: the simplest     *)
(* family that ties with the best, and the smallest weight that does, which *)
(* a configured weight must equal, all on intensities of training rows.     *)
FrozenBeforeTest ==
    "test" \in inMemory =>
        /\ step = "publish" =>
              /\ \A f \in Searched : selected[f] # Nothing
              /\ Within("logistic_regression", 1) /\ Within("hist_gradient_boosting", 3)
        /\ step # "publish" =>
              /\ calibrated = {"train"}
              /\ \A f \in ToSet(Families) : losses[model] <= losses[f] + Tolerance
              /\ \A i, j \in DOMAIN Families :
                    i < j /\ Families[j] = model =>
                       \E f \in ToSet(Families) : losses[Families[i]] > losses[f] + Tolerance
              /\ Len(profits) = Len(Weights) /\ configured \in {Nothing, weight}
              /\ \A i \in DOMAIN Weights :
                    /\ Weights[i] = weight => \A j \in DOMAIN profits : profits[j] <= profits[i] + Tolerance
                    /\ Weights[i] < weight => \E j \in DOMAIN profits : profits[j] > profits[i] + Tolerance
=============================================================================
