---------------------------- MODULE PredictionJoin ----------------------------
(***************************************************************************)
(* The causal join of predictions to the decisions of the signal-adjusted  *)
(* strategy: CausalPredictionJoin.select of strategies/prediction_join.py, *)
(* over one stream of one day, symbol and model as _load_predictions of    *)
(* simulation/service.py makes it, or any other iterable.                  *)
(*                                                                         *)
(* A row keeps its key and the time of its snapshot; whether its scope and *)
(* its payload are valid is a flag, its score does not matter.  A strategy *)
(* of weight zero never calls select.                                      *)
(***************************************************************************)
EXTENDS Naturals, FiniteSets, SequencesExt

CONSTANTS
    PredictionStreams,   \* sequences of prediction rows
    DecisionIndexes,     \* message indexes of decisions
    DecisionTimes,       \* and their times
    MaxAge,              \* max_prediction_age_ns
    None

Prediction == [index : Nat, time : Nat, inScope : BOOLEAN, valid : BOOLEAN]

Key == [index : Nat, time : Nat]

ASSUME JoinAssumption ==
    /\ PredictionStreams \subseteq Seq(Prediction)
    /\ DecisionIndexes \subseteq Nat /\ DecisionTimes \subseteq Nat /\ MaxAge \in Nat
    /\ None \notin Prediction \cup Key

VARIABLES
    predictions,   \* the stream
    taken,         \* rows taken from its iterator
    buffer,        \* rows taken and put back
    latest,        \* the newest row passed
    decided,       \* key of the last decision that succeeded
    answer         \* what the last call returned

joinVars == <<predictions, taken, buffer, latest, decided, answer>>

Ahead == buffer \o SubSeq(predictions, taken + 1, Len(predictions))

Previous(j) == IF j = 1 THEN latest ELSE Ahead[j - 1]

KeyValid(j) ==
    /\ Ahead[j].inScope
    /\ Previous(j) # None => Previous(j).index < Ahead[j].index

(* The payload of a row is looked at when a decision reaches it.            *)
PayloadValid(j, time) ==
    /\ Ahead[j].valid
    /\ Previous(j) # None => Previous(j).time <= Ahead[j].time
    /\ Ahead[j].time <= time

Passes(j, index, time) ==
    KeyValid(j) /\ Ahead[j].index <= index /\ PayloadValid(j, time)

Passed(index, time) ==
    LET stops == {j \in DOMAIN Ahead : ~Passes(j, index, time)}
    IN  IF stops = {} THEN Len(Ahead) ELSE Min(stops) - 1

Future(j, index) == KeyValid(j) /\ Ahead[j].index > index

(* Rows pulled by a call come from the buffer first.                        *)
Take(n) ==
    taken' = taken + (IF n > Len(buffer) THEN n - Len(buffer) ELSE 0)

LeftInBuffer(n) == SubSeq(buffer, n + 1, Len(buffer))

RestoredReversed(n) == Reverse(SubSeq(Ahead, 1, n)) \o LeftInBuffer(n)

Restored(n) == SubSeq(Ahead, 1, n) \o LeftInBuffer(n)

(* Decisions in source order only; nothing is pulled otherwise.             *)
OutOfOrder(index, time) == decided # None /\ ~(decided.index <= index /\ decided.time <= time)

Fresh(row, time) == time - row.time <= MaxAge

Answered(index, time, row) ==
    /\ latest' = row
    /\ decided' = [index |-> index, time |-> time]
    /\ answer' = [key |-> decided', row |-> row, failed |-> FALSE,
                  used |-> row # None /\ Fresh(row, time)]

Refused(index, time) ==
    /\ answer' = [key |-> [index |-> index, time |-> time], row |-> None, failed |-> TRUE, used |-> FALSE]
    /\ UNCHANGED <<latest, decided>>

Select(index, time) ==
    LET n == Passed(index, time)
        newest == IF n = 0 THEN latest ELSE Ahead[n]
    IN  /\ \/ /\ OutOfOrder(index, time)
              /\ Refused(index, time)
              /\ UNCHANGED <<taken, buffer>>
           \/ /\ ~OutOfOrder(index, time) /\ n = Len(Ahead)
              /\ Answered(index, time, newest)
              /\ Take(n) /\ buffer' = <<>>
           \/ /\ ~OutOfOrder(index, time) /\ n < Len(Ahead) /\ Future(n + 1, index)
              /\ Answered(index, time, newest)
              /\ Take(n + 1) /\ buffer' = <<Ahead[n + 1]>> \o LeftInBuffer(n + 1)
           \/ /\ ~OutOfOrder(index, time) /\ n < Len(Ahead) /\ ~Future(n + 1, index)
              /\ Refused(index, time)
              /\ Take(n + 1) /\ buffer' = Restored(n + 1)
        /\ UNCHANGED predictions

JoinStart == taken = 0 /\ buffer = <<>> /\ latest = None /\ decided = None /\ answer = None

JoinInit == predictions \in PredictionStreams /\ JoinStart

JoinNext == \E index \in DecisionIndexes, time \in DecisionTimes : Select(index, time)

JoinSpec == JoinInit /\ [][JoinNext]_joinVars

-----------------------------------------------------------------------------
Behind == Len(predictions) - Len(Ahead)

InOrderUpTo(k) ==
    \A j \in 1 .. k : predictions[j].inScope
                        /\ (j > 1 => predictions[j - 1].index < predictions[j].index)

(* However decisions and errors follow each other, no row is lost, repeated *)
(* or reordered ("Invalid input leaves its semantic cursor unchanged",      *)
(* docs/05-api-contracts.md), what is behind was known at the last decision *)
(* and what is ahead was not; a decision gets the newest row of the stream  *)
(* not after it, and counts it unless it is older than the bound; and it is *)
(* refused only for its own order or for a row at fault.                    *)
UsesNewestPrediction ==
    /\ Ahead = SubSeq(predictions, Behind + 1, Len(predictions))
    /\ latest = IF Behind = 0 THEN None ELSE predictions[Behind]
    /\ decided # None =>
          /\ \A j \in 1 .. Behind : predictions[j].index <= decided.index /\ predictions[j].time <= decided.time
          /\ Ahead # <<>> => Ahead[1].index > decided.index
    /\ answer # None /\ ~answer.failed =>
          /\ \A k \in DOMAIN predictions : InOrderUpTo(k) /\ predictions[k].index <= answer.key.index =>
                answer.row # None /\ answer.row.index >= predictions[k].index
          /\ answer.used => answer.key.time <= answer.row.time + MaxAge
          /\ answer.row # None /\ ~answer.used => answer.key.time > answer.row.time + MaxAge
    /\ answer # None /\ answer.failed =>
          \/ OutOfOrder(answer.key.index, answer.key.time)
          \/ \E k \in DOMAIN predictions :
                \/ ~InOrderUpTo(k) \/ ~predictions[k].valid
                \/ k > 1 /\ predictions[k - 1].time > predictions[k].time
                \/ predictions[k].index <= answer.key.index /\ predictions[k].time > answer.key.time
=============================================================================
