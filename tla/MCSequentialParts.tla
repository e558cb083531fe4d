-------------------------- MODULE MCSequentialParts --------------------------
(* The parts of the system that are sequential, called by one thread of one *)
(* program and share no state: the replayed book, and the five algorithms  *)
(* between convert and simulate.  A behaviour picks one and leaves the others*)
(* as they start.                                                           *)
EXTENDS OrderBook, ConversionParts, DatasetRows, ModelSelection, PredictionJoin, StrategyQuotes

CONSTANT Components   \* which of them

(* Three references, two prices, quantities up to two, levels up to three. *)
Symmetry == Permutations(Refs)

(* Every short stream of three symbols, and one that opens eleven parts.    *)
ShortStreams == SeqOf(PartSymbols, 5)
Alternating == [i \in 1 .. 33 |-> (i % 3) + 1]
ReplayStreams == ShortStreams \cup {Alternating}
LongStream == {Alternating}

(* Five messages, executions of two matches and breaks of the first, with   *)
(* snapshots of any of them in the session; then two days that retain rows. *)
Mids == <<2, 3, 1, 2, 3>>

EventRow(kind, i, t) ==
    [index |-> i, time |-> t, kind |-> IF kind = "break" THEN "broken_trade" ELSE "execute",
     match |-> IF kind = "other match" THEN 2 ELSE 1]

DayOf(kinds, qualifies, times) ==
    [events |-> [i \in DOMAIN kinds |-> EventRow(kinds[i], i, times[i])],
     snapshots |-> SelectSeq([i \in DOMAIN kinds |->
        [index |-> i, time |-> times[i], kind |-> EventRow(kinds[i], i, times[i]).kind,
         qualifies |-> qualifies[i], mid |-> Mids[i]]], InSession)]

Steady(mids) ==
    LET d == DayOf([i \in 1 .. 4 |-> "match"], [i \in 1 .. 4 |-> TRUE], <<1, 2, 3, 4>>)
    IN  [d EXCEPT !.snapshots = [i \in 1 .. 4 |-> [@[i] EXCEPT !.mid = mids[i]]]]

Down == Steady(<<1, 1, 2, 1>>)
Flat == Steady(<<1, 1, 2, 2>>)
Swapped(s) == <<s[1], s[3], s[2], s[4]>>

FirstDays ==
    {DayOf(kinds, qualifies, times) :
        kinds \in {f \in [1 .. 5 -> {"match", "other match", "break"}] : f[1] # "other match"},
        qualifies \in {f \in [1 .. 5 -> BOOLEAN] : Cardinality({i \in 1 .. 5 : f[i]}) >= 3},
        times \in {<<0, 1, 1, 2, 3>>, <<1, 2, 3, 3, 4>>}}
    \cup {[Down EXCEPT !.events = Swapped(@)], [Down EXCEPT !.snapshots = Swapped(@)]}

DaysFrom(first) == ("train" :> first) @@ ("validation" :> Down) @@ ("test" :> Flat)
DatasetInputs == {DaysFrom(first) : first \in FirstDays}

(* A sum of these tells its terms.                                          *)
PowersOfTwo == [i \in 1 .. 5 |-> 2^i]

(* The grids of the default configuration, in their order, by rank.         *)
FourCs == <<1, 2, 3, 4>>
EightTrees ==
    <<<<15, 0, 1>>, <<15, 1, 1>>, <<31, 0, 1>>, <<31, 1, 1>>,
      <<15, 0, 2>>, <<15, 1, 2>>, <<31, 0, 2>>, <<31, 1, 2>>>>
ThreeWeights == <<0, 1, 2>>

(* Up to three predictions, one of which is out of scope, invalid, or does  *)
(* not follow the row before it.                                            *)
Rows == {r \in [index : 1 .. 3, time : {1, 2}, inScope : BOOLEAN, valid : BOOLEAN] :
            r.inScope \/ r.valid}
Odd(p, i) == ~p[i].inScope \/ ~p[i].valid \/ (i > 1 /\ p[i].index # p[i - 1].index + 1)
ShortPredictions ==
    {p \in SeqOf(Rows, 3) : \A i, j \in DOMAIN p : Odd(p, i) /\ Odd(p, j) => i = j}

(* A quote, a locked one, one off the tick grid, and a crossed one.         *)
FourQuotes == {[bid |-> 2, ask |-> 4], [bid |-> 2, ask |-> 2], [bid |-> 1, ask |-> 3],
               [bid |-> 3, ask |-> 2]}
ThreeTicks == {-1, 1, 3}

-----------------------------------------------------------------------------
VARIABLE component

MCInit ==
    /\ component \in Components
    /\ Init /\ PartsStart /\ RowsStart /\ StudyStart /\ JoinStart /\ QuotesStart
    /\ IF component = "parts" THEN stream \in Streams ELSE stream = <<>>
    /\ IF component = "rows" THEN days \in Inputs ELSE days = DaysFrom(Down)
    /\ IF component = "join" THEN predictions \in PredictionStreams ELSE predictions = <<>>

MCNext ==
    \/ component = "book" /\ Next /\ UNCHANGED <<component, partsVars, rowsVars, studyVars, joinVars, quoteVars>>
    \/ component = "parts" /\ PartsNext /\ UNCHANGED <<component, vars, rowsVars, studyVars, joinVars, quoteVars>>
    \/ component = "rows" /\ RowsNext /\ UNCHANGED <<component, vars, partsVars, studyVars, joinVars, quoteVars>>
    \/ component = "study" /\ StudyNext /\ UNCHANGED <<component, vars, partsVars, rowsVars, joinVars, quoteVars>>
    \/ component = "join" /\ JoinNext /\ UNCHANGED <<component, vars, partsVars, rowsVars, studyVars, quoteVars>>
    \/ component = "quotes" /\ QuotesNext
          /\ UNCHANGED <<component, vars, partsVars, rowsVars, studyVars, joinVars>>

MCSpec == MCInit /\ [][MCNext]_<<component, vars, partsVars, rowsVars, studyVars, joinVars, quoteVars>>
=============================================================================
