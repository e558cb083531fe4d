----------------------------- MODULE DatasetRows -----------------------------
(***************************************************************************)
(* build-dataset for one symbol: for every day in turn a pass over events  *)
(* and snapshots makes feature rows (datasets/features.py), another pass   *)
(* over the snapshots makes label rows (labels.py), and the join pairs and *)
(* filters them into the partition of the day (splits.py, service.py).     *)
(*                                                                         *)
(* Abstractions: the day of a partition is its only one; windows hold the  *)
(* index of each transition and execution, whose shares SharesOf gives;    *)
(* sides, depth, prices and floating-point arithmetic are left out, and    *)
(* the rate of one category and side stands for all.  A day is what the    *)
(* two Parquet partitions hold, in the order in which they are read; rows  *)
(* of another partition, outside the session or with prices that the code  *)
(* refuses are left out.                                                   *)
(***************************************************************************)
EXTENDS Integers, FiniteSets, SequencesExt

CONSTANTS
    Inputs,         \* the datasets to build: a day for each partition
    EventWindows,   \* event_windows, in transitions
    ClockWindows,   \* clock_windows_ns
    SessionStart,
    Horizons,       \* label horizons, in qualifying rows
    Primary,        \* primary_event_horizon
    RowStride,
    SharesOf,       \* executed_shares of an execution, by message index
    NoRow

Partitions == <<"train", "validation", "test">>

Classes == {"up", "flat", "down"}
EventKinds == {"execute", "broken_trade", "other"}
Event == [index : DOMAIN SharesOf, time : Nat, kind : EventKinds, match : Nat]
Snapshot == [index : Nat, time : Nat, kind : EventKinds, qualifies : BOOLEAN, mid : Nat]

FeatureRows ==
    [index : Nat, time : Nat, ordinal : Nat, complete : BOOLEAN,
     transitions : [EventWindows -> Seq(Nat)], executed : [EventWindows -> Seq(Int)],
     rate : [ClockWindows -> Seq(Nat)]]
LabelRows == [index : Nat, ordinal : Nat, ahead : [Horizons -> Classes \cup {NoRow}]]

(* replay_coordinator.cpp writes the event of a message before its snapshot.*)
HasTrigger(d, s) ==
    \E n \in DOMAIN d.events : /\ d.events[n].index = s.index /\ d.events[n].time = s.time
                               /\ d.events[n].kind = s.kind

ASSUME RowsAssumption ==
    /\ DOMAIN SharesOf \subseteq Nat /\ \A i \in DOMAIN SharesOf : SharesOf[i] \in Nat
    /\ \A input \in Inputs : \A p \in ToSet(Partitions) :
          /\ input[p].events \in Seq(Event) /\ input[p].snapshots \in Seq(Snapshot)
          /\ \A n \in DOMAIN input[p].snapshots :
                input[p].snapshots[n].qualifies => HasTrigger(input[p], input[p].snapshots[n])
    /\ EventWindows \subseteq Nat \ {0} /\ ClockWindows \subseteq Nat \ {0} /\ SessionStart \in Nat
    /\ Horizons \subseteq Nat \ {0} /\ IsFiniteSet(Horizons) /\ Primary \in Horizons
    /\ RowStride \in Nat \ {0}
    /\ NoRow \notin Event /\ NoRow \notin Snapshot /\ NoRow \notin FeatureRows
    /\ NoRow \notin LabelRows /\ NoRow \notin Classes

VARIABLES
    days,      \* the input
    day,       \* number of the partition being built
    flow,      \* _FeatureState and how far both files are read
    feature,   \* the feature row the join has pulled
    labels,    \* build_label_batches: snapshots read, buffer
    label,     \* the label row the join has pulled
    counts,    \* PartitionJoinCounts of each partition
    kept,      \* rows written to each partition
    building   \* "building", "complete" or "failed"

rowsVars == <<days, day, flow, feature, labels, label, counts, kept, building>>

Today == days[Partitions[day]]
InSession(row) == row.time >= SessionStart

Shares(executions) == SumFunctionOnSet(SharesOf, executions)

-----------------------------------------------------------------------------
(* consume_event: an execution waits for the next transition and joins the  *)
(* others of its match; a broken trade takes the whole match out of every   *)
(* window and leaves a mark for later executions of the match.              *)

Held(f, w) == UNION ToSet(f.buckets[w])

Entered(map, key, value) ==
    [k \in DOMAIN map \cup {key} |-> IF k = key THEN value ELSE map[k]]

Executed(f, e) ==
    LET match == IF e.match \in DOMAIN f.matches THEN f.matches[e.match]
                 ELSE [held |-> {}, broken |-> FALSE]
    IN  [f EXCEPT !.pending = @ \cup {e.index},
                  !.matches = Entered(@, e.match, [held |-> match.held \cup {e.index},
                                                   broken |-> match.broken]),
                  !.active = IF match.broken THEN @ ELSE @ \cup {e.index}]

BrokenInWindowsOnly(f, e) ==
    LET gone == f.matches[e.match].held \cap f.active \cap UNION {Held(f, w) : w \in EventWindows}
    IN  [f EXCEPT !.total = [w \in EventWindows |-> f.total[w] - Shares(gone \cap Held(f, w))],
                  !.active = @ \ gone,
                  !.matches[e.match].broken = TRUE]

Broken(f, e) ==
    LET gone == f.matches[e.match].held \cap f.active
    IN  [f EXCEPT !.total = [w \in EventWindows |-> f.total[w] - Shares(gone \cap Held(f, w))],
                  !.active = @ \ gone,
                  !.matches[e.match].broken = TRUE]

(* Times leave a queue from its head, up to the first that is in the window.*)
Unexpired(times, now, w) ==
    LET inside == {i \in DOMAIN times : times[i] + w > now}
    IN  IF inside = {} THEN <<>> ELSE SubSeq(times, Min(inside), Len(times))

Rated(f, e) ==
    [f EXCEPT !.recent = [w \in ClockWindows |-> Unexpired(Append(f.recent[w], e.time), e.time, w)]]

Consumed(f, e) ==
    LET g == [f EXCEPT !.events = @ + 1, !.lastEvent = e]
        disordered == /\ f.lastEvent # NoRow
                      /\ e.index <= f.lastEvent.index \/ e.time < f.lastEvent.time
        breaks == /\ e.kind = "broken_trade" /\ e.match \in DOMAIN f.matches
                  /\ ~f.matches[e.match].broken
    IN  IF disordered THEN [g EXCEPT !.failed = TRUE]
        ELSE IF ~InSession(e) THEN g
        ELSE IF e.kind = "execute" THEN Executed(Rated(g, e), e)
        ELSE IF breaks THEN Broken(g, e) ELSE g

(* Events up to and including the message of the snapshot come first.       *)
Due(f, snapshot) ==
    LET ahead == SubSeq(Today.events, f.events + 1, Len(Today.events))
        late == {i \in DOMAIN ahead : ahead[i].index > snapshot.index}
    IN  IF late = {} THEN ahead ELSE SubSeq(ahead, 1, Min(late) - 1)

CaughtUp(f, snapshot) ==
    LET due == Due(f, snapshot)
        after[n \in 0 .. Len(due)] == IF n = 0 THEN f ELSE Consumed(after[n - 1], due[n])
    IN  after[Len(due)]

-----------------------------------------------------------------------------
(* feature_row: the first qualifying snapshot only sets previous_top; every *)
(* one closes a bucket of executions.                                       *)

Rolled(seq, item, w) == IF Len(seq) = w THEN Append(Tail(seq), item) ELSE Append(seq, item)

Evictions(f, w) == IF Len(f.buckets[w]) = w THEN Head(f.buckets[w]) ELSE {}

(* An execution that has left its last window leaves its match, which goes  *)
(* with its last execution.                                                 *)
Forgotten(f, evicted) ==
    LET gone == {i \in evicted : \A w \in EventWindows : i \notin Held(f, w)}
        left == [m \in DOMAIN f.matches |-> f.matches[m].held \ gone]
        known == {m \in DOMAIN f.matches : left[m] # {}}
    IN  [f EXCEPT !.matches = [m \in known |->
                        [held |-> left[m], broken |-> f.matches[m].broken]]]

Bucketed(f) ==
    Forgotten([f EXCEPT
        !.total = [w \in EventWindows |-> (f.total[w] - Shares(Evictions(f, w) \cap f.active))
                                             + Shares(f.pending \cap f.active)],
        !.buckets = [w \in EventWindows |-> Rolled(f.buckets[w], f.pending, w)],
        !.pending = {}], UNION {Evictions(f, w) : w \in EventWindows})

Transitioned(f, snapshot) ==
    IF f.ordinal = 0 THEN f
    ELSE [f EXCEPT !.transitions = [w \in EventWindows |->
                            Rolled(f.transitions[w], snapshot.index, w)]]

WindowComplete(f, w) == Len(f.transitions[w]) = w

HistoryComplete(f, snapshot) ==
    /\ f.ordinal >= Max(EventWindows)
    /\ snapshot.time >= SessionStart + Max(ClockWindows)

FeatureRow(f, snapshot) ==
    [index |-> snapshot.index, time |-> snapshot.time, ordinal |-> f.ordinal,
     complete |-> HistoryComplete(f, snapshot),
     transitions |-> [w \in EventWindows |->
        IF WindowComplete(f, w) THEN f.transitions[w] ELSE <<>>],
     executed |-> [w \in EventWindows |-> IF WindowComplete(f, w) THEN <<f.total[w]>> ELSE <<>>],
     rate |-> [w \in ClockWindows |->
        IF snapshot.time >= SessionStart + w
        THEN <<Len(Unexpired(f.recent[w], snapshot.time, w))>> ELSE <<>>]]

Triggered(f, snapshot) ==
    /\ f.lastEvent # NoRow
    /\ f.lastEvent.index = snapshot.index /\ f.lastEvent.time = snapshot.time
    /\ f.lastEvent.kind = snapshot.kind

InOrder(last, snapshot) ==
    last = NoRow \/ (snapshot.index > last.index /\ snapshot.time >= last.time)

(* The join pulls a feature: the next snapshot with the events before it.   *)
PullFeature ==
    /\ building = "building" /\ feature = NoRow /\ flow.snapshots < Len(Today.snapshots)
    /\ LET snapshot == Today.snapshots[flow.snapshots + 1]
           f == [CaughtUp(flow, snapshot) EXCEPT !.snapshots = @ + 1, !.lastSnapshot = snapshot]
           g == Bucketed(Transitioned([f EXCEPT !.ordinal = @ + 1], snapshot))
           bad == f.failed \/ ~InOrder(flow.lastSnapshot, snapshot)
                    \/ (snapshot.qualifies /\ ~Triggered(f, snapshot))
       IN  /\ flow' = IF snapshot.qualifies /\ ~bad THEN g ELSE f
           /\ feature' = IF snapshot.qualifies /\ ~bad THEN FeatureRow(g, snapshot) ELSE NoRow
           /\ building' = IF bad THEN "failed" ELSE building
    /\ UNCHANGED <<days, day, labels, label, counts, kept>>

FeaturesEnded == feature = NoRow /\ flow.snapshots = Len(Today.snapshots)

-----------------------------------------------------------------------------
(* build_label_batches: rows wait until the longest horizon is past them.   *)

Sign(now, later) == IF later > now THEN "up" ELSE IF later < now THEN "down" ELSE "flat"

LabelRowOfLast(buffer) ==
    [index |-> buffer[1].index, ordinal |-> buffer[1].ordinal,
     ahead |-> [h \in Horizons |->
        Sign(buffer[1].mid, buffer[Min({h + 1, Len(buffer)})].mid)]]

LabelRow(buffer) ==
    [index |-> buffer[1].index, ordinal |-> buffer[1].ordinal,
     ahead |-> [h \in Horizons |->
        IF h < Len(buffer) THEN Sign(buffer[1].mid, buffer[h + 1].mid) ELSE NoRow]]

Buffered(snapshot) ==
    IF snapshot.qualifies
    THEN Append(labels.buffer, [index |-> snapshot.index, ordinal |-> labels.ordinal + 1,
                                mid |-> snapshot.mid])
    ELSE labels.buffer

LabelsRead == labels.snapshots = Len(Today.snapshots)

PullLabel ==
    /\ building = "building" /\ label = NoRow
    /\ feature # NoRow \/ FeaturesEnded
    /\ \/ /\ ~LabelsRead
          /\ LET snapshot == Today.snapshots[labels.snapshots + 1]
                 buffer == Buffered(snapshot)
                 emits == Len(buffer) > Max(Horizons)
             IN  /\ label' = IF emits THEN LabelRow(buffer) ELSE NoRow
                 /\ labels' = [snapshots |-> labels.snapshots + 1,
                               buffer |-> IF emits THEN Tail(buffer) ELSE buffer,
                               ordinal |-> labels.ordinal + (IF snapshot.qualifies THEN 1 ELSE 0),
                               last |-> snapshot]
                 /\ building' = IF InOrder(labels.last, snapshot) THEN building ELSE "failed"
       \/ /\ LabelsRead /\ labels.buffer # <<>>
          /\ label' = LabelRow(labels.buffer)
          /\ labels' = [labels EXCEPT !.buffer = Tail(@)]
          /\ UNCHANGED building
    /\ UNCHANGED <<days, day, flow, feature, counts, kept>>

LabelsEnded == label = NoRow /\ LabelsRead /\ labels.buffer = <<>>

-----------------------------------------------------------------------------
(* The join: keys must agree, then the filters in their fixed order.        *)

Filtered(f, l) ==
    IF ~f.complete THEN "incomplete"
    ELSE IF l.ahead[Primary] = NoRow THEN "unlabelled"
    ELSE IF f.ordinal % RowStride # 0 THEN "strided" ELSE "retained"

SameKey(f, l) == f.index = l.index /\ f.ordinal = l.ordinal

Filters == {"incomplete", "unlabelled", "strided", "retained"}

Counted(c, f, l) ==
    LET outcome == Filtered(f, l)
        If(b) == IF b THEN 1 ELSE 0
    IN  [qualifying |-> c.qualifying + 1,
         rows |-> [c.rows EXCEPT ![outcome] = @ + 1],
         classes |-> [k \in Classes |->
            c.classes[k] + If(outcome = "retained" /\ l.ahead[Primary] = k)],
         available |-> [h \in Horizons |-> c.available[h] + If(l.ahead[h] # NoRow)],
         unavailable |-> [h \in Horizons |-> c.unavailable[h] + If(l.ahead[h] = NoRow)]]

Written(f, l) ==
    IF Filtered(f, l) # "retained" THEN kept
    ELSE [kept EXCEPT ![Partitions[day]] = Append(@, [index |-> f.index, ahead |-> l.ahead])]

JoinRow ==
    /\ building = "building" /\ feature # NoRow /\ label # NoRow
    /\ IF SameKey(feature, label)
       THEN /\ counts' = [counts EXCEPT ![Partitions[day]] = Counted(@, feature, label)]
            /\ kept' = Written(feature, label)
            /\ UNCHANGED building
       ELSE building' = "failed" /\ UNCHANGED <<counts, kept>>
    /\ feature' = NoRow /\ label' = NoRow
    /\ UNCHANGED <<days, day, flow, labels>>

FreshFlow ==
    [events |-> 0, snapshots |-> 0, lastEvent |-> NoRow, lastSnapshot |-> NoRow, failed |-> FALSE,
     ordinal |-> -1, pending |-> {}, matches |-> <<>>, active |-> {},
     transitions |-> [w \in EventWindows |-> <<>>], buckets |-> [w \in EventWindows |-> <<>>],
     total |-> [w \in EventWindows |-> 0], recent |-> [w \in ClockWindows |-> <<>>]]

FreshLabels == [snapshots |-> 0, buffer |-> <<>>, ordinal |-> -1, last |-> NoRow]

(* The checks of a written partition and of the counts of all of them.      *)
Sum(f) == SumFunctionOnSet(f, DOMAIN f)

CountsReconcile(c) ==
    /\ c.qualifying = Sum(c.rows) /\ Sum(c.classes) = c.rows["retained"]
    /\ \A h \in Horizons : c.available[h] + c.unavailable[h] = c.qualifying

IndicesIncrease(rowsOf) == \A i \in 1 .. Len(rowsOf) - 1 : rowsOf[i].index < rowsOf[i + 1].index

Checked == \A p \in ToSet(Partitions) : CountsReconcile(counts[p]) /\ IndicesIncrease(kept[p])

(* Every partition and every class must retain a row.                       *)
Usable ==
    /\ \A p \in ToSet(Partitions) : counts[p].rows["retained"] > 0
    /\ \A k \in Classes : \E p \in ToSet(Partitions) : counts[p].classes[k] > 0

EndDay ==
    /\ building = "building"
    /\ FeaturesEnded \/ (feature # NoRow /\ LabelsEnded)
    /\ FeaturesEnded => LabelsEnded \/ label # NoRow
    /\ IF day < Len(Partitions) /\ FeaturesEnded /\ LabelsEnded
       THEN day' = day + 1 /\ flow' = FreshFlow /\ labels' = FreshLabels /\ UNCHANGED building
       ELSE /\ building' = IF FeaturesEnded /\ LabelsEnded /\ Checked /\ Usable THEN "complete" ELSE "failed"
            /\ UNCHANGED <<day, flow, labels>>
    /\ UNCHANGED <<days, feature, label, counts, kept>>

NoCounts ==
    [qualifying |-> 0, rows |-> [k \in Filters |-> 0], classes |-> [k \in Classes |-> 0],
     available |-> [h \in Horizons |-> 0], unavailable |-> [h \in Horizons |-> 0]]

RowsStart ==
    /\ day = 1 /\ flow = FreshFlow /\ labels = FreshLabels /\ feature = NoRow /\ label = NoRow
    /\ counts = [p \in ToSet(Partitions) |-> NoCounts]
    /\ kept = [p \in ToSet(Partitions) |-> <<>>] /\ building = "building"

RowsInit == days \in Inputs /\ RowsStart

RowsNext == PullFeature \/ PullLabel \/ JoinRow \/ EndDay

RowsSpec == RowsInit /\ [][RowsNext]_rowsVars

-----------------------------------------------------------------------------
(* What the rows should be, from the whole day. *)

(* The qualifying snapshots among the first so many.                        *)
RowsTo(d) ==
    LET rows[n \in 0 .. Len(d.snapshots)] ==
            IF n = 0 THEN <<>>
            ELSE IF d.snapshots[n].qualifies THEN Append(rows[n - 1], d.snapshots[n]) ELSE rows[n - 1]
    IN  rows

Qualifying(d) == RowsTo(d)[Len(d.snapshots)]

(* Events up to message i: the stream brings them before any later one.     *)
Before(d, i) == {d.events[n] : n \in {m \in DOMAIN d.events : \A l \in 1 .. m : d.events[l].index <= i}}

(* Executions of the last w transitions up to row k (from 0) of the day.    *)
WindowOf(d, k, w) ==
    {e \in Before(d, Qualifying(d)[k + 1].index) :
        e.kind = "execute" /\ InSession(e) /\ Qualifying(d)[k + 1 - w].index < e.index}

BreaksBy(d, e, i) ==
    {b \in Before(d, i) : b.kind = "broken_trade" /\ InSession(b) /\ b.match = e.match}

Indexes(executions) == {e.index : e \in executions}

(* Feature rows use nothing after their own message and all that is in      *)
(* their windows: the last w transitions, the rate events of (t - w, t], and*)
(* of the executions every one whose match was not broken and none whose    *)
(* match was broken since ("removes every still-windowed contribution in    *)
(* its referenced match group", docs/05-api-contracts.md); an execution     *)
(* after the break counts only when its match had been forgotten.           *)
FeaturesAreCausal ==
    feature # NoRow =>
        LET k == feature.ordinal
            rowsOf == Qualifying(Today)
        IN  /\ rowsOf[k + 1].index = feature.index
            /\ \A w \in EventWindows :
                  IF k < w THEN feature.executed[w] = <<>>
                  ELSE LET all == WindowOf(Today, k, w)
                           sure == {e \in all : BreaksBy(Today, e, feature.index) = {}}
                           open == {e \in all : \A b \in BreaksBy(Today, e, feature.index) :
                                                    b.index < e.index}
                       IN  /\ feature.transitions[w] = [j \in 1 .. w |-> rowsOf[k + 1 - w + j].index]
                           /\ \E s \in SUBSET (open \ sure) :
                                 feature.executed[w] = <<Shares(Indexes(sure \cup s))>>
            /\ \A w \in ClockWindows : feature.time >= SessionStart + w =>
                  feature.rate[w] = <<Cardinality({e \in Before(Today, feature.index) :
                      e.kind = "execute" /\ InSession(e) /\ e.time + w > feature.time})>>

OrderedRows(s) ==
    \A i \in 1 .. Len(s) - 1 : s[i].index < s[i + 1].index /\ s[i].time <= s[i + 1].time

(* The labels of row k of a day: only rows of the same day are ahead of it. *)
AheadOf(d, k) ==
    [h \in Horizons |-> IF k + 1 + h <= Len(Qualifying(d))
                        THEN Sign(Qualifying(d)[k + 1].mid, Qualifying(d)[k + 1 + h].mid) ELSE NoRow]

RetainedOf(d) ==
    {[index |-> Qualifying(d)[k + 1].index, ahead |-> AheadOf(d, k)] :
        k \in {j \in 0 .. Len(Qualifying(d)) - 1 :
                 /\ j >= Max(EventWindows) /\ j % RowStride = 0
                 /\ Qualifying(d)[j + 1].time >= SessionStart + Max(ClockWindows)
                 /\ AheadOf(d, j)[Primary] # NoRow}}

(* A complete dataset holds, in the partition of each day, exactly the rows *)
(* the filters leave, each with the labels of its own future in its own     *)
(* day; it counts every qualifying row; and it was built from rows in       *)
(* message order.  The guards that compare features with labels and counts  *)
(* with each other never fail a build: of the checks modelled, only those   *)
(* for rows out of order and for a partition or class without a row do.     *)
DatasetIsWhole ==
    /\ building = "complete" => \A p \in ToSet(Partitions) :
          /\ OrderedRows(days[p].snapshots)
          /\ ToSet(kept[p]) = RetainedOf(days[p])
          /\ Len(kept[p]) = Cardinality(RetainedOf(days[p]))
          /\ counts[p].qualifying = Len(Qualifying(days[p]))
          /\ \A h \in Horizons : counts[p].unavailable[h] = Min({h, counts[p].qualifying})
    /\ building = "failed" =>
          \/ ~Usable /\ Checked /\ day = Len(Partitions)
          \/ ~OrderedRows(Today.snapshots) \/ ~OrderedRows(Today.events)
=============================================================================
