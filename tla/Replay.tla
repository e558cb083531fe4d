------------------------------- MODULE Replay -------------------------------
(***************************************************************************)
(* One pass of ReplayCoordinator::run over a source: error policy,         *)
(* session state, instrument directory, books and the two sinks            *)
(* (cpp/src/replay/), and what the deep validation of cpp/src/validation/  *)
(* makes of the written events.                                            *)
(*                                                                         *)
(* The program is sequential: a step is one message of the source, of any  *)
(* kind, for any locate and at any time, as a file may hold it.  An error  *)
(* returns from run(), whose state is local: a failing step records the    *)
(* error and nothing else.                                                 *)
(*                                                                         *)
(* Abstractions: a book is the map of its live orders (its queues and      *)
(* totals are those of OrderBook.tla, which also shows that a message      *)
(* index that grows is never refused); a directory record is its symbol;   *)
(* 64-bit counters and level totals do not overflow; last-trade pairs,     *)
(* digests and texts are left out.                                         *)
(***************************************************************************)
EXTENDS Naturals, FiniteSetsExt

CONSTANTS
    Locates,               \* stock locates but the global zero
    Symbols, Requested,    \* symbols of the source, selection.symbols
    Refs, Prices,
    MaxShares,             \* bound on quantities
    Times,                 \* timestamps within the day
    Ranks,                 \* ranks of the system events, 1 to 6 for O, S, Q, M, E, C
    SessionStart, SessionEnd,
    Depth,                 \* output.depth
    Strict,                \* validation.mode
    MaxSkipped,            \* validation.max_skipped_messages
    RequireTrading,        \* selection.require_trading_state
    EmitTrades,            \* output.emit_unchanged_trade_snapshots
    MaxMessages,           \* bound on the messages of the source
    NoSymbol, NoSnapshot

ASSUME ReplayAssumption ==
    /\ Requested \subseteq Symbols /\ NoSymbol \notin Symbols
    /\ Times \subseteq Nat /\ Ranks \subseteq 1 .. 6 /\ SessionStart \in Nat /\ SessionEnd \in Nat
    /\ MaxShares \in Nat /\ MaxSkipped \in Nat /\ MaxMessages \in Nat
    /\ Strict \in BOOLEAN /\ RequireTrading \in BOOLEAN /\ EmitTrades \in BOOLEAN
    /\ Strict => MaxSkipped = 0

VARIABLES
    status,      \* "running", "completed" or the error run() returned
    phase,       \* rank of the last system event, 0 before the first
    states,      \* trading state of each registered locate
    identities,  \* symbol of each locate the directory knows
    unresolved,  \* unresolved_locates_observed
    books,       \* live orders of each selected locate
    skipped,     \* skipped_messages of the error policy
    counts,      \* the message counters of the summary
    lastEvent,   \* last_timestamp_ns_ of the event writer
    rebuilt,     \* the books the validator rebuilds from the written events
    shown,       \* last snapshot of each selected locate
    valid,       \* the validator accepts every record written so far
    lastGlobal,  \* time of the last retained system event
    missed       \* locates of messages filtered out so far

session == <<phase, states>>
directory == <<identities, unresolved>>
output == <<lastEvent, rebuilt, shown, valid>>
vars == <<status, session, directory, books, skipped, counts, output, lastGlobal,
          missed>>

TradingStates == {"preopen", "trading", "halted", "paused", "quotation_only", "closed"}
Counters == {"processed", "decoded", "undecoded", "categorised"}

(* "message" is a decoder or book error that is not skipped, "interrupted"  *)
(* a broken source or a cancellation.                                       *)
Errors == {"message", "invariant", "unknown_symbol", "write", "interrupted", "internal"}

Sides == {"buy", "sell"}
Order == [side : Sides, price : Prices, remaining : 1 .. MaxShares]

With(f, x, v) == [y \in DOMAIN f \cup {x} |-> IF y = x THEN v ELSE f[y]]
Without(f, x) == [y \in DOMAIN f \ {x} |-> f[y]]

Selected == {l \in DOMAIN identities : identities[l] \in Requested}

InSession(t) == SessionStart <= t /\ t < SessionEnd

-----------------------------------------------------------------------------
(* The book of one locate. *)

BookMessage ==
    [kind : {"add"}, ref : Refs, side : Sides, price : Prices, shares : 0 .. MaxShares]
        \cup [kind : {"execute", "cancel"}, ref : Refs, shares : 0 .. MaxShares]
        \cup [kind : {"delete"}, ref : Refs]
        \cup [kind : {"replace"}, ref : Refs, new : Refs, price : Prices,
              shares : 0 .. MaxShares]

Accepts(book, m) ==
    CASE m.kind = "add" -> m.ref \notin DOMAIN book /\ m.shares > 0
      [] m.kind = "delete" -> m.ref \in DOMAIN book
      [] m.kind = "replace" ->
            m.ref \in DOMAIN book /\ m.new \notin DOMAIN book /\ m.shares > 0
      [] OTHER -> /\ m.ref \in DOMAIN book
                  /\ m.shares > 0 /\ m.shares <= book[m.ref].remaining

Applied(book, m) ==
    CASE m.kind = "add" ->
            With(book, m.ref, [side |-> m.side, price |-> m.price, remaining |-> m.shares])
      [] m.kind = "replace" ->
            With(Without(book, m.ref), m.new,
                 [side |-> book[m.ref].side, price |-> m.price, remaining |-> m.shares])
      [] m.kind \in {"execute", "cancel"} /\ m.shares < book[m.ref].remaining ->
            [book EXCEPT ![m.ref].remaining = @ - m.shares]
      [] OTHER -> Without(book, m.ref)

(* The event of a message: references and quantity are those of the         *)
(* message, side, price and remaining quantity those of the mutation; a     *)
(* delete records what it took.                                             *)
EventAtOldPrice(book, m) ==
    LET after == Applied(book, m)
        left == IF m.kind = "replace" THEN m.new ELSE m.ref
        order == IF left \in DOMAIN after THEN after[left] ELSE book[m.ref]
    IN  [kind |-> m.kind, primary |-> m.ref, secondary |-> left, side |-> order.side,
         price |-> IF m.kind = "replace" THEN book[m.ref].price ELSE order.price,
         remaining |-> IF left \in DOMAIN after THEN order.remaining ELSE 0,
         quantity |-> IF m.kind = "delete" THEN book[m.ref].remaining ELSE m.shares]

Event(book, m) ==
    LET after == Applied(book, m)
        left == IF m.kind = "replace" THEN m.new ELSE m.ref
        order == IF left \in DOMAIN after THEN after[left]
                                          ELSE [book[m.ref] EXCEPT !.remaining = 0]
    IN  [kind |-> m.kind, primary |-> m.ref, secondary |-> left,
         side |-> order.side, price |-> order.price, remaining |-> order.remaining,
         quantity |-> IF m.kind = "delete" THEN book[m.ref].remaining ELSE m.shares]

(* What the deep validation makes of an event: the message it stands for,   *)
(* and whether applying that confirms the recorded fields.                  *)
MessageOf(e) ==
    CASE e.kind = "add" -> [kind |-> "add", ref |-> e.primary, side |-> e.side,
                            price |-> e.price, shares |-> e.quantity]
      [] e.kind = "delete" -> [kind |-> "delete", ref |-> e.primary]
      [] e.kind = "replace" -> [kind |-> "replace", ref |-> e.primary, new |-> e.secondary,
                                price |-> e.price, shares |-> e.quantity]
      [] OTHER -> [kind |-> e.kind, ref |-> e.primary, shares |-> e.quantity]

Agrees(book, e) == Accepts(book, MessageOf(e)) /\ Event(book, MessageOf(e)) = e

(* top_levels. *)
Better(side, p, q) == IF side = "buy" THEN p > q ELSE p < q

TopLevels(book) ==
    [side \in Sides |->
        LET mine == {ref \in DOMAIN book : book[ref].side = side}
            prices == {book[ref].price : ref \in mine}
            best == {p \in prices : Cardinality({q \in prices : Better(side, q, p)}) < Depth}
        IN  {<<p, MapThenSumSet(LAMBDA ref : book[ref].remaining,
                                {ref \in mine : book[ref].price = p})>> : p \in best}]

-----------------------------------------------------------------------------
(* Error policy and counters. *)

Stop(error) ==
    /\ status' = error
    /\ UNCHANGED <<session, directory, books, skipped, counts, output, lastGlobal,
                   missed>>

Counted(fields) ==
    [f \in Counters |-> IF f \in fields THEN counts[f] + 1 ELSE counts[f]]

Decoded == counts' = Counted({"processed", "decoded", "categorised"})

MaySkipOnceMore == ~Strict /\ skipped <= MaxSkipped

MaySkip == ~Strict /\ skipped < MaxSkipped

Reading == status = "running" /\ counts["processed"] < MaxMessages

(* A frame the decoder refuses, with an error that may be skipped or not.   *)
Undecodable(skippable) ==
    /\ Reading
    /\ \/ /\ skippable /\ MaySkip
          /\ skipped' = skipped + 1
          /\ counts' = Counted({"processed", "undecoded"})
          /\ UNCHANGED <<status, session, directory, books, output, lastGlobal, missed>>
       \/ ~(skippable /\ MaySkip) /\ Stop("message")

-----------------------------------------------------------------------------
(* System events and the directory. *)

(* System hours start at rank 2, market hours at 3 and end at 4.            *)
AfterSystemEvent(rank) ==
    [l \in DOMAIN states |->
        IF rank >= 4 THEN "closed"
        ELSE IF rank = 2 /\ states[l] = "preopen" THEN "halted" ELSE states[l]]

SystemEvent(rank, t) ==
    /\ Reading
    /\ \/ rank <= phase /\ Stop("invariant")
       \/ /\ rank > phase
          /\ phase' = rank /\ states' = AfterSystemEvent(rank)
          /\ lastGlobal' = t /\ valid' = (valid /\ lastGlobal <= t)
          /\ Decoded
          /\ UNCHANGED <<status, directory, books, skipped, lastEvent, rebuilt, shown, missed>>

(* register_instrument. *)
RegisteredPreopen == "preopen"

Registered == IF phase >= 4 THEN "closed" ELSE IF phase >= 2 THEN "halted" ELSE "preopen"

StockDirectory(l, s) ==
    /\ Reading
    /\ \/ /\ IF l \in DOMAIN identities THEN identities[l] # s
             ELSE \E k \in DOMAIN identities : identities[k] = s
          /\ Stop("invariant")
       \/ /\ l \in DOMAIN identities /\ identities[l] = s
          /\ Decoded
          /\ UNCHANGED <<status, session, directory, books, skipped, output, lastGlobal,
                         missed>>
       \/ /\ l \notin DOMAIN identities
          /\ \A k \in DOMAIN identities : identities[k] # s
          /\ s \in Requested /\ l \in unresolved
          /\ Stop("unknown_symbol")
       \/ /\ l \notin DOMAIN identities
          /\ \A k \in DOMAIN identities : identities[k] # s
          /\ ~(s \in Requested /\ l \in unresolved)
          /\ identities' = With(identities, l, s)
          /\ IF s \in Requested
             THEN /\ states' = With(states, l, Registered)
                  /\ books' = With(books, l, <<>>)
                  /\ rebuilt' = With(rebuilt, l, <<>>)
                  /\ shown' = With(shown, l, NoSnapshot)
             ELSE UNCHANGED <<states, books, rebuilt, shown>>
          /\ Decoded
          /\ UNCHANGED <<status, phase, unresolved, skipped, lastEvent, valid, lastGlobal,
                         missed>>

-----------------------------------------------------------------------------
(* Messages of one instrument. *)

NowUnresolvedForgotten(l) == unresolved

NowUnresolved(l) == IF l \in DOMAIN identities THEN unresolved ELSE unresolved \cup {l}

(* A message of a locate that is not selected; one that names a requested   *)
(* symbol is an error.                                                      *)
Filtered(l, named) ==
    /\ Reading /\ l \notin Selected
    /\ \/ named \in Requested
          /\ Stop(IF l \in DOMAIN identities THEN "invariant" ELSE "unknown_symbol")
       \/ /\ named \notin Requested
          /\ unresolved' = NowUnresolved(l)
          /\ missed' = missed \cup {l}
          /\ Decoded
          /\ UNCHANGED <<status, session, identities, books, skipped, output, lastGlobal>>

Misnamed(l, named) ==
    /\ Reading /\ l \in Selected /\ named \notin {NoSymbol, identities[l]}
    /\ Stop("invariant")

(* Ignored types, and every message of a selected instrument from the end   *)
(* of the session on.                                                       *)
PassedOver(l) ==
    /\ Reading /\ l \in Selected
    /\ Decoded
    /\ UNCHANGED <<status, session, directory, books, skipped, output, lastGlobal, missed>>

Routed(l, t) == Reading /\ l \in Selected /\ t < SessionEnd /\ Decoded

(* write_event: the writer refuses a time that goes back.                   *)
Writable(t) == lastEvent <= t

Snapshot(l, book, state) ==
    shown' = [shown EXCEPT ![l] = [levels |-> TopLevels(book), state |-> state]]

Tradable(l) == ~RequireTrading \/ states[l] = "trading"

ChangedToHalt(l, state) == states[l] # state /\ state # "trading"

Changed(l, state) == states[l] # state

TradingAction(l, t, state) ==
    \/ Reading /\ l \in Selected /\ t < SessionEnd /\ phase >= 4 /\ Stop("invariant")
    \/ /\ Routed(l, t) /\ phase < 4 /\ Writable(t)
       /\ states' = [states EXCEPT ![l] = state]
       /\ lastEvent' = t
       /\ IF InSession(t) /\ Changed(l, state) THEN Snapshot(l, books[l], state)
                                               ELSE UNCHANGED shown
       /\ UNCHANGED <<status, phase, directory, books, skipped, rebuilt, valid, lastGlobal, missed>>

BookUpdate(l, t, m) ==
    /\ Routed(l, t) /\ Accepts(books[l], m) /\ Writable(t)
    /\ books' = [books EXCEPT ![l] = Applied(@, m)]
    /\ lastEvent' = t
    /\ LET e == Event(books[l], m)
       IN  /\ valid' = (valid /\ Agrees(rebuilt[l], e))
           /\ rebuilt' = [rebuilt EXCEPT ![l] =
                             IF Agrees(@, e) THEN Applied(@, MessageOf(e)) ELSE @]
    /\ IF InSession(t) /\ Tradable(l) /\ TopLevels(books[l]) # TopLevels(Applied(books[l], m))
       THEN Snapshot(l, Applied(books[l], m), states[l])
       ELSE UNCHANGED shown
    /\ UNCHANGED <<status, session, directory, skipped, lastGlobal, missed>>

(* A message the book rejects changes nothing but the error policy.         *)
BookRejection(l, t, m) ==
    \/ /\ Routed(l, t) /\ ~Accepts(books[l], m) /\ MaySkip
       /\ skipped' = skipped + 1
       /\ UNCHANGED <<status, session, directory, books, output, lastGlobal, missed>>
    \/ /\ Reading /\ l \in Selected /\ t < SessionEnd
       /\ ~Accepts(books[l], m) /\ ~MaySkip
       /\ Stop("message")

(* Trades, crosses and broken trades leave the book alone; the validator    *)
(* wants a quantity that is marked valid to be positive.                    *)
TradePrint(l, t, kind, shares) ==
    /\ Routed(l, t) /\ Writable(t)
    /\ lastEvent' = t
    /\ valid' = (valid /\ (kind = "broken_trade" \/ shares > 0))
    /\ IF kind # "broken_trade" /\ InSession(t) /\ EmitTrades /\ Tradable(l)
       THEN Snapshot(l, books[l], states[l])
       ELSE UNCHANGED shown
    /\ UNCHANGED <<status, session, directory, books, skipped, rebuilt, lastGlobal, missed>>

(* A sink refuses a record, or its disk does.                               *)
WriteFails(l, t) ==
    /\ Reading /\ l \in Selected /\ t < SessionEnd
    /\ Stop("write")

(* A frame or the source is broken, or the user cancels.                    *)
Interrupted == status = "running" /\ Stop("interrupted")

Reconciled ==
    /\ counts["decoded"] + counts["undecoded"] = counts["processed"]
    /\ counts["categorised"] = counts["decoded"]

EndOfFile ==
    /\ status = "running"
    /\ \/ \E s \in Requested : (\A l \in DOMAIN identities : identities[l] # s)
          /\ Stop("unknown_symbol")
       \/ /\ \A s \in Requested : \E l \in DOMAIN identities : identities[l] = s
          /\ Stop(IF Reconciled THEN "completed" ELSE "internal")

Init ==
    /\ status = "running" /\ phase = 0
    /\ states = <<>> /\ identities = <<>> /\ unresolved = {} /\ books = <<>>
    /\ skipped = 0 /\ counts = [f \in Counters |-> 0]
    /\ lastEvent = 0 /\ rebuilt = <<>> /\ shown = <<>> /\ valid = TRUE
    /\ lastGlobal = 0 /\ missed = {}

Instrument(l) ==
    \/ \E named \in Symbols \cup {NoSymbol} : Filtered(l, named) \/ Misnamed(l, named)
    \/ PassedOver(l)
    \/ /\ Reading /\ l \in Selected
       /\ \E t \in Times :
             \/ \E state \in {"trading", "halted", "paused", "quotation_only"} :
                   TradingAction(l, t, state)
             \/ \E m \in BookMessage : BookUpdate(l, t, m) \/ BookRejection(l, t, m)
             \/ \E kind \in {"trade", "cross", "broken_trade"}, shares \in 0 .. MaxShares :
                   TradePrint(l, t, kind, shares)
             \/ WriteFails(l, t)

Next ==
    \/ \E skippable \in BOOLEAN : Undecodable(skippable)
    \/ \E rank \in Ranks, t \in Times : SystemEvent(rank, t)
    \/ \E l \in Locates : Instrument(l) \/ \E s \in Symbols : StockDirectory(l, s)
    \/ Interrupted \/ EndOfFile

Spec == Init /\ [][Next]_vars

-----------------------------------------------------------------------------
(* Properties. *)

Book == UNION {[refs -> Order] : refs \in SUBSET Refs}

TypeOK ==
    /\ status \in {"running", "completed"} \cup Errors
    /\ phase \in 0 .. 6 /\ states \in [Selected -> TradingStates]
    /\ DOMAIN identities \subseteq Locates /\ identities \in [DOMAIN identities -> Symbols]
    /\ unresolved \subseteq Locates
    /\ books \in [Selected -> Book] /\ rebuilt \in [Selected -> Book]
    /\ skipped \in 0 .. MaxSkipped /\ counts \in [Counters -> Nat]
    /\ lastEvent \in Nat /\ lastGlobal \in Nat 
    /\ DOMAIN shown = Selected /\ valid \in BOOLEAN
    /\ missed \subseteq Locates

(* One locate per symbol, one book and session state per resolved requested *)
(* symbol, a budget that is kept, and counters that the final               *)
(* reconciliation of run() can never find apart.                            *)
ReplayInv ==
    /\ TypeOK
    /\ \A k, l \in DOMAIN identities : identities[k] = identities[l] => k = l
    /\ Reconciled
    /\ status # "internal"

(* Whatever is skipped, refused or comes after the session, the events      *)
(* written so far give the validator the very books the replay holds, with  *)
(* no event it would reject on the way (apply_reconstructed_event).         *)
EventsRebuildBooks == rebuilt = books

(* The last snapshot of an instrument shows its present top levels whenever *)
(* snapshots are allowed: changes made while it was halted are in the       *)
(* snapshot of its resumption.                                              *)
SnapshotsAreCurrent ==
    \A l \in Selected :
        shown[l] # NoSnapshot /\ Tradable(l) => shown[l].levels = TopLevels(books[l])

(* When system hours have started no instrument is in the pre-opening, and  *)
(* once the market has ended every one stays closed, also one that the      *)
(* directory announces only then.  (A source that goes to market hours with *)
(* no start of system hours leaves the registered ones in the pre-opening.) *)
SessionRules ==
    \A l \in Selected :
        /\ phase = 2 => states[l] # "preopen"
        /\ phase >= 4 => states[l] = "closed"

(* A replay that goes on has filtered out no message of an instrument that  *)
(* is or becomes selected.                                                  *)
NothingMissed == missed \cap Selected = {}

(* docs/03-system-architecture.md:263, "Artefacts are hashed, validated and *)
(* atomically published": the validator accepts what a completed replay     *)
(* wrote.                                                                   *)
CompletedIsValid == status = "completed" => valid
=============================================================================
