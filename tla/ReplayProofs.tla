---------------------------- MODULE ReplayProofs ----------------------------
(***************************************************************************)
(* The invariants of Replay hold for any locates, symbols, books, session  *)
(* and policy.  Inv adds to them the two facts that make them inductive: a *)
(* filtered message left a mark in the directory, and there is a snapshot  *)
(* only once the event file has reached the session.                       *)
(***************************************************************************)
EXTENDS Replay, TLAPS

MarkedWhenFiltered == missed \subseteq unresolved \cup DOMAIN identities

ShownInSession == \A l \in Selected : shown[l] # NoSnapshot => SessionStart <= lastEvent

Inv ==
    /\ ReplayInv /\ EventsRebuildBooks /\ SnapshotsAreCurrent /\ SessionRules
    /\ NothingMissed /\ MarkedWhenFiltered /\ ShownInSession

-----------------------------------------------------------------------------
(* The helpers. *)

(* With and Without change one point of a function and keep its type.       *)
LEMMA WithType ==
    ASSUME NEW S, NEW T, NEW f \in [S -> T], NEW x, NEW v \in T
    PROVE  With(f, x, v) \in [S \cup {x} -> T]
BY DEF With

(* A message that the book accepts leaves a book.                           *)
LEMMA AppliedIsBook ==
    ASSUME NEW book \in Book, NEW m \in BookMessage, Accepts(book, m)
    PROVE  Applied(book, m) \in Book
<1> USE ReplayAssumption DEF Order, Sides
<1>1. PICK refs \in SUBSET Refs : book \in [refs -> Order]
  BY DEF Book
<1>2. \A r \in SUBSET Refs : \A f \in [r -> Order] : f \in Book
  BY DEF Book
<1>3. CASE m.kind = "add"
  <2>1. /\ m \in [kind : {"add"}, ref : Refs, side : Sides, price : Prices, shares : 0 .. MaxShares]
        /\ m.shares > 0
    BY <1>3 DEF BookMessage, Accepts
  <2>2. With(book, m.ref, [side |-> m.side, price |-> m.price, remaining |-> m.shares])
           \in [refs \cup {m.ref} -> Order]
    BY <1>1, <2>1 DEF With
  <2> QED BY <1>2, <1>3, <2>1, <2>2 DEF Applied
<1>4. CASE m.kind = "replace"
  <2>1. /\ m \in [kind : {"replace"}, ref : Refs, new : Refs, price : Prices, shares : 0 .. MaxShares]
        /\ m.shares > 0 /\ m.ref \in refs
    BY <1>1, <1>4 DEF BookMessage, Accepts
  <2>2. With(Without(book, m.ref), m.new,
             [side |-> book[m.ref].side, price |-> m.price, remaining |-> m.shares])
           \in [(refs \ {m.ref}) \cup {m.new} -> Order]
    BY <1>1, <2>1 DEF With, Without
  <2>3. Applied(book, m) = With(Without(book, m.ref), m.new,
             [side |-> book[m.ref].side, price |-> m.price, remaining |-> m.shares])
    BY <1>4 DEF Applied
  <2> QED BY <1>2, <2>1, <2>2, <2>3
<1>5. CASE m.kind \in {"execute", "cancel"} /\ m.shares < book[m.ref].remaining
  <2>1. m.shares \in 0 .. MaxShares /\ m.shares > 0 /\ m.ref \in refs
    BY <1>1, <1>5 DEF BookMessage, Accepts
  <2>2. [book EXCEPT ![m.ref].remaining = @ - m.shares] \in [refs -> Order]
    BY <1>1, <1>5, <2>1
  <2> QED BY <1>2, <1>5, <2>2 DEF Applied
<1>6. CASE /\ m.kind \notin {"add", "replace"}
           /\ ~(m.kind \in {"execute", "cancel"} /\ m.shares < book[m.ref].remaining)
  <2>1. Without(book, m.ref) \in [refs \ {m.ref} -> Order]
    BY <1>1 DEF Without
  <2>2. Applied(book, m) = Without(book, m.ref)
    BY <1>6 DEF Applied
  <2> QED BY <1>2, <2>1, <2>2
<1> QED BY <1>3, <1>4, <1>5, <1>6

(* The validator reads the message back out of its event.                   *)
LEMMA EventGivesMessage ==
    ASSUME NEW book \in Book, NEW m \in BookMessage
    PROVE  MessageOf(Event(book, m)) = m
<1>1. CASE m.kind = "add"
  <2>1. m \in [kind : {"add"}, ref : Refs, side : Sides, price : Prices, shares : 0 .. MaxShares]
    BY <1>1 DEF BookMessage
  <2>2. /\ m.ref \in DOMAIN Applied(book, m)
        /\ Applied(book, m)[m.ref] = [side |-> m.side, price |-> m.price, remaining |-> m.shares]
    BY <1>1 DEF Applied, With
  <2> QED BY <1>1, <2>1, <2>2 DEF MessageOf, Event
<1>2. CASE m.kind = "replace"
  <2>1. m \in [kind : {"replace"}, ref : Refs, new : Refs, price : Prices, shares : 0 .. MaxShares]
    BY <1>2 DEF BookMessage
  <2>2. Applied(book, m) = With(Without(book, m.ref), m.new,
             [side |-> book[m.ref].side, price |-> m.price, remaining |-> m.shares])
    BY <1>2 DEF Applied
  <2>3. m.new \in DOMAIN Applied(book, m) /\ Applied(book, m)[m.new].price = m.price
    BY <2>2 DEF With
  <2> QED BY <1>2, <2>1, <2>3 DEF MessageOf, Event
<1>3. CASE m.kind = "delete"
  <2>1. m \in [kind : {"delete"}, ref : Refs]
    BY <1>3 DEF BookMessage
  <2> QED BY <1>3, <2>1 DEF MessageOf, Event
<1>4. CASE m.kind \in {"execute", "cancel"}
  <2>1. m \in [kind : {"execute", "cancel"}, ref : Refs, shares : 0 .. MaxShares]
    BY <1>4 DEF BookMessage
  <2> QED BY <1>4, <2>1 DEF MessageOf, Event
<1> QED BY <1>1, <1>2, <1>3, <1>4 DEF BookMessage

(* The counters of the summary add up after every message.                  *)
LEMMA CountersAddUp ==
    ASSUME counts \in [Counters -> Nat], Reconciled,
           Decoded \/ counts' = Counted({"processed", "undecoded"})
    PROVE  counts' \in [Counters -> Nat] /\ Reconciled'
BY DEF Counters, Reconciled, Decoded, Counted

(* A step that stops the replay changes nothing else.                       *)
LEMMA StopKeepsInv ==
    ASSUME Inv, NEW error, error \in (Errors \cup {"completed"}) \ {"internal"}, Stop(error)
    PROVE  Inv'
BY DEF Stop, Inv, ReplayInv, TypeOK, EventsRebuildBooks, SnapshotsAreCurrent, SessionRules,
       NothingMissed, MarkedWhenFiltered, ShownInSession, Selected, Reconciled, Tradable,
       session, directory, output

(* So does a message that leaves session, directory, books and output alone. *)
LEMMA CountingKeepsInv ==
    ASSUME Inv,
           Decoded \/ counts' = Counted({"processed", "undecoded"}),
           skipped' \in 0 .. MaxSkipped,
           UNCHANGED <<status, session, directory, books, output, lastGlobal, missed>>
    PROVE  Inv'
<1>1. counts' \in [Counters -> Nat] /\ Reconciled'
  BY CountersAddUp DEF Inv, ReplayInv, TypeOK
<1> QED BY <1>1 DEF Inv, ReplayInv, TypeOK, EventsRebuildBooks, SnapshotsAreCurrent, SessionRules,
       NothingMissed, MarkedWhenFiltered, ShownInSession, Selected, Tradable,
       session, directory, output

-----------------------------------------------------------------------------
(* One lemma per action. *)

(* A frame that cannot be decoded.                                          *)
LEMMA UndecodableKeepsInv ==
    ASSUME Inv, NEW skippable \in BOOLEAN, Undecodable(skippable)
    PROVE  Inv'
<1>1. CASE Stop("message")
  BY <1>1, StopKeepsInv DEF Errors
<1>2. CASE ~Stop("message")
  <2>1. MaySkip /\ skipped' = skipped + 1
    BY <1>2 DEF Undecodable
  <2>2. skipped' \in 0 .. MaxSkipped
    BY <2>1, ReplayAssumption DEF MaySkip, Inv, ReplayInv, TypeOK
  <2> QED BY <1>2, <2>2, CountingKeepsInv DEF Undecodable, session, directory, output
<1> QED BY <1>1, <1>2

(* A system event moves the phase on and every instrument with it.          *)
LEMMA SystemEventKeepsInv ==
    ASSUME Inv, NEW rank \in Ranks, NEW t \in Times, SystemEvent(rank, t)
    PROVE  Inv'
<1>1. CASE Stop("invariant")
  BY <1>1, StopKeepsInv DEF Errors
<1>2. CASE ~Stop("invariant")
  <2>1. /\ rank > phase /\ phase' = rank /\ states' = AfterSystemEvent(rank)
        /\ lastGlobal' = t /\ valid' = (valid /\ lastGlobal <= t) /\ Decoded
        /\ UNCHANGED <<status, directory, books, skipped, lastEvent, rebuilt, shown, missed>>
    BY <1>2 DEF SystemEvent
  <2>2. counts' \in [Counters -> Nat] /\ Reconciled'
    BY <2>1, CountersAddUp DEF Inv, ReplayInv, TypeOK
  <2>3. identities' = identities /\ unresolved' = unresolved /\ Selected' = Selected
    BY <2>1 DEF directory, Selected
  <2>4. states' \in [Selected -> TradingStates]
    BY <2>1 DEF AfterSystemEvent, Inv, ReplayInv, TypeOK, TradingStates
  <2>5. ReplayInv'
    BY <2>1, <2>2, <2>3, <2>4, ReplayAssumption DEF Inv, ReplayInv, TypeOK
  <2>6. \A l \in Selected : states'[l] = "trading" => states[l] = "trading"
    BY <2>1 DEF AfterSystemEvent, Inv, ReplayInv, TypeOK
  <2>7. SnapshotsAreCurrent'
    BY <2>1, <2>3, <2>6 DEF Inv, SnapshotsAreCurrent, Tradable
  <2>8. SessionRules'
    BY <2>1, <2>3 DEF Inv, SessionRules, ReplayInv, TypeOK, AfterSystemEvent
  <2> QED BY <2>1, <2>3, <2>5, <2>7, <2>8
         DEF Inv, EventsRebuildBooks, NothingMissed, MarkedWhenFiltered, ShownInSession
<1> QED BY <1>1, <1>2

(* A new instrument is selected only when none of its messages was missed.  *)
LEMMA StockDirectoryKeepsInv ==
    ASSUME Inv, NEW l \in Locates, NEW s \in Symbols, StockDirectory(l, s)
    PROVE  Inv'
<1>1. CASE Stop("invariant") \/ Stop("unknown_symbol")
  BY <1>1, StopKeepsInv DEF Errors
<1>2. CASE l \in DOMAIN identities /\ ~Stop("invariant")
  <2>1. skipped \in 0 .. MaxSkipped
    BY DEF Inv, ReplayInv, TypeOK
  <2> QED BY <1>2, <2>1, CountingKeepsInv DEF StockDirectory, session, directory, output
<1>3. CASE l \notin DOMAIN identities /\ ~Stop("invariant") /\ ~Stop("unknown_symbol")
  <2>1. /\ \A k \in DOMAIN identities : identities[k] # s
        /\ ~(s \in Requested /\ l \in unresolved)
        /\ identities' = With(identities, l, s)
        /\ IF s \in Requested
           THEN /\ states' = With(states, l, Registered)
                /\ books' = With(books, l, <<>>)
                /\ rebuilt' = With(rebuilt, l, <<>>)
                /\ shown' = With(shown, l, NoSnapshot)
           ELSE UNCHANGED <<states, books, rebuilt, shown>>
        /\ Decoded
        /\ UNCHANGED <<status, phase, unresolved, skipped, lastEvent, valid, lastGlobal, missed>>
    BY <1>3 DEF StockDirectory
  <2>2. counts' \in [Counters -> Nat] /\ Reconciled'
    BY <2>1, CountersAddUp DEF Inv, ReplayInv, TypeOK
  <2>3. /\ DOMAIN identities' = DOMAIN identities \cup {l} /\ identities'[l] = s
        /\ \A k \in DOMAIN identities : identities'[k] = identities[k]
    BY <1>3, <2>1 DEF With
  <2>4. l \notin Selected
    BY <1>3 DEF Selected
  <2>5. Selected' = IF s \in Requested THEN Selected \cup {l} ELSE Selected
    BY <1>3, <2>3 DEF Selected
  <2>6. <<>> \in Book
    BY DEF Book
  <2>7. Registered \in TradingStates
    BY DEF Registered, TradingStates
  <2>8. /\ states' \in [Selected' -> TradingStates] /\ DOMAIN shown' = Selected'
        /\ books' \in [Selected' -> Book] /\ rebuilt' \in [Selected' -> Book]
    <3>1. CASE s \in Requested
      <4>1. With(states, l, Registered) \in [Selected \cup {l} -> TradingStates]
        BY <2>7, WithType DEF Inv, ReplayInv, TypeOK
      <4>2. With(books, l, <<>>) \in [Selected \cup {l} -> Book]
        BY <2>6, WithType DEF Inv, ReplayInv, TypeOK
      <4>3. With(rebuilt, l, <<>>) \in [Selected \cup {l} -> Book]
        BY <2>6, WithType DEF Inv, ReplayInv, TypeOK
      <4>4. DOMAIN With(shown, l, NoSnapshot) = Selected \cup {l}
        BY DEF With, Inv, ReplayInv, TypeOK
      <4> QED BY <2>1, <2>5, <3>1, <4>1, <4>2, <4>3, <4>4
    <3>2. CASE s \notin Requested
      BY <2>1, <2>5, <3>2 DEF Inv, ReplayInv, TypeOK
    <3> QED BY <3>1, <3>2
  <2>9. identities' \in [DOMAIN identities' -> Symbols]
    <3>1. identities \in [DOMAIN identities -> Symbols]
      BY DEF Inv, ReplayInv, TypeOK
    <3>2. With(identities, l, s) \in [DOMAIN identities \cup {l} -> Symbols]
      BY <3>1, WithType
    <3> QED BY <2>1, <2>3, <3>2
  <2>10. TypeOK'
    BY <2>1, <2>2, <2>3, <2>8, <2>9 DEF Inv, ReplayInv, TypeOK
  <2>11. ReplayInv'
    BY <2>1, <2>2, <2>3, <2>10 DEF Inv, ReplayInv
  <2>12. \A k \in Selected : /\ k # l /\ states'[k] = states[k] /\ books'[k] = books[k]
                              /\ shown'[k] = shown[k]
    BY <2>1, <2>4 DEF With, Inv, ReplayInv, TypeOK
  <2>13. s \in Requested => states'[l] = Registered /\ shown'[l] = NoSnapshot
    BY <2>1 DEF With
  <2>14. SnapshotsAreCurrent' /\ ShownInSession'
    BY <2>1, <2>5, <2>12, <2>13 DEF Inv, SnapshotsAreCurrent, ShownInSession, Tradable
  <2>15. SessionRules'
    BY <2>1, <2>5, <2>12, <2>13, ReplayAssumption DEF Inv, SessionRules, Registered, ReplayInv, TypeOK
  <2>16. NothingMissed' /\ MarkedWhenFiltered'
    BY <1>3, <2>1, <2>3, <2>5 DEF Inv, NothingMissed, MarkedWhenFiltered
  <2>17. EventsRebuildBooks'
    BY <2>1 DEF Inv, EventsRebuildBooks
  <2> QED BY <2>11, <2>14, <2>15, <2>16, <2>17 DEF Inv
<1> QED BY <1>1, <1>2, <1>3

(* A filtered message leaves its mark.                                      *)
LEMMA FilteredKeepsInv ==
    ASSUME Inv, NEW l \in Locates, NEW named, Filtered(l, named)
    PROVE  Inv'
<1>1. CASE named \in Requested
  BY <1>1, StopKeepsInv DEF Filtered, Errors
<1>2. CASE named \notin Requested
  <2>1. /\ l \notin Selected /\ unresolved' = NowUnresolved(l) /\ missed' = missed \cup {l}
        /\ Decoded
        /\ UNCHANGED <<status, session, identities, books, skipped, output, lastGlobal>>
    BY <1>2 DEF Filtered
  <2>2. counts' \in [Counters -> Nat] /\ Reconciled'
    BY <2>1, CountersAddUp DEF Inv, ReplayInv, TypeOK
  <2>3. Selected' = Selected
    BY <2>1 DEF Selected
  <2> QED BY <2>1, <2>2, <2>3 DEF NowUnresolved, Inv, ReplayInv, TypeOK, EventsRebuildBooks,
         SnapshotsAreCurrent, SessionRules, NothingMissed, MarkedWhenFiltered, ShownInSession,
         Tradable, session, output
<1> QED BY <1>1, <1>2

(* A message that is routed to its book and changes session, book or output *)
(* keeps the directory, the counters and the phase.                         *)
LEMMA RoutedKeeps ==
    ASSUME Inv, NEW l \in Locates, NEW t \in Times, Routed(l, t),
           UNCHANGED <<directory, missed>>
    PROVE  /\ counts' \in [Counters -> Nat] /\ Reconciled' /\ Selected' = Selected
           /\ l \in Selected /\ t < SessionEnd /\ t \in Nat
           /\ NothingMissed' /\ MarkedWhenFiltered'
<1>1. counts' \in [Counters -> Nat] /\ Reconciled'
  BY CountersAddUp DEF Routed, Inv, ReplayInv, TypeOK
<1>2. Selected' = Selected
  BY DEF Selected, directory
<1> QED BY <1>1, <1>2, ReplayAssumption
       DEF Routed, Inv, NothingMissed, MarkedWhenFiltered, directory

(* A trading action that lets an instrument trade shows its book at once.   *)
LEMMA TradingActionKeepsInv ==
    ASSUME Inv, NEW l \in Locates, NEW t \in Times,
           NEW state \in {"trading", "halted", "paused", "quotation_only"},
           TradingAction(l, t, state)
    PROVE  Inv'
<1>1. CASE Stop("invariant")
  BY <1>1, StopKeepsInv DEF Errors
<1>2. CASE ~Stop("invariant")
  <2>1. /\ Routed(l, t) /\ phase < 4 /\ lastEvent <= t /\ lastEvent' = t
        /\ states' = [states EXCEPT ![l] = state]
        /\ IF InSession(t) /\ states[l] # state
           THEN shown' = [shown EXCEPT ![l] = [levels |-> TopLevels(books[l]), state |-> state]]
           ELSE UNCHANGED shown
        /\ UNCHANGED <<status, phase, directory, books, skipped, rebuilt, valid, lastGlobal, missed>>
    BY <1>2 DEF TradingAction, Writable, Snapshot, Changed
  <2>2. /\ counts' \in [Counters -> Nat] /\ Reconciled' /\ Selected' = Selected
        /\ l \in Selected /\ t < SessionEnd /\ t \in Nat
        /\ NothingMissed' /\ MarkedWhenFiltered'
    BY <2>1, RoutedKeeps
  <2>3. states \in [Selected -> TradingStates] /\ DOMAIN shown = Selected
    BY DEF Inv, ReplayInv, TypeOK
  <2>4. states' \in [Selected -> TradingStates]
    BY <2>1, <2>2, <2>3 DEF TradingStates
  <2>5. DOMAIN shown' = Selected
    BY <2>1, <2>3
  <2>6. ReplayInv'
    BY <2>1, <2>2, <2>4, <2>5 DEF Inv, ReplayInv, TypeOK, directory
  <2>7. \A k \in Selected \ {l} : states'[k] = states[k] /\ shown'[k] = shown[k]
    BY <2>1, <2>3
  <2>8. states'[l] = state
    BY <2>1, <2>2, <2>3
  <2>9. ShownInSession'
    BY <2>1, <2>2, <2>3, <2>7, ReplayAssumption
       DEF Inv, ReplayInv, TypeOK, ShownInSession, InSession
  <2>10. CASE InSession(t) /\ states[l] # state
    <3>1. shown'[l].levels = TopLevels(books[l])
      BY <2>1, <2>2, <2>3, <2>10
    <3>2. SnapshotsAreCurrent'
      BY <2>1, <2>2, <2>7, <3>1 DEF Inv, SnapshotsAreCurrent, Tradable
    <3> QED BY <2>1, <2>2, <2>4, <2>6, <2>7, <2>8, <2>9, <3>2
           DEF Inv, SessionRules, EventsRebuildBooks, ReplayInv, TypeOK
  <2>11. CASE states[l] = state
    <3>1. shown' = shown /\ states' = states
      BY <2>1, <2>2, <2>3, <2>11
    <3>2. SnapshotsAreCurrent'
      BY <2>1, <2>2, <3>1 DEF Inv, SnapshotsAreCurrent, Tradable
    <3> QED BY <2>1, <2>2, <2>4, <2>6, <2>7, <2>8, <2>9, <3>2
           DEF Inv, SessionRules, EventsRebuildBooks, ReplayInv, TypeOK
  <2>12. CASE ~InSession(t)
    <3>1. shown' = shown /\ t < SessionStart
      BY <2>1, <2>2, <2>12, ReplayAssumption DEF InSession
    <3>2. shown[l] = NoSnapshot
      BY <2>1, <2>2, <3>1, ReplayAssumption DEF Inv, ReplayInv, TypeOK, ShownInSession
    <3>3. SnapshotsAreCurrent'
      BY <2>1, <2>2, <2>7, <3>1, <3>2 DEF Inv, SnapshotsAreCurrent, Tradable
    <3> QED BY <2>1, <2>2, <2>4, <2>6, <2>7, <2>8, <2>9, <3>3
           DEF Inv, SessionRules, EventsRebuildBooks, ReplayInv, TypeOK
  <2> QED BY <2>10, <2>11, <2>12
<1> QED BY <1>1, <1>2

(* An accepted message changes the book and its reconstruction alike, and   *)
(* every change of the top levels that may be shown is shown.               *)
LEMMA BookUpdateKeepsInv ==
    ASSUME Inv, NEW l \in Locates, NEW t \in Times, NEW m \in BookMessage, BookUpdate(l, t, m)
    PROVE  Inv'
<1> DEFINE after == Applied(books[l], m)
<1> DEFINE e == Event(books[l], m)
<1>1. /\ Routed(l, t) /\ Accepts(books[l], m) /\ lastEvent <= t /\ lastEvent' = t
      /\ books' = [books EXCEPT ![l] = after]
      /\ valid' = (valid /\ Agrees(rebuilt[l], e))
      /\ rebuilt' = [rebuilt EXCEPT ![l] =
                        IF Agrees(@, e) THEN Applied(@, MessageOf(e)) ELSE @]
      /\ IF InSession(t) /\ Tradable(l) /\ TopLevels(books[l]) # TopLevels(after)
         THEN shown' = [shown EXCEPT ![l] = [levels |-> TopLevels(after), state |-> states[l]]]
         ELSE UNCHANGED shown
      /\ UNCHANGED <<status, session, directory, skipped, lastGlobal, missed>>
  BY DEF BookUpdate, Writable, Snapshot
<1>2. /\ counts' \in [Counters -> Nat] /\ Reconciled' /\ Selected' = Selected
      /\ l \in Selected /\ t < SessionEnd /\ t \in Nat
      /\ NothingMissed' /\ MarkedWhenFiltered'
  BY <1>1, RoutedKeeps
<1>3. books \in [Selected -> Book] /\ rebuilt = books /\ DOMAIN shown = Selected
  BY DEF Inv, ReplayInv, TypeOK, EventsRebuildBooks
<1>4. after \in Book
  BY <1>1, <1>2, <1>3, AppliedIsBook
<1>4a. MessageOf(e) = m /\ Agrees(books[l], e)
  BY <1>1, <1>2, <1>3, EventGivesMessage DEF Agrees
<1> HIDE DEF after, e
<1>5. rebuilt' = books'
  BY <1>1, <1>3, <1>4a DEF after
<1>6. books' \in [Selected -> Book] /\ books'[l] = after
  BY <1>1, <1>2, <1>3, <1>4
<1>7. DOMAIN shown' = Selected
  BY <1>1, <1>3
<1>8. ReplayInv'
  BY <1>1, <1>2, <1>5, <1>6, <1>7 DEF Inv, ReplayInv, TypeOK, session, directory
<1>9. \A k \in Selected \ {l} : books'[k] = books[k] /\ shown'[k] = shown[k]
  BY <1>1, <1>3
<1>10. ShownInSession'
  BY <1>1, <1>2, <1>3, <1>9, ReplayAssumption
     DEF Inv, ReplayInv, TypeOK, ShownInSession, InSession
<1>11. SessionRules'
  BY <1>1, <1>2 DEF Inv, SessionRules, session
<1>12. shown'[l] # NoSnapshot /\ Tradable(l) => shown'[l].levels = TopLevels(after)
  <2>1. CASE InSession(t) /\ Tradable(l) /\ TopLevels(books[l]) # TopLevels(after)
    BY <1>1, <1>2, <1>3, <2>1
  <2>2. CASE TopLevels(books[l]) = TopLevels(after)
    <3>1. shown' = shown
      BY <1>1, <2>2
    <3> QED BY <1>2, <2>2, <3>1 DEF Inv, SnapshotsAreCurrent
  <2>3. CASE ~InSession(t)
    <3>1. shown' = shown /\ t < SessionStart
      BY <1>1, <1>2, <2>3, ReplayAssumption DEF InSession
    <3> QED BY <1>1, <1>2, <3>1, ReplayAssumption DEF Inv, ReplayInv, TypeOK, ShownInSession
  <2>4. CASE ~Tradable(l)
    BY <2>4
  <2> QED BY <2>1, <2>2, <2>3, <2>4
<1>13. SnapshotsAreCurrent'
  BY <1>1, <1>2, <1>6, <1>9, <1>12 DEF Inv, SnapshotsAreCurrent, Tradable, session
<1> QED BY <1>2, <1>5, <1>8, <1>10, <1>11, <1>13 DEF Inv, EventsRebuildBooks

(* A rejected message only counts.                                          *)
LEMMA BookRejectionKeepsInv ==
    ASSUME Inv, NEW l \in Locates, NEW t \in Times, NEW m \in BookMessage,
           BookRejection(l, t, m)
    PROVE  Inv'
<1>1. CASE Stop("message")
  BY <1>1, StopKeepsInv DEF Errors
<1>2. CASE ~Stop("message")
  <2>1. MaySkip /\ skipped' = skipped + 1
    BY <1>2 DEF BookRejection
  <2>2. skipped' \in 0 .. MaxSkipped
    BY <2>1, ReplayAssumption DEF MaySkip, Inv, ReplayInv, TypeOK
  <2> QED BY <1>2, <2>2, CountingKeepsInv DEF BookRejection, Routed, session, directory, output
<1> QED BY <1>1, <1>2

(* A print shows the book as it is.                                         *)
LEMMA TradePrintKeepsInv ==
    ASSUME Inv, NEW l \in Locates, NEW t \in Times, NEW kind, NEW shares \in 0 .. MaxShares,
           TradePrint(l, t, kind, shares)
    PROVE  Inv'
<1>1. /\ Routed(l, t) /\ lastEvent <= t /\ lastEvent' = t
      /\ valid' = (valid /\ (kind = "broken_trade" \/ shares > 0))
      /\ IF kind # "broken_trade" /\ InSession(t) /\ EmitTrades /\ Tradable(l)
         THEN shown' = [shown EXCEPT ![l] = [levels |-> TopLevels(books[l]), state |-> states[l]]]
         ELSE UNCHANGED shown
      /\ UNCHANGED <<status, session, directory, books, skipped, rebuilt, lastGlobal, missed>>
  BY DEF TradePrint, Writable, Snapshot
<1>2. /\ counts' \in [Counters -> Nat] /\ Reconciled' /\ Selected' = Selected
      /\ l \in Selected /\ t < SessionEnd /\ t \in Nat
      /\ NothingMissed' /\ MarkedWhenFiltered'
  BY <1>1, RoutedKeeps
<1>3. DOMAIN shown = Selected /\ DOMAIN shown' = Selected
  BY <1>1 DEF Inv, ReplayInv, TypeOK
<1>4. ReplayInv'
  BY <1>1, <1>2, <1>3 DEF Inv, ReplayInv, TypeOK, session, directory
<1>5. \A k \in Selected : \/ shown'[k] = shown[k]
                          \/ InSession(t) /\ shown'[k].levels = TopLevels(books[k])
  BY <1>1, <1>3
<1>6. ShownInSession'
  BY <1>1, <1>2, <1>5, ReplayAssumption DEF Inv, ReplayInv, TypeOK, ShownInSession, InSession
<1>7. SnapshotsAreCurrent'
  BY <1>1, <1>2, <1>5 DEF Inv, SnapshotsAreCurrent, Tradable, session
<1> QED BY <1>1, <1>2, <1>4, <1>6, <1>7 DEF Inv, EventsRebuildBooks, SessionRules, session

(* A message of one instrument.                                             *)
LEMMA InstrumentKeepsInv ==
    ASSUME Inv, NEW l \in Locates, Instrument(l)
    PROVE  Inv'
<1>1. CASE \E named \in Symbols \cup {NoSymbol} : Filtered(l, named)
  BY <1>1, FilteredKeepsInv
<1>2. CASE \E named \in Symbols \cup {NoSymbol} : Misnamed(l, named)
  BY <1>2, StopKeepsInv DEF Misnamed, Errors
<1>3. CASE PassedOver(l)
  <2>1. skipped \in 0 .. MaxSkipped
    BY DEF Inv, ReplayInv, TypeOK
  <2> QED BY <1>3, <2>1, CountingKeepsInv DEF PassedOver, session, directory, output
<1>4. CASE \E t \in Times, state \in {"trading", "halted", "paused", "quotation_only"} :
              TradingAction(l, t, state)
  BY <1>4, TradingActionKeepsInv
<1>5. CASE \E t \in Times, m \in BookMessage : BookUpdate(l, t, m)
  BY <1>5, BookUpdateKeepsInv
<1>6. CASE \E t \in Times, m \in BookMessage : BookRejection(l, t, m)
  BY <1>6, BookRejectionKeepsInv
<1>7. CASE \E t \in Times, kind \in {"trade", "cross", "broken_trade"},
              shares \in 0 .. MaxShares : TradePrint(l, t, kind, shares)
  BY <1>7, TradePrintKeepsInv
<1>8. CASE \E t \in Times : WriteFails(l, t)
  BY <1>8, StopKeepsInv DEF WriteFails, Errors
<1> QED BY <1>1, <1>2, <1>3, <1>4, <1>5, <1>6, <1>7, <1>8 DEF Instrument

(* The final reconciliation always succeeds.                                *)
LEMMA EndKeepsInv ==
    ASSUME Inv, Interrupted \/ EndOfFile
    PROVE  Inv'
<1>1. Reconciled
  BY DEF Inv, ReplayInv
<1>2. \E error \in {"interrupted", "unknown_symbol", "completed"} : Stop(error)
  BY <1>1 DEF Interrupted, EndOfFile
<1> QED BY <1>2, StopKeepsInv DEF Errors

-----------------------------------------------------------------------------
LEMMA InvInitially == Init => Inv
<1> SUFFICES ASSUME Init PROVE Inv
  OBVIOUS
<1>1. Selected = {}
  BY DEF Init, Selected
<1>2. \A S : <<>> \in [{} -> S] /\ DOMAIN <<>> = {}
  OBVIOUS
<1>3. TypeOK
  BY <1>1, <1>2, ReplayAssumption DEF Init, TypeOK, Counters
<1> QED BY <1>1, <1>3
       DEF Init, Inv, ReplayInv, Reconciled, Counters, EventsRebuildBooks, SnapshotsAreCurrent,
           SessionRules, NothingMissed, MarkedWhenFiltered, ShownInSession

LEMMA InvAtEveryStep == Inv /\ [Next]_vars => Inv'
<1> SUFFICES ASSUME Inv, [Next]_vars PROVE Inv'
  OBVIOUS
<1>1. CASE \E skippable \in BOOLEAN : Undecodable(skippable)
  BY <1>1, UndecodableKeepsInv
<1>2. CASE \E rank \in Ranks, t \in Times : SystemEvent(rank, t)
  BY <1>2, SystemEventKeepsInv
<1>3. CASE \E l \in Locates : Instrument(l)
  BY <1>3, InstrumentKeepsInv
<1>4. CASE \E l \in Locates, s \in Symbols : StockDirectory(l, s)
  BY <1>4, StockDirectoryKeepsInv
<1>5. CASE Interrupted \/ EndOfFile
  BY <1>5, EndKeepsInv
<1>6. CASE UNCHANGED vars
  BY <1>6 DEF vars, session, directory, output, Inv, ReplayInv, TypeOK, EventsRebuildBooks,
     SnapshotsAreCurrent, SessionRules, NothingMissed, MarkedWhenFiltered, ShownInSession,
     Selected, Reconciled, Tradable
<1> QED BY <1>1, <1>2, <1>3, <1>4, <1>5, <1>6 DEF Next

LEMMA Invariance == Spec => []Inv
BY InvInitially, InvAtEveryStep, PTL DEF Spec

(* The skipping budget of error_policy.cpp is kept, each symbol has one     *)
(* locate, and the reconciliation at the end of run() cannot fail.          *)
THEOREM ReplayInvariant == Spec => []ReplayInv
<1>1. Inv => ReplayInv
  BY DEF Inv
<1> QED BY <1>1, Invariance, PTL

(* The written events give the validator the books that the replay holds,   *)
(* for any number of instruments and orders and any error policy.           *)
THEOREM EventsDetermineBooks == Spec => []EventsRebuildBooks
<1>1. Inv => EventsRebuildBooks
  BY DEF Inv
<1> QED BY <1>1, Invariance, PTL

(* While snapshots are allowed the last one shows the present top levels.   *)
THEOREM SnapshotsStayCurrent == Spec => []SnapshotsAreCurrent
<1>1. Inv => SnapshotsAreCurrent
  BY DEF Inv
<1> QED BY <1>1, Invariance, PTL

(* No instrument trades again after the end of market hours.                *)
THEOREM SessionsFollowPhases == Spec => []SessionRules
<1>1. Inv => SessionRules
  BY DEF Inv
<1> QED BY <1>1, Invariance, PTL

(* A replay that goes on has filtered out no message of a selected          *)
(* instrument.                                                              *)
THEOREM SelectionIsWhole == Spec => []NothingMissed
<1>1. Inv => NothingMissed
  BY DEF Inv
<1> QED BY <1>1, Invariance, PTL
=============================================================================
