-------------------------- MODULE EscalationProofs --------------------------
(***************************************************************************)
(* The escalation tracker raises no false alarm, for any number of issues, *)
(* calls and failures.  Every state a call holds in memory is as well      *)
(* accounted for as the one on file: that is the inductive invariant.      *)
(***************************************************************************)
EXTENDS Escalation, FiniteSetTheorems, TLAPS

\* The types of the fields of an order, by what is asked.
LEMMA OrderTypes ==
  ASSUME NEW order \in Order
  PROVE  /\ order.op \in {"record", "reset", "set-level", "prune"}
         /\ order.op \in {"record", "reset", "set-level"} => order.issue \in Issue
         /\ order.op = "set-level" => order.level \in HandLevels
  BY DEF Order

\* Whatever the count, the level is one of the four.
LEMMA LevelTypes == ASSUME NEW n PROVE getEscalationLevel(n) \in Levels
  BY DEF getEscalationLevel, Levels

LEMMA BlankTypes == Blank \in Entry /\ Blank.level = getEscalationLevel(Cardinality(Blank.history))
  <1>1. Cardinality({}) = 0
    BY FS_EmptySet
  <1> QED  BY <1>1 DEF Blank, Entry, Levels, getEscalationLevel

LEMMA EntryTypes ==
  ASSUME NEW s \in State, NEW i \in Issue
  PROVE  EntryOf(s, i) \in Entry
  BY BlankTypes DEF EntryOf, State

LEMMA PruneTypes ==
  ASSUME NEW e \in Entry, NEW t
  PROVE  /\ pruneOldFailures(e, t) \in Entry
         /\ pruneOldFailures(e, t).history \subseteq e.history
         /\ pruneOldFailures(e, t).level
              = getEscalationLevel(Cardinality(pruneOldFailures(e, t).history))
  <1>1. Recent(e.history, t) \in SUBSET Failure /\ Recent(e.history, t) \subseteq e.history
    BY DEF Recent, Entry
  <1> QED  BY <1>1, LevelTypes DEF pruneOldFailures, Entry

-----------------------------------------------------------------------------
\* What is accounted for stays so as reports and orders by hand come in.
LEMMA JustifiedGrows ==
  ASSUME NEW s, NEW rep, NEW rep2, NEW hand, NEW hand2,
         Justified(s, rep, hand),
         \A i \in Issue : rep[i] \subseteq rep2[i],
         hand \subseteq hand2
  PROVE  Justified(s, rep2, hand2)
  BY DEF Justified

LEMMA RecordKeeps ==
  ASSUME NEW s \in State, NEW rep \in [Issue -> SUBSET Failure], NEW hand,
         NEW i \in Issue, NEW f \in Failure, NEW t,
         Justified(s, rep, hand)
  PROVE  /\ recordFailure(s, i, f, t) \in State
         /\ Justified(recordFailure(s, i, f, t), [rep EXCEPT ![i] = @ \cup {f}], hand)
  <1> DEFINE e == EntryOf(s, i)
             more == [e EXCEPT !.history = @ \cup {f}]
             pruned == pruneOldFailures(more, t)
             rep2 == [rep EXCEPT ![i] = @ \cup {f}]
  <1>1. e \in Entry
    BY EntryTypes
  <1>2. more \in Entry /\ more.history = e.history \cup {f}
    BY <1>1 DEF Entry
  <1>3. pruned \in Entry /\ pruned.history \subseteq more.history
        /\ pruned.level = getEscalationLevel(Cardinality(pruned.history))
    BY <1>2, PruneTypes
  <1>4. e.history \subseteq rep[i]
    BY DEF EntryOf, Blank, Justified
  <1>5. recordFailure(s, i, f, t) = [s EXCEPT ![i] = pruned]
    BY DEF recordFailure
  <1> HIDE DEF e, more, pruned
  <1>6. pruned.history \subseteq rep2[i]
    BY <1>2, <1>3, <1>4
  <1>7. [s EXCEPT ![i] = pruned] \in State
    BY <1>3 DEF State
  <1>8. Justified([s EXCEPT ![i] = pruned], rep2, hand)
    <2> SUFFICES ASSUME NEW j \in Issue, [s EXCEPT ![i] = pruned][j] # NoEntry
                 PROVE  LET x == [s EXCEPT ![i] = pruned][j] IN
                        /\ x.history \subseteq rep2[j]
                        /\ \/ x.level = getEscalationLevel(Cardinality(x.history))
                           \/ <<j, x.level>> \in hand
      BY DEF Justified
    <2>1. CASE j = i
      BY <2>1, <1>3, <1>6 DEF State
    <2>2. CASE j # i
      BY <2>2 DEF State, Justified
    <2> QED  BY <2>1, <2>2
  <1> QED  BY <1>5, <1>7, <1>8

LEMMA ResetKeeps ==
  ASSUME NEW s \in State, NEW rep, NEW hand, NEW i \in Issue, Justified(s, rep, hand)
  PROVE  reset(s, i) \in State /\ Justified(reset(s, i), rep, hand)
  BY DEF reset, State, Justified

LEMMA SetLevelKeeps ==
  ASSUME NEW s \in State, NEW rep, NEW hand, NEW i \in Issue, NEW l \in Levels,
         Justified(s, rep, hand), l = "L0" \/ <<i, l>> \in hand
  PROVE  setLevel(s, i, l) \in State /\ Justified(setLevel(s, i, l), rep, hand)
  <1>1. CASE l = "L0"
    <2>1. setLevel(s, i, l) = [s EXCEPT ![i] = Blank]
      BY <1>1 DEF setLevel
    <2>2. Blank.history \subseteq rep[i]
      BY DEF Blank
    <2> QED  BY <2>1, <2>2, BlankTypes DEF State, Justified
  <1>2. CASE l # "L0"
    <2> DEFINE x == [EntryOf(s, i) EXCEPT !.level = l]
    <2>1. setLevel(s, i, l) = [s EXCEPT ![i] = x]
      BY <1>2 DEF setLevel
    <2>2. x \in Entry /\ x.level = l /\ x.history = EntryOf(s, i).history
      BY EntryTypes DEF Entry
    <2>3. EntryOf(s, i).history \subseteq rep[i]
      BY DEF EntryOf, Blank, Justified
    <2> HIDE DEF x
    <2> QED  BY <1>2, <2>1, <2>2, <2>3 DEF State, Justified
  <1> QED  BY <1>1, <1>2

LEMMA PruneKeeps ==
  ASSUME NEW s \in State, NEW rep, NEW hand, NEW t, Justified(s, rep, hand)
  PROVE  pruneAllEntries(s, t) \in State /\ Justified(pruneAllEntries(s, t), rep, hand)
  <1> DEFINE r == pruneAllEntries(s, t)
  <1>1. ASSUME NEW i \in Issue
        PROVE  r[i] = NoEntry \/ (s[i] \in Entry /\ s[i] # NoEntry /\ r[i] = pruneOldFailures(s[i], t))
    BY DEF pruneAllEntries, State
  <1>2. r \in State
    <2>1. r = [i \in Issue |-> r[i]]
      BY DEF pruneAllEntries
    <2> HIDE DEF r
    <2> QED  BY <2>1, <1>1, PruneTypes DEF State
  <1> HIDE DEF r
  <1>3. Justified(r, rep, hand)
    BY <1>1, PruneTypes DEF Justified
  <1> QED  BY <1>2, <1>3 DEF r

-----------------------------------------------------------------------------
\* Whatever is written to the file is held by a call first, so the copies
\* that calls hold must be accounted for as well as the file.
IInv ==
  /\ TypeOK
  /\ Justified(file, reported, byHand)
  /\ \A c \in Caller : Holding(c) => Justified(call[c].state, reported, byHand)

LEMMA InitInv == Init => IInv
  <1> SUFFICES ASSUME Init PROVE IInv
    OBVIOUS
  <1>1. TypeOK
    BY DEF Init, TypeOK, State, Calls
  <1>2. \A c \in Caller : ~Holding(c)
    BY DEF Init, Holding, Idle
  <1>3. Justified(file, reported, byHand)
    BY DEF Init, Justified
  <1> QED  BY <1>1, <1>2, <1>3 DEF IInv

LEMMA LoadTypes ==
  ASSUME IInv
  PROVE  loadState \in State /\ Justified(loadState, reported, byHand)
  BY DEF IInv, TypeOK, loadState, State, Justified

\* A call takes hold of a state that is accounted for.
LEMMA HoldKeeps ==
  ASSUME IInv, NEW c \in Caller, NEW order \in Order, NEW s \in State,
         NEW mine \in SUBSET Failure, Hold(c, order, s, mine),
         reports' \in Nat,
         reported' \in [Issue -> SUBSET Failure], byHand' \subseteq Issue \X Levels,
         \A i \in Issue : reported[i] \subseteq reported'[i], byHand \subseteq byHand',
         Justified(s, reported', byHand')
  PROVE  IInv'
  <1> DEFINE x == [step |-> "truncate", order |-> order, state |-> s, mine |-> mine]
  <1>1. x \in Calls
    BY DEF Calls
  <1>2. call' = [call EXCEPT ![c] = x] /\ now' = now /\ file' = file /\ torn' = torn /\ written' = written
        /\ owed' = owed /\ lost' \in BOOLEAN
    BY DEF Hold, IInv, TypeOK
  <1>3. x.step = "truncate" /\ x.state = s
    OBVIOUS
  <1> HIDE DEF x
  <1>4. TypeOK'
    BY <1>1, <1>2 DEF IInv, TypeOK
  <1>5. Justified(file, reported', byHand')
    BY JustifiedGrows DEF IInv
  <1>6. ASSUME NEW d \in Caller, Holding(d)'
        PROVE  Justified(call'[d].state, reported', byHand')
    <2>1. CASE d = c
      BY <2>1, <1>2, <1>3 DEF IInv, TypeOK
    <2>2. CASE d # c
      <3>1. call'[d] = call[d] /\ Holding(d)
        BY <2>2, <1>2, <1>6 DEF Holding, IInv, TypeOK
      <3> QED  BY <3>1, JustifiedGrows DEF IInv
    <2> QED  BY <2>1, <2>2
  <1> QED  BY <1>2, <1>4, <1>5, <1>6 DEF IInv

LEMMA RecordStep ==
  ASSUME IInv, NEW c \in Caller, NEW order \in Order, Record(c, order)
  PROVE  IInv'
  <1> DEFINE i == order.issue
             f == [id |-> reports, at |-> call[c].at]
             s == recordFailure(loadState, i, f, call[c].at)
  <1>1. i \in Issue
    BY OrderTypes DEF Record
  <1>2. call[c].at \in Nat
    BY DEF Record, IInv, TypeOK, Calls, Idle
  <1>3. f \in Failure
    BY <1>2 DEF Failure, IInv, TypeOK
  <1> HIDE DEF i, f
  <1>4. /\ reported' = [reported EXCEPT ![i] = @ \cup {f}]
        /\ byHand' = byHand /\ reports' = reports + 1
        /\ Hold(c, order, s, {f})
    BY DEF Record, i, f
  <1>5. s \in State /\ Justified(s, reported', byHand')
    BY <1>1, <1>3, <1>4, LoadTypes, RecordKeeps DEF IInv, TypeOK
  <1> HIDE DEF s
  <1>6. /\ reported' \in [Issue -> SUBSET Failure] /\ byHand' \subseteq Issue \X Levels
        /\ reports' \in Nat
        /\ \A j \in Issue : reported[j] \subseteq reported'[j]
    <2>1. reported \in [Issue -> SUBSET Failure] /\ byHand \subseteq Issue \X Levels
          /\ reports \in Nat
      BY DEF IInv, TypeOK
    <2>2. reported' \in [Issue -> SUBSET Failure]
      BY <1>1, <1>3, <1>4, <2>1
    <2>3. \A j \in Issue : reported[j] \subseteq reported'[j]
      BY <1>4, <2>1
    <2> QED  BY <1>4, <2>1, <2>2, <2>3
  <1>7. {f} \in SUBSET Failure /\ byHand \subseteq byHand'
    BY <1>3, <1>4
  <1>8. Hold(c, order, s, {f})
    BY <1>4
  <1> QED  BY <1>5, <1>6, <1>7, <1>8, HoldKeeps

LEMMA SetLevelStep ==
  ASSUME IInv, NEW c \in Caller, NEW order \in Order, SetLevel(c, order)
  PROVE  IInv'
  <1> DEFINE i == order.issue
             l == order.level
             s == setLevel(loadState, i, l)
  <1>1. i \in Issue /\ l \in Levels
    BY OrderTypes, HandLevelsAssumption DEF SetLevel
  <1>2. /\ byHand' = IF l = "L0" THEN byHand ELSE byHand \cup {<<i, l>>}
        /\ Hold(c, order, s, {}) /\ reported' = reported /\ reports' = reports
    BY DEF SetLevel
  <1>3. /\ byHand' \subseteq Issue \X Levels /\ byHand \subseteq byHand'
        /\ l = "L0" \/ <<i, l>> \in byHand'
    BY <1>1, <1>2 DEF IInv, TypeOK
  <1>4. Justified(loadState, reported', byHand') /\ loadState \in State
    BY <1>2, <1>3, LoadTypes, JustifiedGrows
  <1>5. s \in State /\ Justified(s, reported', byHand')
    BY <1>1, <1>3, <1>4, SetLevelKeeps
  <1> HIDE DEF s, i, l
  <1>6. reported' \in [Issue -> SUBSET Failure] /\ reports' \in Nat
    BY <1>2 DEF IInv, TypeOK
  <1> QED  BY <1>2, <1>3, <1>5, <1>6, HoldKeeps

LEMMA ResetStep ==
  ASSUME IInv, NEW c \in Caller, NEW order \in Order, Reset(c, order)
  PROVE  IInv'
  <1>1. order.issue \in Issue
    BY OrderTypes DEF Reset
  <1>2. reported' = reported /\ byHand' = byHand /\ reports' = reports
    BY DEF Reset
  <1>3. CASE loadState[order.issue] # NoEntry
    <2>1. Hold(c, order, reset(loadState, order.issue), {})
      BY <1>3 DEF Reset
    <2>2. /\ reset(loadState, order.issue) \in State
          /\ Justified(reset(loadState, order.issue), reported', byHand')
      BY <1>1, <1>2, LoadTypes, ResetKeeps
    <2> QED  BY <1>2, <2>1, <2>2, HoldKeeps DEF IInv, TypeOK
  <1>4. CASE loadState[order.issue] = NoEntry
    <2>1. call' = [call EXCEPT ![c] = Idle] /\ UNCHANGED <<now, file, torn, written, owed, lost>>
      BY <1>4 DEF Reset
    <2> QED  BY <1>2, <2>1 DEF IInv, TypeOK, Calls, Idle, Holding
  <1> QED  BY <1>3, <1>4

LEMMA PruneStep ==
  ASSUME IInv, NEW c \in Caller, NEW order \in Order, Prune(c, order)
  PROVE  IInv'
  <1>1. /\ Hold(c, order, pruneAllEntries(loadState, call[c].at), {})
        /\ reported' = reported /\ byHand' = byHand /\ reports' = reports
    BY DEF Prune
  <1>2. /\ pruneAllEntries(loadState, call[c].at) \in State
        /\ Justified(pruneAllEntries(loadState, call[c].at), reported', byHand')
    BY <1>1, LoadTypes, PruneKeeps
  <1> QED  BY <1>1, <1>2, HoldKeeps DEF IInv, TypeOK

\* The steps that take up no new state.
LEMMA OtherSteps ==
  ASSUME IInv, NEW c \in Caller, Begin(c) \/ Truncate(c) \/ Fill(c) \/ Crash(c)
  PROVE  IInv'
  <1>1. CASE Begin(c)
    BY <1>1 DEF Begin, IInv, TypeOK, Calls, Holding
  <1>2. CASE Truncate(c)
    <2>1. PICK order \in Order, s \in State, mine \in SUBSET Failure :
            call[c] = [step |-> "truncate", order |-> order, state |-> s, mine |-> mine]
      BY <1>2 DEF Truncate, IInv, TypeOK, Calls, Idle
    <2> DEFINE x == [step |-> "fill", order |-> order, state |-> s, mine |-> mine]
    <2>2. call' = [call EXCEPT ![c] = x]
      <3>1. call' = [call EXCEPT ![c] = [call[c] EXCEPT !.step = "fill"]]
        BY <1>2 DEF Truncate
      <3>2. [call[c] EXCEPT !.step = "fill"] = x
        BY <2>1
      <3> QED  BY <3>1, <3>2
    <2>3. x \in Calls /\ x.state = call[c].state /\ Holding(c)
      BY <2>1 DEF Calls, Holding
    <2> HIDE DEF x
    <2> QED  BY <1>2, <2>2, <2>3 DEF Truncate, IInv, TypeOK, Holding
  <1>3. CASE Fill(c)
    <2>1. /\ Holding(c) /\ call[c].state \in State /\ call[c].mine \in SUBSET Failure
          /\ call[c].order \in Order
      BY <1>3 DEF Fill, IInv, TypeOK, Calls, Idle, Holding
    <2>2. owed' \in [Issue -> SUBSET Failure]
      BY <1>3, <2>1 DEF Fill, IInv, TypeOK, OwedAfter
    <2>3. TypeOK'
      <3>1. torn' \in BOOLEAN /\ written' \in BOOLEAN
        BY <1>3 DEF Fill
      <3> QED  BY <1>3, <2>1, <2>2, <3>1 DEF Fill, IInv, TypeOK, Calls
    <2>4. Justified(file, reported, byHand)'
      BY <1>3, <2>1 DEF Fill, IInv
    <2>5. ASSUME NEW d \in Caller, Holding(d)'
          PROVE  Justified(call[d].state, reported, byHand)'
      BY <1>3, <2>5 DEF Fill, IInv, TypeOK, Holding, Idle
    <2> QED  BY <2>3, <2>4, <2>5 DEF IInv
  <1>4. CASE Crash(c)
    BY <1>4 DEF Crash, IInv, TypeOK, Calls, Idle, Holding
  <1> QED  BY <1>1, <1>2, <1>3, <1>4

LEMMA StepInv == IInv /\ [Next]_vars => IInv'
  <1> SUFFICES ASSUME IInv, [Next]_vars PROVE IInv'
    OBVIOUS
  <1>1. CASE Tick
    BY <1>1 DEF Tick, IInv, TypeOK, Holding
  <1>2. CASE \E c \in Caller : Step(c)
    BY <1>2, RecordStep, ResetStep, SetLevelStep, PruneStep, OtherSteps DEF Step
  <1>3. CASE UNCHANGED vars
    BY <1>3 DEF vars, IInv, TypeOK, Holding
  <1> QED  BY <1>1, <1>2, <1>3 DEF Next

(***************************************************************************)
(* Every reachable state is well typed.                                    *)
(***************************************************************************)
THEOREM EscalationTyped == Spec => []TypeOK
  <1>1. IInv => TypeOK
    BY DEF IInv
  <1> QED  BY <1>1, InitInv, StepInv, PTL DEF Spec

(***************************************************************************)
(* The level on file is always one that failures reported of the issue, or *)
(* an operator, account for: overlapping calls, deaths and torn files lose *)
(* failures but never add one or credit it to another issue.               *)
(***************************************************************************)
THEOREM EscalationNoFalseAlarm == Spec => []NoFalseAlarm
  <1>1. IInv => NoFalseAlarm
    BY DEF IInv, NoFalseAlarm
  <1> QED  BY <1>1, InitInv, StepInv, PTL DEF Spec

-----------------------------------------------------------------------------
(***************************************************************************)
(* Nothing gets lost but by an overlap or a death in mid-write.  While     *)
(* none happened at most one call holds a copy, so what it writes is what  *)
(* the file held with its own order carried out.                           *)
(***************************************************************************)
Matches(s, o, t) ==
  \A i \in Issue : Recent(EntryOf(s, i).history, t) = Recent(o[i], t)

OwedBy(c) == [i \in Issue |-> OwedAfter(i, call[c].order, call[c].mine)]

Timely == \A c \in Caller : call[c].step = "load" => call[c].at <= now

Exact ==
  /\ \A c, d \in Caller : Holding(c) /\ Holding(d) => c = d
  /\ torn => \E c \in Caller : call[c].step = "fill"
  /\ \A c \in Caller : call[c].step = "fill" => ~written
  /\ Matches(file, owed, now)
  /\ \A c \in Caller : Holding(c) => Matches(call[c].state, OwedBy(c), now)

CInv == IInv /\ Timely /\ (~lost => Exact)

\* What is recent later was recent before.
LEMMA RecentLater ==
  ASSUME NEW h \in SUBSET Failure, NEW t \in Nat, NEW u \in Nat, t <= u
  PROVE  Recent(Recent(h, t), u) = Recent(h, u)
  <1>1. ASSUME NEW f \in h, f.at >= u - Window
        PROVE  f.at >= t - Window
    BY <1>1, WindowAssumption DEF Failure
  <1> QED  BY <1>1 DEF Recent

LEMMA MatchesLater ==
  ASSUME NEW s \in State, NEW o \in [Issue -> SUBSET Failure],
         NEW t \in Nat, NEW u \in Nat, t <= u, Matches(s, o, t)
  PROVE  Matches(s, o, u)
  <1> SUFFICES ASSUME NEW i \in Issue
               PROVE  Recent(EntryOf(s, i).history, u) = Recent(o[i], u)
    BY DEF Matches
  <1>1. EntryOf(s, i).history \in SUBSET Failure /\ o[i] \in SUBSET Failure
    BY EntryTypes DEF Entry
  <1>2. Recent(EntryOf(s, i).history, t) = Recent(o[i], t)
    BY DEF Matches
  <1> QED  BY <1>1, <1>2, RecentLater

LEMMA RecordMatches ==
  ASSUME NEW s \in State, NEW o \in [Issue -> SUBSET Failure], NEW t \in Nat, NEW u \in Nat,
         t <= u, Matches(s, o, u), NEW i \in Issue, NEW f \in Failure,
         NEW o2 \in [Issue -> SUBSET Failure], o2 = [o EXCEPT ![i] = @ \cup {f}]
  PROVE  Matches(recordFailure(s, i, f, t), o2, u)
  <1> DEFINE e == EntryOf(s, i)
             more == [e EXCEPT !.history = @ \cup {f}]
             pruned == pruneOldFailures(more, t)
  <1>1. e \in Entry
    BY EntryTypes
  <1>2. more \in Entry /\ more.history = e.history \cup {f}
    BY <1>1 DEF Entry
  <1>3. pruned.history = Recent(e.history \cup {f}, t) /\ pruned \in Entry
    BY <1>2, PruneTypes DEF pruneOldFailures
  <1>4. recordFailure(s, i, f, t) = [s EXCEPT ![i] = pruned]
    BY DEF recordFailure
  <1>5. Recent(e.history, u) = Recent(o[i], u) /\ e.history \in SUBSET Failure
    BY <1>1 DEF Matches, Entry
  <1> HIDE DEF e, more, pruned
  <1>6. Recent(pruned.history, u) = Recent(e.history \cup {f}, u)
    <2>1. e.history \cup {f} \in SUBSET Failure
      BY <1>5
    <2> QED  BY <1>3, <2>1, RecentLater
  <1>7. Recent(e.history \cup {f}, u) = Recent(o[i] \cup {f}, u)
    BY <1>5 DEF Recent
  <1> SUFFICES ASSUME NEW j \in Issue
               PROVE  Recent(EntryOf([s EXCEPT ![i] = pruned], j).history, u) = Recent(o2[j], u)
    BY <1>4 DEF Matches
  <1>8. CASE j = i
    <2>1. [s EXCEPT ![i] = pruned][j] = pruned
      BY <1>8 DEF State
    <2>2. pruned # NoEntry => EntryOf([s EXCEPT ![i] = pruned], j) = pruned
      BY <2>1 DEF EntryOf
    <2>3. o2[j] = o[i] \cup {f}
      BY <1>8
    <2>4. pruned # NoEntry
      BY <1>3, NoEntryAssumption
    <2> QED  BY <1>6, <1>7, <2>2, <2>3, <2>4
  <1>9. CASE j # i
    BY <1>9 DEF Matches, EntryOf, State
  <1> QED  BY <1>8, <1>9

LEMMA BlankRecent == ASSUME NEW t PROVE Recent(Blank.history, t) = {}
  BY DEF Blank, Recent

LEMMA PruneMatches ==
  ASSUME NEW s \in State, NEW o, NEW t \in Nat, NEW u \in Nat, t <= u, Matches(s, o, u)
  PROVE  Matches(pruneAllEntries(s, t), o, u)
  <1> DEFINE r == pruneAllEntries(s, t)
  <1> SUFFICES ASSUME NEW i \in Issue
               PROVE  Recent(EntryOf(r, i).history, u) = Recent(EntryOf(s, i).history, u)
    BY DEF Matches
  <1>1. CASE s[i] = NoEntry
    <2>1. r[i] = NoEntry
      BY <1>1 DEF pruneAllEntries
    <2> QED  BY <1>1, <2>1 DEF EntryOf
  <1>2. CASE s[i] # NoEntry
    <2>1. s[i] \in Entry /\ s[i].history \in SUBSET Failure
      BY <1>2 DEF State, Entry
    <2>2. Recent(Recent(s[i].history, t), u) = Recent(s[i].history, u)
      BY <2>1, RecentLater
    <2>3. CASE Recent(s[i].history, t) = {}
      <3>1. EntryOf(r, i) = Blank
        BY <2>3 DEF pruneAllEntries, EntryOf
      <3>2. Recent(s[i].history, u) = {}
        BY <2>2, <2>3 DEF Recent
      <3> QED  BY <1>2, <3>1, <3>2, BlankRecent DEF EntryOf
    <2>4. CASE Recent(s[i].history, t) # {}
      <3>1. r[i] = pruneOldFailures(s[i], t)
        BY <1>2, <2>4 DEF pruneAllEntries
      <3>2. r[i] # NoEntry /\ r[i].history = Recent(s[i].history, t)
        BY <2>1, <3>1, PruneTypes, NoEntryAssumption DEF pruneOldFailures
      <3> HIDE DEF r
      <3> QED  BY <1>2, <2>2, <3>2 DEF EntryOf
    <2> QED  BY <2>3, <2>4
  <1> QED  BY <1>1, <1>2

\* Resetting an issue, or setting it back to L0, leaves nothing owed of it.
LEMMA ClearMatches ==
  ASSUME NEW s \in State, NEW o, NEW t, Matches(s, o, t), NEW i \in Issue,
         NEW x \in {NoEntry, Blank}, NEW o2, o2[i] = {},
         \A j \in Issue : j # i => o2[j] = o[j]
  PROVE  Matches([s EXCEPT ![i] = x], o2, t)
  <1> SUFFICES ASSUME NEW j \in Issue
               PROVE  Recent(EntryOf([s EXCEPT ![i] = x], j).history, t) = Recent(o2[j], t)
    BY DEF Matches
  <1>1. CASE j = i
    <2>1. EntryOf([s EXCEPT ![i] = x], j) = Blank
      BY <1>1 DEF EntryOf, State
    <2> QED  BY <1>1, <2>1, BlankRecent DEF Recent
  <1>2. CASE j # i
    BY <1>2 DEF Matches, EntryOf, State
  <1> QED  BY <1>1, <1>2

LEMMA RaiseMatches ==
  ASSUME NEW s \in State, NEW o, NEW t, Matches(s, o, t), NEW i \in Issue,
         NEW l \in Levels, l # "L0"
  PROVE  Matches(setLevel(s, i, l), o, t)
  <1> DEFINE x == [EntryOf(s, i) EXCEPT !.level = l]
  <1>1. setLevel(s, i, l) = [s EXCEPT ![i] = x]
    BY DEF setLevel
  <1>2. x \in Entry /\ x.history = EntryOf(s, i).history
    BY EntryTypes DEF Entry
  <1> HIDE DEF x
  <1>3. x # NoEntry
    BY <1>2, NoEntryAssumption
  <1> SUFFICES ASSUME NEW j \in Issue
               PROVE  Recent(EntryOf([s EXCEPT ![i] = x], j).history, t) = Recent(o[j], t)
    BY <1>1 DEF Matches
  <1>4. CASE j = i
    <2>1. EntryOf([s EXCEPT ![i] = x], j) = x
      BY <1>3, <1>4 DEF EntryOf, State
    <2> QED  BY <1>2, <1>4, <2>1 DEF Matches
  <1>5. CASE j # i
    BY <1>5 DEF Matches, EntryOf, State
  <1> QED  BY <1>4, <1>5

\* A call that takes hold of a copy, with its order carried out on it.
LEMMA HoldExact ==
  ASSUME CInv, NEW c \in Caller, call[c].step = "load", NEW order, NEW s, NEW mine,
         Hold(c, order, s, mine),
         ~lost /\ ~torn => Matches(s, [i \in Issue |-> OwedAfter(i, order, mine)], now)
  PROVE  Timely' /\ (~lost' => Exact')
  <1> DEFINE x == [step |-> "truncate", order |-> order, state |-> s, mine |-> mine]
  <1>1. /\ call' = [call EXCEPT ![c] = x] /\ now' = now /\ file' = file /\ torn' = torn /\ written' = written
        /\ owed' = owed /\ lost' = (lost \/ \E d \in Caller \ {c} : Holding(d))
    BY DEF Hold
  <1>2. x.step = "truncate" /\ x.state = s /\ x.order = order /\ x.mine = mine
    OBVIOUS
  <1> HIDE DEF x
  <1>3. /\ call'[c] = x
        /\ \A d \in Caller : d # c => call'[d] = call[d]
    BY <1>1 DEF CInv, IInv, TypeOK
  <1>4. Timely'
    BY <1>1, <1>2, <1>3 DEF CInv, Timely
  <1>5. ASSUME ~lost' PROVE Exact'
    <2>1. ~lost /\ \A d \in Caller : d # c => ~Holding(d)
      BY <1>1, <1>5 DEF CInv, IInv, TypeOK
    <2>2. Exact
      BY <2>1 DEF CInv
    <2>3. ~torn
      BY <2>1, <2>2 DEF Exact, Holding
    <2>4. \A d \in Caller : Holding(d)' => d = c
      BY <1>3, <2>1 DEF Holding
    <2>5. OwedBy(c)' = [i \in Issue |-> OwedAfter(i, order, mine)]
      BY <1>1, <1>2, <1>3 DEF OwedBy, OwedAfter
    <2>6. Matches(call'[c].state, OwedBy(c)', now')
      BY <1>1, <1>2, <1>3, <2>1, <2>3, <2>5
    <2>7. \A d \in Caller : call'[d].step = "fill" => ~written'
      BY <1>1, <1>2, <1>3, <2>2 DEF Exact
    <2> QED  BY <1>1, <2>2, <2>3, <2>4, <2>6, <2>7 DEF Exact, Matches, EntryOf
  <1> QED  BY <1>4, <1>5

LEMMA LoadMatches ==
  ASSUME CInv, ~lost, ~torn
  PROVE  /\ loadState = file /\ file \in State /\ Matches(file, owed, now)
         /\ owed \in [Issue -> SUBSET Failure]
  BY DEF CInv, IInv, TypeOK, Exact, loadState

LEMMA LoadTime ==
  ASSUME CInv, NEW c \in Caller, call[c].step = "load"
  PROVE  call[c].at \in Nat /\ now \in Nat /\ call[c].at <= now
  BY DEF CInv, IInv, TypeOK, Timely, Calls, Idle

LEMMA RecordExact ==
  ASSUME CInv, NEW c \in Caller, NEW order \in Order, Record(c, order)
  PROVE  Timely' /\ (~lost' => Exact')
  <1> DEFINE i == order.issue
             f == [id |-> reports, at |-> call[c].at]
             s == recordFailure(loadState, i, f, call[c].at)
  <1>1. i \in Issue /\ order.op = "record" /\ call[c].step = "load"
    BY OrderTypes DEF Record
  <1>2. f \in Failure
    BY <1>1, LoadTime DEF Failure, CInv, IInv, TypeOK
  <1>3. Hold(c, order, s, {f})
    BY DEF Record
  <1>4. ASSUME ~lost, ~torn
        PROVE  Matches(s, [j \in Issue |-> OwedAfter(j, order, {f})], now)
    <2> HIDE DEF f
    <2>1. [j \in Issue |-> OwedAfter(j, order, {f})] = [owed EXCEPT ![i] = @ \cup {f}]
      BY <1>1, <1>4, LoadMatches DEF OwedAfter
    <2>2. [owed EXCEPT ![i] = @ \cup {f}] \in [Issue -> SUBSET Failure]
      BY <1>1, <1>2, <1>4, LoadMatches
    <2> HIDE DEF i
    <2> QED  BY <1>1, <1>2, <1>4, <2>1, <2>2, LoadMatches, LoadTime, RecordMatches
  <1> HIDE DEF s, f, i
  <1> QED  BY <1>1, <1>3, <1>4, HoldExact

LEMMA PruneExact ==
  ASSUME CInv, NEW c \in Caller, NEW order \in Order, Prune(c, order)
  PROVE  Timely' /\ (~lost' => Exact')
  <1> DEFINE s == pruneAllEntries(loadState, call[c].at)
  <1>1. order.op = "prune" /\ call[c].step = "load" /\ Hold(c, order, s, {})
    BY DEF Prune
  <1>2. ASSUME ~lost, ~torn
        PROVE  Matches(s, [j \in Issue |-> OwedAfter(j, order, {})], now)
    <2>1. [j \in Issue |-> OwedAfter(j, order, {})] = owed
      BY <1>1, <1>2, LoadMatches DEF OwedAfter
    <2> QED  BY <1>1, <1>2, <2>1, LoadMatches, LoadTime, PruneMatches
  <1> HIDE DEF s
  <1> QED  BY <1>1, <1>2, HoldExact

LEMMA SetLevelExact ==
  ASSUME CInv, NEW c \in Caller, NEW order \in Order, SetLevel(c, order)
  PROVE  Timely' /\ (~lost' => Exact')
  <1> DEFINE i == order.issue
             l == order.level
             s == setLevel(loadState, i, l)
             o == [j \in Issue |-> OwedAfter(j, order, {})]
  <1>1. /\ order.op = "set-level" /\ call[c].step = "load" /\ Hold(c, order, s, {})
        /\ i \in Issue /\ l \in Levels
    BY OrderTypes, HandLevelsAssumption DEF SetLevel
  <1>2. ASSUME ~lost, ~torn PROVE Matches(s, o, now)
    <2>1. CASE l = "L0"
      <3>1. o[i] = {} /\ \A j \in Issue : j # i => o[j] = owed[j]
        BY <1>1, <2>1 DEF OwedAfter
      <3>2. s = [loadState EXCEPT ![i] = Blank]
        BY <2>1 DEF setLevel
      <3> HIDE DEF o, s, i
      <3> QED  BY <1>1, <1>2, <3>1, <3>2, LoadMatches, ClearMatches
    <2>2. CASE l # "L0"
      <3>1. o = owed
        BY <1>1, <1>2, <2>2, LoadMatches DEF OwedAfter
      <3> HIDE DEF o, i, l
      <3> QED  BY <1>1, <1>2, <2>2, <3>1, LoadMatches, RaiseMatches
    <2> QED  BY <2>1, <2>2
  <1> HIDE DEF s
  <1> QED  BY <1>1, <1>2, HoldExact

LEMMA ResetExact ==
  ASSUME CInv, NEW c \in Caller, NEW order \in Order, Reset(c, order)
  PROVE  Timely' /\ (~lost' => Exact')
  <1> DEFINE i == order.issue
             s == reset(loadState, i)
             o == [j \in Issue |-> OwedAfter(j, order, {})]
  <1>1. order.op = "reset" /\ call[c].step = "load" /\ i \in Issue
    BY OrderTypes DEF Reset
  <1>2. CASE loadState[i] # NoEntry
    <2>1. Hold(c, order, s, {})
      BY <1>2 DEF Reset
    <2>2. ASSUME ~lost, ~torn PROVE Matches(s, o, now)
      <3>1. o[i] = {} /\ \A j \in Issue : j # i => o[j] = owed[j]
        BY <1>1 DEF OwedAfter
      <3>2. s = [loadState EXCEPT ![i] = NoEntry]
        BY DEF reset
      <3> HIDE DEF o, s, i
      <3> QED  BY <1>1, <2>2, <3>1, <3>2, LoadMatches, ClearMatches
    <2> HIDE DEF s
    <2> QED  BY <1>1, <2>1, <2>2, HoldExact
  <1>3. CASE loadState[i] = NoEntry
    <2>1. call' = [call EXCEPT ![c] = Idle] /\ UNCHANGED <<now, file, torn, written, owed, lost>>
      BY <1>3 DEF Reset
    <2>2. /\ call'[c].step = "idle"
          /\ \A d \in Caller : d # c => call'[d] = call[d]
      BY <2>1 DEF CInv, IInv, TypeOK, Idle
    <2>3. Timely'
      BY <2>1, <2>2 DEF CInv, Timely
    <2>4. ASSUME ~lost' PROVE Exact'
      <3>1. \A d \in Caller : Holding(d)' => Holding(d) /\ call'[d] = call[d]
        BY <2>2 DEF Holding
      <3>2. \A d \in Caller : call[d].step = "fill" => call'[d] = call[d]
        BY <1>1, <2>2
      <3>3. \A d \in Caller : Holding(d)' => OwedBy(d)' = OwedBy(d)
        BY <2>1, <3>1 DEF OwedBy, OwedAfter
      <3>4. ASSUME NEW d \in Caller, Holding(d)'
            PROVE  Matches(call'[d].state, OwedBy(d)', now')
        BY <2>1, <2>4, <3>1, <3>3, <3>4 DEF CInv, Exact
      <3>5. \A d \in Caller : call'[d].step = "fill" => call[d].step = "fill"
        BY <2>2
      <3> QED  BY <2>1, <2>4, <3>1, <3>2, <3>4, <3>5 DEF CInv, Exact, Matches, EntryOf
    <2> QED  BY <2>3, <2>4
  <1> QED  BY <1>2, <1>3

LEMMA OtherExact ==
  ASSUME CInv, NEW c \in Caller, Begin(c) \/ Truncate(c) \/ Fill(c) \/ Crash(c)
  PROVE  Timely' /\ (~lost' => Exact')
  <1>1. CASE Begin(c)
    <2>1. /\ call'[c].step = "load" /\ call'[c].at = now
          /\ UNCHANGED <<now, file, torn, written, owed, lost>> /\ call[c].step = "idle"
          /\ \A d \in Caller : d # c => call'[d] = call[d]
      BY <1>1 DEF Begin, CInv, IInv, TypeOK, Idle
    <2>2. Timely'
      BY <2>1 DEF CInv, IInv, TypeOK, Timely
    <2>3. ASSUME ~lost' PROVE Exact'
      <3>1. \A d \in Caller : Holding(d)' => Holding(d) /\ call'[d] = call[d]
        BY <2>1 DEF Holding
      <3>2. \A d \in Caller : call[d].step = "fill" => call'[d] = call[d]
        BY <2>1
      <3>3. \A d \in Caller : Holding(d)' => OwedBy(d)' = OwedBy(d)
        BY <2>1, <3>1 DEF OwedBy, OwedAfter
      <3>4. ASSUME NEW d \in Caller, Holding(d)'
            PROVE  Matches(call'[d].state, OwedBy(d)', now')
        BY <2>1, <2>3, <3>1, <3>3, <3>4 DEF CInv, Exact
      <3> QED  BY <2>1, <2>3, <3>1, <3>2, <3>4 DEF CInv, Exact, Matches, EntryOf
    <2> QED  BY <2>2, <2>3
  <1>2. CASE Truncate(c)
    <2>1. PICK order \in Order, s \in State, mine \in SUBSET Failure :
            call[c] = [step |-> "truncate", order |-> order, state |-> s, mine |-> mine]
      BY <1>2 DEF Truncate, CInv, IInv, TypeOK, Calls, Idle
    <2>2. /\ call'[c].step = "fill" /\ call'[c].state = call[c].state
          /\ call'[c].order = call[c].order /\ call'[c].mine = call[c].mine
          /\ UNCHANGED <<now, file, owed, lost>> /\ written' = FALSE
          /\ \A d \in Caller : d # c => call'[d] = call[d]
      BY <1>2, <2>1 DEF Truncate, CInv, IInv, TypeOK
    <2>3. Timely'
      BY <2>2 DEF CInv, Timely
    <2>4. ASSUME ~lost' PROVE Exact'
      <3>1. \A d \in Caller : Holding(d)' <=> Holding(d)
        BY <2>1, <2>2 DEF Holding
      <3>2. \A d \in Caller : OwedBy(d)' = OwedBy(d) /\ call'[d].state = call[d].state
        BY <2>2 DEF OwedBy, OwedAfter
      <3>3. ASSUME NEW d \in Caller, Holding(d)'
            PROVE  Matches(call'[d].state, OwedBy(d)', now')
        BY <2>2, <2>4, <3>1, <3>2, <3>3 DEF CInv, Exact
      <3> QED  BY <2>2, <2>4, <3>1, <3>3 DEF CInv, Exact, Matches, EntryOf
    <2> QED  BY <2>3, <2>4
  <1>3. CASE Fill(c)
    <2>1. /\ Holding(c) /\ call'[c].step = "idle" /\ file' = call[c].state
          /\ call[c].step = "fill" /\ (~written => torn' = FALSE)
          /\ owed' = OwedBy(c) /\ UNCHANGED <<now, lost>>
          /\ \A d \in Caller : d # c => call'[d] = call[d]
      BY <1>3 DEF Fill, Holding, OwedBy, CInv, IInv, TypeOK, Idle
    <2>2. Timely'
      BY <2>1 DEF CInv, Timely
    <2>3. ASSUME ~lost' PROVE Exact'
      <3>1. \A d \in Caller : ~Holding(d)'
        BY <2>1, <2>3 DEF CInv, Exact, Holding
      <3>2. Matches(file', owed', now')
        BY <2>1, <2>3 DEF CInv, Exact
      <3>3. ~torn'
        BY <2>1, <2>3 DEF CInv, Exact
      <3> QED  BY <2>1, <3>1, <3>2, <3>3 DEF Exact, Matches, EntryOf, Holding
    <2> QED  BY <2>2, <2>3
  <1>4. CASE Crash(c)
    <2>1. /\ call'[c].step = "idle" /\ UNCHANGED <<now, file, torn, written, owed>>
          /\ lost' = (lost \/ call[c].step = "fill")
          /\ \A d \in Caller : d # c => call'[d] = call[d]
      BY <1>4 DEF Crash, CInv, IInv, TypeOK, Idle
    <2>2. Timely'
      BY <2>1 DEF CInv, Timely
    <2>3. ASSUME ~lost' PROVE Exact'
      <3>1. \A d \in Caller : Holding(d)' => Holding(d) /\ call'[d] = call[d]
        BY <2>1 DEF Holding
      <3>2. \A d \in Caller : call[d].step = "fill" => call'[d] = call[d]
        BY <2>1, <2>3
      <3>3. \A d \in Caller : Holding(d)' => OwedBy(d)' = OwedBy(d)
        BY <2>1, <3>1 DEF OwedBy, OwedAfter
      <3>4. ASSUME NEW d \in Caller, Holding(d)'
            PROVE  Matches(call'[d].state, OwedBy(d)', now')
        BY <2>1, <2>3, <3>1, <3>3, <3>4 DEF CInv, Exact
      <3> QED  BY <2>1, <2>3, <3>1, <3>2, <3>4 DEF CInv, Exact, Matches, EntryOf
    <2> QED  BY <2>2, <2>3
  <1> QED  BY <1>1, <1>2, <1>3, <1>4

LEMMA TickExact ==
  ASSUME CInv, Tick
  PROVE  Timely' /\ (~lost' => Exact')
  <1>1. /\ now \in Nat /\ now' = now + 1 /\ now' \in Nat /\ now <= now'
        /\ UNCHANGED <<file, torn, written, call, owed, lost>>
    BY DEF Tick, CInv, IInv, TypeOK
  <1>2. Timely'
    <2>1. ASSUME NEW c \in Caller, call[c].step = "load" PROVE call[c].at <= now'
      BY <1>1, <2>1, LoadTime
    <2> QED  BY <1>1, <2>1 DEF Timely
  <1>3. ASSUME ~lost' PROVE Exact'
    <2>1. Matches(file, owed, now')
      BY <1>1, <1>3, MatchesLater DEF CInv, Exact, IInv, TypeOK
    <2>2. ASSUME NEW c \in Caller, Holding(c)
          PROVE  Matches(call[c].state, OwedBy(c), now')
      <3>1. /\ call[c].state \in State /\ call[c].mine \in SUBSET Failure
            /\ call[c].order \in Order
        BY <2>2 DEF CInv, IInv, TypeOK, Calls, Idle, Holding
      <3>2. OwedBy(c) \in [Issue -> SUBSET Failure]
        BY <3>1 DEF OwedBy, OwedAfter, CInv, IInv, TypeOK
      <3>3. Matches(call[c].state, OwedBy(c), now)
        BY <1>1, <1>3, <2>2 DEF CInv, Exact
      <3> QED  BY <1>1, <3>1, <3>2, <3>3, MatchesLater
    <2>3. \A c \in Caller : OwedBy(c)' = OwedBy(c) /\ (Holding(c)' <=> Holding(c))
      BY <1>1 DEF OwedBy, OwedAfter, Holding
    <2>4. ASSUME NEW c \in Caller, Holding(c)'
          PROVE  Matches(call'[c].state, OwedBy(c)', now')
      BY <1>1, <2>2, <2>3, <2>4
    <2> QED  BY <1>1, <1>3, <2>1, <2>3, <2>4 DEF CInv, Exact, Matches, EntryOf
  <1> QED  BY <1>2, <1>3

LEMMA StillExact ==
  ASSUME CInv, UNCHANGED vars
  PROVE  Timely' /\ (~lost' => Exact')
  <1>1. Timely'
    BY DEF vars, CInv, Timely
  <1>2. \A c \in Caller : OwedBy(c)' = OwedBy(c) /\ (Holding(c)' <=> Holding(c))
    BY DEF vars, OwedBy, OwedAfter, Holding
  <1>3. ASSUME ~lost' PROVE Exact'
    <2>1. ASSUME NEW c \in Caller, Holding(c)'
          PROVE  Matches(call'[c].state, OwedBy(c)', now')
      BY <1>2, <1>3, <2>1 DEF vars, CInv, Exact
    <2> QED  BY <1>2, <1>3, <2>1 DEF vars, CInv, Exact, Matches, EntryOf
  <1> QED  BY <1>1, <1>3

(***************************************************************************)
(* The tracker is exact where calls do not overlap and none dies in its    *)
(* write: what is on file and recent is what was reported since the issue  *)
(* was last reset, for any number of issues, callers, failures and any     *)
(* window.                                                                 *)
(***************************************************************************)
THEOREM EscalationExactWhenAlone == Spec => []ExactWhenAlone
  <1>1. Init => CInv
    <2>1. Init => Timely /\ Exact
      <3> SUFFICES ASSUME Init PROVE Timely /\ Exact
        OBVIOUS
      <3>1. \A c \in Caller : call[c].step = "idle"
        BY DEF Init, Idle
      <3>2. Matches(file, owed, now)
        BY DEF Init, Matches, EntryOf, Blank, Recent
      <3>3. ~torn
        BY DEF Init
      <3> QED  BY <3>1, <3>2, <3>3 DEF Timely, Exact, Holding
    <2> QED  BY <2>1, InitInv DEF CInv
  <1>2. CInv /\ [Next]_vars => CInv'
    <2> SUFFICES ASSUME CInv, [Next]_vars PROVE CInv'
      OBVIOUS
    <2>1. IInv'
      BY StepInv DEF CInv
    <2>2. Timely' /\ (~lost' => Exact')
      BY RecordExact, ResetExact, SetLevelExact, PruneExact, OtherExact, TickExact, StillExact
        DEF Next, Step
    <2> QED  BY <2>1, <2>2 DEF CInv
  <1>3. CInv => ExactWhenAlone
    BY DEF CInv, Exact, Matches, ExactWhenAlone
  <1> QED  BY <1>1, <1>2, <1>3, PTL DEF Spec
=============================================================================
