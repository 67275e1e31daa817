----------------------------- MODULE Escalation -----------------------------
(***************************************************************************)
(* The failure-escalation tracker: track-failure-escalation.js.  Each call *)
(* is a process of its own that takes the time, loads the state file,      *)
(* changes the copy and writes the whole file back.  A file that cannot be *)
(* parsed counts as empty.                                                 *)
(*                                                                         *)
(* A failure is [id, at]; an entry of the file holds the failures of one   *)
(* issue and the level they amount to.  failureCount is always the number  *)
(* of them, and the last-failure fields repeat the youngest one.           *)
(***************************************************************************)
EXTENDS Integers, FiniteSets

CONSTANTS
  Issue,
  Caller,      \* calls that may be under way at once
  Window,      \* the 24 hours, in ticks
  MaxTime,     \* bound on the clock
  MaxReports,  \* bound on the failures reported
  HandLevels,  \* the levels an operator may set: L0 to L3, or fewer
  NoEntry      \* an issue the file does not mention

VARIABLES
  now,
  file,        \* what each issue's key holds; a missing file holds nothing
  torn,        \* the file cannot be parsed: cut short, or with a longer one's tail
  written,     \* the file a call is about to fill is not empty any more
  call,        \* Caller -> where its call stands
  reports,     \* how many failures were ever reported
  reported,    \* Issue -> every failure that was ever reported
  owed,        \* Issue -> those whose call finished since the last reset
  byHand,      \* the <<issue, level>> above L0 an operator has set
  lost         \* some call overlapped another, or died in its write

vars == <<now, file, torn, written, call, reports, reported, owed, byHand, lost>>

-----------------------------------------------------------------------------
Levels == {"L0", "L1", "L2", "L3"}

ASSUME WindowAssumption == Window \in Nat
ASSUME HandLevelsAssumption == HandLevels \subseteq Levels

\* Mutant: the threshold's label instead of its level.
getEscalationLabel(n) ==
  IF n >= 5 THEN "halted" ELSE IF n >= 3 THEN "reduced-autonomy"
  ELSE IF n >= 2 THEN "rescoped" ELSE "L0"

getEscalationLevel(n) ==
  IF n >= 5 THEN "L3" ELSE IF n >= 3 THEN "L2" ELSE IF n >= 2 THEN "L1" ELSE "L0"

Failure == [id : Nat, at : Nat]
Entry == [history : SUBSET Failure, level : Levels]
ASSUME NoEntryAssumption == NoEntry \notin Entry
State == [Issue -> Entry \cup {NoEntry}]

\* Where a key is made for an issue the state did not mention.
Blank == [history |-> {}, level |-> "L0"]
EntryOf(s, i) == IF s[i] = NoEntry THEN Blank ELSE s[i]

Recent(history, t) == {f \in history : f.at >= t - Window}

\* Mutant: the level is worked out before old failures are dropped.
pruneLevelFirst(entry, t) ==
  [history |-> Recent(entry.history, t),
   level |-> getEscalationLevel(Cardinality(entry.history))]

pruneOldFailures(entry, t) ==
  LET kept == Recent(entry.history, t)
  IN [history |-> kept, level |-> getEscalationLevel(Cardinality(kept))]

pruneAllEntries(s, t) ==
  [i \in Issue |->
     IF s[i] = NoEntry \/ Recent(s[i].history, t) = {} THEN NoEntry
     ELSE pruneOldFailures(s[i], t)]

\* Mutant: the issue's entry is made anew by every failure.
recordAnew(s, i, f, t) ==
  [s EXCEPT ![i] = pruneOldFailures([Blank EXCEPT !.history = {f}], t)]

recordFailure(s, i, f, t) ==
  LET entry == EntryOf(s, i)
  IN [s EXCEPT ![i] = pruneOldFailures([entry EXCEPT !.history = @ \cup {f}], t)]

\* Setting L0 also clears the history; any other level leaves it.
setLevel(s, i, l) ==
  [s EXCEPT ![i] =
     IF l = "L0" THEN Blank ELSE [EntryOf(s, i) EXCEPT !.level = l]]

reset(s, i) == [s EXCEPT ![i] = NoEntry]

-----------------------------------------------------------------------------
\* What --record, --reset, --set-level and --prune are asked for.
Order ==
  [op : {"record", "reset"}, issue : Issue]
    \cup [op : {"set-level"}, issue : Issue, level : HandLevels]
    \cup [op : {"prune"}]

Idle == [step |-> "idle"]
Calls ==
  {Idle}
    \cup [step : {"load"}, at : Nat]
    \cup [step : {"truncate", "fill"}, order : Order, state : State,
          mine : SUBSET Failure]

\* A caller that has loaded the file and not yet finished writing it.
Holding(c) == call[c].step \in {"truncate", "fill"}

loadState == IF torn THEN [i \in Issue |-> NoEntry] ELSE file

\* A call takes the time before it loads the file.
Begin(c) ==
  /\ call[c] = Idle
  /\ call' = [call EXCEPT ![c] = [step |-> "load", at |-> now]]
  /\ UNCHANGED <<now, file, torn, written, reports, reported, owed, byHand, lost>>

\* The rest of a call up to its write, of a loaded file.
Hold(c, order, s, mine) ==
  /\ call' = [call EXCEPT ![c] = [step |-> "truncate", order |-> order,
                                  state |-> s, mine |-> mine]]
  /\ lost' = (lost \/ \E d \in Caller \ {c} : Holding(d))
  /\ UNCHANGED <<now, file, torn, written, owed>>

Record(c, order) ==
  /\ call[c].step = "load" /\ order.op = "record"
  /\ reports < MaxReports
  /\ LET i == order.issue
         f == [id |-> reports, at |-> call[c].at]
     IN /\ reports' = reports + 1
        /\ reported' = [reported EXCEPT ![i] = @ \cup {f}]
        /\ Hold(c, order, recordFailure(loadState, i, f, call[c].at), {f})
  /\ UNCHANGED byHand

\* A reset of an issue that has no entry writes nothing.
Reset(c, order) ==
  /\ call[c].step = "load" /\ order.op = "reset"
  /\ IF loadState[order.issue] # NoEntry
     THEN Hold(c, order, reset(loadState, order.issue), {})
     ELSE /\ call' = [call EXCEPT ![c] = Idle]
          /\ UNCHANGED <<now, file, torn, written, owed, lost>>
  /\ UNCHANGED <<reports, reported, byHand>>

SetLevel(c, order) ==
  /\ call[c].step = "load" /\ order.op = "set-level"
  /\ byHand' = IF order.level = "L0" THEN byHand
                ELSE byHand \cup {<<order.issue, order.level>>}
  /\ Hold(c, order, setLevel(loadState, order.issue, order.level), {})
  /\ UNCHANGED <<reports, reported>>

Prune(c, order) ==
  /\ call[c].step = "load" /\ order.op = "prune"
  /\ Hold(c, order, pruneAllEntries(loadState, call[c].at), {})
  /\ UNCHANGED <<reports, reported, byHand>>

\* writeFileSync opens the file empty, then fills it.
Truncate(c) ==
  /\ call[c].step = "truncate"
  /\ torn' = TRUE /\ written' = FALSE
  /\ call' = [call EXCEPT ![c].step = "fill"]
  /\ UNCHANGED <<now, file, reports, reported, owed, byHand, lost>>

\* What a finished call leaves owed of issue i.
OwedAfter(i, order, mine) ==
  CASE order.op = "record" /\ order.issue = i -> owed[i] \cup mine
    [] order.op = "reset" /\ order.issue = i -> {}
    [] order.op = "set-level" /\ order.issue = i /\ order.level = "L0" -> {}
    [] OTHER -> owed[i]

\* Where another call has filled the file meanwhile, its end may stick out.
Fill(c) ==
  /\ call[c].step = "fill"
  /\ file' = call[c].state
  /\ torn' \in IF written THEN BOOLEAN ELSE {FALSE}
  /\ written' = (\E d \in Caller \ {c} : call[d].step = "fill")
  /\ owed' = [i \in Issue |-> OwedAfter(i, call[c].order, call[c].mine)]
  /\ call' = [call EXCEPT ![c] = Idle]
  /\ UNCHANGED <<now, reports, reported, byHand, lost>>

\* The process is killed; in the middle of its write it leaves a torn file.
Crash(c) ==
  /\ call[c] # Idle
  /\ call' = [call EXCEPT ![c] = Idle]
  /\ lost' = (lost \/ call[c].step = "fill")
  /\ UNCHANGED <<now, file, torn, written, reports, reported, owed, byHand>>

Tick ==
  /\ now < MaxTime
  /\ now' = now + 1
  /\ UNCHANGED <<file, torn, written, call, reports, reported, owed, byHand, lost>>

Init ==
  /\ now = 0
  /\ file = [i \in Issue |-> NoEntry]
  /\ torn = FALSE /\ written = FALSE
  /\ call = [c \in Caller |-> Idle]
  /\ reports = 0
  /\ reported = [i \in Issue |-> {}]
  /\ owed = [i \in Issue |-> {}]
  /\ byHand = {}
  /\ lost = FALSE

Step(c) ==
  \/ \E order \in Order :
       Record(c, order) \/ Reset(c, order) \/ SetLevel(c, order) \/ Prune(c, order)
  \/ Begin(c) \/ Truncate(c) \/ Fill(c) \/ Crash(c)

Next == Tick \/ \E c \in Caller : Step(c)

Spec == Init /\ [][Next]_vars

-----------------------------------------------------------------------------
TypeOK ==
  /\ now \in Nat
  /\ file \in State
  /\ torn \in BOOLEAN /\ written \in BOOLEAN
  /\ call \in [Caller -> Calls]
  /\ reports \in Nat
  /\ reported \in [Issue -> SUBSET Failure]
  /\ owed \in [Issue -> SUBSET Failure]
  /\ byHand \subseteq Issue \X Levels
  /\ lost \in BOOLEAN

\* Every entry of s is accounted for by the failures in rep or set by hand.
Justified(s, rep, hand) ==
  \A i \in Issue : s[i] # NoEntry =>
    /\ s[i].history \subseteq rep[i]
    /\ \/ s[i].level = getEscalationLevel(Cardinality(s[i].history))
       \/ <<i, s[i].level>> \in hand

(***************************************************************************)
(* No false alarm, however calls overlap, die or find the file torn: the   *)
(* level on file of an issue is what failures reported of that very issue  *)
(* amount to, or one an operator has set.                                  *)
(***************************************************************************)
NoFalseAlarm == ~torn => Justified(file, reported, byHand)

(***************************************************************************)
(* Nothing gets lost but by an overlap or a death in mid-write: between    *)
(* writes the failures on file that are inside the window are exactly      *)
(* those reported since the issue was last reset or set back to L0.        *)
(***************************************************************************)
ExactWhenAlone ==
  ~lost /\ ~torn =>
    \A i \in Issue :
      Recent(EntryOf(file, i).history, now) = Recent(owed[i], now)
=============================================================================
