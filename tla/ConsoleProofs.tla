--------------------------- MODULE ConsoleProofs ---------------------------
(***************************************************************************)
(* The web console, for any payloads, any files and any number of calls,   *)
(* previews and deaths of the server.                                      *)
(***************************************************************************)
EXTENDS Console, FiniteSetTheorems, WellFoundedInduction, TLAPS

-----------------------------------------------------------------------------
(***************************************************************************)
(* The loops the actions run.  Induction over the numbers is a fact about  *)
(* sets of numbers here: a nonempty one has a least.                       *)
(***************************************************************************)
LEMMA NatLeast ==
  ASSUME NEW T \in SUBSET Nat, T # {}
  PROVE  \E x \in T : \A y \in T : x <= y
<1> DEFINE R == OpToRel(<, Nat)
<1>1. IsWellFoundedOn(R, Nat)
  BY NatLessThanWellFounded
<1>2. \A x, y \in Nat : <<y, x>> \in R <=> y < x
  BY DEF OpToRel
<1> HIDE DEF R
<1>3. PICK x \in T : \A y \in T : ~ (<<y, x>> \in R)
  BY <1>1, WFMin
<1>4. \A y \in T : ~ (y < x)
  BY <1>2, <1>3
<1> QED BY <1>4

LEMMA NatInd ==
  ASSUME NEW S \in SUBSET Nat, 0 \in S, \A n \in S : n + 1 \in S
  PROVE  S = Nat
<1> SUFFICES ASSUME S # Nat PROVE FALSE
  OBVIOUS
<1>1. PICK x \in Nat \ S : \A y \in Nat \ S : x <= y
  BY NatLeast
<1>2. x - 1 \in Nat /\ x - 1 \notin Nat \ S
  BY <1>1
<1>3. (x - 1) + 1 \in S
  BY <1>2
<1> QED BY <1>1, <1>3

(* The recursion of Kept, as a relation.                                   *)
Keeps(f, s, keep) ==
  /\ f[0] = << >>
  /\ \A n \in 1 .. Len(s) : f[n] = IF n \in keep THEN Append(f[n - 1], s[n]) ELSE f[n - 1]

LEMMA KeptUnfold ==
  ASSUME NEW S, NEW s \in Seq(S), NEW keep
  PROVE  \E f : Keeps(f, s, keep) /\ Kept(s, keep) = f[Len(s)]
<1> DEFINE Of(f, n) == IF n = 0 THEN << >>
                       ELSE IF n \in keep THEN Append(f[n - 1], s[n]) ELSE f[n - 1]
           UpTo(f, m) == f = [n \in 0 .. m |-> Of(f, n)]
           U == {m \in Nat : \E f : UpTo(f, m)}
<1>1. 0 \in U
  <2>1. UpTo([n \in 0 .. 0 |-> << >>], 0)
    OBVIOUS
  <2> QED BY <2>1
<1>2. ASSUME NEW m \in U PROVE m + 1 \in U
  <2>1. PICK f : UpTo(f, m)
    BY <1>2
  <2> DEFINE g == [n \in 0 .. m + 1 |-> IF n = m + 1 THEN Of(f, n) ELSE f[n]]
             h == [n \in 0 .. m + 1 |-> Of(g, n)]
  <2>2. ASSUME NEW n \in 0 .. m + 1 PROVE g[n] = h[n]
    <3>0. m \in Nat
      OBVIOUS
    <3>1. g[n] = Of(f, n)
      <4>1. CASE n = m + 1
        BY <4>1
      <4>2. CASE n \in 0 .. m
        <5>1. f[n] = Of(f, n)
          BY <2>1, <4>2
        <5> QED BY <3>0, <4>2, <5>1
      <4> QED BY <3>0, <4>1, <4>2
    <3>2. n # 0 => g[n - 1] = f[n - 1]
      BY <3>0
    <3>3. h[n] = Of(g, n)
      OBVIOUS
    <3> QED BY <3>1, <3>2, <3>3
  <2>3. g = h
    BY <2>2
  <2>4. UpTo(g, m + 1)
    BY <2>3
  <2> HIDE DEF UpTo
  <2> QED BY <2>4
<1>3. U = Nat
  <2> HIDE DEF U
  <2>1. U \in SUBSET Nat
    BY DEF U
  <2> QED BY <1>1, <1>2, <2>1, NatInd
<1>4. PICK g : UpTo(g, Len(s))
  <2>1. Len(s) \in U
    BY <1>3
  <2> QED BY <2>1
<1> DEFINE f == CHOOSE h : UpTo(h, Len(s))
<1>5. Kept(s, keep) = f[Len(s)]
  BY DEF Kept
<1>6. UpTo(f, Len(s))
  <2> HIDE DEF UpTo
  <2> QED BY <1>4
<1> HIDE DEF f
<1>7. Keeps(f, s, keep)
  <2>1. f[0] = << >>
    BY <1>6
  <2>2. ASSUME NEW n \in 1 .. Len(s)
        PROVE  f[n] = IF n \in keep THEN Append(f[n - 1], s[n]) ELSE f[n - 1]
    <3>1. n \in 0 .. Len(s) /\ n # 0
      OBVIOUS
    <3>2. f[n] = Of(f, n)
      BY <1>6, <3>1
    <3> QED BY <3>1, <3>2
  <2> QED BY <2>1, <2>2 DEF Keeps
<1> QED BY <1>5, <1>7

(* What is kept is a list, of elements of the list.                        *)
LEMMA KeptList ==
  ASSUME NEW S, NEW s \in Seq(S), NEW keep
  PROVE  Kept(s, keep) \in Seq(S)
<1>1. PICK f : Keeps(f, s, keep) /\ Kept(s, keep) = f[Len(s)]
  BY KeptUnfold
<1> DEFINE U == {n \in Nat : n <= Len(s) => f[n] \in Seq(S)}
<1>2. 0 \in U
  <2>1. f[0] = << >> /\ << >> \in Seq(S)
    BY <1>1 DEF Keeps
  <2>2. f[0] \in Seq(S)
    BY <2>1
  <2> QED BY <2>2
<1>3. ASSUME NEW n \in U PROVE n + 1 \in U
  <2> SUFFICES ASSUME n + 1 <= Len(s) PROVE f[n + 1] \in Seq(S)
    OBVIOUS
  <2>1. n + 1 \in 1 .. Len(s) /\ (n + 1) - 1 = n /\ s[n + 1] \in S /\ f[n] \in Seq(S)
    OBVIOUS
  <2>2. f[n + 1] = IF n + 1 \in keep THEN Append(f[n], s[n + 1]) ELSE f[n]
    BY <1>1, <2>1 DEF Keeps
  <2> QED BY <2>1, <2>2
<1>4. U = Nat
  <2> HIDE DEF U
  <2>1. U \in SUBSET Nat
    BY DEF U
  <2> QED BY <1>2, <1>3, <2>1, NatInd
<1> QED BY <1>1, <1>4

(* A loop that keeps every element leaves the list, one that keeps none    *)
(* the empty one.                                                          *)
LEMMA KeptAll ==
  ASSUME NEW S, NEW s \in Seq(S), NEW keep, DOMAIN s \subseteq keep
  PROVE  Kept(s, keep) = s
<1>1. PICK f : Keeps(f, s, keep) /\ Kept(s, keep) = f[Len(s)]
  BY KeptUnfold
<1> DEFINE U == {n \in Nat : n <= Len(s) =>
                   f[n] \in Seq(S) /\ Len(f[n]) = n /\ \A i \in 1 .. n : f[n][i] = s[i]}
<1>2. 0 \in U
  <2>1. f[0] = << >> /\ << >> \in Seq(S) /\ Len(<< >>) = 0
    BY <1>1 DEF Keeps
  <2>2. f[0] \in Seq(S) /\ Len(f[0]) = 0
    BY <2>1
  <2>3. \A i \in 1 .. 0 : f[0][i] = s[i]
    OBVIOUS
  <2> QED BY <2>2, <2>3
<1>3. ASSUME NEW n \in U PROVE n + 1 \in U
  <2> SUFFICES ASSUME n + 1 <= Len(s)
               PROVE  /\ f[n + 1] \in Seq(S) /\ Len(f[n + 1]) = n + 1
                      /\ \A i \in 1 .. n + 1 : f[n + 1][i] = s[i]
    OBVIOUS
  <2>1. n + 1 \in 1 .. Len(s) /\ (n + 1) - 1 = n /\ s[n + 1] \in S /\ n + 1 \in keep
    OBVIOUS
  <2>2. f[n] \in Seq(S) /\ Len(f[n]) = n /\ \A i \in 1 .. n : f[n][i] = s[i]
    OBVIOUS
  <2>3. f[n + 1] = Append(f[n], s[n + 1])
    BY <1>1, <2>1 DEF Keeps
  <2> QED BY <2>1, <2>2, <2>3
<1>4. U = Nat
  <2> HIDE DEF U
  <2>1. U \in SUBSET Nat
    BY DEF U
  <2> QED BY <1>2, <1>3, <2>1, NatInd
<1>5. f[Len(s)] \in Seq(S) /\ Len(f[Len(s)]) = Len(s) /\ \A i \in 1 .. Len(s) : f[Len(s)][i] = s[i]
  BY <1>4
<1> QED BY <1>1, <1>5

LEMMA KeptNone ==
  ASSUME NEW S, NEW s \in Seq(S), NEW keep, keep = {}
  PROVE  Kept(s, keep) = << >>
<1>1. PICK f : Keeps(f, s, keep) /\ Kept(s, keep) = f[Len(s)]
  BY KeptUnfold
<1> DEFINE U == {n \in Nat : n <= Len(s) => f[n] = << >>}
<1>2. 0 \in U
  BY <1>1 DEF Keeps
<1>3. ASSUME NEW n \in U PROVE n + 1 \in U
  <2> SUFFICES ASSUME n + 1 <= Len(s) PROVE f[n + 1] = << >>
    OBVIOUS
  <2>1. n + 1 \in 1 .. Len(s) /\ (n + 1) - 1 = n /\ f[n] = << >>
    OBVIOUS
  <2> QED BY <1>1, <2>1 DEF Keeps
<1>4. U = Nat
  <2> HIDE DEF U
  <2>1. U \in SUBSET Nat
    BY DEF U
  <2> QED BY <1>2, <1>3, <2>1, NatInd
<1> QED BY <1>1, <1>4

(* Nothing kept, nothing found.                                            *)
LEMMA KeptSome ==
  ASSUME NEW S, NEW s \in Seq(S), NEW keep, NEW k \in DOMAIN s, k \in keep
  PROVE  Kept(s, keep) # << >>
<1>1. PICK f : Keeps(f, s, keep) /\ Kept(s, keep) = f[Len(s)]
  BY KeptUnfold
<1> DEFINE U == {n \in Nat : n <= Len(s) => f[n] \in Seq(S) /\ (n >= k => Len(f[n]) > 0)}
<1>2. 0 \in U
  <2>1. f[0] = << >> /\ << >> \in Seq(S)
    BY <1>1 DEF Keeps
  <2>2. f[0] \in Seq(S) /\ ~(0 >= k)
    BY <2>1
  <2> QED BY <2>2
<1>3. ASSUME NEW n \in U PROVE n + 1 \in U
  <2> SUFFICES ASSUME n + 1 <= Len(s)
               PROVE  f[n + 1] \in Seq(S) /\ (n + 1 >= k => Len(f[n + 1]) > 0)
    OBVIOUS
  <2>1. n + 1 \in 1 .. Len(s) /\ (n + 1) - 1 = n /\ s[n + 1] \in S /\ n \in Nat /\ k \in Nat
    OBVIOUS
  <2>2. f[n] \in Seq(S) /\ (n >= k => Len(f[n]) > 0) /\ Len(f[n]) \in Nat
    OBVIOUS
  <2>3. f[n + 1] = IF n + 1 \in keep THEN Append(f[n], s[n + 1]) ELSE f[n]
    BY <1>1, <2>1 DEF Keeps
  <2>4. CASE n + 1 \in keep
    BY <2>1, <2>2, <2>3, <2>4
  <2>5. CASE n + 1 \notin keep
    <3>1. n + 1 >= k => n >= k
      BY <2>1, <2>5
    <3> QED BY <2>2, <2>3, <2>5, <3>1
  <2> QED BY <2>4, <2>5
<1>4. U = Nat
  <2> HIDE DEF U
  <2>1. U \in SUBSET Nat
    BY DEF U
  <2> QED BY <1>2, <1>3, <2>1, NatInd
<1>5. Len(f[Len(s)]) > 0
  BY <1>4
<1> QED BY <1>1, <1>5

-----------------------------------------------------------------------------
(***************************************************************************)
(* The inductive invariant.  Noted: what was on the screen is what was     *)
(* sent, and what was done is what the sent payload asks for.  Turned: the *)
(* executions have turns, and the one in hand has the last.  Booked: the   *)
(* log, and the copy the server rewrites it from, tell of executions whose *)
(* entry was made before, in order and as they went; and while there is a  *)
(* copy, the log is torn.  Unbroken: until the server first dies, an       *)
(* execution is on its way to the log or in it.                            *)
(***************************************************************************)
Stage == {"sent", "handled", "logged", "answered", "failed"}
Sent == [payload : Form \cup Direct, confirm : BOOLEAN, at : Stage]

Preview == [payload : Payloads, answer : {"none", "shown", "failed"}]

PageTyped ==
  /\ previews \subseteq Preview
  /\ panel \in Payloads \cup {Nothing}
  /\ confirm => panel # Nothing

CallsTyped ==
  /\ calls \in Seq(Sent) /\ typed \in Seq(Form \cup {Nothing}) /\ Len(typed) = Len(calls)
  /\ files \in State /\ crashes \in Nat

Noted ==
  /\ \A k \in DOMAIN calls : typed[k] # Nothing => typed[k] = calls[k].payload
  /\ \A k \in DOMAIN done :
       /\ k \in DOMAIN calls /\ calls[k].at # "sent"
       /\ done[k].payload = calls[k].payload /\ done[k].files \in State
       /\ done[k].result \in execute(done[k].payload, done[k].files)
  /\ handling # Nothing =>
       /\ handling \in InHand /\ handling.call \in DOMAIN done
       /\ calls[handling.call].at \in {"handled", "logged"}
       /\ handling.read = Nothing => calls[handling.call].at = "handled"

Turned ==
  /\ IsFiniteSet(DOMAIN done)
  /\ \A k \in DOMAIN done : done[k].turn \in 1 .. Cardinality(DOMAIN done)
  /\ handling # Nothing =>
       \A k \in DOMAIN done \ {handling.call} : done[k].turn < done[handling.call].turn

Logged(s) == {s[i].call : i \in DOMAIN s}

\* s is a true log of the executions did, as far as the calls made got.
Faithful(s, did, made) ==
  /\ s \in Seq(LogEntry)
  /\ \A i, j \in DOMAIN s : i < j => did[s[i].call].turn < did[s[j].call].turn
  /\ \A i \in DOMAIN s :
       /\ s[i].call \in DOMAIN did /\ made[s[i].call].at # "handled"
       /\ (s[i].status = "error") = (did[s[i].call].result.status = "thrown")

Copied == handling # Nothing /\ handling.read # Nothing /\ calls[handling.call].at = "handled"

Booked ==
  /\ log # Torn => Faithful(log, done, calls)
  /\ Copied => log = Torn /\ Faithful(handling.read, done, calls)

Current == IF log = Torn THEN handling.read ELSE log

Unbroken ==
  crashes = 0 =>
    /\ log = Torn => Copied
    /\ \A k \in DOMAIN done : calls[k].at = "handled" \/ k \in Logged(Current)

ServerInv == CallsTyped /\ Noted /\ Turned /\ Booked /\ Unbroken

ConsoleInv == PageTyped /\ ServerInv

(* A log stays true while calls are answered and executions are added.     *)
LEMMA FaithfulStays ==
  ASSUME NEW s, NEW did, NEW made, Faithful(s, did, made), NEW did2, NEW made2,
         \A k \in DOMAIN did : k \in DOMAIN did2 /\ did2[k] = did[k],
         \A k \in DOMAIN did : made[k].at # "handled" => made2[k].at # "handled"
  PROVE  Faithful(s, did2, made2)
BY DEF Faithful

LEMMA EmptyFaithful ==
  ASSUME NEW did, NEW made
  PROVE  Faithful(<< >>, did, made)
<1>1. << >> \in Seq(LogEntry) /\ DOMAIN << >> = {}
  OBVIOUS
<1> QED BY <1>1 DEF Faithful

(* A call that gets on stays the call it was.                              *)
LEMMA GetsOn ==
  ASSUME calls \in Seq(Sent), NEW k \in DOMAIN calls, NEW at \in Stage,
         calls' = [calls EXCEPT ![k].at = at]
  PROVE  /\ calls' \in Seq(Sent) /\ DOMAIN calls' = DOMAIN calls /\ Len(calls') = Len(calls)
         /\ \A j \in DOMAIN calls : calls'[j].payload = calls[j].payload
         /\ \A j \in DOMAIN calls : j # k => calls'[j] = calls[j]
         /\ calls'[k].at = at
<1> DEFINE c == [calls[k] EXCEPT !.at = at]
<1>1. c \in Sent /\ c.payload = calls[k].payload /\ c.at = at
  <2>1. calls[k] \in Sent
    OBVIOUS
  <2> QED BY <2>1 DEF Sent
<1>2. calls' = [calls EXCEPT ![k] = c]
  OBVIOUS
<1> HIDE DEF c
<1>3. calls' \in Seq(Sent) /\ DOMAIN calls' = DOMAIN calls /\ Len(calls') = Len(calls)
  BY <1>1, <1>2
<1>4. calls'[k] = c /\ \A j \in DOMAIN calls : j # k => calls'[j] = calls[j]
  BY <1>2
<1> QED BY <1>1, <1>3, <1>4

-----------------------------------------------------------------------------
LEMMA InitInv == Init => ConsoleInv
<1> SUFFICES ASSUME Init PROVE ConsoleInv
  OBVIOUS
<1>1. PageTyped
  BY DEF Init, PageTyped
<1>2. CallsTyped
  BY DEF Init, CallsTyped
<1>3. Noted
  BY DEF Init, Noted
<1>4. << >> \in Seq(LogEntry) /\ DOMAIN << >> = {} /\ Len(<< >>) = 0
  OBVIOUS
<1>5. Booked
  <2>1. log = << >> /\ handling = Nothing
    BY DEF Init
  <2> QED BY <2>1, EmptyFaithful DEF Booked, Copied
<1>7. Turned
  <2>1. DOMAIN done = {} /\ handling = Nothing
    BY <1>4 DEF Init
  <2> QED BY <2>1, FS_EmptySet DEF Turned
<1>6. Unbroken
  <2>1. log = << >> /\ DOMAIN done = {}
    BY <1>4 DEF Init
  <2> QED BY <1>4, <2>1, MarkAssumption DEF Unbroken
<1> QED BY <1>1, <1>2, <1>3, <1>5, <1>6, <1>7 DEF ConsoleInv, ServerInv

(* An execution asked for: the page sends what it showed, others anything. *)
LEMMA CallAdded ==
  ASSUME ServerInv, NEW payload \in Form \cup Direct, NEW seen \in Form \cup {Nothing},
         NEW confirmed \in BOOLEAN,
         seen # Nothing => seen = payload,
         calls' = Append(calls, [payload |-> payload, confirm |-> confirmed, at |-> "sent"]),
         typed' = Append(typed, seen), UNCHANGED <<handling, log, files, done, crashes>>
  PROVE  ServerInv'
<1>1. /\ calls \in Seq(Sent) /\ typed \in Seq(Form \cup {Nothing}) /\ Len(typed) = Len(calls)
      /\ [payload |-> payload, confirm |-> confirmed, at |-> "sent"] \in Sent
  BY DEF ServerInv, CallsTyped, Sent, Stage
<1>2. /\ calls' \in Seq(Sent) /\ typed' \in Seq(Form \cup {Nothing}) /\ Len(typed') = Len(calls')
      /\ \A k \in DOMAIN calls : k \in DOMAIN calls' /\ calls'[k] = calls[k] /\ typed'[k] = typed[k]
      /\ \A k \in DOMAIN calls' : k \in DOMAIN calls \/ k = Len(calls) + 1
      /\ calls'[Len(calls) + 1].payload = payload /\ typed'[Len(calls) + 1] = seen
  BY <1>1
<1>3. CallsTyped'
  BY <1>2 DEF ServerInv, CallsTyped
<1>4. Noted'
  <2>1. \A k \in DOMAIN calls' : typed'[k] # Nothing => typed'[k] = calls'[k].payload
    BY <1>2 DEF ServerInv, Noted
  <2>2. \A k \in DOMAIN done : k \in DOMAIN calls' /\ calls'[k] = calls[k]
    BY <1>2 DEF ServerInv, Noted
  <2> QED BY <2>1, <2>2 DEF ServerInv, Noted
<1>5. \A k \in DOMAIN done : calls'[k] = calls[k]
  BY <1>2 DEF ServerInv, Noted
<1>6. Booked'
  <2>1. ASSUME NEW s, Faithful(s, done, calls) PROVE Faithful(s, done, calls')
    BY <1>5, <2>1, FaithfulStays
  <2>2. Copied' => Copied
    BY <1>5 DEF ServerInv, Noted, Copied
  <2> QED BY <2>1, <2>2 DEF ServerInv, Booked
<1>7. Unbroken'
  <2>1. Copied => Copied'
    BY <1>5 DEF ServerInv, Noted, Copied
  <2> QED BY <1>5, <2>1 DEF ServerInv, Unbroken, Current
<1> QED BY <1>3, <1>4, <1>6, <1>7 DEF ServerInv, Turned

(* An execution that does not confirm what is dangerous is turned down.    *)
LEMMA RefuseKeeps ==
  ASSUME ServerInv, NEW k, Refuse(k)
  PROVE  ServerInv'
<1>1. /\ handling = Nothing /\ k \in DOMAIN calls /\ calls[k].at = "sent"
      /\ calls' = [calls EXCEPT ![k].at = "answered"]
      /\ UNCHANGED <<typed, handling, log, files, done, crashes>>
  BY DEF Refuse, Waiting
<1>2. calls \in Seq(Sent)
  BY DEF ServerInv, CallsTyped
<1>3. /\ calls' \in Seq(Sent) /\ DOMAIN calls' = DOMAIN calls /\ Len(calls') = Len(calls)
      /\ \A j \in DOMAIN calls : calls'[j].payload = calls[j].payload
      /\ \A j \in DOMAIN calls : j # k => calls'[j] = calls[j]
  BY <1>1, <1>2, GetsOn DEF Stage
<1>4. \A j \in DOMAIN done : j # k /\ calls'[j] = calls[j]
  BY <1>1, <1>3 DEF ServerInv, Noted
<1>5. CallsTyped'
  BY <1>1, <1>3 DEF ServerInv, CallsTyped
<1>6. Noted' /\ Turned'
  BY <1>1, <1>3, <1>4 DEF ServerInv, Noted, Turned
<1>7. Booked'
  <2>1. Faithful(log, done, calls) => Faithful(log, done, calls')
    BY <1>4, FaithfulStays
  <2> QED BY <1>1, <2>1 DEF ServerInv, Booked, Copied
<1>8. Unbroken'
  BY <1>1, <1>4 DEF ServerInv, Unbroken, Current, Copied
<1> QED BY <1>5, <1>6, <1>7, <1>8 DEF ServerInv

(* The server handles a call: what it does is on record before the log is, *)
(* and its turn comes after all others.                                    *)
LEMMA ExecuteKeeps ==
  ASSUME ServerInv, NEW k, Execute(k)
  PROVE  ServerInv'
<1> DEFINE size == Cardinality(DOMAIN done)
<1>1. /\ handling = Nothing /\ k \in DOMAIN calls /\ calls[k].at = "sent"
      /\ handling' = [call |-> k, read |-> Nothing]
      /\ calls' = [calls EXCEPT ![k].at = "handled"]
      /\ UNCHANGED <<typed, log, files, crashes>>
  BY DEF Execute, Waiting
<1>2. PICK result \in Results[calls[k].payload][files] :
        done' = [j \in DOMAIN done \cup {k} |->
                   IF j = k
                   THEN [payload |-> calls[k].payload, result |-> result, files |-> files,
                         turn |-> size + 1]
                   ELSE done[j]]
  BY DEF Execute
<1>3. calls \in Seq(Sent) /\ files \in State /\ calls[k] \in Sent /\ k \in Nat
  <2>1. calls \in Seq(Sent) /\ files \in State
    BY DEF ServerInv, CallsTyped
  <2> QED BY <1>1, <2>1
<1>4. result \in execute(calls[k].payload, files)
  <2>1. calls[k].payload \in Form \cup Direct
    BY <1>3 DEF Sent
  <2> QED BY <1>3, <2>1 DEF Results
<1>5. /\ calls' \in Seq(Sent) /\ DOMAIN calls' = DOMAIN calls /\ Len(calls') = Len(calls)
      /\ \A j \in DOMAIN calls : calls'[j].payload = calls[j].payload
      /\ \A j \in DOMAIN calls : j # k => calls'[j] = calls[j]
      /\ calls'[k].at = "handled"
  BY <1>1, <1>3, GetsOn DEF Stage
<1>6. k \notin DOMAIN done
  BY <1>1 DEF ServerInv, Noted
<1>7. \A j \in DOMAIN done : j \in DOMAIN done' /\ done'[j] = done[j] /\ j # k /\ calls'[j] = calls[j]
  BY <1>2, <1>5, <1>6 DEF ServerInv, Noted
<1>8. CallsTyped'
  BY <1>1, <1>5 DEF ServerInv, CallsTyped
<1>9. Noted'
  <2>1. \A j \in DOMAIN calls' : typed'[j] # Nothing => typed'[j] = calls'[j].payload
    BY <1>1, <1>5 DEF ServerInv, Noted
  <2>2. ASSUME NEW j \in DOMAIN done'
        PROVE  /\ j \in DOMAIN calls' /\ calls'[j].at # "sent"
               /\ done'[j].payload = calls'[j].payload /\ done'[j].files \in State
               /\ done'[j].result \in execute(done'[j].payload, done'[j].files)
    <3>1. CASE j = k
      <4>1. /\ done'[k].payload = calls[k].payload /\ done'[k].files = files
            /\ done'[k].result = result
        BY <1>2
      <4> QED BY <1>1, <1>3, <1>4, <1>5, <3>1, <4>1
    <3>2. CASE j # k
      <4>1. j \in DOMAIN done
        BY <1>2, <3>2
      <4> QED BY <1>5, <1>7, <4>1 DEF ServerInv, Noted
    <3> QED BY <3>1, <3>2
  <2>3. handling' \in InHand /\ handling'.call = k /\ handling'.read = Nothing /\ k \in DOMAIN done'
    BY <1>1, <1>2, <1>3 DEF InHand
  <2> QED BY <1>5, <2>1, <2>2, <2>3 DEF Noted
<1>10. Turned'
  <2>1. IsFiniteSet(DOMAIN done) /\ \A j \in DOMAIN done : done[j].turn \in 1 .. size
    BY DEF ServerInv, Turned
  <2>2. DOMAIN done' = DOMAIN done \cup {k} /\ done'[k].turn = size + 1
    BY <1>2
  <2>3. size \in Nat /\ IsFiniteSet(DOMAIN done') /\ Cardinality(DOMAIN done') = size + 1
    BY <1>6, <2>1, <2>2, FS_AddElement, FS_CardinalityType
  <2>4. handling'.call = k
    BY <1>1
  <2> HIDE DEF size
  <2>5. \A j \in DOMAIN done : done'[j].turn \in 1 .. size
    BY <1>7, <2>1
  <2>6. ASSUME NEW j \in DOMAIN done'
        PROVE  /\ done'[j].turn \in 1 .. (size + 1)
               /\ j # k => done'[j].turn < size + 1
    <3>1. CASE j = k
      BY <2>2, <2>3, <3>1
    <3>2. CASE j # k
      <4>1. done'[j].turn \in 1 .. size
        BY <2>2, <2>5, <3>2
      <4> QED BY <2>3, <4>1
    <3> QED BY <3>1, <3>2
  <2>7. done'[k].turn = size + 1 /\ IsFiniteSet(DOMAIN done')
    BY <2>2, <2>3
  <2>8. \A j \in DOMAIN done' \ {k} : done'[j].turn < done'[k].turn
    BY <2>6, <2>7
  <2> QED BY <2>3, <2>4, <2>6, <2>7, <2>8 DEF Turned
<1>11. Booked'
  <2>0. ASSUME NEW s, Faithful(s, done, calls) PROVE Faithful(s, done', calls')
    BY <1>7, <2>0, FaithfulStays
  <2>1. log # Torn => Faithful(log, done', calls')
    BY <2>0 DEF ServerInv, Booked
  <2>2. handling'.read = Nothing
    BY <1>1
  <2> QED BY <1>1, <2>1, <2>2 DEF Booked, Copied
<1>12. Unbroken'
  <2>1. crashes = 0 => log # Torn
    BY <1>1 DEF ServerInv, Unbroken, Copied
  <2>2. ASSUME crashes = 0, NEW j \in DOMAIN done'
        PROVE  calls'[j].at = "handled" \/ j \in Logged(log)
    <3>1. CASE j = k
      BY <1>5, <3>1
    <3>2. CASE j # k
      <4>1. j \in DOMAIN done
        BY <1>2, <3>2
      <4> QED BY <1>7, <2>1, <2>2, <4>1 DEF ServerInv, Unbroken, Current
    <3> QED BY <3>1, <3>2
  <2> QED BY <1>1, <2>1, <2>2 DEF Unbroken, Current
<1> QED BY <1>8, <1>9, <1>10, <1>11, <1>12 DEF ServerInv

(* The server reads the log back: from here its copy is the log.           *)
LEMMA BeginLogKeeps ==
  ASSUME ServerInv, BeginLog
  PROVE  ServerInv'
<1>1. /\ handling # Nothing /\ handling.read = Nothing
      /\ handling' = [handling EXCEPT !.read = readAuditLog] /\ log' = Torn
      /\ UNCHANGED <<calls, typed, files, done, crashes>>
  BY DEF BeginLog
<1>2. handling \in InHand /\ handling.call \in DOMAIN done /\ calls[handling.call].at = "handled"
  BY <1>1 DEF ServerInv, Noted
<1>3. Faithful(readAuditLog, done, calls)
  <2>1. CASE log # Torn
    BY <2>1 DEF ServerInv, Booked, readAuditLog
  <2>2. CASE log = Torn
    BY <2>2, EmptyFaithful DEF readAuditLog
  <2> QED BY <2>1, <2>2
<1>4. readAuditLog \in Seq(LogEntry)
  BY <1>3 DEF Faithful
<1>5. handling' \in InHand /\ handling'.call = handling.call /\ handling'.read = readAuditLog
  BY <1>1, <1>2, <1>4 DEF InHand
<1>6. handling' # Nothing /\ handling'.read # Nothing
  BY <1>4, <1>5, MarkAssumption
<1>7. CallsTyped'
  BY <1>1 DEF ServerInv, CallsTyped
<1>8. Noted' /\ Turned'
  BY <1>1, <1>2, <1>5, <1>6 DEF ServerInv, Noted, Turned
<1>9. Booked'
  BY <1>1, <1>3, <1>5 DEF Booked
<1>10. Unbroken'
  <2>1. crashes = 0 => readAuditLog = log /\ Current = log
    BY <1>1 DEF ServerInv, Unbroken, Copied, readAuditLog, Current
  <2>2. Current' = readAuditLog
    BY <1>1, <1>5 DEF Current
  <2>3. Copied'
    BY <1>1, <1>2, <1>5, <1>6 DEF Copied
  <2> QED BY <1>1, <2>1, <2>2, <2>3 DEF ServerInv, Unbroken
<1> QED BY <1>7, <1>8, <1>9, <1>10 DEF ServerInv

(* The entry is appended to what was read: its execution was not in that   *)
(* log, whose entries are of other calls and so of earlier turns.          *)
LEMMA EndLogKeeps ==
  ASSUME ServerInv, EndLog
  PROVE  ServerInv'
<1> DEFINE k == handling.call
           old == handling.read
           new == Entry(k)
<1>1. /\ handling # Nothing /\ old # Nothing /\ calls[k].at = "handled"
      /\ log' = Append(old, new) /\ calls' = [calls EXCEPT ![k].at = "logged"]
      /\ UNCHANGED <<typed, handling, files, done, crashes>>
  BY DEF EndLog
<1>2. /\ k \in DOMAIN done /\ k \in DOMAIN calls /\ k \in Nat
      /\ log = Torn /\ Faithful(old, done, calls) /\ calls \in Seq(Sent)
  BY <1>1 DEF ServerInv, Noted, Booked, Copied, CallsTyped, InHand
<1>3. /\ calls' \in Seq(Sent) /\ DOMAIN calls' = DOMAIN calls /\ Len(calls') = Len(calls)
      /\ \A j \in DOMAIN calls : calls'[j].payload = calls[j].payload
      /\ \A j \in DOMAIN calls : j # k => calls'[j] = calls[j]
      /\ calls'[k].at = "logged"
  <2> HIDE DEF k
  <2> QED BY <1>1, <1>2, GetsOn DEF Stage
<1>4. Faithful(old, done, calls')
  <2>1. \A j \in DOMAIN done : calls[j].at # "handled" => calls'[j].at # "handled"
    BY <1>1, <1>3 DEF ServerInv, Noted
  <2> HIDE DEF old
  <2> QED BY <1>2, <2>1, FaithfulStays
<1>5. new \in LogEntry /\ new.call = k /\ (new.status = "error") = (done[k].result.status = "thrown")
  BY <1>2 DEF LogEntry, Entry
<1>6. ASSUME NEW i \in DOMAIN old PROVE done[old[i].call].turn < done[k].turn
  <2>1. old[i].call \in DOMAIN done /\ calls[old[i].call].at # "handled"
    BY <1>2 DEF Faithful
  <2>2. old[i].call # k
    BY <1>1, <2>1
  <2> QED BY <1>1, <2>1, <2>2 DEF ServerInv, Turned
<1>12. Noted' /\ Turned'
  <2>1. \A j \in DOMAIN done : calls'[j].at # "sent" /\ calls'[j].payload = calls[j].payload
    BY <1>3 DEF ServerInv, Noted
  <2> QED BY <1>1, <1>2, <1>3, <2>1 DEF ServerInv, Noted, Turned
<1> HIDE DEF k, old, new
<1>7. /\ log' \in Seq(LogEntry) /\ Len(log') = Len(old) + 1 /\ Len(old) \in Nat
      /\ DOMAIN log' = 1 .. Len(old) + 1 /\ DOMAIN old = 1 .. Len(old)
      /\ log'[Len(old) + 1] = new /\ \A i \in DOMAIN old : log'[i] = old[i]
  <2>1. old \in Seq(LogEntry)
    BY <1>2 DEF Faithful
  <2> QED BY <1>1, <1>5, <2>1
<1>8. \A i \in DOMAIN log' : i \in DOMAIN old \/ i = Len(old) + 1
  BY <1>7
<1>9. Logged(log') = Logged(old) \cup {k}
  <2>1. Len(old) + 1 \in DOMAIN log' /\ \A i \in DOMAIN old : i \in DOMAIN log'
    BY <1>7
  <2> QED BY <1>5, <1>7, <1>8, <2>1 DEF Logged
<1>10. Faithful(log', done, calls')
  <2>1. ASSUME NEW i \in DOMAIN log', NEW j \in DOMAIN log', i < j
        PROVE  done[log'[i].call].turn < done[log'[j].call].turn
    <3>1. i \in DOMAIN old
      BY <1>7, <2>1
    <3>2. CASE j \in DOMAIN old
      BY <1>2, <1>7, <2>1, <3>1, <3>2 DEF Faithful
    <3>3. CASE j = Len(old) + 1
      BY <1>5, <1>6, <1>7, <3>1, <3>3
    <3> QED BY <1>8, <3>2, <3>3
  <2>2. ASSUME NEW i \in DOMAIN log'
        PROVE  /\ log'[i].call \in DOMAIN done /\ calls'[log'[i].call].at # "handled"
               /\ (log'[i].status = "error") = (done[log'[i].call].result.status = "thrown")
    <3>1. CASE i \in DOMAIN old
      BY <1>4, <1>7, <3>1 DEF Faithful
    <3>2. CASE i = Len(old) + 1
      BY <1>2, <1>3, <1>5, <1>7, <3>2
    <3> QED BY <1>8, <3>1, <3>2
  <2> QED BY <1>7, <2>1, <2>2 DEF Faithful
<1>11. CallsTyped'
  BY <1>1, <1>3 DEF ServerInv, CallsTyped
<1>13. log' # Torn /\ ~Copied'
  <2>1. log' # Torn
    BY <1>7, MarkAssumption
  <2>2. calls'[handling'.call].at = "logged"
    BY <1>1, <1>3 DEF k
  <2> QED BY <2>1, <2>2 DEF Copied
<1>14. Booked'
  BY <1>1, <1>10, <1>13 DEF Booked
<1>15. Unbroken'
  <2>1. Current' = log' /\ Current = old
    BY <1>2, <1>13 DEF Current, old
  <2>2. ASSUME crashes = 0, NEW j \in DOMAIN done
        PROVE  calls'[j].at = "handled" \/ j \in Logged(log')
    BY <1>3, <1>9, <2>1, <2>2 DEF ServerInv, Unbroken, Noted
  <2> QED BY <1>1, <1>13, <2>1, <2>2 DEF Unbroken
<1> QED BY <1>11, <1>12, <1>14, <1>15 DEF ServerInv

(* The answer to an execution whose entry is on file.                      *)
LEMMA AnswerKeeps ==
  ASSUME ServerInv, Answer
  PROVE  ServerInv'
<1> DEFINE k == handling.call
<1>1. /\ handling # Nothing /\ calls[k].at = "logged" /\ handling' = Nothing
      /\ calls' = [calls EXCEPT ![k].at = "answered"]
      /\ UNCHANGED <<typed, log, files, done, crashes>>
  BY DEF Answer
<1>2. k \in DOMAIN calls /\ calls \in Seq(Sent) /\ ~Copied
  BY <1>1 DEF ServerInv, Noted, CallsTyped, Copied
<1> HIDE DEF k
<1>3. /\ calls' \in Seq(Sent) /\ DOMAIN calls' = DOMAIN calls /\ Len(calls') = Len(calls)
      /\ \A j \in DOMAIN calls : calls'[j].payload = calls[j].payload
      /\ \A j \in DOMAIN calls : j # k => calls'[j] = calls[j]
      /\ calls'[k].at = "answered"
  BY <1>1, <1>2, GetsOn DEF Stage
<1>4. \A j \in DOMAIN calls : /\ calls[j].at # "sent" => calls'[j].at # "sent"
                              /\ calls[j].at = "handled" <=> calls'[j].at = "handled"
  BY <1>1, <1>3
<1>5. CallsTyped'
  BY <1>1, <1>3 DEF ServerInv, CallsTyped
<1>6. Noted' /\ Turned'
  BY <1>1, <1>3, <1>4 DEF ServerInv, Noted, Turned
<1>7. Booked'
  <2>1. \A j \in DOMAIN done : calls[j].at # "handled" => calls'[j].at # "handled"
    BY <1>4 DEF ServerInv, Noted
  <2>2. log # Torn => Faithful(log, done, calls')
    BY <2>1, FaithfulStays DEF ServerInv, Booked
  <2> QED BY <1>1, <2>2 DEF Booked, Copied
<1>8. Unbroken'
  <2>1. crashes = 0 => log # Torn
    BY <1>2 DEF ServerInv, Unbroken
  <2>2. \A j \in DOMAIN done : calls[j].at = "handled" => calls'[j].at = "handled"
    BY <1>4 DEF ServerInv, Noted
  <2> QED BY <1>1, <2>1, <2>2 DEF ServerInv, Unbroken, Current
<1> QED BY <1>5, <1>6, <1>7, <1>8 DEF ServerInv

(* The server dies: what is logged stays so.                               *)
LEMMA CrashKeeps ==
  ASSUME ServerInv, Crash
  PROVE  ServerInv'
<1> DEFINE lost(k) == calls[k].at \in {"sent", "handled", "logged"}
           after(k) == IF lost(k) THEN [calls[k] EXCEPT !.at = "failed"] ELSE calls[k]
<1>1. /\ crashes' = crashes + 1 /\ handling' = Nothing
      /\ calls' = [k \in DOMAIN calls |-> after(k)]
      /\ UNCHANGED <<typed, log, files, done>>
  BY DEF Crash
<1>2. calls \in Seq(Sent) /\ crashes \in Nat
  BY DEF ServerInv, CallsTyped
<1>3. ASSUME NEW k \in DOMAIN calls
      PROVE  /\ after(k) \in Sent /\ after(k).payload = calls[k].payload
             /\ after(k).at \notin {"sent", "handled"}
  <2>1. calls[k] \in Sent
    BY <1>2
  <2>2. CASE lost(k)
    BY <2>1, <2>2 DEF Sent, Stage
  <2>3. CASE ~lost(k)
    BY <2>1, <2>3 DEF Sent, Stage
  <2> QED BY <2>2, <2>3
<1> HIDE DEF after
<1>4. calls' \in Seq(Sent) /\ DOMAIN calls' = DOMAIN calls /\ Len(calls') = Len(calls)
  BY <1>1, <1>2, <1>3
<1>5. \A k \in DOMAIN calls :
        calls'[k].payload = calls[k].payload /\ calls'[k].at \notin {"sent", "handled"}
  BY <1>1, <1>3
<1>6. CallsTyped'
  BY <1>1, <1>2, <1>4 DEF ServerInv, CallsTyped
<1>7. Noted' /\ Turned'
  BY <1>1, <1>4, <1>5 DEF ServerInv, Noted, Turned
<1>8. Booked'
  <2>1. ASSUME NEW s, Faithful(s, done, calls) PROVE Faithful(s, done, calls')
    <3>1. \A k \in DOMAIN done : calls'[k].at # "handled"
      BY <1>5 DEF ServerInv, Noted
    <3> QED BY <2>1, <3>1, FaithfulStays
  <2> QED BY <1>1, <2>1 DEF ServerInv, Booked, Copied
<1>9. Unbroken'
  <2>1. crashes' # 0
    BY <1>1, <1>2
  <2> QED BY <2>1 DEF Unbroken
<1> QED BY <1>6, <1>7, <1>8, <1>9 DEF ServerInv

(* What only the page or the files see leaves the server's part alone.     *)
LEMMA ElsewhereKeeps ==
  ASSUME ServerInv, UNCHANGED <<calls, typed, handling, log, done, crashes>>, files' \in State
  PROVE  ServerInv'
BY DEF ServerInv, CallsTyped, Noted, Turned, Booked, Unbroken, Current, Copied

LEMMA PageKeeps ==
  ASSUME ConsoleInv, [Next]_vars
  PROVE  PageTyped'
<1>1. action' = action /\ Payloads' = Payloads /\ Preview' = Preview
  <2>1. action' = action
    BY DEF Next, vars, page, RequestPreview, OpenConfirm, Cancel, Go, Send, ServePreview,
           ShowPreview, Execute, Refuse, Post, BeginLog, EndLog, Answer, Refresh, Crash, Change
  <2>2. Payloads' = Payloads
    BY <2>1 DEF Payloads
  <2> QED BY <2>1, <2>2 DEF Preview
<1>2. Nothing \notin Payloads
  BY MarkAssumption DEF Payloads
<1> USE <1>1 DEF ConsoleInv, PageTyped
<1>3. ASSUME NEW payload \in Payloads, RequestPreview(payload) PROVE PageTyped'
  <2>1. [payload |-> payload, answer |-> "none"] \in Preview
    BY DEF Preview
  <2>2. previews' \subseteq Preview
    BY <1>3, <2>1 DEF RequestPreview
  <2> QED BY <1>3, <2>2 DEF RequestPreview
<1>4. ASSUME NEW r \in previews, ServePreview(r) PROVE PageTyped'
  <2>1. \A answer \in {"shown", "failed"} : [r EXCEPT !.answer = answer] \in Preview
    BY DEF Preview
  <2>2. previews' \subseteq Preview
    BY <1>4, <2>1 DEF ServePreview
  <2>3. panel' = panel /\ confirm' = confirm
    BY <1>4 DEF ServePreview
  <2> QED BY <2>2, <2>3
<1>5. ASSUME NEW r \in previews, ShowPreview(r) PROVE PageTyped'
  <2>1. r.payload \in Payloads /\ previews' \subseteq previews /\ confirm' = FALSE
    BY <1>5 DEF ShowPreview, Preview
  <2> QED BY <1>5, <2>1 DEF ShowPreview
<1>6. CASE Crash
  <2>1. \A r \in previews : [r EXCEPT !.answer = "failed"] \in Preview
    BY DEF Preview
  <2>2. previews' \subseteq Preview
    BY <1>6, <2>1 DEF Crash
  <2>3. panel' = panel /\ confirm' = confirm
    BY <1>6 DEF Crash
  <2> QED BY <2>2, <2>3
<1>7. CASE Refresh \/ OpenConfirm \/ Cancel \/ Go
  BY <1>7 DEF Refresh, OpenConfirm, Cancel, Go, Send
<1>8. CASE \/ Post \/ BeginLog \/ EndLog \/ Answer \/ Change \/ UNCHANGED vars
           \/ \E k \in 1 .. MaxCalls : Execute(k) \/ Refuse(k)
  <2>1. previews' = previews /\ panel' = panel /\ confirm' = confirm
    BY <1>8 DEF Post, BeginLog, EndLog, Answer, Change, vars, Execute, Refuse, page
  <2> QED BY <2>1
<1> QED BY <1>3, <1>4, <1>5, <1>6, <1>7, <1>8 DEF Next

LEMMA ServerKeeps ==
  ASSUME ConsoleInv, [Next]_vars
  PROVE  ServerInv'
<1> USE DEF ConsoleInv
<1>1. CASE Go
  <2>1. panel \in Form /\ Send(panel)
    BY <1>1 DEF PageTyped, Payloads, Go, Send
  <2> QED BY <2>1, CallAdded DEF Send
<1>2. CASE Post
  <2>1. PICK payload \in Direct, confirmed \in BOOLEAN :
          calls' = Append(calls, [payload |-> payload, confirm |-> confirmed, at |-> "sent"])
    BY <1>2 DEF Post
  <2> QED BY <1>2, <2>1, CallAdded DEF Post
<1>3. CASE \E k \in 1 .. MaxCalls : Execute(k) \/ Refuse(k)
  BY <1>3, ExecuteKeeps, RefuseKeeps
<1>4. CASE BeginLog \/ EndLog \/ Answer \/ Crash
  BY <1>4, BeginLogKeeps, EndLogKeeps, AnswerKeeps, CrashKeeps
<1>5. CASE \/ \E payload \in Payloads : RequestPreview(payload)
           \/ \E r \in previews : ServePreview(r) \/ ShowPreview(r)
           \/ OpenConfirm \/ Cancel \/ Refresh \/ Change \/ UNCHANGED vars
  <2>1. UNCHANGED <<calls, typed, handling, log, done, crashes>> /\ files' \in State
    BY <1>5 DEF ServerInv, CallsTyped, RequestPreview, ServePreview, ShowPreview,
                OpenConfirm, Cancel, Refresh, Change, vars
  <2> QED BY <2>1, ElsewhereKeeps
<1> QED BY <1>1, <1>2, <1>3, <1>4, <1>5 DEF Next

LEMMA Invariance == Spec => []ConsoleInv
<1>1. ConsoleInv /\ [Next]_vars => ConsoleInv'
  BY PageKeeps, ServerKeeps DEF ConsoleInv
<1> QED BY <1>1, InitInv, PTL DEF Spec

-----------------------------------------------------------------------------
(* The page asks for EXECUTE only under a preview, and the server is never *)
(* in an execution that is not under way.                                  *)
THEOREM TypeCorrect == Spec => []TypeOK
<1>1. ConsoleInv => TypeOK
  <2> SUFFICES ASSUME ConsoleInv PROVE TypeOK
    OBVIOUS
  <2>1. \A r \in previews : r.payload \in Payloads
    BY DEF ConsoleInv, PageTyped, Preview
  <2>2. \A k \in DOMAIN calls : calls[k].at \in Stage
    <3>1. \A k \in DOMAIN calls : calls[k] \in Sent
      BY DEF ConsoleInv, ServerInv, CallsTyped
    <3> QED BY <3>1 DEF Sent
  <2> QED BY <2>1, <2>2 DEF ConsoleInv, PageTyped, ServerInv, Noted, TypeOK, Stage
<1> QED BY <1>1, Invariance, PTL

(* Whatever the page, the server, its deaths and other clients do, a log   *)
(* that can be read names each execution at most once and as it went, in   *)
(* the order they were carried out, and until the server first dies every  *)
(* one but the one in hand.                                                *)
THEOREM LogIsTrue == Spec => []LogAccounts
<1>1. ConsoleInv => LogAccounts
  <2> SUFFICES ASSUME ConsoleInv, log # Torn
               PROVE  /\ Logged(log) \subseteq DOMAIN done
                      /\ \A i, j \in DOMAIN log : i < j => done[log[i].call].turn < done[log[j].call].turn
                      /\ \A i \in DOMAIN log :
                           (log[i].status = "error") = (done[log[i].call].result.status = "thrown")
                      /\ \A k \in DOMAIN done \ Logged(log) : calls[k].at = "handled" \/ crashes > 0
    BY DEF LogAccounts, Logged
  <2>1. Faithful(log, done, calls)
    BY DEF ConsoleInv, ServerInv, Booked
  <2>2. Logged(log) \subseteq DOMAIN done
    BY <2>1 DEF Faithful, Logged
  <2>3. crashes = 0 \/ crashes > 0
    BY DEF ConsoleInv, ServerInv, CallsTyped
  <2>4. crashes = 0 => \A k \in DOMAIN done \ Logged(log) : calls[k].at = "handled"
    BY DEF ConsoleInv, ServerInv, Unbroken, Current
  <2> QED BY <2>1, <2>2, <2>3, <2>4 DEF Faithful
<1> QED BY <1>1, Invariance, PTL

-----------------------------------------------------------------------------
(***************************************************************************)
(* What the actions do, from what they are given.                          *)
(***************************************************************************)
LEMMA ToSetHolds ==
  ASSUME NEW s, IsList(s)
  PROVE  /\ s \in Seq(ToSet(s))
         /\ \A i \in DOMAIN s : s[i] \in ToSet(s)
BY DEF IsList, ToSet

(* The plan of a batch that passes the gate holds every task, each with    *)
(* its own fields, and rejects none.                                       *)
LEMMA PlanOfAll ==
  ASSUME NEW tasks, IsList(tasks), NEW report, DOMAIN report = DOMAIN tasks, allAllowed(report)
  PROVE  LET plan == buildLaunchPlan(report, tasks)
         IN /\ plan.rejectedTasks = << >>
            /\ DOMAIN plan.selectedTasks = DOMAIN tasks
            /\ \A i \in DOMAIN tasks :
                 /\ plan.selectedTasks[i].targetIssue = tasks[i].targetIssue
                 /\ plan.selectedTasks[i].conflictGroup = tasks[i].conflictGroup
                 /\ plan.selectedTasks[i].workerType = classifyWorkerType(tasks[i])
                 /\ plan.selectedTasks[i].sharedLocks = tasks[i].sharedLocks
<1> DEFINE plannedTask(i) ==
             [targetIssue |-> tasks[i].targetIssue, conflictGroup |-> tasks[i].conflictGroup,
              risk |-> tasks[i].risk, taskType |-> tasks[i].taskType,
              workerType |-> classifyWorkerType(tasks[i]),
              sharedLocks |-> tasks[i].sharedLocks, allowedFiles |-> tasks[i].roots,
              decision |-> report[i]]
           all == [i \in DOMAIN tasks |-> plannedTask(i)]
           allowed == {i \in DOMAIN tasks : report[i] = "allowed"}
           P == {plannedTask(i) : i \in DOMAIN tasks}
<1>1. allowed = DOMAIN tasks /\ DOMAIN tasks \ allowed = {}
  BY DEF allAllowed
<1>2. all \in Seq(P) /\ DOMAIN all = DOMAIN tasks
  <2>1. Len(tasks) \in Nat /\ DOMAIN tasks = 1 .. Len(tasks)
    BY DEF IsList
  <2>2. \A i \in DOMAIN tasks : plannedTask(i) \in P
    OBVIOUS
  <2> HIDE DEF plannedTask, P
  <2> QED BY <2>1, <2>2
<1>3. ASSUME NEW i \in DOMAIN tasks
      PROVE  /\ all[i].targetIssue = tasks[i].targetIssue
             /\ all[i].conflictGroup = tasks[i].conflictGroup
             /\ all[i].workerType = classifyWorkerType(tasks[i])
             /\ all[i].sharedLocks = tasks[i].sharedLocks
  OBVIOUS
<1>4. /\ buildLaunchPlan(report, tasks).selectedTasks = Kept(all, allowed)
      /\ buildLaunchPlan(report, tasks).rejectedTasks = Kept(all, DOMAIN tasks \ allowed)
  BY DEF buildLaunchPlan
<1> HIDE DEF all, P, allowed
<1>5. Kept(all, allowed) = all
  BY <1>1, <1>2, KeptAll
<1>6. Kept(all, DOMAIN tasks \ allowed) = << >>
  BY <1>1, <1>2, KeptNone
<1> QED BY <1>2, <1>3, <1>4, <1>5, <1>6

(* Whatever launch-batch is asked for, the tasks it is about are a list.   *)
LEMMA TasksAreAList ==
  ASSUME NEW payload \in Form \cup Direct, payload.action = "launch-batch", NEW state \in State
  PROVE  IsList(resolveTasks(payload, state.queue))
<1>1. CASE payload.tasks # << >>
  BY <1>1, PayloadAssumption DEF resolveTasks
<1>2. CASE payload.tasks = << >>
  <2> DEFINE keep == {k \in DOMAIN state.queue : Has(state.queue[k], "status")
                                                   /\ state.queue[k].status = "queued"}
             kept == Kept(state.queue, keep)
  <2>1. kept \in Seq(ToSet(state.queue))
    <3>1. state.queue \in Seq(ToSet(state.queue))
      BY FilesAssumption DEF IsList
    <3> QED BY <3>1, KeptList
  <2>2. resolveTasks(payload, state.queue) = kept
    BY <1>2 DEF resolveTasks
  <2> HIDE DEF kept
  <2>3. kept \in Seq(ToSet(kept))
    BY <2>1 DEF ToSet
  <2> QED BY <2>2, <2>3 DEF IsList
<1> QED BY <1>1, <1>2

(* What was handed to the launcher passed the gate, as a whole.            *)
LEMMA PassedTheGate ==
  ASSUME NEW payload \in Form \cup Direct, NEW state \in State,
         NEW result \in execute(payload, state), result.status \in {"launched", "launch-failed"}
  PROVE  /\ payload.action = "launch-batch"
         /\ allAllowed(Gate(payload, state))
         /\ result.plan = buildLaunchPlan(Gate(payload, state), resolveTasks(payload, state.queue))
<1>1. payload.action \in Actions
  BY PayloadAssumption
<1>2. CASE payload.action = "launch-batch"
  <2>1. execute(payload, state) = {launchBatch(payload, state)}
    BY <1>2 DEF execute
  <2>2. result = launchBatch(payload, state)
    BY <2>1
  <2> DEFINE tasks == resolveTasks(payload, state.queue)
             plan == buildLaunchPlan(Gate(payload, state), tasks)
  <2>3. launchBatch(payload, state) =
          IF tasks = << >> THEN [status |-> "error"]
          ELSE IF ~allAllowed(Gate(payload, state)) THEN [status |-> "blocked"]
          ELSE [status |-> IF Dispatched(plan) THEN "launched" ELSE "launch-failed", plan |-> plan]
    BY DEF launchBatch
  <2> HIDE DEF tasks, plan
  <2>4. tasks # << >> /\ allAllowed(Gate(payload, state))
    BY <2>2, <2>3
  <2>5. result.plan = plan
    BY <2>2, <2>3, <2>4
  <2> QED BY <1>2, <2>4, <2>5 DEF plan, tasks
<1>3. CASE payload.action = "plan.next.batch"
  <2>1. execute(payload, state) = {planNextBatch(payload, state)}
    BY <1>3 DEF execute
  <2>2. planNextBatch(payload, state).status \in {"error", "blocked", "empty", "planned"}
    BY DEF planNextBatch
  <2> QED BY <2>1, <2>2
<1>4. CASE payload.action = "merge-prs"
  <2>1. execute(payload, state) = mergePrs(payload)
    BY <1>4 DEF execute
  <2>2. result.status \in {"thrown", "merged", "failed"}
    BY <2>1 DEF mergePrs
  <2> QED BY <2>2
<1> QED BY <1>1, <1>2, <1>3, <1>4 DEF Actions

(* A plan is written only when every issue of it is allowed.               *)
LEMMA PlannedAllowed ==
  ASSUME NEW payload \in Form \cup Direct, NEW state \in State,
         NEW result \in execute(payload, state), result.status = "planned"
  PROVE  /\ payload.action = "plan.next.batch"
         /\ result.plan = computeBatchPlan(state.pool, state.queue).plan
         /\ \A i \in DOMAIN result.plan : result.plan[i].issue \in payload.allowlist
<1>1. payload.action \in Actions
  BY PayloadAssumption
<1>2. CASE payload.action = "launch-batch"
  <2>1. execute(payload, state) = {launchBatch(payload, state)}
    BY <1>2 DEF execute
  <2>2. launchBatch(payload, state).status \in {"error", "blocked", "launched", "launch-failed"}
    BY DEF launchBatch
  <2> QED BY <2>1, <2>2
<1>3. CASE payload.action = "plan.next.batch"
  <2> DEFINE plan == computeBatchPlan(state.pool, state.queue).plan
             astray == \E k \in DOMAIN plan : plan[k].issue \notin payload.allowlist
  <2>1. result = planNextBatch(payload, state)
    BY <1>3 DEF execute
  <2>2. planNextBatch(payload, state) =
          IF payload.allowlist = {} \/ payload.reason = "" THEN [status |-> "error"]
          ELSE IF \E k \in DOMAIN plan : plan[k].issue \notin payload.allowlist
          THEN [status |-> "blocked"]
          ELSE IF plan = << >> THEN [status |-> "empty"]
          ELSE [status |-> "planned", plan |-> plan]
    BY DEF planNextBatch
  <2> HIDE DEF plan, astray
  <2>3. CASE payload.allowlist = {} \/ payload.reason = "" \/ astray
    <3>1. result = [status |-> "error"] \/ result = [status |-> "blocked"]
      BY <2>1, <2>2, <2>3 DEF astray
    <3> QED BY <3>1
  <2>4. CASE plan = << >>
    <3>1. \/ result = [status |-> "error"] \/ result = [status |-> "blocked"]
          \/ result = [status |-> "empty"]
      BY <2>1, <2>2, <2>4
    <3> QED BY <3>1
  <2>5. CASE ~(payload.allowlist = {} \/ payload.reason = "") /\ ~astray /\ plan # << >>
    <3>1. result = [status |-> "planned", plan |-> plan]
      BY <2>1, <2>2, <2>5 DEF astray
    <3>2. result.plan = plan /\ ~astray
      BY <2>5, <3>1
    <3>3. \A i \in DOMAIN plan : plan[i].issue \in payload.allowlist
      BY <3>2 DEF astray
    <3>4. plan = computeBatchPlan(state.pool, state.queue).plan
      BY DEF plan
    <3> QED BY <1>3, <3>2, <3>3, <3>4
  <2> QED BY <2>3, <2>4, <2>5
<1>4. CASE payload.action = "merge-prs"
  <2>1. result \in mergePrs(payload)
    BY <1>4 DEF execute
  <2>2. result.status \in {"thrown", "merged", "failed"}
    BY <2>1 DEF mergePrs
  <2> QED BY <2>2
<1> QED BY <1>1, <1>2, <1>3, <1>4 DEF Actions

(* Only asked numbers are merged, and some may have been when it failed.   *)
LEMMA MergedAsked ==
  ASSUME NEW payload, payload.action = "merge-prs", NEW state,
         NEW result \in execute(payload, state), result.status # "thrown"
  PROVE  result.prs \subseteq payload.prNumbers
<1>1. result \in mergePrs(payload)
  BY DEF execute
<1>2. CASE payload.prNumbers = {}
  BY <1>1, <1>2 DEF mergePrs
<1>3. CASE payload.prNumbers # {}
  <2>1. CASE result = [status |-> "merged", prs |-> payload.prNumbers]
    BY <2>1
  <2>2. CASE result \in [status : {"failed"}, prs : SUBSET payload.prNumbers]
    BY <2>2
  <2> QED BY <1>1, <1>3, <2>1, <2>2 DEF mergePrs
<1> QED BY <1>2, <1>3

-----------------------------------------------------------------------------
(* Whatever the payloads, the files and the order of previews, answers and *)
(* clicks: what the operator typed EXECUTE under is what was executed, and *)
(* no issue, task or pull request beyond it.                               *)
THEOREM ConsentHolds == Spec => []Consented
<1>1. ConsoleInv => Consented
  <2> SUFFICES ASSUME ConsoleInv, NEW k \in DOMAIN done, typed[k] # Nothing
               PROVE  LET asked == typed[k]
                          did == done[k].result
                      IN /\ asked.action = done[k].payload.action
                         /\ did.status = "planned" =>
                              {did.plan[i].issue : i \in DOMAIN did.plan} \subseteq asked.allowlist
                         /\ asked.action = "merge-prs" /\ did.status # "thrown" =>
                              did.prs \subseteq asked.prNumbers
                         /\ did.status \in {"launched", "launch-failed"} /\ asked.tasks # << >> =>
                              {did.plan.selectedTasks[i].targetIssue : i \in DOMAIN did.plan.selectedTasks}
                                \subseteq {asked.tasks[i].targetIssue : i \in DOMAIN asked.tasks}
    BY DEF Consented
  <2> DEFINE asked == typed[k]
             did == done[k].result
             state == done[k].files
  <2>1. k \in DOMAIN calls /\ asked = done[k].payload /\ state \in State /\ did \in execute(asked, state)
    BY DEF ConsoleInv, ServerInv, Noted
  <2>2. asked \in Form \cup Direct
    BY <2>1 DEF ConsoleInv, ServerInv, CallsTyped
  <2>3. asked.action = done[k].payload.action
    BY <2>1
  <2> HIDE DEF asked, did, state
  <2>4. did.status = "planned" => {did.plan[i].issue : i \in DOMAIN did.plan} \subseteq asked.allowlist
    BY <2>1, <2>2, PlannedAllowed
  <2>5. asked.action = "merge-prs" /\ did.status # "thrown" => did.prs \subseteq asked.prNumbers
    BY <2>1, MergedAsked
  <2>6. ASSUME did.status \in {"launched", "launch-failed"}, asked.tasks # << >>
        PROVE  {did.plan.selectedTasks[i].targetIssue : i \in DOMAIN did.plan.selectedTasks}
                 \subseteq {asked.tasks[i].targetIssue : i \in DOMAIN asked.tasks}
    <3> DEFINE tasks == resolveTasks(asked, state.queue)
               report == Gate(asked, state)
    <3>1. asked.action = "launch-batch" /\ allAllowed(report) /\ did.plan = buildLaunchPlan(report, tasks)
      BY <2>1, <2>2, <2>6, PassedTheGate
    <3>2. tasks = asked.tasks
      BY <2>6 DEF resolveTasks
    <3>3. IsList(tasks) /\ DOMAIN report = DOMAIN tasks
      BY <2>1, <2>2, <3>1, TasksAreAList DEF Gate, runGateCheck
    <3> HIDE DEF tasks, report
    <3>4. /\ DOMAIN did.plan.selectedTasks = DOMAIN tasks
          /\ \A i \in DOMAIN tasks : did.plan.selectedTasks[i].targetIssue = tasks[i].targetIssue
      BY <3>1, <3>3, PlanOfAll
    <3> QED BY <3>2, <3>4
  <2> QED BY <2>3, <2>4, <2>5, <2>6 DEF asked, did
<1> QED BY <1>1, Invariance, PTL

(* A batch handed to the launcher fits the files as they were then: main   *)
(* allows each of its workers, none is of a group that is running, and no  *)
(* two of them meet in a lock or, where neither is docs, in a group.       *)
THEOREM FitWhenHandedOver == Spec => []HandedOverFit
<1>1. ConsoleInv => HandedOverFit
  <2> SUFFICES ASSUME ConsoleInv, NEW k \in DOMAIN done, HandedOver(k)
               PROVE  LET tasks == done[k].result.plan.selectedTasks
                          main == readMainState(done[k].files.main)
                      IN /\ done[k].result.plan.rejectedTasks = << >>
                         /\ \A i \in DOMAIN tasks :
                              /\ tasks[i].workerType \in PERMISSION_MATRIX[main]
                              /\ tasks[i].conflictGroup \notin runningGroups(done[k].files.running)
                         /\ \A i, j \in DOMAIN tasks : i < j =>
                              /\ ToSet(tasks[i].sharedLocks) \cap ToSet(tasks[j].sharedLocks) = {}
                              /\ tasks[i].conflictGroup = tasks[j].conflictGroup =>
                                   \/ tasks[i].conflictGroup = NoGroup
                                   \/ "docs" \in {tasks[i].workerType, tasks[j].workerType}
    BY DEF HandedOverFit
  <2>0. done[k].result.status \in {"launched", "launch-failed"}
    BY DEF HandedOver
  <2> DEFINE payload == done[k].payload
             did == done[k].result
             state == done[k].files
             asked == resolveTasks(payload, state.queue)
             report == Gate(payload, state)
             tasks == did.plan.selectedTasks
             main == readMainState(state.main)
  <2>1. k \in DOMAIN calls /\ payload = calls[k].payload /\ state \in State /\ did \in execute(payload, state)
    BY DEF ConsoleInv, ServerInv, Noted
  <2>2. payload \in Form \cup Direct
    <3>1. calls[k] \in Sent
      BY <2>1 DEF ConsoleInv, ServerInv, CallsTyped
    <3> QED BY <2>1, <3>1 DEF Sent
  <2>3. payload.action = "launch-batch" /\ allAllowed(report) /\ did.plan = buildLaunchPlan(report, asked)
    <3> HIDE DEF payload, state
    <3> QED BY <2>0, <2>1, <2>2, PassedTheGate
  <2>4. IsList(asked)
    <3> HIDE DEF payload, state
    <3> QED BY <2>1, <2>2, <2>3, TasksAreAList
  <2>5. report = runGateCheck(asked, main, runningGroups(state.running))
    BY DEF Gate
  <2> HIDE DEF payload, did, state, asked, report, main
  <2>6. DOMAIN report = DOMAIN asked
    BY <2>5 DEF runGateCheck
  <2>7. /\ did.plan.rejectedTasks = << >> /\ DOMAIN tasks = DOMAIN asked
        /\ \A i \in DOMAIN asked :
             /\ tasks[i].conflictGroup = asked[i].conflictGroup
             /\ tasks[i].workerType = classifyWorkerType(asked[i])
             /\ tasks[i].sharedLocks = asked[i].sharedLocks
    BY <2>3, <2>4, <2>6, PlanOfAll
  <2>8. ASSUME NEW i \in DOMAIN asked
        PROVE  /\ Permitted(asked[i], main) /\ ~GroupTaken(asked, i) /\ ~LockTaken(asked, i)
               /\ asked[i].conflictGroup \notin runningGroups(state.running)
    <3>1. report[i] = "allowed"
      BY <2>3, <2>6 DEF allAllowed
    <3> QED BY <2>5, <3>1 DEF runGateCheck
  <2> HIDE DEF tasks
  <2>9. \A i \in DOMAIN tasks :
          /\ tasks[i].workerType \in PERMISSION_MATRIX[main]
          /\ tasks[i].conflictGroup \notin runningGroups(state.running)
    BY <2>7, <2>8 DEF Permitted
  <2>10. ASSUME NEW i \in DOMAIN tasks, NEW j \in DOMAIN tasks, i < j
         PROVE  /\ ToSet(tasks[i].sharedLocks) \cap ToSet(tasks[j].sharedLocks) = {}
                /\ tasks[i].conflictGroup = tasks[j].conflictGroup =>
                     \/ tasks[i].conflictGroup = NoGroup
                     \/ "docs" \in {tasks[i].workerType, tasks[j].workerType}
    <3>1. i \in DOMAIN asked /\ j \in DOMAIN asked /\ i \in 1 .. j - 1
      <4>1. DOMAIN asked = 1 .. Len(asked) /\ Len(asked) \in Nat
        BY <2>4 DEF IsList
      <4> QED BY <2>7, <2>10, <4>1
    <3>2. ToSet(asked[i].sharedLocks) \cap ToSet(asked[j].sharedLocks) = {}
      BY <2>8, <3>1 DEF LockTaken
    <3>3. asked[i].conflictGroup = asked[j].conflictGroup => ~Claims(asked[i]) \/ ~Claims(asked[j])
      BY <2>8, <3>1 DEF GroupTaken
    <3> QED BY <2>7, <3>1, <3>2, <3>3 DEF Claims
  <2> QED BY <2>7, <2>9, <2>10 DEF tasks, did, main, state
<1> QED BY <1>1, Invariance, PTL

-----------------------------------------------------------------------------
(***************************************************************************)
(* The plan plan-next-batch makes.                                         *)
(***************************************************************************)
Open(pool) == Kept(pool, {k \in DOMAIN pool : Headroom(pool[k]) > 0})
Queued(queue) == Kept(queue, {k \in DOMAIN queue : Has(queue[k], "state") /\ queue[k].state = "queued"})

Blank(providers) ==
  [plan |-> << >>, skipped |-> << >>, groups |-> {}, at |-> 1,
   left |-> IF providers = << >> THEN 0 ELSE Headroom(providers[1])]

(* The recursion of computeBatchPlan, as a relation.                       *)
Schedules(f, providers, entries) ==
  /\ f[0] = Blank(providers)
  /\ \A n \in 1 .. Len(entries) : f[n] = Considered(f[n - 1], providers, entries[n])

LEMMA PlanUnfold ==
  ASSUME NEW pool, NEW queue, Len(Queued(queue)) \in Nat
  PROVE  \E f : /\ Schedules(f, Open(pool), Queued(queue))
                /\ computeBatchPlan(pool, queue) = f[Len(Queued(queue))]
<1> DEFINE providers == Open(pool)
           entries == Queued(queue)
           Of(f, n) == IF n = 0 THEN Blank(providers)
                       ELSE Considered(f[n - 1], providers, entries[n])
           UpTo(f, m) == f = [n \in 0 .. m |-> Of(f, n)]
           U == {m \in Nat : \E f : UpTo(f, m)}
<1>0. computeBatchPlan(pool, queue) = (CHOOSE h : UpTo(h, Len(entries)))[Len(entries)]
  BY DEF computeBatchPlan, Open, Queued, Blank
<1> HIDE DEF providers, entries
<1>1. 0 \in U
  <2>1. UpTo([n \in 0 .. 0 |-> Blank(providers)], 0)
    OBVIOUS
  <2> QED BY <2>1
<1>2. ASSUME NEW m \in U PROVE m + 1 \in U
  <2>1. PICK f : UpTo(f, m)
    BY <1>2
  <2> DEFINE g == [n \in 0 .. m + 1 |-> IF n = m + 1 THEN Of(f, n) ELSE f[n]]
             h == [n \in 0 .. m + 1 |-> Of(g, n)]
  <2>2. ASSUME NEW n \in 0 .. m + 1 PROVE g[n] = h[n]
    <3>0. m \in Nat
      OBVIOUS
    <3>1. g[n] = Of(f, n)
      <4>1. CASE n = m + 1
        BY <4>1
      <4>2. CASE n \in 0 .. m
        <5>1. f[n] = Of(f, n)
          BY <2>1, <4>2
        <5> QED BY <3>0, <4>2, <5>1
      <4> QED BY <3>0, <4>1, <4>2
    <3>2. n # 0 => g[n - 1] = f[n - 1]
      BY <3>0
    <3>3. h[n] = Of(g, n)
      OBVIOUS
    <3> QED BY <3>1, <3>2, <3>3
  <2>3. g = h
    BY <2>2
  <2>4. UpTo(g, m + 1)
    BY <2>3
  <2> HIDE DEF UpTo
  <2> QED BY <2>4
<1>3. U = Nat
  <2> HIDE DEF U
  <2>1. U \in SUBSET Nat
    BY DEF U
  <2> QED BY <1>1, <1>2, <2>1, NatInd
<1>4. PICK g : UpTo(g, Len(entries))
  <2>1. Len(entries) \in U
    BY <1>3 DEF entries
  <2> QED BY <2>1
<1> DEFINE f == CHOOSE h : UpTo(h, Len(entries))
<1>6. UpTo(f, Len(entries))
  <2> HIDE DEF UpTo
  <2> QED BY <1>4
<1> HIDE DEF f
<1>7. Schedules(f, providers, entries)
  <2>0. Len(entries) \in Nat
    BY DEF entries
  <2>1. f[0] = Blank(providers)
    BY <1>6, <2>0
  <2>2. ASSUME NEW n \in 1 .. Len(entries)
        PROVE  f[n] = Considered(f[n - 1], providers, entries[n])
    <3>1. n \in 0 .. Len(entries) /\ n # 0
      BY <2>0
    <3>2. f[n] = Of(f, n)
      BY <1>6, <3>1
    <3> QED BY <3>1, <3>2
  <2> QED BY <2>1, <2>2 DEF Schedules
<1> QED BY <1>0, <1>7 DEF f, providers, entries

(* What one turn of the loop changes.                                      *)
Shape == {"plan", "skipped", "groups", "at", "left"}

Idle(so, providers, entry) == so.at > Len(providers) \/ entry.conflictGroup \in so.groups

LEMMA TurnIdle ==
  ASSUME NEW so, DOMAIN so = Shape, NEW providers, NEW entry, Idle(so, providers, entry),
         NEW next, next = Considered(so, providers, entry)
  PROVE  /\ DOMAIN next = Shape /\ next.plan = so.plan /\ next.groups = so.groups
         /\ next.at = so.at /\ next.left = so.left
<1>1. next = [so EXCEPT !.skipped = Append(so.skipped, entry.issue)]
  BY DEF Considered, Idle
<1> QED BY <1>1 DEF Shape

Places(next, so, providers, entry) ==
  /\ next.plan = Append(so.plan, [issue |-> entry.issue, provider |-> providers[so.at].id])
  /\ next.groups = so.groups \cup ({entry.conflictGroup} \ {NoGroup})
  /\ so.left # 1 => next.at = so.at /\ next.left = so.left - 1
  /\ so.left = 1 => next.at = so.at + 1
  /\ so.left = 1 /\ so.at < Len(providers) => next.left = Headroom(providers[so.at + 1])

LEMMA TurnPlaces ==
  ASSUME NEW so, DOMAIN so = Shape, NEW providers, NEW entry, ~Idle(so, providers, entry),
         NEW next, next = Considered(so, providers, entry)
  PROVE  DOMAIN next = Shape /\ Places(next, so, providers, entry)
<1> DEFINE item == [issue |-> entry.issue, provider |-> providers[so.at].id]
           more == so.groups \cup ({entry.conflictGroup} \ {NoGroup})
           at == IF so.left = 1 THEN so.at + 1 ELSE so.at
           left == IF so.left # 1 THEN so.left - 1
                   ELSE IF so.at < Len(providers) THEN Headroom(providers[so.at + 1]) ELSE 0
           plan == Append(so.plan, item)
<1>1. next = [so EXCEPT !.plan = plan, !.groups = more, !.at = at, !.left = left]
  BY DEF Considered, Idle, Placed, Shape
<1> HIDE DEF plan, more, at, left
<1>2. DOMAIN next = Shape /\ next.plan = plan /\ next.groups = more /\ next.at = at /\ next.left = left
  BY <1>1 DEF Shape
<1> QED BY <1>2 DEF plan, more, at, left, Places

(***************************************************************************)
(* The files the plan is made from.  Lent: the providers in use have room. *)
(***************************************************************************)
Lent(providers) ==
  /\ providers \in Seq(ToSet(providers))
  /\ \A k \in DOMAIN providers : Headroom(providers[k]) \in Nat \ {0}

(* The provider in use is one of them until the last is full, and it has   *)
(* room left.                                                              *)
Standing(so, providers) ==
  /\ DOMAIN so = Shape
  /\ so.at \in 1 .. Len(providers) + 1
  /\ so.at <= Len(providers) => so.left \in 1 .. Headroom(providers[so.at])

LEMMA StandingKept ==
  ASSUME NEW providers, Lent(providers), NEW so, Standing(so, providers), NEW entry
  PROVE  Standing(Considered(so, providers, entry), providers)
<1> DEFINE next == Considered(so, providers, entry)
<1>0. Len(providers) \in Nat /\ DOMAIN providers = 1 .. Len(providers) 
  BY DEF Lent
<1>4. DOMAIN so = Shape
  BY DEF Standing
<1>1. next = Considered(so, providers, entry)
  OBVIOUS
<1> HIDE DEF next
<1>2. CASE Idle(so, providers, entry)
  <2>1. DOMAIN next = Shape /\ next.at = so.at /\ next.left = so.left
    BY <1>1, <1>2, <1>4, TurnIdle
  <2> QED BY <2>1 DEF Standing, next
<1>3. CASE ~Idle(so, providers, entry)
  <2>9. Places(next, so, providers, entry)
    BY <1>1, <1>3, <1>4, TurnPlaces
  <2>1. /\ so.left # 1 => next.at = so.at /\ next.left = so.left - 1
        /\ so.left = 1 => next.at = so.at + 1
        /\ so.left = 1 /\ so.at < Len(providers) => next.left = Headroom(providers[so.at + 1])
    BY <2>9 DEF Places
  <2>0. DOMAIN next = Shape
    BY <1>1, <1>3, <1>4, TurnPlaces
  <2>2. so.at \in 1 .. Len(providers) /\ so.left \in 1 .. Headroom(providers[so.at])
    BY <1>0, <1>3 DEF Standing, Idle
  <2>3. Headroom(providers[so.at]) \in Nat
    BY <1>0, <2>2 DEF Lent
  <2>4. CASE so.left = 1
    <3>1. next.at = so.at + 1 /\ next.at \in 1 .. Len(providers) + 1
      BY <1>0, <2>1, <2>2, <2>4
    <3>2. ASSUME next.at <= Len(providers) PROVE next.left \in 1 .. Headroom(providers[next.at])
      <4>1. so.at < Len(providers) /\ so.at + 1 \in DOMAIN providers
        BY <1>0, <2>2, <3>1, <3>2
      <4>2. next.left = Headroom(providers[next.at])
        BY <2>1, <2>4, <3>1, <4>1
      <4>3. Headroom(providers[next.at]) \in Nat \ {0}
        BY <3>1, <4>1 DEF Lent
      <4> QED BY <4>2, <4>3
    <3> QED BY <2>0, <3>1, <3>2 DEF Standing, next
  <2>5. CASE so.left # 1
    <3>1. next.at = so.at /\ next.left = so.left - 1
      BY <2>1, <2>5
    <3>2. next.left \in 1 .. Headroom(providers[so.at])
      BY <2>2, <2>3, <2>5, <3>1
    <3> QED BY <1>0, <2>0, <2>2, <3>1, <3>2 DEF Standing, next
  <2> QED BY <2>4, <2>5
<1> QED BY <1>2, <1>3

LEMMA Stands ==
  ASSUME NEW providers, Lent(providers), NEW entries, Len(entries) \in Nat,
         NEW f, Schedules(f, providers, entries), NEW n \in 0 .. Len(entries)
  PROVE  Standing(f[n], providers)
<1> DEFINE U == {m \in Nat : m <= Len(entries) => Standing(f[m], providers)}
<1>1. 0 \in U
  <2>1. f[0] = Blank(providers)
    BY DEF Schedules
  <2>2. DOMAIN f[0] = Shape /\ f[0].at = 1
        /\ f[0].left = IF providers = << >> THEN 0 ELSE Headroom(providers[1])
    BY <2>1 DEF Blank, Shape
  <2>3. Len(providers) \in Nat /\ (1 <= Len(providers) => providers # << >> /\ 1 \in DOMAIN providers)
    BY DEF Lent
  <2>4. ASSUME 1 <= Len(providers) PROVE f[0].left \in 1 .. Headroom(providers[1])
    <3>1. Headroom(providers[1]) \in Nat \ {0}
      BY <2>3, <2>4 DEF Lent
    <3>2. f[0].left = Headroom(providers[1])
      BY <2>2, <2>3, <2>4
    <3> QED BY <3>1, <3>2
  <2>5. 1 \in 1 .. Len(providers) + 1
    BY <2>3
  <2>6. Standing(f[0], providers)
    BY <2>2, <2>4, <2>5 DEF Standing
  <2> QED BY <2>6
<1>2. ASSUME NEW m \in U PROVE m + 1 \in U
  <2> SUFFICES ASSUME m + 1 <= Len(entries) PROVE Standing(f[m + 1], providers)
    OBVIOUS
  <2>1. m + 1 \in 1 .. Len(entries) /\ (m + 1) - 1 = m /\ Standing(f[m], providers)
    OBVIOUS
  <2>2. f[m + 1] = Considered(f[m], providers, entries[m + 1])
    BY <2>1 DEF Schedules
  <2> QED BY <2>1, <2>2, StandingKept
<1>3. U = Nat
  <2> HIDE DEF U
  <2>1. U \in SUBSET Nat
    BY DEF U
  <2> QED BY <1>1, <1>2, <2>1, NatInd
<1> QED BY <1>3

(* A plan gives issues of the entries to providers in use; with room and   *)
(* an entry it is not empty.                                               *)
Items(providers, entries) ==
  [issue : {entries[m].issue : m \in DOMAIN entries},
   provider : {providers[k].id : k \in DOMAIN providers}]

LEMMA PlanItems ==
  ASSUME NEW providers, Lent(providers), NEW E, NEW entries \in Seq(E),
         NEW f, Schedules(f, providers, entries), NEW n \in 0 .. Len(entries)
  PROVE  /\ f[n].plan \in Seq(Items(providers, entries))
         /\ n > 0 /\ providers # << >> => f[n].plan # << >>
<1> DEFINE I == Items(providers, entries)
           Good(m) == /\ f[m].plan \in Seq(I)
                      /\ m > 0 /\ providers # << >> => Len(f[m].plan) > 0
           U == {m \in Nat : m <= Len(entries) => Good(m)}
<1>0. /\ Len(providers) \in Nat /\ DOMAIN providers = 1 .. Len(providers)
      /\ providers # << >> => 1 <= Len(providers)
  BY DEF Lent
<1>1. 0 \in U
  <2>1. f[0].plan = << >> /\ << >> \in Seq(I)
    BY DEF Schedules, Blank
  <2>2. f[0].plan \in Seq(I)
    BY <2>1
  <2> QED BY <2>2
<1>2. ASSUME NEW m \in U PROVE m + 1 \in U
  <2> SUFFICES ASSUME m + 1 <= Len(entries) PROVE Good(m + 1)
    OBVIOUS
  <2>1. m + 1 \in 1 .. Len(entries) /\ (m + 1) - 1 = m /\ m \in 0 .. Len(entries) /\ m \in Nat /\ Good(m)
    OBVIOUS
  <2> HIDE DEF Good, U
  <2> DEFINE so == f[m]
             next == f[m + 1]
             entry == entries[m + 1]
  <2>2. next = Considered(so, providers, entry)
    BY <2>1 DEF Schedules
  <2>3. Standing(so, providers)
    BY <2>1, Stands
  <2>4. DOMAIN so = Shape
    BY <2>3 DEF Standing
  <2>5. so.plan \in Seq(I) /\ (m > 0 /\ providers # << >> => Len(so.plan) > 0)
    BY <2>1 DEF Good
  <2>6. m = 0 => so = Blank(providers)
    BY DEF Schedules
  <2> HIDE DEF so, next, I
  <2>7. CASE Idle(so, providers, entry)
    <3>1. next.plan = so.plan
      BY <2>2, <2>4, <2>7, TurnIdle
    <3>2. m = 0 => providers = << >>
      <4> SUFFICES ASSUME m = 0, providers # << >> PROVE FALSE
        OBVIOUS
      <4>1. so.at = 1 /\ so.groups = {}
        BY <2>6 DEF Blank
      <4> QED BY <1>0, <2>7, <4>1 DEF Idle
    <3>3. m # 0 => m > 0
      BY <2>1
    <3>4. next.plan \in Seq(I) /\ (providers # << >> => Len(next.plan) > 0)
      BY <2>5, <3>1, <3>2, <3>3
    <3> QED BY <3>4 DEF Good, next, I
  <2>8. CASE ~Idle(so, providers, entry)
    <3> DEFINE item == [issue |-> entry.issue, provider |-> providers[so.at].id]
    <3>1. next.plan = Append(so.plan, item)
      <4>1. Places(next, so, providers, entry)
        BY <2>2, <2>4, <2>8, TurnPlaces
      <4> QED BY <4>1 DEF Places
    <3>2. so.at \in DOMAIN providers /\ m + 1 \in DOMAIN entries
      BY <1>0, <2>1, <2>3, <2>8 DEF Standing, Idle
    <3>3. item \in I
      BY <3>2 DEF I, Items
    <3> HIDE DEF item
    <3>4. next.plan \in Seq(I) /\ Len(next.plan) > 0
      BY <2>5, <3>1, <3>3
    <3> QED BY <3>4 DEF Good, next, I
  <2> QED BY <2>7, <2>8
<1>3. U = Nat
  <2> HIDE DEF U
  <2>1. U \in SUBSET Nat
    BY DEF U
  <2> QED BY <1>1, <1>2, <2>1, NatInd
<1>4. Good(n)
  BY <1>3
<1> QED BY <1>4

(* What is kept stands in the order of the list, and nothing else is left  *)
(* out: pos tells where each of it was.                                    *)
Ranked(out, s, keep, m, pos) ==
  /\ \A i \in DOMAIN out : pos[i] \in 1 .. m /\ pos[i] \in keep /\ out[i] = s[pos[i]]
  /\ \A i, j \in DOMAIN out : i < j => pos[i] < pos[j]
  /\ \A k \in 1 .. m : k \in keep => \E i \in DOMAIN out : pos[i] = k

LEMMA KeptRanked ==
  ASSUME NEW S, NEW s \in Seq(S), NEW keep
  PROVE  \E pos : Ranked(Kept(s, keep), s, keep, Len(s), pos)
<1>1. PICK f : Keeps(f, s, keep) /\ Kept(s, keep) = f[Len(s)]
  BY KeptUnfold
<1> DEFINE Good(n) == f[n] \in Seq(S) /\ \E pos : Ranked(f[n], s, keep, n, pos)
           U == {n \in Nat : n <= Len(s) => Good(n)}
<1>2. 0 \in U
  <2>1. f[0] = << >> /\ << >> \in Seq(S) /\ DOMAIN << >> = {} /\ 1 .. 0 = {}
    BY <1>1 DEF Keeps
  <2>2. Ranked(f[0], s, keep, 0, << >>)
    BY <2>1 DEF Ranked
  <2> HIDE DEF Ranked
  <2> QED BY <2>1, <2>2
<1>3. ASSUME NEW n \in U PROVE n + 1 \in U
  <2> SUFFICES ASSUME n + 1 <= Len(s) PROVE Good(n + 1)
    OBVIOUS
  <2>1. n + 1 \in 1 .. Len(s) /\ (n + 1) - 1 = n /\ n \in Nat /\ s[n + 1] \in S /\ Good(n)
    OBVIOUS
  <2> HIDE DEF U
  <2>2. f[n + 1] = IF n + 1 \in keep THEN Append(f[n], s[n + 1]) ELSE f[n]
    BY <1>1, <2>1 DEF Keeps
  <2>3. PICK pos : Ranked(f[n], s, keep, n, pos)
    BY <2>1
  <2>4. CASE n + 1 \notin keep
    <3>1. \A i \in DOMAIN f[n] : pos[i] \in 1 .. n + 1 /\ pos[i] \in keep /\ f[n][i] = s[pos[i]]
      BY <2>1, <2>3 DEF Ranked
    <3>2. \A k \in 1 .. n + 1 : k \in keep => k \in 1 .. n
      BY <2>1, <2>4
    <3>3. Ranked(f[n], s, keep, n + 1, pos)
      BY <2>3, <3>1, <3>2 DEF Ranked
    <3> HIDE DEF Ranked
    <3> QED BY <2>1, <2>2, <2>4, <3>3
  <2>5. CASE n + 1 \in keep
    <3> DEFINE out == f[n]
               more == Append(out, s[n + 1])
               last == Len(out) + 1
               far == [i \in 1 .. last |-> IF i = last THEN n + 1 ELSE pos[i]]
    <3>1. out \in Seq(S) /\ Len(out) \in Nat /\ DOMAIN out = 1 .. Len(out)
      BY <2>1
    <3>2. /\ more \in Seq(S) /\ DOMAIN more = 1 .. last /\ more[last] = s[n + 1]
          /\ \A i \in 1 .. Len(out) : more[i] = out[i]
      BY <2>1, <3>1
    <3>3. far[last] = n + 1 /\ \A i \in 1 .. Len(out) : far[i] = pos[i]
      BY <3>1
    <3> HIDE DEF out, more, far
    <3>4. ASSUME NEW i \in 1 .. last
          PROVE  far[i] \in 1 .. n + 1 /\ far[i] \in keep /\ more[i] = s[far[i]]
      <4>1. CASE i = last
        BY <2>1, <2>5, <3>2, <3>3, <4>1
      <4>2. CASE i # last
        <5>1. i \in 1 .. Len(out)
          BY <3>1, <4>2
        <5>2. pos[i] \in 1 .. n /\ pos[i] \in keep /\ out[i] = s[pos[i]]
          BY <2>3, <3>1, <5>1 DEF Ranked, out
        <5> QED BY <2>1, <3>2, <3>3, <5>1, <5>2
      <4> QED BY <4>1, <4>2
    <3>5. ASSUME NEW i \in 1 .. last, NEW j \in 1 .. last, i < j PROVE far[i] < far[j]
      <4>1. i \in 1 .. Len(out) /\ pos[i] \in 1 .. n
        <5>1. i \in 1 .. Len(out)
          BY <3>1, <3>5
        <5> QED BY <2>3, <3>1, <5>1 DEF Ranked, out
      <4>2. CASE j = last
        BY <2>1, <3>3, <4>1, <4>2
      <4>3. CASE j # last
        <5>1. j \in 1 .. Len(out)
          BY <3>1, <4>3
        <5>2. pos[i] < pos[j]
          BY <2>3, <3>1, <3>5, <4>1, <5>1 DEF Ranked, out
        <5> QED BY <3>3, <4>1, <5>1, <5>2
      <4> QED BY <4>2, <4>3
    <3>6. ASSUME NEW k \in 1 .. n + 1, k \in keep PROVE \E i \in 1 .. last : far[i] = k
      <4>1. CASE k = n + 1
        <5>1. last \in 1 .. last
          BY <3>1
        <5> QED BY <3>3, <4>1, <5>1
      <4>2. CASE k # n + 1
        <5>1. k \in 1 .. n
          BY <2>1, <4>2
        <5>2. PICK i \in DOMAIN out : pos[i] = k
          BY <2>3, <3>6, <5>1 DEF Ranked, out
        <5>3. i \in 1 .. Len(out) /\ i \in 1 .. last
          BY <3>1
        <5> QED BY <3>3, <5>2, <5>3
      <4> QED BY <4>1, <4>2
    <3>7. Ranked(more, s, keep, n + 1, far)
      BY <3>2, <3>4, <3>5, <3>6 DEF Ranked
    <3>8. f[n + 1] = more
      BY <2>2, <2>5 DEF more, out
    <3> HIDE DEF Ranked
    <3> QED BY <3>2, <3>7, <3>8
  <2> QED BY <2>4, <2>5
<1>4. U = Nat
  <2> HIDE DEF U
  <2>1. U \in SUBSET Nat
    BY DEF U
  <2> QED BY <1>2, <1>3, <2>1, NatInd
<1>5. Good(Len(s))
  BY <1>4
<1> QED BY <1>1, <1>5

(* What is read off the files is what the loop takes for granted.          *)
LEMMA FilesRead ==
  ASSUME NEW state \in State
  PROVE  /\ Lent(Open(state.pool))
         /\ Queued(state.queue) \in Seq(ToSet(state.queue))
         /\ state.pool \in Seq(ToSet(state.pool)) /\ state.queue \in Seq(ToSet(state.queue))
         /\ \A k \in DOMAIN state.pool : Headroom(state.pool[k]) \in Nat
<1> DEFINE pool == state.pool
           queue == state.queue
           providers == Open(pool)
<1>1. pool \in Seq(ToSet(pool)) /\ queue \in Seq(ToSet(queue))
  BY FilesAssumption DEF IsList
<1>2. Queued(queue) \in Seq(ToSet(queue))
  BY <1>1, KeptList DEF Queued
<1>3. ASSUME NEW k \in DOMAIN pool PROVE Headroom(pool[k]) \in Nat
  <2>1. pool[k] \in ToSet(pool)
    BY DEF ToSet
  <2>2. pool[k].cur \in Int /\ (Has(pool[k], "max") => pool[k].max \in Int)
    BY <2>1, FilesAssumption
  <2> QED BY <2>2 DEF Headroom, AtLeast
<1> DEFINE keep == {k \in DOMAIN pool : Headroom(pool[k]) > 0}
<1>4. PICK pos : Ranked(providers, pool, keep, Len(pool), pos)
  BY <1>1, KeptRanked DEF Open
<1>5. ASSUME NEW i \in DOMAIN providers PROVE Headroom(providers[i]) \in Nat \ {0}
  <2>1. pos[i] \in keep /\ providers[i] = pool[pos[i]]
    BY <1>4 DEF Ranked
  <2>2. pos[i] \in DOMAIN pool /\ Headroom(pool[pos[i]]) > 0 /\ Headroom(pool[pos[i]]) \in Nat
    BY <1>3, <2>1
  <2> QED BY <2>1, <2>2
<1>6. providers \in Seq(ToSet(pool))
  BY <1>1, KeptList DEF Open
<1> HIDE DEF providers
<1>7. providers \in Seq(ToSet(providers))
  BY <1>6 DEF ToSet
<1>8. Lent(providers)
  BY <1>5, <1>7 DEF Lent
<1> QED BY <1>1, <1>2, <1>3, <1>8 DEF providers

(* Whatever the files say, limits that are missing included: what is       *)
(* planned was called ready, and what was called ready is planned unless a *)
(* provider has no limit.                                                  *)
THEOREM AlikeButForLimits == Spec => []JudgedAlike
<1>1. ConsoleInv => JudgedAlike
  <2> SUFFICES ASSUME ConsoleInv
               PROVE  LET plan == computeBatchPlan(files.pool, files.queue).plan
                      IN /\ plan # << >> => evaluateProviderPool(files.pool) /\ evaluateQueue(files.queue)
                         /\ plan = << >> /\ pipelineReady(files.main, files.pool, files.queue) =>
                              \E k \in DOMAIN files.pool : Endless(files.pool[k])
    BY DEF JudgedAlike
  <2> DEFINE pool == files.pool
             queue == files.queue
             providers == Open(pool)
             entries == Queued(queue)
             plan == computeBatchPlan(pool, queue).plan
             free == {k \in DOMAIN pool : Headroom(pool[k]) > 0}
             wanted == {k \in DOMAIN queue : Has(queue[k], "state") /\ queue[k].state = "queued"}
  <2>1. /\ \A k \in DOMAIN pool : pool[k].cur \in Int /\ (Has(pool[k], "max") => pool[k].max \in Int)
        /\ \A k \in DOMAIN queue : Has(queue[k], "state")
    <3>1. files \in State
      BY DEF ConsoleInv, ServerInv, CallsTyped
    <3> QED BY <3>1, FilesAssumption DEF ToSet, Has
  <2>2. /\ Lent(providers) /\ entries \in Seq(ToSet(queue))
        /\ pool \in Seq(ToSet(pool)) /\ queue \in Seq(ToSet(queue))
    BY FilesRead DEF ConsoleInv, ServerInv, CallsTyped
  <2>3. Len(entries) \in Nat /\ DOMAIN entries = 1 .. Len(entries)
    BY <2>2
  <2>4. PICK f : Schedules(f, providers, entries) /\ computeBatchPlan(pool, queue) = f[Len(entries)]
    BY <2>3, PlanUnfold
  <2>5. plan = f[Len(entries)].plan /\ Len(entries) \in 0 .. Len(entries)
    BY <2>3, <2>4
  <2>6. providers = Kept(pool, free) /\ entries = Kept(queue, wanted)
    BY DEF Open, Queued
  <2> HIDE DEF pool, queue, providers, entries, plan, free, wanted
  <2>7. /\ plan \in Seq(Items(providers, entries))
        /\ Len(entries) > 0 /\ providers # << >> => plan # << >>
    BY <2>2, <2>4, <2>5, PlanItems
  <2>8. ASSUME plan # << >> PROVE evaluateProviderPool(pool) /\ evaluateQueue(queue)
    <3>1. PICK i \in DOMAIN providers, m \in DOMAIN entries : TRUE
      <4>1. 1 \in DOMAIN plan
        BY <2>7, <2>8
      <4>2. plan[1] \in Items(providers, entries)
        BY <2>7, <4>1
      <4> QED BY <4>2 DEF Items
    <3>2. PICK pos : Ranked(providers, pool, free, Len(pool), pos)
      BY <2>2, <2>6, KeptRanked
    <3>3. pos[i] \in DOMAIN pool /\ Headroom(pool[pos[i]]) > 0
      BY <3>1, <3>2 DEF Ranked, free
    <3>4. Available(pool[pos[i]]) /\ ~(Has(pool[pos[i]], "max") /\ pool[pos[i]].cur >= pool[pos[i]].max)
      BY <2>1, <3>3 DEF Headroom, AtLeast
    <3>5. evaluateProviderPool(pool)
      BY <3>3, <3>4 DEF evaluateProviderPool
    <3>6. PICK was : Ranked(entries, queue, wanted, Len(queue), was)
      BY <2>2, <2>6, KeptRanked
    <3>7. was[m] \in DOMAIN queue /\ queue[was[m]].state = "queued"
      BY <3>1, <3>6 DEF Ranked, wanted
    <3> QED BY <3>5, <3>7 DEF evaluateQueue
  <2>9. ASSUME plan = << >>, evaluateProviderPool(pool), evaluateQueue(queue)
        PROVE  \E k \in DOMAIN pool : Endless(pool[k])
    <3>1. PICK k \in DOMAIN pool :
            Available(pool[k]) /\ ~(Has(pool[k], "max") /\ pool[k].cur >= pool[k].max)
      BY <2>9 DEF evaluateProviderPool
    <3>2. CASE ~Has(pool[k], "max")
      BY <3>1, <3>2 DEF Endless
    <3>3. CASE Has(pool[k], "max")
      <4>1. Headroom(pool[k]) > 0
        BY <2>1, <3>1, <3>3 DEF Headroom, AtLeast
      <4>2. providers # << >>
        BY <2>2, <2>6, <4>1, KeptSome DEF free
      <4>3. PICK n \in DOMAIN queue : queue[n].state = "queued"
        BY <2>9 DEF evaluateQueue
      <4>4. entries # << >>
        BY <2>1, <2>2, <2>6, <4>3, KeptSome DEF wanted
      <4>5. Len(entries) > 0
        BY <2>2, <4>4
      <4> QED BY <2>7, <2>9, <4>2, <4>5
    <3> QED BY <3>2, <3>3
  <2> QED BY <2>8, <2>9 DEF plan, pool, queue, pipelineReady
<1> QED BY <1>1, Invariance, PTL

-----------------------------------------------------------------------------
(***************************************************************************)
(* The capacity of a pool is what adding up its providers in order comes   *)
(* to: FoldLeft adds up a set of positions by their greatest.              *)
(***************************************************************************)
LEMMA Greatest ==
  ASSUME NEW m \in Nat, NEW T \in SUBSET (1 .. m), T # {}
  PROVE  /\ Max(T) \in T
         /\ \A y \in T : y <= Max(T)
<1> DEFINE R == {m - x : x \in T}
<1>1. R \in SUBSET Nat /\ R # {}
  <2>1. ASSUME NEW x \in T PROVE m - x \in Nat
    <3>1. x \in 1 .. m
      OBVIOUS
    <3>2. x \in Nat /\ x <= m
      BY <3>1
    <3> QED BY <3>2
  <2>2. PICK x : x \in T
    OBVIOUS
  <2>3. m - x \in R
    BY <2>2
  <2>4. \A r \in R : r \in Nat
    BY <2>1
  <2> HIDE DEF R
  <2> QED BY <2>3, <2>4
<1> HIDE DEF R
<1>2. PICK r \in R : \A y \in R : r <= y
  BY <1>1, NatLeast
<1>3. PICK x \in T : r = m - x
  BY <1>2 DEF R
<1>4. ASSUME NEW y \in T PROVE x >= y
  <2>1. m - y \in R
    BY DEF R
  <2>2. x \in 1 .. m /\ y \in 1 .. m /\ r <= m - y
    BY <1>2, <2>1
  <2> QED BY <1>3, <2>2
<1>5. \E g \in T : \A y \in T : g >= y
  BY <1>4
<1>6. Max(T) \in T /\ \A y \in T : Max(T) >= y
  BY <1>5 DEF Max
<1> QED BY <1>6

Counts(pool, f) ==
  f = [s \in SUBSET DOMAIN pool |->
         IF s = {} THEN 0 ELSE f[s \ {Max(s)}] + Headroom(pool[Max(s)])]

LEMMA CountExists ==
  ASSUME NEW S, NEW pool \in Seq(S)
  PROVE  \E f : Counts(pool, f)
<1> DEFINE D == DOMAIN pool
           Of(f, s) == IF s = {} THEN 0 ELSE f[s \ {Max(s)}] + Headroom(pool[Max(s)])
           UpTo(f, n) == \A s \in SUBSET D : Cardinality(s) <= n => f[s] = Of(f, s)
           U == {n \in Nat : \E f : f = [s \in SUBSET D |-> f[s]] /\ UpTo(f, n)}
<1>0. IsFiniteSet(D) /\ D = 1 .. Len(pool) /\ Len(pool) \in Nat
  BY FS_Interval
<1>1. ASSUME NEW s \in SUBSET D
      PROVE  /\ IsFiniteSet(s) /\ Cardinality(s) \in Nat /\ (Cardinality(s) = 0 <=> s = {})
             /\ s # {} => s \ {Max(s)} \in SUBSET D /\ Cardinality(s \ {Max(s)}) = Cardinality(s) - 1
  <2>1. IsFiniteSet(s)
    BY <1>0, FS_Subset
  <2>2. s # {} => Max(s) \in s
    BY <1>0, Greatest
  <2> QED BY <2>1, <2>2, FS_RemoveElement, FS_CardinalityType, FS_EmptySet
<1> HIDE DEF D
<1>2. 0 \in U
  <2> DEFINE f == [s \in SUBSET D |-> 0]
  <2>1. UpTo(f, 0)
    <3> SUFFICES ASSUME NEW s \in SUBSET D, Cardinality(s) <= 0 PROVE f[s] = Of(f, s)
      OBVIOUS
    <3>1. Cardinality(s) \in Nat /\ Cardinality(s) <= 0
      BY <1>1
    <3>2. Cardinality(s) = 0
      BY <3>1
    <3>3. s = {}
      BY <1>1, <3>2
    <3> QED BY <3>3
  <2> QED BY <2>1
<1>3. ASSUME NEW n \in U PROVE n + 1 \in U
  <2>1. PICK f : f = [s \in SUBSET D |-> f[s]] /\ UpTo(f, n)
    BY <1>3
  <2> DEFINE g == [s \in SUBSET D |-> IF Cardinality(s) <= n THEN f[s] ELSE Of(f, s)]
  <2>2. n \in Nat
    OBVIOUS
  <2>3. UpTo(g, n + 1)
    <3> SUFFICES ASSUME NEW s \in SUBSET D, Cardinality(s) <= n + 1 PROVE g[s] = Of(g, s)
      OBVIOUS
    <3>1. g[s] = Of(f, s)
      BY <2>1
    <3>2. CASE s = {}
      BY <3>1, <3>2
    <3>3. CASE s # {}
      <4> DEFINE r == s \ {Max(s)}
      <4>1. r \in SUBSET D /\ Cardinality(r) <= n
        <5>1. r \in SUBSET D /\ Cardinality(r) = Cardinality(s) - 1 /\ Cardinality(s) \in Nat
          BY <1>1, <3>3
        <5> QED BY <2>2, <5>1
      <4>2. g[r] = f[r]
        BY <4>1
      <4> QED BY <3>1, <3>3, <4>2
    <3> QED BY <3>2, <3>3
  <2>4. g = [s \in SUBSET D |-> g[s]]
    OBVIOUS
  <2> HIDE DEF g, UpTo
  <2> QED BY <2>2, <2>3, <2>4
<1>4. U = Nat
  <2> HIDE DEF U
  <2>1. U \in SUBSET Nat
    BY DEF U
  <2> QED BY <1>2, <1>3, <2>1, NatInd
<1>5. Cardinality(D) \in Nat
  BY <1>0, FS_CardinalityType DEF D
<1>6. PICK f : f = [s \in SUBSET D |-> f[s]] /\ UpTo(f, Cardinality(D))
  BY <1>4, <1>5
<1>7. ASSUME NEW s \in SUBSET D PROVE Cardinality(s) <= Cardinality(D)
  BY <1>0, FS_Subset DEF D
<1>8. f = [s \in SUBSET D |-> Of(f, s)]
  BY <1>6, <1>7
<1>9. Counts(pool, f)
  BY <1>8 DEF Counts, D
<1> QED BY <1>9

(* sum[j] is what the first j providers of the pool can take.              *)
Sums(sum, pool) ==
  /\ sum[0] = 0
  /\ \A j \in 1 .. Len(pool) : sum[j] = sum[j - 1] + Headroom(pool[j])

LEMMA CapacityIsSum ==
  ASSUME NEW S, NEW pool \in Seq(S)
  PROVE  \E sum : Sums(sum, pool) /\ TotalHeadroom(pool) = sum[Len(pool)]
<1> DEFINE f == CHOOSE g : Counts(pool, g)
           sum == [j \in 0 .. Len(pool) |-> f[1 .. j]]
<1>0. Len(pool) \in Nat /\ DOMAIN pool = 1 .. Len(pool)
  OBVIOUS
<1>1. Counts(pool, f)
  BY CountExists
<1>2. TotalHeadroom(pool) = f[DOMAIN pool]
  BY DEF TotalHeadroom, FoldLeft, MapThenFoldSet, Counts
<1> HIDE DEF f
<1>3. sum[0] = 0
  <2>1. 1 .. 0 = {} /\ {} \in SUBSET DOMAIN pool
    OBVIOUS
  <2> QED BY <1>0, <1>1, <2>1 DEF Counts
<1>4. ASSUME NEW j \in 1 .. Len(pool) PROVE sum[j] = sum[j - 1] + Headroom(pool[j])
  <2>1. 1 .. j \in SUBSET DOMAIN pool /\ 1 .. j # {} /\ j \in Nat /\ j - 1 \in 0 .. Len(pool) /\ j \in 0 .. Len(pool)
    <3>1. j \in Nat /\ 1 <= j /\ j <= Len(pool)
      BY <1>0
    <3>2. j \in 1 .. j /\ \A i \in 1 .. j : i \in 1 .. Len(pool)
      BY <1>0, <3>1
    <3>3. 1 .. j \in SUBSET DOMAIN pool /\ 1 .. j # {}
      BY <1>0, <3>2
    <3>4. j - 1 \in 0 .. Len(pool) /\ j \in 0 .. Len(pool)
      BY <1>0, <3>1
    <3> QED BY <3>1, <3>3, <3>4
  <2>2. Max(1 .. j) \in 1 .. j /\ \A y \in 1 .. j : y <= Max(1 .. j)
    BY <2>1, Greatest
  <2>3. Max(1 .. j) = j
    <3>1. j \in 1 .. j
      BY <2>1
    <3> QED BY <2>1, <2>2, <3>1
  <2>4. (1 .. j) \ {j} = 1 .. (j - 1)
    BY <2>1
  <2>5. f[1 .. j] = f[(1 .. j) \ {Max(1 .. j)}] + Headroom(pool[Max(1 .. j)])
    BY <1>1, <2>1 DEF Counts
  <2>6. f[1 .. j] = f[1 .. (j - 1)] + Headroom(pool[j])
    BY <2>3, <2>4, <2>5
  <2>7. sum[j] = f[1 .. j] /\ sum[j - 1] = f[1 .. (j - 1)]
    BY <2>1
  <2> QED BY <2>6, <2>7
<1>5. TotalHeadroom(pool) = sum[Len(pool)]
  BY <1>0, <1>2
<1> HIDE DEF sum
<1> QED BY <1>3, <1>4, <1>5 DEF Sums

LEMMA SumsNat ==
  ASSUME NEW S, NEW pool \in Seq(S), \A k \in DOMAIN pool : Headroom(pool[k]) \in Nat,
         NEW sum, Sums(sum, pool), NEW n \in 0 .. Len(pool)
  PROVE  sum[n] \in Nat
<1> DEFINE U == {m \in Nat : m <= Len(pool) => sum[m] \in Nat}
<1>1. 0 \in U
  BY DEF Sums
<1>2. ASSUME NEW m \in U PROVE m + 1 \in U
  <2> SUFFICES ASSUME m + 1 <= Len(pool) PROVE sum[m + 1] \in Nat
    OBVIOUS
  <2>1. m + 1 \in 1 .. Len(pool) /\ (m + 1) - 1 = m /\ sum[m] \in Nat
    OBVIOUS
  <2>2. sum[m + 1] = sum[m] + Headroom(pool[m + 1]) /\ Headroom(pool[m + 1]) \in Nat
    BY <2>1 DEF Sums
  <2> QED BY <2>1, <2>2
<1>3. U = Nat
  <2> HIDE DEF U
  <2>1. U \in SUBSET Nat
    BY DEF U
  <2> QED BY <1>1, <1>2, <2>1, NatInd
<1> QED BY <1>3

(* Providers that can take nothing add nothing.                            *)
LEMMA SumsFlat ==
  ASSUME NEW S, NEW pool \in Seq(S), \A k \in DOMAIN pool : Headroom(pool[k]) \in Nat,
         NEW sum, Sums(sum, pool), NEW a \in 0 .. Len(pool), NEW b \in a .. Len(pool),
         \A j \in a + 1 .. b : ~(Headroom(pool[j]) > 0)
  PROVE  sum[b] = sum[a]
<1> DEFINE U == {m \in Nat : a + m <= b => sum[a + m] = sum[a]}
<1>0. a \in Nat /\ b \in Nat /\ a <= b /\ b <= Len(pool) /\ Len(pool) \in Nat
  OBVIOUS
<1>1. 0 \in U
  BY <1>0
<1>2. ASSUME NEW m \in U PROVE m + 1 \in U
  <2> SUFFICES ASSUME a + (m + 1) <= b PROVE sum[a + (m + 1)] = sum[a]
    OBVIOUS
  <2>0. m \in Nat
    OBVIOUS
  <2> DEFINE j == a + (m + 1)
  <2>1. j \in 1 .. Len(pool) /\ j \in a + 1 .. b /\ j - 1 = a + m /\ a + m <= b /\ a + m \in 0 .. Len(pool)
    BY <1>0, <2>0
  <2>2. sum[a + m] = sum[a]
    BY <2>1
  <2> HIDE DEF j
  <2>3. sum[j] = sum[a + m] + Headroom(pool[j])
    BY <2>1 DEF Sums
  <2>4. Headroom(pool[j]) = 0
    <3>1. Headroom(pool[j]) \in Nat /\ ~(Headroom(pool[j]) > 0)
      BY <2>1
    <3> QED BY <3>1
  <2>5. sum[a + m] \in Nat
    BY <2>1, SumsNat
  <2> QED BY <2>2, <2>3, <2>4, <2>5 DEF j
<1>3. U = Nat
  <2> HIDE DEF U
  <2>1. U \in SUBSET Nat
    BY DEF U
  <2> QED BY <1>1, <1>2, <2>1, NatInd
<1>4. b - a \in Nat /\ a + (b - a) = b
  BY <1>0
<1>5. b - a \in U
  <2> HIDE DEF U
  <2> QED BY <1>3, <1>4
<1> QED BY <1>4, <1>5

(* The providers with room can take what the pool can.                     *)
LEMMA OpenSum ==
  ASSUME NEW state \in State
  PROVE  \E sum : /\ Sums(sum, Open(state.pool))
                  /\ sum[Len(Open(state.pool))] = TotalHeadroom(state.pool)
<1> DEFINE pool == state.pool
           providers == Open(pool)
           keep == {k \in DOMAIN pool : Headroom(pool[k]) > 0}
<1>1. /\ pool \in Seq(ToSet(pool)) /\ \A k \in DOMAIN pool : Headroom(pool[k]) \in Nat
      /\ providers \in Seq(ToSet(providers))
  BY FilesRead DEF Lent
<1>2. PICK pos : Ranked(providers, pool, keep, Len(pool), pos)
  BY <1>1, KeptRanked DEF Open
<1>3. PICK all : Sums(all, pool) /\ TotalHeadroom(pool) = all[Len(pool)]
  BY <1>1, CapacityIsSum
<1> HIDE DEF providers, pool
<1> DEFINE last == Len(providers)
           place == [k \in 0 .. last |-> IF k = 0 THEN 0 ELSE pos[k]]
           sum == [k \in 0 .. last |-> all[place[k]]]
<1>4. /\ last \in Nat /\ DOMAIN providers = 1 .. last
      /\ Len(pool) \in Nat /\ DOMAIN pool = 1 .. Len(pool)
  BY <1>1
<1>5. ASSUME NEW k \in 1 .. last
      PROVE  pos[k] \in 1 .. Len(pool) /\ pos[k] \in keep /\ providers[k] = pool[pos[k]]
  BY <1>2, <1>4 DEF Ranked
<1>6. /\ place[0] = 0 /\ \A k \in 1 .. last : place[k] = pos[k]
      /\ sum[0] = all[0] /\ \A k \in 1 .. last : sum[k] = all[pos[k]]
  BY <1>4
<1> HIDE DEF place, sum
<1>7. ASSUME NEW k \in 0 .. last, NEW j \in 1 .. Len(pool), place[k] < j, Headroom(pool[j]) > 0
      PROVE  \E i \in 1 .. last : i > k /\ pos[i] = j
  <2>1. PICK i \in 1 .. last : pos[i] = j
    BY <1>2, <1>4, <1>7 DEF Ranked
  <2>2. ASSUME ~(i > k) PROVE FALSE
    <3>1. k \in 1 .. last /\ i <= k
      BY <1>4, <2>2
    <3>2. i < k => pos[i] < pos[k]
      BY <1>2, <1>4, <3>1 DEF Ranked
    <3>3. pos[k] < j /\ pos[k] \in 1 .. Len(pool)
      BY <1>5, <1>6, <1>7, <3>1
    <3>4. i = k \/ i < k
      BY <3>1
    <3> QED BY <2>1, <3>2, <3>3, <3>4
  <2> QED BY <2>1, <2>2
<1>8. all[0] = 0
  BY <1>3 DEF Sums
<1>9. ASSUME NEW k \in 1 .. last PROVE sum[k] = sum[k - 1] + Headroom(providers[k])
  <2>0. k \in Nat /\ k - 1 \in 0 .. last /\ k \in 0 .. last
    BY <1>4
  <2> DEFINE a == place[k - 1]
             b == pos[k] - 1
  <2>1. a \in 0 .. Len(pool) /\ a < pos[k]
    <3>1. CASE k = 1
      BY <1>4, <1>5, <1>6, <3>1
    <3>2. CASE k # 1
      <4>1. k - 1 \in 1 .. last /\ k - 1 < k
        BY <2>0, <3>2
      <4>2. pos[k - 1] < pos[k]
        BY <1>2, <1>4, <4>1 DEF Ranked
      <4> QED BY <1>4, <1>5, <1>6, <4>1, <4>2
    <3> QED BY <3>1, <3>2
  <2>2. b \in a .. Len(pool) /\ b + 1 = pos[k]
    BY <1>4, <1>5, <2>1
  <2>3. ASSUME NEW j \in a + 1 .. b PROVE ~(Headroom(pool[j]) > 0)
    <3>1. j \in 1 .. Len(pool) /\ a < j /\ j < pos[k]
      BY <1>4, <1>5, <2>1, <2>2
    <3> SUFFICES ASSUME Headroom(pool[j]) > 0 PROVE FALSE
      OBVIOUS
    <3>2. PICK i \in 1 .. last : i > k - 1 /\ pos[i] = j
      BY <1>7, <2>0, <3>1
    <3>3. i = k \/ k < i
      BY <2>0, <3>2
    <3>4. k < i => pos[k] < pos[i]
      BY <1>2, <1>4, <3>2 DEF Ranked
    <3>5. pos[k] \in Int /\ pos[i] \in Int
      BY <1>5
    <3> QED BY <3>1, <3>2, <3>3, <3>4, <3>5
  <2>4. all[b] = all[a]
    <3> HIDE DEF a, b
    <3> QED BY <1>1, <1>3, <2>1, <2>2, <2>3, SumsFlat
  <2>5. all[pos[k]] = all[b] + Headroom(pool[pos[k]])
    BY <1>3, <1>5 DEF Sums
  <2>6. sum[k - 1] = all[a]
    <3>1. CASE k = 1
      BY <1>6, <3>1
    <3>2. CASE k # 1
      <4>1. k - 1 \in 1 .. last
        BY <2>0, <3>2
      <4> QED BY <1>6, <4>1
    <3> QED BY <3>1, <3>2
  <2> QED BY <1>5, <1>6, <2>4, <2>5, <2>6
<1>10. sum[last] = all[Len(pool)]
  <2> DEFINE a == place[last]
  <2>1. last \in 0 .. last
    BY <1>4
  <2>2. a \in 0 .. Len(pool) /\ sum[last] = all[a]
    <3>1. CASE last = 0
      BY <1>4, <1>6, <3>1
    <3>2. CASE last # 0
      <4>1. last \in 1 .. last
        BY <1>4, <3>2
      <4> QED BY <1>4, <1>5, <1>6, <4>1
    <3> QED BY <3>1, <3>2
  <2>3. ASSUME NEW j \in a + 1 .. Len(pool) PROVE ~(Headroom(pool[j]) > 0)
    <3>1. j \in 1 .. Len(pool) /\ a < j
      BY <1>4, <2>2
    <3> SUFFICES ASSUME Headroom(pool[j]) > 0 PROVE FALSE
      OBVIOUS
    <3>2. PICK i \in 1 .. last : i > last /\ pos[i] = j
      BY <1>7, <2>1, <3>1
    <3> QED BY <1>4, <3>2
  <2>4. Len(pool) \in a .. Len(pool)
    BY <1>4, <2>2
  <2> QED BY <1>1, <1>3, <2>2, <2>3, <2>4, SumsFlat
<1>11. Sums(sum, providers)
  BY <1>6, <1>8, <1>9 DEF Sums
<1> QED BY <1>3, <1>10, <1>11 DEF providers, pool

(* A turn of the loop leaves the plan alone or adds to it.                 *)
Stays(next, so) ==
  next.plan = so.plan /\ next.groups = so.groups /\ next.at = so.at /\ next.left = so.left

LEMMA Turn ==
  ASSUME NEW providers, Lent(providers), NEW E, NEW entries \in Seq(E),
         NEW f, Schedules(f, providers, entries), NEW m \in Nat, m + 1 <= Len(entries)
  PROVE  /\ Standing(f[m], providers) /\ f[m].plan \in Seq(Items(providers, entries))
         /\ \/ Idle(f[m], providers, entries[m + 1]) /\ Stays(f[m + 1], f[m])
            \/ /\ ~Idle(f[m], providers, entries[m + 1])
               /\ Places(f[m + 1], f[m], providers, entries[m + 1])
               /\ f[m].at \in 1 .. Len(providers)
<1>1. m + 1 \in 1 .. Len(entries) /\ (m + 1) - 1 = m /\ m \in 0 .. Len(entries) /\ Len(entries) \in Nat
  OBVIOUS
<1>2. f[m + 1] = Considered(f[m], providers, entries[m + 1])
  BY <1>1 DEF Schedules
<1>3. Standing(f[m], providers) /\ f[m].plan \in Seq(Items(providers, entries))
  BY <1>1, Stands, PlanItems
<1>4. DOMAIN f[m] = Shape /\ Len(providers) \in Nat
  BY <1>3 DEF Standing, Lent
<1>5. CASE Idle(f[m], providers, entries[m + 1])
  <2>1. Stays(f[m + 1], f[m])
    BY <1>2, <1>4, <1>5, TurnIdle DEF Stays
  <2> QED BY <1>3, <1>5, <2>1
<1>6. CASE ~Idle(f[m], providers, entries[m + 1])
  <2>1. Places(f[m + 1], f[m], providers, entries[m + 1])
    BY <1>2, <1>4, <1>6, TurnPlaces
  <2>2. f[m].at \in 1 .. Len(providers)
    BY <1>3, <1>4, <1>6 DEF Standing, Idle
  <2> QED BY <1>3, <1>6, <2>1, <2>2
<1> QED BY <1>5, <1>6

(* The plan is as long as the providers up to the one in use have had room *)
(* for.                                                                    *)
LEMMA PlanLength ==
  ASSUME NEW providers, Lent(providers), NEW E, NEW entries \in Seq(E),
         NEW f, Schedules(f, providers, entries), NEW n \in 0 .. Len(entries),
         NEW sum, Sums(sum, providers)
  PROVE  /\ f[n].at <= Len(providers) => Len(f[n].plan) = sum[f[n].at] - f[n].left
         /\ f[n].at > Len(providers) => Len(f[n].plan) = sum[Len(providers)]
<1> DEFINE last == Len(providers)
           Good(m) == /\ f[m].at <= last => Len(f[m].plan) = sum[f[m].at] - f[m].left
                      /\ f[m].at > last => Len(f[m].plan) = sum[last]
           U == {m \in Nat : m <= Len(entries) => Good(m)}
<1>0. /\ last \in Nat /\ DOMAIN providers = 1 .. last /\ providers \in Seq(ToSet(providers))
      /\ \A k \in DOMAIN providers : Headroom(providers[k]) \in Nat
  BY DEF Lent
<1>9. ASSUME NEW k \in 0 .. last PROVE sum[k] \in Nat
  BY <1>0, SumsNat
<1>1. 0 \in U
  <2>1. f[0].plan = << >> /\ f[0].at = 1
        /\ f[0].left = IF providers = << >> THEN 0 ELSE Headroom(providers[1])
    BY DEF Schedules, Blank
  <2>2. Len(f[0].plan) = 0
    BY <2>1
  <2>3. ASSUME f[0].at <= last PROVE Len(f[0].plan) = sum[f[0].at] - f[0].left
    <3>1. 1 \in 1 .. last /\ providers # << >>
      BY <1>0, <2>1, <2>3
    <3>2. sum[1] = sum[0] + Headroom(providers[1]) /\ sum[0] = 0 /\ 1 - 1 = 0
      BY <3>1 DEF Sums
    <3>3. f[0].left = Headroom(providers[1]) /\ Headroom(providers[1]) \in Nat
      BY <1>0, <2>1, <3>1
    <3> QED BY <2>1, <2>2, <3>2, <3>3
  <2>4. ASSUME f[0].at > last PROVE Len(f[0].plan) = sum[last]
    BY <1>0, <2>1, <2>2, <2>4 DEF Sums
  <2> QED BY <2>3, <2>4
<1>2. ASSUME NEW m \in U PROVE m + 1 \in U
  <2> SUFFICES ASSUME m + 1 <= Len(entries) PROVE Good(m + 1)
    OBVIOUS
  <2> DEFINE so == f[m]
             next == f[m + 1]
             item == [issue |-> entries[m + 1].issue, provider |-> providers[so.at].id]
  <2>1. m \in Nat /\ Good(m)
    <3>1. m \in Nat /\ m <= Len(entries)
      OBVIOUS
    <3> QED BY <3>1
  <2> HIDE DEF Good, U
  <2>2. /\ Standing(so, providers) /\ so.plan \in Seq(Items(providers, entries))
        /\ \/ Idle(so, providers, entries[m + 1]) /\ Stays(next, so)
           \/ /\ ~Idle(so, providers, entries[m + 1])
              /\ Places(next, so, providers, entries[m + 1])
              /\ so.at \in 1 .. last
    BY <2>1, Turn
  <2> HIDE DEF so, next
  <2>3. CASE Stays(next, so)
    BY <2>1, <2>3 DEF Good, so, next, Stays
  <2>4. CASE Places(next, so, providers, entries[m + 1]) /\ so.at \in 1 .. last
    <3>1. Len(next.plan) = Len(so.plan) + 1 /\ Len(so.plan) \in Nat
      <4>1. next.plan = Append(so.plan, item)
        BY <2>4 DEF Places
      <4>2. Len(Append(so.plan, item)) = Len(so.plan) + 1 /\ Len(so.plan) \in Nat
        BY <2>2
      <4> QED BY <4>1, <4>2
    <3>2. Len(so.plan) = sum[so.at] - so.left
      BY <1>0, <2>1, <2>4 DEF Good, so
    <3>3. sum[so.at] \in Nat /\ so.left \in Nat /\ so.at \in Nat
      <4>1. so.at \in 0 .. last /\ so.at <= last
        BY <1>0, <2>4
      <4>2. so.left \in 1 .. Headroom(providers[so.at]) /\ Headroom(providers[so.at]) \in Nat
        BY <1>0, <2>2, <2>4, <4>1 DEF Standing
      <4> QED BY <1>9, <4>1, <4>2
    <3>4. CASE so.left # 1
      <4>1. next.at = so.at /\ next.left = so.left - 1
        BY <2>4, <3>4 DEF Places
      <4>2. Len(next.plan) = sum[next.at] - next.left /\ ~(next.at > last)
        <5>1. Len(so.plan) + 1 = sum[so.at] - (so.left - 1)
          BY <3>2, <3>3
        <5>2. Len(next.plan) = sum[next.at] - next.left
          BY <3>1, <4>1, <5>1
        <5>3. ~(next.at > last)
          BY <1>0, <2>4, <4>1
        <5> QED BY <5>2, <5>3
      <4> QED BY <4>2 DEF Good, next
    <3>5. CASE so.left = 1
      <4>1. next.at = so.at + 1 /\ (so.at < last => next.left = Headroom(providers[so.at + 1]))
        BY <2>4, <3>5 DEF Places
      <4>2. Len(next.plan) = sum[so.at]
        BY <3>1, <3>2, <3>3, <3>5
      <4>3. ASSUME next.at <= last PROVE Len(next.plan) = sum[next.at] - next.left
        <5>1. so.at < last /\ next.at \in 1 .. last /\ next.at - 1 = so.at
          BY <1>0, <3>3, <4>1, <4>3
        <5>2. sum[next.at] = sum[so.at] + Headroom(providers[next.at])
          BY <5>1 DEF Sums
        <5>3. next.left = Headroom(providers[next.at]) /\ Headroom(providers[next.at]) \in Nat
          BY <1>0, <4>1, <5>1
        <5> QED BY <3>3, <4>2, <5>2, <5>3
      <4>4. ASSUME next.at > last PROVE Len(next.plan) = sum[last]
        <5>1. so.at = last
          BY <1>0, <2>4, <4>1, <4>4
        <5> QED BY <4>2, <5>1
      <4> QED BY <4>3, <4>4 DEF Good, next
    <3> QED BY <3>4, <3>5
  <2> QED BY <2>2, <2>3, <2>4
<1>3. U = Nat
  <2> HIDE DEF U
  <2>1. U \in SUBSET Nat
    BY DEF U
  <2> QED BY <1>1, <1>2, <2>1, NatInd
<1>4. Good(n)
  BY <1>3
<1> QED BY <1>4

(* Each provider has been given what it had room for, up to the one in use.*)
Shares(plan, id) == {i \in DOMAIN plan : plan[i].provider = id}

LEMMA SharesAppend ==
  ASSUME NEW I, NEW plan \in Seq(I), NEW item \in I, NEW id
  PROVE  /\ IsFiniteSet(Shares(plan, id)) /\ Cardinality(Shares(plan, id)) \in Nat
         /\ Cardinality(Shares(Append(plan, item), id)) =
              Cardinality(Shares(plan, id)) + (IF item.provider = id THEN 1 ELSE 0)
<1> DEFINE more == Append(plan, item)
           last == Len(plan) + 1
<1>1. DOMAIN plan = 1 .. Len(plan) /\ Len(plan) \in Nat
  OBVIOUS
<1>2. /\ DOMAIN more = 1 .. last /\ more[last] = item
      /\ \A i \in 1 .. Len(plan) : more[i] = plan[i]
  OBVIOUS
<1>3. IsFiniteSet(Shares(plan, id))
  <2>1. IsFiniteSet(1 .. Len(plan))
    BY <1>1, FS_Interval
  <2>2. Shares(plan, id) \subseteq 1 .. Len(plan)
    BY <1>1 DEF Shares
  <2> QED BY <2>1, <2>2, FS_Subset
<1>4. last \notin Shares(plan, id) /\ last \in 1 .. last /\ \A i \in 1 .. last : i = last \/ i \in 1 .. Len(plan)
  <2>1. last \notin 1 .. Len(plan) /\ last \in 1 .. last
    BY <1>1
  <2>2. \A i \in 1 .. last : i = last \/ i \in 1 .. Len(plan)
    BY <1>1
  <2> QED BY <1>1, <2>1, <2>2 DEF Shares
<1> HIDE DEF more
<1>6. \A i \in 1 .. Len(plan) : i \in 1 .. last
  BY <1>1
<1> HIDE DEF last
<1>5. Shares(more, id) = IF item.provider = id THEN Shares(plan, id) \cup {last} ELSE Shares(plan, id)
  BY <1>1, <1>2, <1>4, <1>6 DEF Shares
<1>7. Cardinality(Shares(plan, id)) \in Nat
  BY <1>3, FS_CardinalityType
<1>8. CASE item.provider = id
  BY <1>3, <1>4, <1>5, <1>7, <1>8, FS_AddElement DEF more
<1>9. CASE item.provider # id
  <2>1. Shares(more, id) = Shares(plan, id)
    BY <1>5, <1>9
  <2> QED BY <1>3, <1>7, <1>9, <2>1 DEF more
<1> QED BY <1>3, <1>7, <1>8, <1>9

LEMMA PlanShares ==
  ASSUME NEW providers, Lent(providers), NEW E, NEW entries \in Seq(E),
         NEW f, Schedules(f, providers, entries), NEW n \in 0 .. Len(entries),
         \A i, j \in DOMAIN providers : providers[i].id = providers[j].id => i = j,
         NEW k \in DOMAIN providers
  PROVE  Cardinality(Shares(f[n].plan, providers[k].id)) <= Headroom(providers[k])
<1> DEFINE last == Len(providers)
           id == providers[k].id
           room == Headroom(providers[k])
           Given(m) == Cardinality(Shares(f[m].plan, id))
           Good(m) == /\ k < f[m].at => Given(m) = room
                      /\ k = f[m].at => Given(m) = room - f[m].left
                      /\ k > f[m].at => Given(m) = 0
           U == {m \in Nat : m <= Len(entries) => Good(m)}
<1>0. /\ last \in Nat /\ DOMAIN providers = 1 .. last /\ k \in 1 .. last
      /\ \A j \in DOMAIN providers : Headroom(providers[j]) \in Nat \ {0}
  BY DEF Lent
<1>1. 0 \in U
  <2>1. f[0].plan = << >> /\ f[0].at = 1 /\ providers # << >>
        /\ f[0].left = IF providers = << >> THEN 0 ELSE Headroom(providers[1])
    BY <1>0 DEF Schedules, Blank
  <2>2. Shares(f[0].plan, id) = {}
    <3>1. DOMAIN << >> = {}
      OBVIOUS
    <3> QED BY <2>1, <3>1 DEF Shares
  <2>3. Given(0) = 0
    BY <2>2, FS_EmptySet
  <2> HIDE DEF Given
  <2>4. Good(0)
    <3>1. k = 1 \/ k > 1
      BY <1>0
    <3>2. k = 1 => room = f[0].left /\ room \in Nat
      BY <1>0, <2>1
    <3>3. ~(k < 1)
      BY <1>0
    <3> QED BY <2>1, <2>3, <3>1, <3>2, <3>3
  <2> QED BY <2>4
<1>2. ASSUME NEW m \in U PROVE m + 1 \in U
  <2> SUFFICES ASSUME m + 1 <= Len(entries) PROVE Good(m + 1)
    OBVIOUS
  <2> DEFINE so == f[m]
             next == f[m + 1]
             item == [issue |-> entries[m + 1].issue, provider |-> providers[so.at].id]
  <2>1. m \in Nat /\ Good(m)
    <3>1. m \in Nat /\ m <= Len(entries)
      OBVIOUS
    <3> QED BY <3>1
  <2> HIDE DEF Good, U
  <2>2. /\ Standing(so, providers) /\ so.plan \in Seq(Items(providers, entries))
        /\ \/ Idle(so, providers, entries[m + 1]) /\ Stays(next, so)
           \/ /\ ~Idle(so, providers, entries[m + 1])
              /\ Places(next, so, providers, entries[m + 1])
              /\ so.at \in 1 .. last
    BY <2>1, Turn
  <2>3. CASE Stays(next, so)
    BY <2>1, <2>3 DEF Good, Stays
  <2>4. CASE Places(next, so, providers, entries[m + 1]) /\ so.at \in 1 .. last
    <3>1. item \in Items(providers, entries)
      <4>1. m + 1 \in DOMAIN entries
        BY <2>1
      <4> HIDE DEF so
      <4> QED BY <1>0, <2>4, <4>1 DEF Items
    <3>2. next.plan = Append(so.plan, item)
      BY <2>4 DEF Places
    <3> HIDE DEF item
    <3>3. /\ Given(m + 1) = Given(m) + (IF item.provider = id THEN 1 ELSE 0)
          /\ Given(m) \in Nat
      BY <2>2, <3>1, <3>2, SharesAppend
    <3>4. item.provider = providers[so.at].id
      BY DEF item
    <3>5. item.provider = id <=> so.at = k
      BY <1>0, <2>4, <3>4
    <3>6. so.left \in Nat /\ so.left >= 1 /\ room \in Nat /\ so.at \in Nat /\ k \in Nat
      <4>1. so.left \in 1 .. Headroom(providers[so.at]) /\ Headroom(providers[so.at]) \in Nat
        BY <1>0, <2>2, <2>4 DEF Standing
      <4> QED BY <1>0, <2>4, <4>1
    <3> HIDE DEF Given
    <3>7. CASE so.at = k
      <4>1. Given(m + 1) = room - so.left + 1
        BY <2>1, <3>3, <3>5, <3>6, <3>7 DEF Good
      <4>2. CASE so.left # 1
        <5>1. next.at = k /\ next.left = so.left - 1
          BY <2>4, <3>7, <4>2 DEF Places
        <5>2. Given(m + 1) = room - next.left
          BY <3>6, <4>1, <5>1
        <5>3. ~(k < next.at) /\ ~(k > next.at)
          BY <3>6, <5>1
        <5> QED BY <5>2, <5>3 DEF Good
      <4>3. CASE so.left = 1
        <5>1. next.at = k + 1
          BY <2>4, <3>7, <4>3 DEF Places
        <5>2. Given(m + 1) = room
          BY <3>6, <4>1, <4>3
        <5>3. k < next.at /\ k # next.at /\ ~(k > next.at)
          BY <3>6, <5>1
        <5> QED BY <5>2, <5>3 DEF Good
      <4> QED BY <4>2, <4>3
    <3>8. CASE so.at # k
      <4>1. Given(m + 1) = Given(m)
        BY <3>3, <3>5, <3>8
      <4>2. CASE so.at > k
        <5>1. next.at = so.at \/ next.at = so.at + 1
          BY <2>4 DEF Places
        <5>2. k < next.at /\ k # next.at /\ ~(k > next.at) /\ k < so.at
          BY <3>6, <4>2, <5>1
        <5>3. Given(m) = room
          BY <2>1, <5>2 DEF Good
        <5> QED BY <4>1, <5>2, <5>3 DEF Good
      <4>3. CASE so.at < k
        <5>1. Given(m) = 0
          <6>1. k > so.at
            BY <3>6, <4>3
          <6> QED BY <2>1, <6>1 DEF Good
        <5>2. CASE so.left # 1
          <6>1. next.at = so.at
            BY <2>4, <5>2 DEF Places
          <6>2. k > next.at /\ k # next.at /\ ~(k < next.at)
            BY <3>6, <4>3, <6>1
          <6> QED BY <4>1, <5>1, <6>2 DEF Good
        <5>3. CASE so.left = 1
          <6>1. next.at = so.at + 1 /\ so.at < last
            BY <1>0, <2>4, <3>6, <4>3, <5>3 DEF Places
          <6>2. next.left = Headroom(providers[next.at])
            BY <2>4, <5>3, <6>1 DEF Places
          <6>3. ~(k < next.at)
            BY <3>6, <4>3, <6>1
          <6>4. k = next.at => room - next.left = 0
            BY <3>6, <6>2
          <6> QED BY <4>1, <5>1, <6>3, <6>4 DEF Good
        <5> QED BY <5>2, <5>3
      <4> QED BY <3>6, <3>8, <4>2, <4>3
    <3> QED BY <3>7, <3>8
  <2> QED BY <2>2, <2>3, <2>4
<1>3. U = Nat
  <2> HIDE DEF U
  <2>1. U \in SUBSET Nat
    BY DEF U
  <2> QED BY <1>1, <1>2, <2>1, NatInd
<1>4. Good(n)
  BY <1>3
<1>5. room \in Nat /\ f[n].at \in Nat /\ (k = f[n].at => f[n].left \in Nat)
  <2>1. Standing(f[n], providers)
    BY Stands
  <2>2. f[n].at \in Nat
    BY <1>0, <2>1 DEF Standing
  <2>3. ASSUME k = f[n].at PROVE f[n].left \in Nat
    BY <1>0, <2>1, <2>3 DEF Standing
  <2> QED BY <1>0, <2>2, <2>3
<1>6. k < f[n].at \/ k = f[n].at \/ k > f[n].at
  BY <1>0, <1>5
<1> HIDE DEF Given
<1>7. Given(n) <= room
  BY <1>4, <1>5, <1>6
<1> QED BY <1>7 DEF Given

(* No group comes twice, and while there is room every entry is planned or *)
(* kept out by one of its group.  grp gives the group of an issue.         *)
GroupsApart(plan, grp) ==
  \A i, j \in DOMAIN plan :
    i # j => grp[plan[i].issue] # grp[plan[j].issue] \/ grp[plan[i].issue] = NoGroup

Covered(plan, grp, e) ==
  \E i \in DOMAIN plan : \/ plan[i].issue = e.issue
                         \/ e.conflictGroup # NoGroup /\ grp[plan[i].issue] = e.conflictGroup

LEMMA PlanGroups ==
  ASSUME NEW providers, Lent(providers), NEW E, NEW entries \in Seq(E),
         NEW f, Schedules(f, providers, entries), NEW n \in 0 .. Len(entries),
         NEW grp, \A m \in DOMAIN entries : grp[entries[m].issue] = entries[m].conflictGroup
  PROVE  /\ GroupsApart(f[n].plan, grp)
         /\ f[n].at <= Len(providers) => \A m \in 1 .. n : Covered(f[n].plan, grp, entries[m])
<1> DEFINE last == Len(providers)
           Taken(so) == so.groups = {grp[so.plan[i].issue] : i \in DOMAIN so.plan} \ {NoGroup}
           Apart(so) == \A i, j \in DOMAIN so.plan :
                          i # j => grp[so.plan[i].issue] # grp[so.plan[j].issue]
                                   \/ grp[so.plan[i].issue] = NoGroup
           Covers(so, e) == \E i \in DOMAIN so.plan :
                              \/ so.plan[i].issue = e.issue
                              \/ e.conflictGroup # NoGroup /\ grp[so.plan[i].issue] = e.conflictGroup
           Good(m) == /\ Taken(f[m]) /\ Apart(f[m])
                      /\ f[m].at <= last => \A k \in 1 .. m : Covers(f[m], entries[k])
           U == {m \in Nat : m <= Len(entries) => Good(m)}
<1>0. last \in Nat
  BY DEF Lent
<1>1. 0 \in U
  <2>1. f[0].plan = << >> /\ f[0].groups = {}
    BY DEF Schedules, Blank
  <2>2. DOMAIN f[0].plan = {} /\ 1 .. 0 = {}
    BY <2>1
  <2>3. Taken(f[0]) /\ Apart(f[0]) /\ \A k \in 1 .. 0 : Covers(f[0], entries[k])
    BY <2>1, <2>2
  <2> HIDE DEF Taken, Apart, Covers
  <2> QED BY <2>3
<1>2. ASSUME NEW m \in U PROVE m + 1 \in U
  <2> SUFFICES ASSUME m + 1 <= Len(entries) PROVE Good(m + 1)
    OBVIOUS
  <2> DEFINE so == f[m]
             next == f[m + 1]
             entry == entries[m + 1]
             item == [issue |-> entry.issue, provider |-> providers[so.at].id]
  <2>1. m \in Nat /\ Good(m)
    <3>1. m \in Nat /\ m <= Len(entries)
      OBVIOUS
    <3> QED BY <3>1
  <2> HIDE DEF Good, U
  <2>2. /\ Standing(so, providers) /\ so.plan \in Seq(Items(providers, entries))
        /\ \/ Idle(so, providers, entry) /\ Stays(next, so)
           \/ /\ ~Idle(so, providers, entry)
              /\ Places(next, so, providers, entry)
              /\ so.at \in 1 .. last
    BY <2>1, Turn
  <2>3. grp[entry.issue] = entry.conflictGroup
    <3>1. m + 1 \in DOMAIN entries
      BY <2>1
    <3> QED BY <3>1
  <2>4. /\ Taken(so) /\ Apart(so)
        /\ so.at <= last => \A k \in 1 .. m : Covers(so, entries[k])
    BY <2>1 DEF Good
  <2>5. \A k \in 1 .. m + 1 : k = m + 1 \/ k \in 1 .. m
    BY <2>1
  <2>6. SUFFICES /\ Taken(next) /\ Apart(next)
                 /\ next.at <= last => Covers(next, entry) /\ \A k \in 1 .. m : Covers(next, entries[k])
    <3> HIDE DEF Taken, Apart, Covers
    <3> QED BY <2>5, <2>6 DEF Good
  <2> HIDE DEF so, next, entry, item
  <2>7. CASE Idle(so, providers, entry) /\ Stays(next, so)
    <3>1. next.plan = so.plan /\ next.groups = so.groups /\ next.at = so.at
      BY <2>7 DEF Stays
    <3>2. Taken(next) /\ Apart(next)
      BY <2>4, <3>1
    <3>3. ASSUME next.at <= last PROVE Covers(next, entry)
      <4>1. so.at \in Nat /\ so.at <= last
        BY <1>0, <2>2, <3>1, <3>3 DEF Standing
      <4>2. entry.conflictGroup \in so.groups
        BY <1>0, <2>7, <4>1 DEF Idle
      <4> QED BY <2>4, <3>1, <4>2
    <3>4. ASSUME next.at <= last, NEW k \in 1 .. m PROVE Covers(next, entries[k])
      <4>1. Covers(so, entries[k])
        <5> HIDE DEF Covers
        <5> QED BY <2>4, <3>1, <3>4
      <4> QED BY <3>1, <4>1
    <3> HIDE DEF Taken, Apart, Covers
    <3> QED BY <3>2, <3>3, <3>4
  <2>8. CASE ~Idle(so, providers, entry) /\ Places(next, so, providers, entry) /\ so.at \in 1 .. last
    <3> DEFINE end == Len(so.plan) + 1
    <3>1. /\ next.plan = Append(so.plan, item)
          /\ next.groups = so.groups \cup ({entry.conflictGroup} \ {NoGroup})
          /\ item.issue = entry.issue
      BY <2>8 DEF Places, item
    <3>2. Len(so.plan) \in Nat /\ DOMAIN so.plan = 1 .. Len(so.plan)
      BY <2>2
    <3>3. /\ DOMAIN next.plan = 1 .. end /\ next.plan[end] = item
          /\ \A i \in 1 .. Len(so.plan) : next.plan[i] = so.plan[i]
      <4>1. LET more == Append(so.plan, item)
            IN /\ DOMAIN more = 1 .. end /\ more[end] = item
               /\ \A i \in 1 .. Len(so.plan) : more[i] = so.plan[i]
        BY <2>2
      <4> QED BY <3>1, <4>1
    <3>4. /\ end \in 1 .. end
          /\ \A i \in 1 .. end : i = end \/ i \in 1 .. Len(so.plan)
          /\ \A i \in 1 .. Len(so.plan) : i \in 1 .. end /\ i # end
      BY <3>2
    <3> HIDE DEF end
    <3>5. /\ grp[next.plan[end].issue] = entry.conflictGroup
          /\ \A i \in 1 .. Len(so.plan) : next.plan[i].issue = so.plan[i].issue
      BY <2>3, <3>1, <3>3
    <3>6. {grp[next.plan[i].issue] : i \in DOMAIN next.plan} =
            {grp[so.plan[i].issue] : i \in DOMAIN so.plan} \cup {entry.conflictGroup}
      BY <3>2, <3>3, <3>4, <3>5
    <3>7. Taken(next)
      BY <2>4, <3>1, <3>6
    <3>8. entry.conflictGroup \notin so.groups
      BY <2>8 DEF Idle
    <3>9. \A i \in 1 .. Len(so.plan) :
            grp[so.plan[i].issue] # entry.conflictGroup \/ entry.conflictGroup = NoGroup
      BY <2>4, <3>2, <3>8
    <3>10. Apart(next)
      <4> SUFFICES ASSUME NEW i \in 1 .. end, NEW j \in 1 .. end, i # j
                   PROVE  grp[next.plan[i].issue] # grp[next.plan[j].issue]
                          \/ grp[next.plan[i].issue] = NoGroup
        BY <3>3
      <4>1. CASE i = end
        BY <3>4, <3>5, <3>9, <4>1
      <4>2. CASE j = end
        BY <3>4, <3>5, <3>9, <4>2
      <4>3. CASE i # end /\ j # end
        <5>1. i \in 1 .. Len(so.plan) /\ j \in 1 .. Len(so.plan)
          BY <3>4, <4>3
        <5> QED BY <2>4, <3>2, <3>5, <5>1
      <4> QED BY <4>1, <4>2, <4>3
    <3>11. Covers(next, entry)
      BY <3>1, <3>3, <3>4
    <3>12. ASSUME NEW k \in 1 .. m PROVE Covers(next, entries[k])
      <4>1. Covers(so, entries[k])
        <5>1. so.at <= last
          BY <1>0, <2>8
        <5> HIDE DEF Covers
        <5> QED BY <2>4, <5>1
      <4> QED BY <3>2, <3>3, <3>4, <3>5, <4>1
    <3> HIDE DEF Taken, Apart, Covers
    <3> QED BY <3>7, <3>10, <3>11, <3>12
  <2> QED BY <2>2, <2>7, <2>8
<1>3. U = Nat
  <2> HIDE DEF U
  <2>1. U \in SUBSET Nat
    BY DEF U
  <2> QED BY <1>1, <1>2, <2>1, NatInd
<1>4. Good(n)
  BY <1>3
<1> QED BY <1>4 DEF GroupsApart, Covered

(* A plan fits the files it was made from.                                 *)
LEMMA PlanOfFiles ==
  ASSUME NEW state \in State
  PROVE  PlanFits(computeBatchPlan(state.pool, state.queue).plan, state)
<1> DEFINE pool == state.pool
           queue == state.queue
           providers == Open(pool)
           entries == Queued(queue)
           free == {k \in DOMAIN pool : Headroom(pool[k]) > 0}
           wanted == {k \in DOMAIN queue : Has(queue[k], "state") /\ queue[k].state = "queued"}
           entry(n) == CHOOSE e \in ToSet(queue) : e.issue = n
           grp == [n \in {e.issue : e \in ToSet(queue)} |-> entry(n).conflictGroup]
<1>1. /\ Lent(providers) /\ entries \in Seq(ToSet(queue))
      /\ pool \in Seq(ToSet(pool)) /\ queue \in Seq(ToSet(queue))
      /\ \A k \in DOMAIN pool : Headroom(pool[k]) \in Nat
  BY FilesRead
<1>2. PICK pos : Ranked(providers, pool, free, Len(pool), pos)
  BY <1>1, KeptRanked DEF Open
<1>3. PICK was : Ranked(entries, queue, wanted, Len(queue), was)
  BY <1>1, KeptRanked DEF Queued
<1>4. PICK sum : Sums(sum, providers) /\ sum[Len(providers)] = TotalHeadroom(pool)
  BY OpenSum
<1>5. Len(entries) \in Nat
  BY <1>1
<1>6. PICK f : Schedules(f, providers, entries) /\ computeBatchPlan(pool, queue) = f[Len(entries)]
  BY <1>5, PlanUnfold
<1>7. /\ \A i, j \in DOMAIN pool : pool[i].id = pool[j].id => i = j
      /\ \A i, j \in DOMAIN queue : queue[i].issue = queue[j].issue => i = j
  BY NamesAssumption
<1>8. ASSUME NEW e \in ToSet(queue)
      PROVE  entry(e.issue) = e /\ \E k \in DOMAIN queue : e = queue[k]
  <2>1. PICK k \in DOMAIN queue : e = queue[k]
    BY DEF ToSet
  <2> DEFINE c == entry(e.issue)
  <2>2. c \in ToSet(queue) /\ c.issue = e.issue
    OBVIOUS
  <2> HIDE DEF c
  <2>3. PICK j \in DOMAIN queue : c = queue[j]
    BY <2>2 DEF ToSet
  <2>4. c = e
    BY <1>7, <2>1, <2>2, <2>3
  <2> QED BY <2>1, <2>4 DEF c
<1>9. /\ DOMAIN providers = 1 .. Len(providers) /\ Len(providers) \in Nat
      /\ DOMAIN pool = 1 .. Len(pool) /\ DOMAIN queue = 1 .. Len(queue)
      /\ DOMAIN entries = 1 .. Len(entries)
  BY <1>1 DEF Lent
<1>10. \A e \in ToSet(queue) : Has(e, "state")
  BY FilesAssumption DEF Has
<1> DEFINE last == Len(entries)
           plan == f[last].plan
<1>11. last \in 0 .. last
  BY <1>9
<1> HIDE DEF providers, entries, free, wanted, pool, queue
<1>12. plan \in Seq(Items(providers, entries)) /\ DOMAIN plan = 1 .. Len(plan)
  BY <1>1, <1>6, <1>11, PlanItems
<1>13. ASSUME NEW i \in DOMAIN providers
       PROVE  pos[i] \in DOMAIN pool /\ pos[i] \in free /\ providers[i] = pool[pos[i]]
  BY <1>2, <1>9 DEF Ranked
<1>14. \A i, j \in DOMAIN providers : providers[i].id = providers[j].id => i = j
  <2> SUFFICES ASSUME NEW i \in DOMAIN providers, NEW j \in DOMAIN providers,
                      providers[i].id = providers[j].id
               PROVE  i = j
    OBVIOUS
  <2>1. pos[i] = pos[j] /\ pos[i] \in Int
    BY <1>7, <1>9, <1>13
  <2>2. (i < j => pos[i] < pos[j]) /\ (j < i => pos[j] < pos[i])
    BY <1>2 DEF Ranked
  <2>3. ~(i < j) /\ ~(j < i)
    BY <2>1, <2>2
  <2> QED BY <1>9, <2>3
<1>15. ASSUME NEW k \in DOMAIN pool
       PROVE  Cardinality(Shares(plan, pool[k].id)) <= Headroom(pool[k])
  <2>1. CASE k \in free
    <3>1. PICK i \in DOMAIN providers : pos[i] = k
      BY <1>2, <1>9, <2>1 DEF Ranked
    <3>2. providers[i] = pool[k]
      BY <1>13, <3>1
    <3>3. Cardinality(Shares(plan, providers[i].id)) <= Headroom(providers[i])
      BY <1>1, <1>6, <1>11, <1>14, PlanShares
    <3> QED BY <3>2, <3>3
  <2>2. CASE k \notin free
    <3>1. ASSUME NEW i \in DOMAIN plan, plan[i].provider = pool[k].id PROVE FALSE
      <4>1. plan[i] \in Items(providers, entries)
        BY <1>12
      <4>2. PICK j \in DOMAIN providers : plan[i].provider = providers[j].id
        BY <4>1 DEF Items
      <4>3. pos[j] = k
        BY <1>7, <1>13, <3>1, <4>2
      <4> QED BY <1>13, <2>2, <4>3
    <3>2. Shares(plan, pool[k].id) = {}
      BY <3>1 DEF Shares
    <3>3. Cardinality(Shares(plan, pool[k].id)) = 0
      BY <3>2, FS_EmptySet
    <3>4. Headroom(pool[k]) \in Nat
      BY <1>1
    <3> QED BY <3>3, <3>4
  <2> QED BY <2>1, <2>2
<1>16. ASSUME NEW m \in DOMAIN entries
       PROVE  was[m] \in DOMAIN queue /\ entries[m] = queue[was[m]] /\ entries[m] \in ToSet(queue)
  BY <1>1, <1>3, <1>9 DEF Ranked
<1>17. \A m \in DOMAIN entries : grp[entries[m].issue] = entries[m].conflictGroup
  <2> SUFFICES ASSUME NEW m \in DOMAIN entries PROVE grp[entries[m].issue] = entries[m].conflictGroup
    OBVIOUS
  <2>1. entries[m] \in ToSet(queue) /\ entry(entries[m].issue) = entries[m]
    BY <1>8, <1>16
  <2> HIDE DEF entry
  <2> QED BY <2>1
<1> HIDE DEF entry
<1>18. ASSUME NEW i \in DOMAIN plan
       PROVE  grp[plan[i].issue] = entry(plan[i].issue).conflictGroup
  <2>1. plan[i] \in Items(providers, entries)
    BY <1>12
  <2>2. PICK m \in DOMAIN entries : plan[i].issue = entries[m].issue
    BY <2>1 DEF Items
  <2> QED BY <1>16, <2>2
<1> HIDE DEF grp
<1>19. /\ GroupsApart(plan, grp)
       /\ f[last].at <= Len(providers) => \A m \in 1 .. last : Covered(plan, grp, entries[m])
  <2> DEFINE n == last
  <2>1. n \in 0 .. Len(entries) /\ Schedules(f, providers, entries) /\ Lent(providers)
    BY <1>1, <1>6, <1>11
  <2> HIDE DEF n
  <2>2. /\ GroupsApart(f[n].plan, grp)
        /\ f[n].at <= Len(providers) => \A m \in 1 .. n : Covered(f[n].plan, grp, entries[m])
    BY <1>1, <1>17, <2>1, PlanGroups
  <2> QED BY <2>2 DEF n
<1> HIDE DEF last
<1>20. ASSUME Len(plan) < TotalHeadroom(pool), NEW e \in ToSet(queue), e.state = "queued"
       PROVE  \E i \in DOMAIN plan :
                \/ plan[i].issue = e.issue
                \/ e.conflictGroup # NoGroup /\ grp[plan[i].issue] = e.conflictGroup
  <2>1. f[last].at <= Len(providers)
    <3>1. f[last].at > Len(providers) => Len(plan) = sum[Len(providers)]
      BY <1>1, <1>4, <1>6, <1>11, PlanLength DEF last
    <3>2. f[last].at \in Nat
      <4>1. Standing(f[last], providers)
        BY <1>1, <1>6, <1>9, <1>11, Stands DEF last
      <4> QED BY <1>9, <4>1 DEF Standing
    <3>3. Len(plan) \in Nat
      BY <1>12
    <3> QED BY <1>4, <1>9, <1>20, <3>1, <3>2, <3>3
  <2>2. PICK k \in DOMAIN queue : e = queue[k]
    BY <1>8
  <2>3. k \in wanted /\ k \in 1 .. Len(queue)
    BY <1>9, <1>10, <1>20, <2>2 DEF wanted
  <2>4. PICK m \in DOMAIN entries : was[m] = k
    BY <1>3, <2>3 DEF Ranked
  <2>5. entries[m] = e /\ m \in 1 .. last
    BY <1>9, <1>16, <2>2, <2>4 DEF last
  <2> QED BY <1>19, <2>1, <2>5 DEF Covered
<1> DEFINE groups == [i \in DOMAIN plan |-> entry(plan[i].issue).conflictGroup]
<1>21. \A i \in DOMAIN plan : groups[i] = grp[plan[i].issue]
  BY <1>18
<1>22. /\ \A k \in DOMAIN pool : Cardinality(Shares(plan, pool[k].id)) <= Headroom(pool[k])
       /\ \A i, j \in DOMAIN plan : i # j => groups[i] # groups[j] \/ groups[i] = NoGroup
       /\ Len(plan) < TotalHeadroom(pool) =>
            \A e \in ToSet(queue) :
              e.state = "queued" =>
                \E i \in DOMAIN plan :
                  \/ plan[i].issue = e.issue
                  \/ e.conflictGroup # NoGroup /\ groups[i] = e.conflictGroup
  <2> HIDE DEF groups, plan
  <2> QED BY <1>15, <1>19, <1>20, <1>21 DEF GroupsApart
<1> HIDE DEF plan
<1>23. PlanFits(plan, state)
  BY <1>22 DEF PlanFits, Shares, entry, pool, queue
<1> QED BY <1>6, <1>23 DEF plan, last, pool, queue

(* Whatever the files become: each batch plan that is put on file was made *)
(* for a pool that could take it, issue by issue and as a whole.           *)
THEOREM BatchesFit == Spec => BatchFits
<1>1. ConsoleInv /\ [Next]_vars => (batch' # batch => PlanFits(batch', files))
  <2> SUFFICES ASSUME ConsoleInv, [Next]_vars, batch' # batch PROVE PlanFits(batch', files)
    OBVIOUS
  <2>1. PICK k : Execute(k)
    BY DEF Next, vars, RequestPreview, OpenConfirm, Cancel, Go, Send, ServePreview,
           ShowPreview, Refuse, Post, BeginLog, EndLog, Answer, Refresh, Crash, Change
  <2>2. PICK result \in Results[calls[k].payload][files] :
          batch' = IF result.status = "planned" THEN result.plan ELSE batch
    BY <2>1 DEF Execute
  <2>3. files \in State /\ k \in DOMAIN calls /\ calls[k] \in Sent
    BY <2>1 DEF Execute, Waiting, ConsoleInv, ServerInv, CallsTyped
  <2> DEFINE payload == calls[k].payload
  <2>4. payload \in Form \cup Direct
    BY <2>3 DEF Sent
  <2>5. result \in execute(payload, files)
    BY <2>2, <2>3, <2>4 DEF Results
  <2> HIDE DEF payload
  <2>6. result.status = "planned" /\ batch' = result.plan
    BY <2>2
  <2>7. result.plan = computeBatchPlan(files.pool, files.queue).plan
    BY <2>3, <2>4, <2>5, <2>6, PlannedAllowed
  <2> QED BY <2>3, <2>6, <2>7, PlanOfFiles
<1> QED BY <1>1, Invariance, PTL DEF Spec, BatchFits
=============================================================================
