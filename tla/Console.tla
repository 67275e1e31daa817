------------------------------ MODULE Console ------------------------------
(***************************************************************************)
(* The web console (tools/provider-pool-webui): an action card of a page   *)
(* (public/app.js), the server that runs their actions (server.js) and its *)
(* action log.  An operator fills in the card, asks for a preview, types   *)
(* EXECUTE under it and waits.  Requests and answers are on their way for  *)
(* as long as they like and overtake each other, the page rebuilds itself  *)
(* every half minute, the files the actions read change, and the server    *)
(* may die at any step and is started again.                               *)
(***************************************************************************)
EXTENDS ConsoleActions

CONSTANTS
  Form,          \* the payloads forms may collect
  Direct,        \* payloads other clients send without a page
  State,         \* the situations of the files the actions read
  MaxPreviews,   \* bound: previews on their way at once
  MaxCalls,      \* bound: executions asked for
  MaxCrashes,    \* bound: deaths of the server
  Nothing, Torn

Actions == {"launch-batch", "plan.next.batch", "merge-prs"}

\* Of what others send and write, only what the code takes for granted: one of
\* the three actions, lists that are lists, entries with their fields; a
\* provider may be without its limit.
ASSUME PayloadAssumption ==
  \A payload \in Form \cup Direct :
    /\ payload.action \in Actions
    /\ payload.action = "launch-batch" => IsList(payload.tasks)

ASSUME FilesAssumption ==
  \A state \in State :
    /\ IsList(state.queue) /\ IsList(state.pool)
    /\ \A e \in ToSet(state.queue) : {"issue", "state", "conflictGroup"} \subseteq DOMAIN e
    /\ \A p \in ToSet(state.pool) : p.cur \in Int /\ (Has(p, "max") => p.max \in Int)

\* A provider is found by its id, and an entry of the queue by its issue.
ASSUME NamesAssumption ==
  \A state \in State :
    /\ \A i, j \in DOMAIN state.pool : state.pool[i].id = state.pool[j].id => i = j
    /\ \A i, j \in DOMAIN state.queue : state.queue[i].issue = state.queue[j].issue => i = j

\* An entry of the log, and what the server holds of the execution it is in.
LogEntry == [call : Nat, status : {"success", "error"}]
InHand == [call : Nat, read : Seq(LogEntry) \cup {Nothing}]

ASSUME MarkAssumption ==
  /\ Nothing \notin Form \cup InHand \cup Seq(LogEntry)
  /\ Torn \notin Seq(LogEntry)

VARIABLES
  action,     \* the action of the card that is followed
  previews,   \* previews on their way: not answered, shown or failed
  panel,      \* the payload whose preview the card shows
  confirm,    \* whether it asks to type EXECUTE
  calls,      \* every execution asked for: what was sent, and how it stands
  typed,      \* history: for each of them, what was on the screen
  handling,   \* the execution the server is in
  log,        \* .audit-log.json: Torn once its rewriting has begun
  files,      \* main health, provider pool, queue and running tasks
  batch,      \* webui-batch-plan.json
  done,       \* history: what each execution did, on which files, and its turn
  crashes

page == <<action, previews, panel, confirm>>
vars == <<page, calls, typed, handling, log, files, batch, done, crashes>>

-----------------------------------------------------------------------------
\* The page.
Payloads == {payload \in Form : payload.action = action}

\* Mutant of RequestPreview: the old question stays.
RequestPreviewBelow(payload) ==
  /\ Cardinality(previews) < MaxPreviews
  /\ previews' = previews \cup {[payload |-> payload, answer |-> "none"]}
  /\ panel' = Nothing
  /\ UNCHANGED <<action, confirm, calls, typed, handling, log, files, batch, done, crashes>>

\* The payload is what the form says at the click.
RequestPreview(payload) ==
  /\ Cardinality(previews) < MaxPreviews
  /\ previews' = previews \cup {[payload |-> payload, answer |-> "none"]}
  /\ panel' = Nothing /\ confirm' = FALSE
  /\ UNCHANGED <<action, calls, typed, handling, log, files, batch, done, crashes>>

\* An error takes the place of what was shown.
ShowPreview(r) ==
  /\ r \in previews /\ r.answer # "none"
  /\ previews' = previews \ {r}
  /\ panel' = IF r.answer = "shown" THEN r.payload ELSE Nothing
  /\ confirm' = FALSE
  /\ UNCHANGED <<action, calls, typed, handling, log, files, batch, done, crashes>>

OpenConfirm ==
  /\ panel # Nothing
  /\ confirm' = TRUE
  /\ UNCHANGED <<action, previews, panel, calls, typed, handling, log, files, batch, done, crashes>>

Cancel ==
  /\ confirm /\ confirm' = FALSE
  /\ UNCHANGED <<action, previews, panel, calls, typed, handling, log, files, batch, done, crashes>>

\* EXECUTE is typed and sent; "Executing" takes the place of the question.
Send(payload) ==
  /\ confirm /\ Len(calls) < MaxCalls
  /\ calls' = Append(calls, [payload |-> payload, confirm |-> TRUE, at |-> "sent"])
  /\ typed' = Append(typed, panel)
  /\ confirm' = FALSE
  /\ UNCHANGED <<action, previews, panel, handling, log, files, batch, done, crashes>>

\* Mutant of Go: the form is collected again.
GoCollecting == \E payload \in Payloads : Send(payload)

\* The payload is the one the shown preview was asked with.
Go == Send(panel)

\* refresh: the page is built anew; what comes back later is not seen.
Refresh ==
  /\ previews' = {} /\ panel' = Nothing /\ confirm' = FALSE
  /\ UNCHANGED <<action, calls, typed, handling, log, files, batch, done, crashes>>

\* Any client on the machine may post an execution, confirmed or not.
Post ==
  /\ Len(calls) < MaxCalls
  /\ \E payload \in Direct, confirmed \in BOOLEAN :
       calls' = Append(calls, [payload |-> payload, confirm |-> confirmed, at |-> "sent"])
  /\ typed' = Append(typed, Nothing)
  /\ UNCHANGED <<page, handling, log, files, batch, done, crashes>>

-----------------------------------------------------------------------------
\* The server: one callback at a time.
\* A preview writes nothing; the payload it shows is what counts here.  It may
\* throw, or meet a file it cannot read.
ServePreview(r) ==
  /\ handling = Nothing /\ r \in previews /\ r.answer = "none"
  /\ \E answer \in {"shown", "failed"} :
       previews' = (previews \ {r}) \cup {[r EXCEPT !.answer = answer]}
  /\ UNCHANGED <<action, panel, confirm, calls, typed, handling, log, files, batch, done, crashes>>

execute(payload, state) ==
  CASE payload.action = "launch-batch" -> {launchBatch(payload, state)}
    [] payload.action = "plan.next.batch" -> {planNextBatch(payload, state)}
    [] payload.action = "merge-prs" -> mergePrs(payload)

Results == [payload \in Form \cup Direct |-> [state \in State |-> execute(payload, state)]]

\* An action marked dangerous is refused unless the request confirms it.
Refused(call) == call.payload.action \in {"launch-batch", "merge-prs"} /\ ~call.confirm

Waiting(k) == handling = Nothing /\ k \in DOMAIN calls /\ calls[k].at = "sent"

Refuse(k) ==
  /\ Waiting(k) /\ Refused(calls[k])
  /\ calls' = [calls EXCEPT ![k].at = "answered"]
  /\ UNCHANGED <<page, typed, handling, log, files, batch, done, crashes>>

Execute(k) ==
  /\ Waiting(k) /\ ~Refused(calls[k])
  /\ \E result \in Results[calls[k].payload][files] :
       /\ done' = [j \in DOMAIN done \cup {k} |->
                     IF j = k
                     THEN [payload |-> calls[k].payload, result |-> result, files |-> files,
                           turn |-> Cardinality(DOMAIN done) + 1]
                     ELSE done[j]]
       /\ batch' = IF result.status = "planned" THEN result.plan ELSE batch
  /\ handling' = [call |-> k, read |-> Nothing]
  /\ calls' = [calls EXCEPT ![k].at = "handled"]
  /\ UNCHANGED <<page, typed, log, files, crashes>>

readAuditLog == IF log = Torn THEN << >> ELSE log

\* The log is read, and its rewriting begins.
BeginLog ==
  /\ handling # Nothing /\ handling.read = Nothing
  /\ handling' = [handling EXCEPT !.read = readAuditLog]
  /\ log' = Torn
  /\ UNCHANGED <<page, calls, typed, files, batch, done, crashes>>

\* What was thrown is an "error".
Entry(k) ==
  [call |-> k, status |-> IF done[k].result.status = "thrown" THEN "error" ELSE "success"]

\* Mutant of EndLog: the latest entry comes first.
EndLogFirst ==
  /\ handling # Nothing /\ handling.read # Nothing
  /\ calls[handling.call].at = "handled"
  /\ log' = <<Entry(handling.call)>> \o handling.read
  /\ calls' = [calls EXCEPT ![handling.call].at = "logged"]
  /\ UNCHANGED <<page, typed, handling, files, batch, done, crashes>>

\* The entry is on file.
EndLog ==
  /\ handling # Nothing /\ handling.read # Nothing
  /\ calls[handling.call].at = "handled"
  /\ log' = Append(handling.read, Entry(handling.call))
  /\ calls' = [calls EXCEPT ![handling.call].at = "logged"]
  /\ UNCHANGED <<page, typed, handling, files, batch, done, crashes>>

\* Mutant of Answer: what was thrown is logged and not answered.
AnswerResult ==
  /\ handling # Nothing /\ calls[handling.call].at = "logged"
  /\ calls' = IF done[handling.call].result.status = "thrown" THEN calls
              ELSE [calls EXCEPT ![handling.call].at = "answered"]
  /\ handling' = Nothing
  /\ UNCHANGED <<page, typed, log, files, batch, done, crashes>>

\* The answer is on its way, with the result or with what was thrown.
Answer ==
  /\ handling # Nothing /\ calls[handling.call].at = "logged"
  /\ calls' = [calls EXCEPT ![handling.call].at = "answered"]
  /\ handling' = Nothing
  /\ UNCHANGED <<page, typed, log, files, batch, done, crashes>>

\* The server dies: every request it has not answered fails at its sender's.
Crash ==
  /\ crashes < MaxCrashes
  /\ crashes' = crashes + 1
  /\ handling' = Nothing
  /\ calls' = [k \in DOMAIN calls |->
                 IF calls[k].at \in {"sent", "handled", "logged"}
                 THEN [calls[k] EXCEPT !.at = "failed"] ELSE calls[k]]
  /\ previews' = {IF r.answer = "none" THEN [r EXCEPT !.answer = "failed"] ELSE r : r \in previews}
  /\ UNCHANGED <<action, panel, confirm, typed, log, files, batch, done>>

\* Other scripts rewrite the files the actions read.
Change == files' \in State /\ UNCHANGED <<page, calls, typed, handling, log, batch, done, crashes>>

Init ==
  /\ action \in {payload.action : payload \in Form}
  /\ previews = {} /\ panel = Nothing /\ confirm = FALSE
  /\ calls = << >> /\ typed = << >>
  /\ handling = Nothing /\ log = << >>
  /\ files \in State /\ batch = Nothing /\ done = << >> /\ crashes = 0

Next ==
  \/ \E payload \in Payloads : RequestPreview(payload)
  \/ OpenConfirm \/ Cancel \/ Go
  \/ \E r \in previews : ServePreview(r) \/ ShowPreview(r)
  \/ \E k \in 1 .. MaxCalls : Execute(k) \/ Refuse(k)
  \/ Post \/ BeginLog \/ EndLog \/ Answer \/ Refresh \/ Crash \/ Change

Spec == Init /\ [][Next]_vars

\* Requests arrive, and the server gets on with its callback.
Fairness ==
  /\ \A k \in 1 .. MaxCalls : WF_vars(Execute(k)) /\ WF_vars(Refuse(k))
  /\ WF_vars(BeginLog) /\ WF_vars(EndLog) /\ WF_vars(Answer)

FairSpec == Spec /\ Fairness

-----------------------------------------------------------------------------
TypeOK ==
  /\ \A r \in previews : r.payload \in Payloads
  /\ panel \in Payloads \cup {Nothing}
  /\ confirm => panel # Nothing
  /\ \A k \in DOMAIN calls : calls[k].at \in {"sent", "handled", "logged", "answered", "failed"}
  /\ DOMAIN done \subseteq DOMAIN calls
  /\ handling # Nothing => calls[handling.call].at \in {"handled", "logged"}

(***************************************************************************)
(* The operator consented to what was done: an execution plans, launches   *)
(* and merges no more than the payload says whose preview was on the       *)
(* screen when EXECUTE was typed, whichever answers came in which order,   *)
(* whatever the form has been changed to and whatever the files say since. *)
(***************************************************************************)
Consented ==
  \A k \in {j \in DOMAIN done : typed[j] # Nothing} :
    LET asked == typed[k]
        did == done[k].result
    IN /\ asked.action = done[k].payload.action
       /\ did.status = "planned" => {did.plan[i].issue : i \in DOMAIN did.plan} \subseteq asked.allowlist
       /\ asked.action = "merge-prs" /\ did.status # "thrown" => did.prs \subseteq asked.prNumbers
       /\ did.status \in {"launched", "launch-failed"} /\ asked.tasks # << >> =>
            {did.plan.selectedTasks[i].targetIssue : i \in DOMAIN did.plan.selectedTasks}
              \subseteq {asked.tasks[i].targetIssue : i \in DOMAIN asked.tasks}

HandedOver(k) == done[k].result.status \in {"launched", "launch-failed"}

(***************************************************************************)
(* What the gate promises of a batch it hands to the launcher, on the      *)
(* files as they are by then, not as they were at the preview: it is the   *)
(* whole batch, every worker is permitted, no group is that of a running   *)
(* task, no two tasks share a lock, and of two tasks of a group one at     *)
(* least is docs.                                                          *)
(***************************************************************************)
HandedOverFit ==
  \A k \in {j \in DOMAIN done : HandedOver(j)} :
    LET tasks == done[k].result.plan.selectedTasks
        main == readMainState(done[k].files.main)
    IN /\ done[k].result.plan.rejectedTasks = << >>
       /\ \A i \in DOMAIN tasks :
            /\ tasks[i].workerType \in PERMISSION_MATRIX[main]
            /\ tasks[i].conflictGroup \notin runningGroups(done[k].files.running)
       /\ \A i, j \in DOMAIN tasks : i < j =>
            /\ ToSet(tasks[i].sharedLocks) \cap ToSet(tasks[j].sharedLocks) = {}
            /\ tasks[i].conflictGroup = tasks[j].conflictGroup =>
                 \/ tasks[i].conflictGroup = NoGroup
                 \/ "docs" \in {tasks[i].workerType, tasks[j].workerType}

(***************************************************************************)
(* The batch plan on file, whatever becomes of the pool afterwards, was    *)
(* made for a pool that could take it: no provider got more issues than    *)
(* its headroom, no group came twice, and an issue was left out only when  *)
(* its group was planned or the pool full.                                 *)
(***************************************************************************)
PlanFits(plan, state) ==
  LET given(p) == Cardinality({i \in DOMAIN plan : plan[i].provider = p.id})
      entry(n) == CHOOSE e \in ToSet(state.queue) : e.issue = n
      groups == [i \in DOMAIN plan |-> entry(plan[i].issue).conflictGroup]
  IN /\ \A k \in DOMAIN state.pool : given(state.pool[k]) <= Headroom(state.pool[k])
     /\ \A i, j \in DOMAIN plan : i # j => groups[i] # groups[j] \/ groups[i] = NoGroup
     /\ Len(plan) < TotalHeadroom(state.pool) =>
          \A e \in ToSet(state.queue) :
            e.state = "queued" =>
              \E i \in DOMAIN plan :
                \/ plan[i].issue = e.issue
                \/ e.conflictGroup # NoGroup /\ groups[i] = e.conflictGroup

BatchFits ==
  [][batch' # batch => PlanFits(batch', files)]_vars

(***************************************************************************)
(* Two scripts judge the same files: plan-next-batch plans nothing for a   *)
(* pool or a queue generate-self-cycle-execute-plan calls not ready, and   *)
(* where it plans nothing for a pipeline called ready, a provider without  *)
(* a limit is to blame: one script takes that for infinite room, the       *)
(* other for none.                                                         *)
(***************************************************************************)
JudgedAlike ==
  LET plan == computeBatchPlan(files.pool, files.queue).plan
  IN /\ plan # << >> => evaluateProviderPool(files.pool) /\ evaluateQueue(files.queue)
     /\ plan = << >> /\ pipelineReady(files.main, files.pool, files.queue) =>
          \E k \in DOMAIN files.pool : Endless(files.pool[k])

(***************************************************************************)
(* The log accounts for the executions: it names each at most once, with   *)
(* the outcome it had, in the order they were carried out; and unless the  *)
(* server died it names every one but the one in hand.                     *)
(***************************************************************************)
LogAccounts ==
  log # Torn =>
    LET logged == {log[i].call : i \in DOMAIN log}
    IN /\ logged \subseteq DOMAIN done
       /\ \A i, j \in DOMAIN log : i < j => done[log[i].call].turn < done[log[j].call].turn
       /\ \A i \in DOMAIN log :
            (log[i].status = "error") = (done[log[i].call].result.status = "thrown")
       /\ \A k \in DOMAIN done \ logged : calls[k].at = "handled" \/ crashes > 0

(***************************************************************************)
(* A call ends: the page does not say "Executing" for ever, whether the    *)
(* action ran, threw, or died with the server.                             *)
(***************************************************************************)
CallsEnd ==
  \A k \in 1 .. MaxCalls :
    (k \in DOMAIN calls /\ calls[k].at = "sent")
      ~> (k \in DOMAIN calls /\ calls[k].at \in {"answered", "failed"})

(***************************************************************************)
(* docs/ai-native/webui-action-launch-batch.md: "execute mode dispatches   *)
(* the batch when the gate passes".                                        *)
(***************************************************************************)
DispatchesWhenGatePasses ==
  \A k \in DOMAIN done :
    /\ done[k].payload.action = "launch-batch"
    /\ resolveTasks(done[k].payload, done[k].files.queue) # << >>
    /\ allAllowed(Gate(done[k].payload, done[k].files))
    => done[k].result.status = "launched"

(***************************************************************************)
(* docs/ai-native/webui-action-launch-batch.md on the docs worker: "Exempt *)
(* - two docs tasks may share a conflictGroup": no other two may.          *)
(***************************************************************************)
SharedGroupsAreDocs ==
  \A k \in {j \in DOMAIN done : HandedOver(j)} :
    LET tasks == done[k].result.plan.selectedTasks
    IN \A i, j \in DOMAIN tasks :
         i # j /\ tasks[i].conflictGroup = tasks[j].conflictGroup /\ tasks[i].conflictGroup # NoGroup
         => tasks[i].workerType = "docs"
=============================================================================
