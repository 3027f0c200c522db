------------------------------- MODULE AsyncJob -------------------------------
(***************************************************************************)
(* WorkerSession::run_async_job (src/src/worker.rs) with the tracker of    *)
(* JobTracker, one Worker and the two channels between them: HTTP, where a *)
(* request or a reply may be lost or come late, and the JSON lines of the  *)
(* Worker's stdout, which arrive in order.                                 *)
(*                                                                         *)
(* The executor asks for one job after the other on a session; a job it    *)
(* gave up on may still run, and its terminal may reach the tracker while  *)
(* the next job is awaited.                                                *)
(*                                                                         *)
(* The Worker is external.  A message of it that passes the checks of      *)
(* common_v3.rs is true, but any message may fail them: an acceptance, a   *)
(* rejection, a line or a status may be invalid.  The Worker may reject a  *)
(* command, fail or disappear at any moment, and once it is gone the       *)
(* Worker of another run may answer at its port.                           *)
(***************************************************************************)
EXTENDS JobTracker, Naturals, Sequences

CONSTANTS
  End,  \* a line that ends the wait: a summary, a fatal error, a failed
        \* status, the end of stdout, or a line that record_event refuses
  Err,  \* an error returned by run_async_job
  BadReply  \* its error if the answer to the command is not a valid one

\* A job in the Worker's hands, and the answer to a command: a 202 that names
\* the job or another code that rejects it (None), valid or not.
WorkerJob == [wid : WorkerIds, command : Commands, terminal : Terminal \cup {None}]
WorkerReply == [wid : WorkerIds \cup {None}, valid : BOOLEAN]

ASSUME MarksAreFresh ==
  /\ {End, Err, BadReply} \cap (Terminal \cup {None}) = {}
  /\ Err # BadReply
  /\ None \notin WorkerJob \cup WorkerReply

VARIABLES
  call,     \* the run_async_job call in progress: pc, its job, the line in hand
  expired,  \* the call's deadline has passed
  results,  \* job_id |-> what run_async_job returned for it: a terminal or an error
  http,     \* the requests under way, and the reply to the current one
  work,     \* the Worker's jobs: job_id |-> [wid, terminal] once accepted
  last,     \* the job last_job of an HTTP status describes, None at first
  state,    \* the Worker: "up", "failed" (still answers HTTP) or "gone"
  stdout,   \* lines written and not yet read: terminals, or End
  received  \* history: job_id |-> commands for it the Worker received

workerVars == <<work, last, state, stdout, received>>
clientVars == <<call, expired, results>>
vars == <<jvars, clientVars, http, workerVars>>

Idle == [pc |-> "idle", job |-> None, line |-> None]

AsyncInit ==
  /\ Init
  /\ call = Idle
  /\ expired = FALSE
  /\ results = [j \in Jobs |-> None]
  /\ http = [requests |-> {}, reply |-> None]
  /\ work = [j \in Jobs |-> None]
  /\ last = None
  /\ state = "up"
  /\ stdout = <<>>
  /\ received = [j \in Jobs |-> 0]

-----------------------------------------------------------------------------
(***************************************************************************)
(* The Worker (external).                                                  *)
(***************************************************************************)
UsedIds == {work[j].wid : j \in {i \in Jobs : work[i] # None}}

\* An answer has a reader only if the call that sent the command still waits.
Answer(r, reply) ==
  http' = [requests |-> http.requests \ {r},
           reply |-> IF call.job = r.job THEN reply ELSE http.reply]

\* The Worker takes a command or not.  It says so in a valid answer, or the
\* answer fails the checks: a 500 that names the job it took, say.
WorkerReceives(r) ==
  /\ state = "up"
  /\ received' = [received EXCEPT ![r.job] = @ + 1]
  /\ \E w \in (WorkerIds \ UsedIds) \cup {None}, valid \in BOOLEAN :
       /\ IF w = None THEN UNCHANGED <<work, last>>
          ELSE /\ work' = [work EXCEPT ![r.job] =
                             [wid |-> w, command |-> r.command, terminal |-> None]]
               /\ last' = r.job
       /\ Answer(r, [wid |-> w, valid |-> valid])
  /\ UNCHANGED <<state, stdout, jvars, clientVars>>

\* The Worker of another run answers at the port; its run_id is refused.
AnotherAnswers(r) ==
  /\ state = "gone"
  /\ Answer(r, [wid |-> None, valid |-> FALSE])
  /\ UNCHANGED <<jvars, clientVars, workerVars>>

\* A job ends; the Worker writes job_finished and updates last_job.
WorkerFinishes(j) ==
  /\ state = "up"
  /\ work[j] # None /\ work[j].terminal = None
  /\ \E c \in Contents :
       LET t == [worker_job_id |-> work[j].wid, job_id |-> j,
                 command |-> work[j].command, content |-> c]
       IN  /\ work' = [work EXCEPT ![j].terminal = t]
           /\ stdout' = Append(stdout, t)
  /\ last' = j
  /\ UNCHANGED <<state, received, http, jvars, clientVars>>

\* A fatal error, a summary or a failed status on stdout (End), after which
\* HTTP reports worker_state failed; or the process ends, and HTTP with it; or
\* a line that is refused, after which the Worker goes on.  Bound: one End at
\* a time is on stdout.
WorkerFails ==
  /\ state = "up" /\ \A i \in 1 .. Len(stdout) : stdout[i] # End
  /\ state' \in {"up", "failed", "gone"}
  /\ stdout' = Append(stdout, End)
  /\ UNCHANGED <<work, last, received, http, jvars, clientVars>>

\* A request never reaches the Worker.
RequestLost(r) ==
  /\ http' = [http EXCEPT !.requests = @ \ {r}]
  /\ UNCHANGED <<jvars, clientVars, workerVars>>

Worker ==
  \/ \E r \in http.requests : WorkerReceives(r) \/ AnotherAnswers(r) \/ RequestLost(r)
  \/ \E j \in Jobs : WorkerFinishes(j)
  \/ WorkerFails

-----------------------------------------------------------------------------
(***************************************************************************)
(* run_async_job.  It registers the job, sends the command once, and then  *)
(* loops: check the tracker and the deadline, take a line, poll the status.*)
(***************************************************************************)
Goto(pc) == call' = [call EXCEPT !.pc = pc, !.line = None]

\* Bug to rule out: the call that returned is still the current one.
ReturnKeepsJob(r) ==
  /\ call' = [call EXCEPT !.pc = "idle", !.line = None]
  /\ results' = [results EXCEPT ![call.job] = r]
  /\ UNCHANGED <<expired, http>>

Return(r) ==
  /\ call' = Idle
  /\ results' = [results EXCEPT ![call.job] = r]
  /\ UNCHANGED <<expired, http>>

\* register before sending, so that a terminal may arrive before Accepted.
Call(j, c) ==
  /\ call.pc = "idle"
  /\ register(j, c)
  /\ call' = [pc |-> "send", job |-> j, line |-> None]
  /\ expired' = FALSE
  /\ UNCHANGED <<results, http, workerVars>>

\* The one place that sends the command.
Send ==
  /\ call.pc = "send"
  /\ http' = [requests |-> http.requests \cup
                             {[job |-> call.job, command |-> jobs[call.job].command]},
              reply |-> None]
  /\ Goto("reply")
  /\ UNCHANGED <<expired, results, jvars, workerVars>>

Reply == http.reply

\* command_accepted: a 202 names the Worker's job, and the tracker may find a
\* conflict in it.
Accepted202 ==
  /\ call.pc = "reply" /\ Reply # None /\ Reply.valid /\ Reply.wid # None
  /\ accepted(call.job, jobs[call.job].command, Reply.wid)
  /\ IF AcceptedConflict(call.job, jobs[call.job].command, Reply.wid)
       THEN Return(Err)
       ELSE Goto("check") /\ UNCHANGED <<expired, results, http>>
  /\ UNCHANGED workerVars

\* command_rejected: the Worker did not take the command.
Rejected ==
  /\ call.pc = "reply" /\ Reply # None /\ Reply.valid /\ Reply.wid = None
  /\ Return(Err)
  /\ UNCHANGED <<jvars, workerVars>>

\* The answer fails command_accepted or command_rejected: the error leaves by
\* `?`, and the job is not marked although the Worker may have taken it.
ReplyRefused ==
  /\ call.pc = "reply" /\ Reply # None /\ ~Reply.valid
  /\ Return(BadReply)
  /\ UNCHANGED <<jvars, workerVars>>

\* Bug to rule out: a request without a reply is sent again.
ResendAfterLostResponse ==
  /\ call.pc = "reply"
  /\ Goto("send")
  /\ UNCHANGED <<expired, results, http, jvars, workerVars>>

\* A timeout, a transport error, or an answer that is no JSON of version 3, is
\* not proof that nothing was executed: the call goes on to look for a
\* terminal, and the request may still arrive.
ResponseLost ==
  /\ call.pc = "reply"
  /\ Goto("check")
  /\ UNCHANGED <<expired, results, http, jvars, workerVars>>

\* Bug to rule out: the deadline is not looked at between two lines.
CheckWithoutDeadline ==
  /\ call.pc = "check"
  /\ \/ has_conflicts /\ Return(Err)
     \/ ~has_conflicts /\ jobs[call.job].terminal # None /\ Return(jobs[call.job].terminal)
     \/ /\ ~has_conflicts /\ jobs[call.job].terminal = None
        /\ Goto("recv")
        /\ UNCHANGED <<expired, results, http>>
  /\ UNCHANGED <<jvars, workerVars>>

\* Terminal and conflicts are read under one lock.
Check ==
  /\ call.pc = "check"
  /\ \/ has_conflicts /\ Return(Err)
     \/ /\ ~has_conflicts /\ jobs[call.job].terminal # None
        /\ Return(jobs[call.job].terminal)
     \/ /\ ~has_conflicts /\ jobs[call.job].terminal = None
        /\ IF expired THEN Goto("giveup") ELSE Goto("recv")
        /\ UNCHANGED <<expired, results, http>>
  /\ UNCHANGED <<jvars, workerVars>>

\* Bug to rule out: the call fails without marking its job.
GiveUpUnmarked ==
  /\ call.pc = "giveup"
  /\ Return(Err)
  /\ UNCHANGED <<jvars, workerVars>>

\* mark_job_unconfirmed(...)?; return Err(...)
GiveUp ==
  /\ call.pc = "giveup"
  /\ mark_unconfirmed(call.job)
  /\ Return(Err)
  /\ UNCHANGED workerVars

RecvTimeout ==
  /\ call.pc = "recv"
  /\ Goto("status")
  /\ UNCHANGED <<expired, results, http, jvars, workerVars>>

IsConflict(t) == Observation(t) \in {"OwnerConflict", "Conflict"}

\* record_event feeds a job_finished line to the tracker before it is returned.
RecvFinished ==
  /\ call.pc = "recv" /\ stdout # <<>> /\ Head(stdout) # End
  /\ observe_terminal(Head(stdout))
  /\ stdout' = Tail(stdout)
  /\ IF IsConflict(Head(stdout))
       THEN Goto("giveup")
       ELSE call' = [call EXCEPT !.pc = "finished", !.line = Head(stdout)]
  /\ UNCHANGED <<expired, results, http, work, last, state, received>>

\* Bug to rule out: the first terminal that comes in is taken for the job's.
FinishedReturnsLine ==
  /\ call.pc = "finished"
  /\ Return(call.line)
  /\ UNCHANGED <<jvars, workerVars>>

\* run_async_job feeds the same line to the tracker again.
Finished2 ==
  /\ call.pc = "finished"
  /\ observe_terminal(call.line)
  /\ IF IsConflict(call.line)
       THEN Return(Err)
       ELSE Goto("status") /\ UNCHANGED <<expired, results, http>>
  /\ UNCHANGED workerVars

\* A summary, a fatal error, a failed status, the end of stdout, or a line that
\* record_event refused.
RecvEnd ==
  /\ call.pc = "recv" /\ stdout # <<>> /\ Head(stdout) = End
  /\ stdout' = Tail(stdout)
  /\ Goto("giveup")
  /\ UNCHANGED <<expired, results, http, jvars, work, last, state, received>>

LastTerminal == IF last = None THEN None ELSE work[last].terminal

\* The status poll: its last_job goes to the tracker before worker_state is
\* looked at.  The client has validated the status; what run_async_job checks
\* again (common_v3::status with the manifest, and snapshot) was checked when
\* the Worker became ready or by the client, so neither `?` leaves here.
Status ==
  /\ call.pc = "status" /\ state # "gone"
  /\ IF LastTerminal = None THEN UNCHANGED jvars ELSE observe_terminal(LastTerminal)
  /\ IF LastTerminal # None /\ IsConflict(LastTerminal)
       THEN Return(Err)
       ELSE /\ Goto(IF state = "failed" THEN "giveup" ELSE "check")
            /\ UNCHANGED <<expired, results, http>>
  /\ UNCHANGED workerVars

\* The client refuses the status: not HTTP 200, no JSON, or of another run.
StatusRefused ==
  /\ call.pc = "status"
  /\ Goto("giveup")
  /\ UNCHANGED <<expired, results, http, jvars, workerVars>>

\* A transport error proves nothing, and the loop continues.
StatusLost ==
  /\ call.pc = "status"
  /\ Goto("check")
  /\ UNCHANGED <<expired, results, http, jvars, workerVars>>

\* Time passes: the deadline is an Instant computed when the call began.
Expire ==
  /\ call.pc # "idle" /\ ~expired
  /\ expired' = TRUE
  /\ UNCHANGED <<call, results, http, jvars, workerVars>>

Step ==
  \/ Send \/ Accepted202 \/ Rejected \/ ReplyRefused \/ ResponseLost \/ Check \/ GiveUp
  \/ RecvTimeout \/ RecvFinished \/ Finished2 \/ RecvEnd
  \/ Status \/ StatusRefused \/ StatusLost

AsyncNext ==
  \/ \E j \in Jobs, c \in Commands : Call(j, c)
  \/ Step
  \/ Expire
  \/ Worker

(***************************************************************************)
(* Every blocking step of the call has a timeout of its own, so the thread *)
(* always moves on, and time passes.  Nothing is assumed of the Worker, of *)
(* HTTP, or of who wins when a line and a timeout are both possible.       *)
(***************************************************************************)
Fairness == WF_vars(Step) /\ WF_vars(Expire)

AsyncSpec == AsyncInit /\ [][AsyncNext]_vars /\ Fairness

-----------------------------------------------------------------------------
AsyncTypeOK ==
  /\ TypeOK
  /\ call.pc \in {"idle", "send", "reply", "check", "giveup", "recv", "finished", "status"}
  /\ call.job \in Jobs \cup {None} /\ (call.job = None <=> call.pc = "idle")
  /\ results \in [Jobs -> Terminal \cup {None, Err, BadReply}]
  /\ received \in [Jobs -> Nat]
  /\ work \in [Jobs -> WorkerJob \cup {None}]
  /\ http.reply \in WorkerReply \cup {None}

(***************************************************************************)
(* "Never resend": whatever is lost, late or fails, the Worker gets the    *)
(* command of a job at most once (worker.rs, run_async_job: the loop after *)
(* a lost response only observes).                                         *)
(***************************************************************************)
ReceivedAtMostOnce == \A j \in Jobs : received[j] <= 1

(***************************************************************************)
(* No false alarm.  One terminal reaches the tracker up to three times per *)
(* line or poll (record_event, run_async_job and last_job), terminals of   *)
(* jobs that were given up come late, and terminals overtake Accepted; a   *)
(* Worker whose valid messages are true is never charged with a conflict.  *)
(***************************************************************************)
NoFalseConflict == ~has_conflicts

(***************************************************************************)
(* A call that fails after its command was answered validly, or not at     *)
(* all, leaves its job in no ambiguous state, whatever ended it: a         *)
(* conflict, the deadline, a line, an invalid status or a failed Worker.   *)
(* If the Worker took the job, or still may, the tracker has its terminal  *)
(* or counts it as unconfirmed.  A call that ends on an invalid answer     *)
(* (BadReply) is outside the claim: its job is left as it is.              *)
(***************************************************************************)
MayRun(j) == work[j] # None \/ \E r \in http.requests : r.job = j

DoubtIsRecorded ==
  \A j \in Jobs : results[j] = Err /\ MayRun(j) =>
    jobs[j].terminal # None \/ jobs[j].unconfirmed

(***************************************************************************)
(* Ok means it happened: a call returns the terminal the Worker gave to    *)
(* that very job.                                                          *)
(***************************************************************************)
OkIsTrue ==
  \A j \in Jobs : results[j] \notin {None, Err, BadReply} =>
    work[j] # None /\ results[j] = work[j].terminal

\* A caller can rely on a call: sent once, and true in either result.
CallIsHonest == ReceivedAtMostOnce /\ OkIsTrue /\ DoubtIsRecorded

\* Every call returns, whatever the Worker and HTTP do.
CallReturns == call.pc # "idle" ~> call.pc = "idle"

\* The tracker learns what the Worker decided, once, and nothing else.
Promise ==
  INSTANCE JobPromise WITH
    Outcomes <- Terminal, Unknown <- None,
    decided <- [j \in Jobs |-> IF work[j] = None THEN None ELSE work[j].terminal],
    learnt <- [j \in Jobs |-> IF jobs[j] = None THEN None ELSE jobs[j].terminal]

KeepsPromise == Promise!Spec

=============================================================================
