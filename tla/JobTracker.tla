------------------------------ MODULE JobTracker ------------------------------
(***************************************************************************)
(* The correlation of asynchronous jobs for one Worker run                 *)
(* (src/src/common_job.rs).  The orchestrator names a job (job_id) and the *)
(* Worker names it again (worker_job_id); the two names meet in HTTP       *)
(* "accepted" replies, in job_finished lines on stdout and in the last_job *)
(* of HTTP status snapshots, in any order and any number of times.         *)
(*                                                                         *)
(* The specification is open: every message that passes the envelope       *)
(* checks of the code may arrive at any time.  Messages the code refuses   *)
(* with Err (foreign run_id, malformed terminal, unknown accepted job)     *)
(* change nothing and are stuttering steps; so are null, queued, running   *)
(* and incomplete snapshots.                                               *)
(***************************************************************************)

CONSTANTS
  Jobs,       \* client job_ids
  WorkerIds,  \* worker_job_ids
  Commands,   \* Worker commands
  Contents,   \* (state, ok, timestamp, error category and code) of a terminal
  None        \* Option::None, and the JSON null of a terminal's job_id

(***************************************************************************)
(* A terminal as Terminal::from_value keeps it, with the fields that       *)
(* common_equivalent compares: two terminals are equivalent exactly when   *)
(* they are equal here.                                                    *)
(***************************************************************************)
Terminal ==
  [worker_job_id : WorkerIds, job_id : Jobs \cup {None},
   command : Commands, content : Contents]

TrackedJob ==
  [command : Commands, worker_job_id : WorkerIds \cup {None},
   terminal : Terminal \cup {None}, evidence : BOOLEAN, unconfirmed : BOOLEAN]

\* None is no value of the other kinds.
ASSUME NoneIsFresh ==
  None \notin Jobs \cup WorkerIds \cup Terminal \cup TrackedJob

VARIABLES
  jobs,        \* job_id |-> TrackedJob, None while not registered
  worker_ids,  \* worker_job_id |-> the job_id that owns it, or None
  claims,      \* history: <<job_id, worker_job_id>> named together for a tracked job
  reports      \* history: terminals that named a tracked job

trackerVars == <<jobs, worker_ids>>
jvars == <<jobs, worker_ids, claims, reports>>

Init ==
  /\ jobs = [j \in Jobs |-> None]
  /\ worker_ids = [w \in WorkerIds |-> None]
  /\ claims = {}
  /\ reports = {}

-----------------------------------------------------------------------------
\* jobs.contains_key(job_id); the null job_id is never a key.
Tracked(j) == j \in Jobs /\ jobs[j] # None

\* The tracker-wide flag shutdown and run_async_job consult.
has_conflicts == \E j \in Jobs : jobs[j] # None /\ jobs[j].evidence

\* Bug to rule out: the id's owner is not looked up.
MismatchWithoutOwner(j, c, w) ==
  jobs[j].command # c \/ jobs[j].worker_job_id \notin {None, w}

\* A tracked job cannot be the job called c and w by this message.
Mismatch(j, c, w) ==
  \/ jobs[j].command # c
  \/ jobs[j].worker_job_id \notin {None, w}
  \/ worker_ids[w] \notin {None, j}

\* Evidence is only ever appended; which text was appended is not modelled.
\* get_mut finds no job that is not tracked: Err, and nothing changes.
PushEvidence(j) ==
  /\ Tracked(j)
  /\ jobs' = [jobs EXCEPT ![j] = [@ EXCEPT !.evidence = TRUE]]

\* Bug to rule out: the two names are swapped.
CorrelateSwapped(w, j) == worker_ids' = [worker_ids EXCEPT ![w] = w]

\* worker_ids.insert(w, j)
Correlate(w, j) == worker_ids' = [worker_ids EXCEPT ![w] = j]

register(j, c) ==
  /\ jobs[j] = None
  /\ jobs' = [jobs EXCEPT ![j] =
                [command |-> c, worker_job_id |-> None, terminal |-> None,
                 evidence |-> FALSE, unconfirmed |-> FALSE]]
  /\ UNCHANGED <<worker_ids, claims, reports>>

AcceptedConflict(j, c, w) ==
  /\ PushEvidence(j)
  /\ Mismatch(j, c, w)
  /\ UNCHANGED worker_ids

AcceptedAgrees(j, c, w) ==
  /\ Tracked(j)
  /\ ~Mismatch(j, c, w)
  /\ jobs' = [jobs EXCEPT ![j] = [@ EXCEPT !.worker_job_id = w]]
  /\ Correlate(w, j)

\* An HTTP 202 reply: the job is named for the first time, again, or wrongly.
accepted(j, c, w) ==
  /\ AcceptedConflict(j, c, w) \/ AcceptedAgrees(j, c, w)
  /\ claims' = claims \cup {<<j, w>>}
  /\ UNCHANGED reports

-----------------------------------------------------------------------------
(***************************************************************************)
(* observe_terminal classifies a terminal before it touches the tracker.   *)
(***************************************************************************)

\* The worker_job_id is known to belong to another client job_id (or to one
\* while the terminal names none).
OwnerDisagrees(t) ==
  /\ worker_ids[t.worker_job_id] # None
  /\ t.job_id # worker_ids[t.worker_job_id]

\* Bug to rule out: whatever follows a stored terminal is a duplicate.
ObservationByIdentity(t) ==
  IF OwnerDisagrees(t) THEN "OwnerConflict"
  ELSE IF ~Tracked(t.job_id) THEN "Ignored"
  ELSE IF Mismatch(t.job_id, t.command, t.worker_job_id) THEN "Conflict"
  ELSE IF jobs[t.job_id].terminal = None THEN "Confirmed" ELSE "Duplicate"

\* Bug to rule out: a second report of the same terminal is a conflict.
ObservationOnce(t) ==
  IF OwnerDisagrees(t) THEN "OwnerConflict"
  ELSE IF ~Tracked(t.job_id) THEN "Ignored"
  ELSE IF Mismatch(t.job_id, t.command, t.worker_job_id) THEN "Conflict"
  ELSE IF jobs[t.job_id].terminal = None THEN "Confirmed" ELSE "Conflict"

Observation(t) ==
  IF OwnerDisagrees(t) THEN "OwnerConflict"
  ELSE IF ~Tracked(t.job_id) THEN "Ignored"
  ELSE IF Mismatch(t.job_id, t.command, t.worker_job_id) THEN "Conflict"
  ELSE IF jobs[t.job_id].terminal = None THEN "Confirmed"
  ELSE IF jobs[t.job_id].terminal = t THEN "Duplicate" ELSE "Conflict"

Confirmed(job, t) ==
  [job EXCEPT !.worker_job_id = t.worker_job_id, !.terminal = t, !.unconfirmed = FALSE]

Confirm(t) ==
  /\ jobs' = [jobs EXCEPT ![t.job_id] = Confirmed(@, t)]
  /\ Correlate(t.worker_job_id, t.job_id)

\* A terminal from a job_finished line or from a complete last_job snapshot.
observe_terminal(t) ==
  /\ \/ Observation(t) = "OwnerConflict"
        /\ PushEvidence(worker_ids[t.worker_job_id]) /\ UNCHANGED worker_ids
     \/ Observation(t) = "Conflict" /\ PushEvidence(t.job_id) /\ UNCHANGED worker_ids
     \/ Observation(t) = "Confirmed" /\ Confirm(t)
     \/ Observation(t) \in {"Ignored", "Duplicate"} /\ UNCHANGED trackerVars
  /\ IF Tracked(t.job_id)
       THEN /\ reports' = reports \cup {t}
            /\ claims' = claims \cup {<<t.job_id, t.worker_job_id>>}
       ELSE UNCHANGED <<reports, claims>>

\* Bug to rule out: a job that has its terminal is marked all the same.
MarkUnconfirmedAlways(j) ==
  /\ Tracked(j)
  /\ jobs' = [jobs EXCEPT ![j] = [@ EXCEPT !.unconfirmed = TRUE]]
  /\ UNCHANGED <<worker_ids, claims, reports>>

\* Bug to rule out: giving up forgets what was learnt.
MarkUnconfirmedForgets(j) ==
  /\ Tracked(j)
  /\ jobs' = [jobs EXCEPT ![j] = [@ EXCEPT !.unconfirmed = TRUE, !.terminal = None]]
  /\ UNCHANGED <<worker_ids, claims, reports>>

\* run_async_job gives up waiting; a terminal that is already there stays.
mark_unconfirmed(j) ==
  /\ Tracked(j)
  /\ IF jobs[j].terminal = None
       THEN jobs' = [jobs EXCEPT ![j] = [@ EXCEPT !.unconfirmed = TRUE]]
       ELSE UNCHANGED jobs
  /\ UNCHANGED <<worker_ids, claims, reports>>

Next ==
  \/ \E j \in Jobs, c \in Commands : register(j, c)
  \/ \E j \in Jobs, c \in Commands, w \in WorkerIds : accepted(j, c, w)
  \/ \E t \in Terminal : observe_terminal(t)
  \/ \E j \in Jobs : mark_unconfirmed(j)

Spec == Init /\ [][Next]_jvars

-----------------------------------------------------------------------------
(***************************************************************************)
(* Type invariant: what the maps of the tracker hold.                      *)
(***************************************************************************)
TypeOK ==
  /\ jobs \in [Jobs -> TrackedJob \cup {None}]
  /\ worker_ids \in [WorkerIds -> Jobs \cup {None}]
  /\ claims \in SUBSET (Jobs \X WorkerIds)
  /\ reports \in SUBSET Terminal

(***************************************************************************)
(* The two maps of the tracker, updated by separate statements of          *)
(* accepted() and observe_terminal(), never disagree: a worker_job_id is   *)
(* owned by a job exactly when that job carries it, so no two jobs share   *)
(* one; and a stored terminal is about the job that stores it, under the   *)
(* command it was registered with.                                         *)
(***************************************************************************)
IdentityAgrees ==
  /\ \A j \in Jobs, w \in WorkerIds :
       worker_ids[w] = j <=> jobs[j] # None /\ jobs[j].worker_job_id = w
  /\ \A j \in Jobs : jobs[j] # None /\ jobs[j].terminal # None =>
       /\ jobs[j].terminal.job_id = j
       /\ jobs[j].terminal.worker_job_id = jobs[j].worker_job_id
       /\ jobs[j].terminal.command = jobs[j].command

(***************************************************************************)
(* No contradiction is silent.  While the tracker reports no conflict,     *)
(* everything the Worker ever said about tracked jobs, on any channel, is  *)
(* consistent: the pairs of names it used form a one-to-one relation, and  *)
(* all the terminals it sent for a job are the one the tracker holds.      *)
(***************************************************************************)
NoSilentContradiction ==
  ~has_conflicts =>
    /\ \A a, b \in claims : a[1] = b[1] <=> a[2] = b[2]
    /\ \A t \in reports : jobs[t.job_id].terminal = t

(***************************************************************************)
(* "Terminals remain confirmed": once a terminal is stored, no later       *)
(* reply, line, snapshot or timeout changes it, the job's worker_job_id or *)
(* who owns that id, and the job is never counted as unconfirmed again.    *)
(* Conflict evidence is never withdrawn either.                            *)
(***************************************************************************)
Finished(j) == jobs[j] # None /\ jobs[j].terminal # None

TerminalIsFinal ==
  [][\A j \in Jobs :
       /\ Finished(j) =>
            /\ Finished(j)'
            /\ jobs'[j].terminal = jobs[j].terminal
            /\ jobs'[j].worker_job_id = jobs[j].worker_job_id
            /\ worker_ids'[jobs[j].worker_job_id] = j
            /\ ~jobs'[j].unconfirmed
       /\ jobs[j] # None /\ jobs[j].evidence => jobs'[j] # None /\ jobs'[j].evidence]_jvars

=============================================================================
