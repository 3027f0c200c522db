----------------------------- MODULE AsyncJobProofs -----------------------------
(***************************************************************************)
(* First the properties of JobTracker for every set of jobs, Worker names, *)
(* commands and contents, finite or not.  NoSilentContradiction is not     *)
(* inductive: that two messages contradict each other is noticed only      *)
(* because the tracker remembers the first one.  Remembered says what it   *)
(* remembers; with IdentityAgrees and Settled it is inductive, and the     *)
(* properties follow from it.                                              *)
(*                                                                         *)
(* Then run_async_job, which keeps its promise: a Worker whose valid       *)
(* messages are true is never charged with a conflict, a command is        *)
(* received once at most, what a call returns is true, a call that fails   *)
(* on anything but an invalid answer leaves its doubt on record, and       *)
(* AsyncJob implements JobPromise.                                         *)
(*                                                                         *)
(* The invariant says what each party can know: what is written to stdout, *)
(* held by the call or stored by the tracker is what the Worker decided    *)
(* (Known, Said); and that a command that was received is no longer under  *)
(* way, nor about to be sent (Once).                                       *)
(***************************************************************************)
EXTENDS AsyncJob, TLAPS

\* A job with a terminal is not waiting to be confirmed.
Settled == \A j \in Jobs : Finished(j) => ~jobs[j].unconfirmed

\* What has been said about a tracked job is what the tracker holds, unless
\* there is evidence of a conflict.
Remembered ==
  /\ \A t \in reports : Tracked(t.job_id)
  /\ ~has_conflicts =>
       /\ \A c \in claims : Tracked(c[1]) /\ jobs[c[1]].worker_job_id = c[2]
       /\ \A t \in reports : jobs[t.job_id].terminal = t

IInv == TypeOK /\ IdentityAgrees /\ Settled /\ Remembered

-----------------------------------------------------------------------------
(***************************************************************************)
(* The tracker is well typed: observe_terminal only confirms a terminal    *)
(* whose job_id names a tracked job, and pushes evidence only on one.      *)
(***************************************************************************)
LEMMA TypeInit == Init => TypeOK
  BY DEF Init, TypeOK

\* Evidence pushed on a tracked job leaves the job map well typed.
LEMMA PushedType ==
  ASSUME TypeOK, NEW j, PushEvidence(j)
  PROVE  jobs' \in [Jobs -> TrackedJob \cup {None}]
<1>1. j \in Jobs /\ jobs[j] \in TrackedJob
  BY DEF TypeOK, PushEvidence, Tracked
<1>2. [jobs[j] EXCEPT !.evidence = TRUE] \in TrackedJob
  BY <1>1 DEF TrackedJob
<1>3. jobs' = [jobs EXCEPT ![j] = [jobs[j] EXCEPT !.evidence = TRUE]]
  BY <1>1 DEF PushEvidence, TypeOK
<1> QED BY <1>1, <1>2, <1>3 DEF TypeOK

(* Every operation of the tracker keeps the types.                         *)
LEMMA TypeStep == TypeOK /\ [Next]_jvars => TypeOK'
<1> SUFFICES ASSUME TypeOK, [Next]_jvars PROVE TypeOK'
  OBVIOUS
<1> USE DEF TypeOK
<1>1. ASSUME NEW j \in Jobs, NEW c \in Commands, register(j, c) PROVE TypeOK'
  BY <1>1 DEF register, TrackedJob
<1>2. ASSUME NEW j \in Jobs, NEW c \in Commands, NEW w \in WorkerIds, accepted(j, c, w)
      PROVE  TypeOK'
  <2>1. CASE AcceptedConflict(j, c, w)
    BY <1>2, <2>1, PushedType DEF accepted, AcceptedConflict
  <2>2. CASE AcceptedAgrees(j, c, w)
    <3>1. jobs[j] \in TrackedJob
      BY <2>2 DEF AcceptedAgrees, Tracked
    <3>2. [jobs[j] EXCEPT !.worker_job_id = w] \in TrackedJob
      BY <3>1 DEF TrackedJob
    <3>3. jobs' = [jobs EXCEPT ![j] = [jobs[j] EXCEPT !.worker_job_id = w]]
      BY <2>2 DEF AcceptedAgrees
    <3> QED BY <1>2, <2>2, <3>2, <3>3 DEF accepted, AcceptedAgrees, Correlate
  <2> QED BY <1>2, <2>1, <2>2 DEF accepted
<1>3. ASSUME NEW t \in Terminal, observe_terminal(t) PROVE TypeOK'
  <2>1. claims' \in SUBSET (Jobs \X WorkerIds) /\ reports' \in SUBSET Terminal
    BY <1>3 DEF observe_terminal, Tracked, Terminal
  <2>2. CASE Observation(t) \in {"OwnerConflict", "Conflict"}
    BY <1>3, <2>1, <2>2, PushedType DEF observe_terminal
  <2>4. CASE Observation(t) = "Confirmed"
    <3>1. Tracked(t.job_id) /\ t.job_id \in Jobs /\ jobs[t.job_id] \in TrackedJob
      BY <2>4 DEF Observation, Tracked
    <3>2. Confirm(t)
      BY <1>3, <2>4 DEF observe_terminal
    <3>3. Confirmed(jobs[t.job_id], t) \in TrackedJob
      BY <3>1 DEF Confirmed, TrackedJob, Terminal
    <3>4. worker_ids' \in [WorkerIds -> Jobs \cup {None}]
      BY <3>1, <3>2 DEF Confirm, Correlate, Terminal
    <3> QED BY <2>1, <3>1, <3>2, <3>3, <3>4 DEF Confirm
  <2>5. CASE Observation(t) \in {"Ignored", "Duplicate"}
    BY <1>3, <2>1, <2>5 DEF observe_terminal, trackerVars
  <2> QED BY <2>2, <2>4, <2>5 DEF Observation
<1>4. ASSUME NEW j \in Jobs, mark_unconfirmed(j) PROVE TypeOK'
  <2>1. jobs[j] \in TrackedJob
    BY <1>4 DEF mark_unconfirmed, Tracked
  <2>2. CASE jobs[j].terminal = None
    <3>1. [jobs[j] EXCEPT !.unconfirmed = TRUE] \in TrackedJob
      BY <2>1 DEF TrackedJob
    <3> QED BY <1>4, <2>2, <3>1 DEF mark_unconfirmed
  <2>3. CASE jobs[j].terminal # None
    BY <1>4, <2>3 DEF mark_unconfirmed
  <2> QED BY <2>2, <2>3
<1>5. CASE UNCHANGED jvars
  BY <1>5 DEF jvars
<1> QED BY <1>1, <1>2, <1>3, <1>4, <1>5 DEF Next

(* The tracker's tables keep their shape (job_tracker.rs, Jobs).           *)
THEOREM TypeCorrect == Spec => []TypeOK
  BY TypeInit, TypeStep, PTL DEF Spec

-----------------------------------------------------------------------------
(***************************************************************************)
(* What the record updates do, field by field.                             *)
(***************************************************************************)

\* Evidence pushed on a job changes nothing else of it, nor any other job.
LEMMA PushedFields ==
  ASSUME TypeOK, NEW k, PushEvidence(k)
  PROVE  /\ k \in Jobs /\ jobs[k] # None /\ jobs'[k] # None
         /\ jobs'[k].evidence
         /\ jobs'[k].command = jobs[k].command
         /\ jobs'[k].worker_job_id = jobs[k].worker_job_id
         /\ jobs'[k].terminal = jobs[k].terminal
         /\ jobs'[k].unconfirmed = jobs[k].unconfirmed
         /\ \A j \in Jobs \ {k} : jobs'[j] = jobs[j]
<1>1. k \in Jobs /\ jobs[k] \in TrackedJob /\ jobs[k] # None
  BY DEF PushEvidence, Tracked, TypeOK
<1>2. jobs' = [jobs EXCEPT ![k] = [jobs[k] EXCEPT !.evidence = TRUE]]
  BY DEF PushEvidence
<1>3. jobs'[k] = [jobs[k] EXCEPT !.evidence = TRUE] /\ jobs'[k] \in TrackedJob
  BY <1>1, <1>2 DEF TypeOK, TrackedJob
<1>4. jobs'[k] # None
  BY <1>3, NoneIsFresh
<1> QED BY <1>1, <1>2, <1>3, <1>4 DEF TypeOK, TrackedJob

\* An accepted reply that agrees sets the job's Worker name and its owner.
LEMMA AgreedFields ==
  ASSUME TypeOK, NEW k \in Jobs, NEW c \in Commands, NEW w \in WorkerIds,
         AcceptedAgrees(k, c, w)
  PROVE  /\ jobs[k] # None /\ jobs'[k] # None
         /\ jobs'[k].evidence = jobs[k].evidence
         /\ jobs'[k].command = jobs[k].command
         /\ jobs[k].worker_job_id \in {None, w} /\ jobs'[k].worker_job_id = w
         /\ jobs'[k].terminal = jobs[k].terminal
         /\ jobs'[k].unconfirmed = jobs[k].unconfirmed
         /\ \A j \in Jobs \ {k} : jobs'[j] = jobs[j]
         /\ worker_ids[w] \in {None, k} /\ worker_ids'[w] = k
         /\ \A v \in WorkerIds \ {w} : worker_ids'[v] = worker_ids[v]
<1>1. jobs[k] \in TrackedJob /\ jobs[k] # None
  BY DEF AcceptedAgrees, Tracked, TypeOK
<1>2. jobs' = [jobs EXCEPT ![k] = [jobs[k] EXCEPT !.worker_job_id = w]]
  BY DEF AcceptedAgrees
<1>3. jobs'[k] = [jobs[k] EXCEPT !.worker_job_id = w] /\ jobs'[k] \in TrackedJob
  BY <1>1, <1>2 DEF TypeOK, TrackedJob
<1>4. jobs'[k] # None
  BY <1>3, NoneIsFresh
<1>5. worker_ids[w] \in {None, k} /\ jobs[k].worker_job_id \in {None, w}
  BY DEF AcceptedAgrees, Mismatch
<1>6. worker_ids'[w] = k /\ \A v \in WorkerIds \ {w} : worker_ids'[v] = worker_ids[v]
  BY DEF AcceptedAgrees, Correlate, TypeOK
<1> QED BY <1>1, <1>2, <1>3, <1>4, <1>5, <1>6 DEF TypeOK, TrackedJob

\* Confirming a terminal stores it, names the job and ends its doubt.
Confirms(t, k, w) ==
  /\ k = t.job_id /\ w = t.worker_job_id /\ t # None
  /\ jobs[k] # None /\ jobs'[k] # None
  /\ jobs'[k].evidence = jobs[k].evidence
  /\ jobs'[k].command = t.command
  /\ jobs[k].worker_job_id \in {None, w} /\ jobs'[k].worker_job_id = w
  /\ jobs[k].terminal = None /\ jobs'[k].terminal = t
  /\ jobs'[k].unconfirmed = FALSE
  /\ \A j \in Jobs \ {k} : jobs'[j] = jobs[j]
  /\ worker_ids[w] \in {None, k} /\ worker_ids'[w] = k
  /\ \A v \in WorkerIds \ {w} : worker_ids'[v] = worker_ids[v]

(* A confirmed terminal writes one job and one identifier.                 *)
LEMMA ConfirmedFields ==
  ASSUME TypeOK, NEW t \in Terminal, Observation(t) = "Confirmed", Confirm(t)
  PROVE  \E k \in Jobs, w \in WorkerIds : Confirms(t, k, w)
<1>0. t.job_id \in Jobs /\ t.worker_job_id \in WorkerIds /\ t # None
  BY NoneIsFresh DEF Observation, Tracked, Terminal
<1>1. PICK k \in Jobs, w \in WorkerIds : k = t.job_id /\ w = t.worker_job_id
  BY <1>0
<1>2. jobs[k] \in TrackedJob /\ jobs[k] # None /\ jobs[k].terminal = None
  BY <1>1 DEF Observation, Tracked, TypeOK
<1>3. ~Mismatch(k, t.command, w)
  BY <1>1 DEF Observation
<1>4. jobs'[k] = Confirmed(jobs[k], t) /\ \A j \in Jobs \ {k} : jobs'[j] = jobs[j]
  BY <1>1 DEF Confirm, TypeOK
<1>5. Confirmed(jobs[k], t) \in TrackedJob
  BY <1>2 DEF Confirmed, TrackedJob, Terminal
<1>6. jobs'[k] # None
  BY <1>4, <1>5, NoneIsFresh
<1>7. /\ jobs'[k].evidence = jobs[k].evidence
      /\ jobs'[k].command = jobs[k].command
      /\ jobs'[k].worker_job_id = w
      /\ jobs'[k].terminal = t
      /\ jobs'[k].unconfirmed = FALSE
  BY <1>1, <1>2, <1>4 DEF Confirmed, TrackedJob
<1>8. worker_ids'[w] = k /\ \A v \in WorkerIds \ {w} : worker_ids'[v] = worker_ids[v]
  BY <1>1 DEF Confirm, Correlate, TypeOK
<1>9. jobs[k].command = t.command /\ jobs[k].worker_job_id \in {None, w} /\ worker_ids[w] \in {None, k}
  BY <1>3 DEF Mismatch
<1> QED BY <1>0, <1>1, <1>2, <1>4, <1>6, <1>7, <1>8, <1>9 DEF Confirms

\* Giving up on a job changes only its doubt, and only without a terminal.
LEMMA UnconfirmedFields ==
  ASSUME TypeOK, NEW k \in Jobs, mark_unconfirmed(k)
  PROVE  /\ jobs[k] # None /\ jobs'[k] # None
         /\ jobs'[k].evidence = jobs[k].evidence
         /\ jobs'[k].command = jobs[k].command
         /\ jobs'[k].worker_job_id = jobs[k].worker_job_id
         /\ jobs'[k].terminal = jobs[k].terminal
         /\ jobs[k].terminal # None => jobs'[k].unconfirmed = jobs[k].unconfirmed
         /\ \A j \in Jobs \ {k} : jobs'[j] = jobs[j]
<1>1. jobs[k] \in TrackedJob /\ jobs[k] # None
  BY DEF mark_unconfirmed, Tracked, TypeOK
<1>2. CASE jobs[k].terminal = None
  <2>1. jobs'[k] = [jobs[k] EXCEPT !.unconfirmed = TRUE] /\ \A j \in Jobs \ {k} : jobs'[j] = jobs[j]
    BY <1>2 DEF mark_unconfirmed, TypeOK
  <2>2. jobs'[k] \in TrackedJob
    BY <1>1, <2>1 DEF TrackedJob
  <2> QED BY <1>1, <1>2, <2>1, <2>2, NoneIsFresh DEF TrackedJob
<1>3. CASE jobs[k].terminal # None
  BY <1>1, <1>3 DEF mark_unconfirmed
<1> QED BY <1>2, <1>3

\* A job is registered with nothing known about it.
LEMMA RegisteredFields ==
  ASSUME TypeOK, NEW k \in Jobs, NEW c \in Commands, register(k, c)
  PROVE  /\ jobs[k] = None /\ jobs'[k] # None
         /\ jobs'[k].evidence = FALSE
         /\ jobs'[k].worker_job_id = None
         /\ jobs'[k].terminal = None
         /\ jobs'[k].unconfirmed = FALSE
         /\ \A j \in Jobs \ {k} : jobs'[j] = jobs[j]
<1>1. jobs'[k] \in TrackedJob
  BY DEF register, TypeOK, TrackedJob
<1> QED BY <1>1, NoneIsFresh DEF register, TypeOK

-----------------------------------------------------------------------------
(***************************************************************************)
(* The inductive step, one lemma per effect on the tracker.                *)
(***************************************************************************)

\* A finished job has a Worker name, and owns it.
LEMMA FinishedIsNamed ==
  ASSUME TypeOK, IdentityAgrees, NEW j \in Jobs, Finished(j)
  PROVE  jobs[j].worker_job_id \in WorkerIds /\ worker_ids[jobs[j].worker_job_id] = j
<1>1. jobs[j] # None /\ jobs[j] \in TrackedJob /\ jobs[j].terminal \in Terminal
  BY DEF Finished, TypeOK, TrackedJob
<1>2. jobs[j].worker_job_id = jobs[j].terminal.worker_job_id
  BY <1>1, NoneIsFresh DEF IdentityAgrees
<1>3. jobs[j].worker_job_id \in WorkerIds
  BY <1>1, <1>2 DEF Terminal
<1> QED BY <1>1, <1>3 DEF IdentityAgrees

\* A conflict leaves the names alone and makes has_conflicts true.
LEMMA PushKeeps ==
  ASSUME IInv, TypeOK', NEW k, PushEvidence(k), UNCHANGED worker_ids,
         \A t \in reports' : t \in reports \/ Tracked(t.job_id)
  PROVE  IdentityAgrees' /\ Settled' /\ Remembered'
<1>1. IdentityAgrees'
  BY PushedFields DEF IInv, IdentityAgrees
<1>2. Settled'
  BY PushedFields DEF IInv, Settled, Finished
<1>3. has_conflicts'
  BY PushedFields DEF IInv, has_conflicts
<1>4. \A t \in reports' : Tracked(t.job_id)'
  BY PushedFields DEF IInv, Remembered, Tracked
<1> QED BY <1>1, <1>2, <1>3, <1>4 DEF Remembered

\* Registering a job: nothing was said about it while it was not tracked.
LEMMA RegisterKeeps ==
  ASSUME IInv, NEW k \in Jobs, NEW c \in Commands, register(k, c)
  PROVE  IdentityAgrees' /\ Settled' /\ Remembered'
<1>0. /\ jobs[k] = None /\ jobs'[k] # None /\ jobs'[k].evidence = FALSE
      /\ jobs'[k].worker_job_id = None /\ jobs'[k].terminal = None
      /\ \A j \in Jobs \ {k} : jobs'[j] = jobs[j]
  BY RegisteredFields DEF IInv
<1>1. worker_ids' = worker_ids /\ claims' = claims /\ reports' = reports
  BY DEF register
<1>2. IdentityAgrees'
  BY <1>0, <1>1, NoneIsFresh DEF IInv, IdentityAgrees
<1>3. Settled'
  BY RegisteredFields DEF IInv, Settled, Finished
<1>4. has_conflicts' <=> has_conflicts
  BY RegisteredFields DEF IInv, has_conflicts
<1>5. Remembered'
  BY <1>0, <1>1, <1>4 DEF IInv, Remembered, Tracked
<1> QED BY <1>2, <1>3, <1>5

\* An accepted reply that agrees: the pair it claims is the pair stored.
LEMMA AcceptedKeeps ==
  ASSUME IInv, NEW k \in Jobs, NEW c \in Commands, NEW w \in WorkerIds,
         accepted(k, c, w), AcceptedAgrees(k, c, w)
  PROVE  IdentityAgrees' /\ Settled' /\ Remembered'
<1> USE DEF IInv
<1>0. /\ jobs[k] # None /\ jobs'[k] # None
      /\ jobs'[k].evidence = jobs[k].evidence
      /\ jobs'[k].command = jobs[k].command
      /\ jobs[k].worker_job_id \in {None, w} /\ jobs'[k].worker_job_id = w
      /\ jobs'[k].terminal = jobs[k].terminal
      /\ jobs'[k].unconfirmed = jobs[k].unconfirmed
      /\ \A j \in Jobs \ {k} : jobs'[j] = jobs[j]
      /\ worker_ids[w] \in {None, k} /\ worker_ids'[w] = k
      /\ \A v \in WorkerIds \ {w} : worker_ids'[v] = worker_ids[v]
  BY AgreedFields
<1> USE <1>0
<1>1. claims' = claims \cup {<<k, w>>} /\ reports' = reports
  BY DEF accepted
<1>2. IdentityAgrees'
  BY FinishedIsNamed, NoneIsFresh DEF IdentityAgrees, Finished
<1>3. Settled'
  BY DEF Settled, Finished
<1>4. has_conflicts' <=> has_conflicts
  BY DEF has_conflicts
<1>5. \A t \in reports' : Tracked(t.job_id)'
  BY <1>1 DEF Remembered, Tracked
<1>6. ASSUME ~has_conflicts'
      PROVE  /\ \A a \in claims' : Tracked(a[1])' /\ jobs'[a[1]].worker_job_id = a[2]
             /\ \A t \in reports' : jobs'[t.job_id].terminal = t
  <2>1. \A a \in claims : Tracked(a[1]) /\ jobs[a[1]].worker_job_id = a[2] /\ a[2] # None
    BY <1>4, <1>6, NoneIsFresh DEF Remembered, TypeOK
  <2>2. \A a \in claims' : Tracked(a[1])' /\ jobs'[a[1]].worker_job_id = a[2]
    BY <1>1, <2>1 DEF Tracked
  <2>3. \A t \in reports' : jobs'[t.job_id].terminal = t
    BY <1>1, <1>4, <1>6 DEF Remembered, Tracked
  <2> QED BY <2>2, <2>3
<1> QED BY <1>2, <1>3, <1>5, <1>6 DEF Remembered

\* Confirming a terminal: it is the first one reported for its job.
LEMMA ConfirmKeeps ==
  ASSUME IInv, NEW t \in Terminal, observe_terminal(t), Observation(t) = "Confirmed"
  PROVE  IdentityAgrees' /\ Settled' /\ Remembered'
<1> USE DEF IInv
<1>1. Confirm(t)
  BY DEF observe_terminal
<1>2. PICK k \in Jobs, w \in WorkerIds : Confirms(t, k, w)
  BY <1>1, ConfirmedFields
<1> USE DEF Confirms
<1>3. claims' = claims \cup {<<k, w>>} /\ reports' = reports \cup {t}
  BY <1>2 DEF observe_terminal, Tracked
<1>4. IdentityAgrees'
  BY <1>2, NoneIsFresh DEF IdentityAgrees
<1>5. Settled'
  BY <1>2 DEF Settled, Finished
<1>6. has_conflicts' <=> has_conflicts
  BY <1>2 DEF has_conflicts
<1>7. \A r \in reports' : Tracked(r.job_id)'
  BY <1>2, <1>3 DEF Remembered, Tracked
<1>8. ASSUME ~has_conflicts'
      PROVE  /\ \A a \in claims' : Tracked(a[1])' /\ jobs'[a[1]].worker_job_id = a[2]
             /\ \A r \in reports' : jobs'[r.job_id].terminal = r
  <2>1. \A a \in claims : Tracked(a[1]) /\ jobs[a[1]].worker_job_id = a[2] /\ a[2] # None
    BY <1>6, <1>8, NoneIsFresh DEF Remembered, TypeOK
  <2>2. \A a \in claims' : Tracked(a[1])' /\ jobs'[a[1]].worker_job_id = a[2]
    BY <1>2, <1>3, <2>1 DEF Tracked
  <2>3. \A r \in reports : jobs[r.job_id].terminal = r /\ Tracked(r.job_id) /\ r # None
    BY <1>6, <1>8, NoneIsFresh DEF Remembered, TypeOK
  <2>4. \A r \in reports' : jobs'[r.job_id].terminal = r
    BY <1>2, <1>3, <2>3 DEF Tracked
  <2> QED BY <2>2, <2>4
<1> QED BY <1>4, <1>5, <1>7, <1>8 DEF Remembered

\* A repeated terminal says what is stored; an ignored one names no tracked job.
LEMMA RepeatKeeps ==
  ASSUME IInv, NEW t \in Terminal, observe_terminal(t),
         Observation(t) \in {"Ignored", "Duplicate"}
  PROVE  IdentityAgrees' /\ Settled' /\ Remembered'
<1> USE DEF IInv
<1>1. jobs' = jobs /\ worker_ids' = worker_ids
  BY DEF observe_terminal, trackerVars
<1>2. IdentityAgrees' /\ Settled' /\ (has_conflicts' <=> has_conflicts)
  BY <1>1 DEF IdentityAgrees, Settled, Finished, has_conflicts
<1>3. CASE Observation(t) = "Ignored"
  <2>1. ~Tracked(t.job_id)
    BY <1>3 DEF Observation
  <2>2. claims' = claims /\ reports' = reports
    BY <2>1 DEF observe_terminal
  <2> QED BY <1>1, <1>2, <2>2 DEF Remembered, Tracked
<1>4. CASE Observation(t) = "Duplicate"
  <2>1. Tracked(t.job_id) /\ jobs[t.job_id].terminal = t /\ t # None
    BY <1>4, NoneIsFresh DEF Observation
  <2>2. jobs[t.job_id].worker_job_id = t.worker_job_id
    BY <2>1 DEF IdentityAgrees, Tracked
  <2>3. /\ claims' = claims \cup {<<t.job_id, t.worker_job_id>>}
        /\ reports' = reports \cup {t}
    BY <2>1 DEF observe_terminal
  <2> QED BY <1>1, <1>2, <2>1, <2>2, <2>3 DEF Remembered, Tracked
<1> QED BY <1>2, <1>3, <1>4

(* A tracker without jobs has nothing to contradict.                       *)
LEMMA InvInit == Init => IInv
<1> SUFFICES ASSUME Init PROVE IInv
  OBVIOUS
<1>1. TypeOK
  BY TypeInit
<1> QED BY <1>1, NoneIsFresh DEF Init, IInv, IdentityAgrees, Settled, Finished, Remembered

(* Every operation of the tracker keeps the invariant.                     *)
LEMMA InvStep == IInv /\ [Next]_jvars => IInv'
<1> SUFFICES ASSUME IInv, [Next]_jvars PROVE IInv'
  OBVIOUS
<1>0. TypeOK'
  BY TypeStep DEF IInv
<1>1. ASSUME NEW j \in Jobs, NEW c \in Commands, register(j, c) PROVE IInv'
  BY <1>0, <1>1, RegisterKeeps DEF IInv
<1>2. ASSUME NEW j \in Jobs, NEW c \in Commands, NEW w \in WorkerIds, accepted(j, c, w)
      PROVE  IInv'
  <2>1. CASE AcceptedConflict(j, c, w)
    <3>1. reports' = reports
      BY <1>2 DEF accepted
    <3> QED BY <1>0, <2>1, <3>1, PushKeeps DEF AcceptedConflict, IInv
  <2>2. CASE AcceptedAgrees(j, c, w)
    BY <1>0, <1>2, <2>2, AcceptedKeeps DEF IInv
  <2> QED BY <1>2, <2>1, <2>2 DEF accepted
<1>3. ASSUME NEW t \in Terminal, observe_terminal(t) PROVE IInv'
  <2>1. \A r \in reports' : r \in reports \/ Tracked(r.job_id)
    BY <1>3 DEF observe_terminal
  <2>2. CASE Observation(t) \in {"OwnerConflict", "Conflict"}
    BY <1>0, <1>3, <2>1, <2>2, PushKeeps DEF observe_terminal, IInv
  <2>3. CASE Observation(t) = "Confirmed"
    BY <1>0, <1>3, <2>3, ConfirmKeeps DEF IInv
  <2>4. CASE Observation(t) \in {"Ignored", "Duplicate"}
    BY <1>0, <1>3, <2>4, RepeatKeeps DEF IInv
  <2> QED BY <2>2, <2>3, <2>4 DEF Observation
<1>4. ASSUME NEW j \in Jobs, mark_unconfirmed(j) PROVE IInv'
  <2> USE UnconfirmedFields DEF IInv
  <2>1. worker_ids' = worker_ids /\ claims' = claims /\ reports' = reports
    BY <1>4 DEF mark_unconfirmed
  <2>2. IdentityAgrees'
    BY <1>4, <2>1 DEF IdentityAgrees
  <2>3. Settled'
    BY <1>4 DEF Settled, Finished
  <2>4. has_conflicts' <=> has_conflicts
    BY <1>4 DEF has_conflicts
  <2>5. Remembered'
    BY <1>4, <2>1, <2>4 DEF Remembered, Tracked
  <2> QED BY <1>0, <2>2, <2>3, <2>5
<1>5. CASE UNCHANGED jvars
  BY <1>0, <1>5 DEF jvars, IInv, IdentityAgrees, Settled, Finished, Remembered, Tracked, has_conflicts
<1> QED BY <1>1, <1>2, <1>3, <1>4, <1>5 DEF Next

(* The invariant holds in every behaviour of the tracker.                  *)
LEMMA Invariant == Spec => []IInv
  BY InvInit, InvStep, PTL DEF Spec

-----------------------------------------------------------------------------
(***************************************************************************)
(* The two maps of the tracker never disagree about who is who.            *)
(***************************************************************************)
THEOREM IdentityCorrect == Spec => []IdentityAgrees
<1>1. IInv => IdentityAgrees
  BY DEF IInv
<1> QED BY <1>1, Invariant, PTL

(***************************************************************************)
(* A contradiction between any two messages about tracked jobs leaves      *)
(* conflict evidence, which run_async_job and shutdown turn into an error. *)
(***************************************************************************)
THEOREM ContradictionsAreSeen == Spec => []NoSilentContradiction
<1>1. IInv => NoSilentContradiction
  <2> SUFFICES ASSUME IInv, ~has_conflicts
               PROVE  /\ \A a, b \in claims : a[1] = b[1] <=> a[2] = b[2]
                      /\ \A t \in reports : jobs[t.job_id].terminal = t
    BY DEF NoSilentContradiction
  <2>1. \A a \in claims : worker_ids[a[2]] = a[1] /\ jobs[a[1]].worker_job_id = a[2]
    BY DEF IInv, Remembered, IdentityAgrees, Tracked, TypeOK
  <2> QED BY <2>1 DEF IInv, Remembered
<1> QED BY <1>1, Invariant, PTL

(***************************************************************************)
(* No step of any client changes a stored terminal or its identity, or     *)
(* withdraws evidence.                                                     *)
(***************************************************************************)
THEOREM TerminalsAreFinal == Spec => TerminalIsFinal
<1> DEFINE Final(j) ==
             /\ Finished(j) =>
                  /\ Finished(j)'
                  /\ jobs'[j].terminal = jobs[j].terminal
                  /\ jobs'[j].worker_job_id = jobs[j].worker_job_id
                  /\ worker_ids'[jobs[j].worker_job_id] = j
                  /\ ~jobs'[j].unconfirmed
             /\ jobs[j] # None /\ jobs[j].evidence => jobs'[j] # None /\ jobs'[j].evidence
<1>1. ASSUME IInv, IInv', [Next]_jvars, NEW j \in Jobs PROVE Final(j)
  <2> USE DEF IInv
  <2>0. Finished(j) => /\ jobs[j].worker_job_id \in WorkerIds
                       /\ worker_ids[jobs[j].worker_job_id] = j
                       /\ ~jobs[j].unconfirmed
    BY <1>1, FinishedIsNamed DEF Settled
  <2>1. ASSUME NEW k \in Jobs, NEW c \in Commands, register(k, c) PROVE Final(j)
    BY <2>0, <2>1, RegisteredFields DEF register, Finished
  <2>2. ASSUME NEW k, PushEvidence(k), UNCHANGED worker_ids PROVE Final(j)
    <3>1. /\ k \in Jobs /\ jobs'[k] # None /\ jobs'[k].evidence
          /\ jobs'[k].worker_job_id = jobs[k].worker_job_id
          /\ jobs'[k].terminal = jobs[k].terminal
          /\ jobs'[k].unconfirmed = jobs[k].unconfirmed
          /\ \A i \in Jobs \ {k} : jobs'[i] = jobs[i]
      BY <1>1, <2>2, PushedFields
    <3> QED BY <2>0, <2>2, <3>1 DEF Finished
  <2>3. ASSUME NEW k \in Jobs, NEW c \in Commands, NEW w \in WorkerIds, AcceptedAgrees(k, c, w)
        PROVE  Final(j)
    <3>1. /\ jobs'[k] # None /\ jobs'[k].evidence = jobs[k].evidence
          /\ jobs[k].worker_job_id \in {None, w} /\ jobs'[k].worker_job_id = w
          /\ jobs'[k].terminal = jobs[k].terminal
          /\ jobs'[k].unconfirmed = jobs[k].unconfirmed
          /\ \A i \in Jobs \ {k} : jobs'[i] = jobs[i]
          /\ worker_ids[w] \in {None, k} /\ worker_ids'[w] = k
          /\ \A v \in WorkerIds \ {w} : worker_ids'[v] = worker_ids[v]
      BY <1>1, <2>3, AgreedFields
    <3> QED BY <2>0, <3>1, NoneIsFresh DEF Finished
  <2>4. ASSUME NEW t \in Terminal, observe_terminal(t) PROVE Final(j)
    <3>1. CASE Observation(t) \in {"OwnerConflict", "Conflict"}
      BY <2>2, <2>4, <3>1 DEF observe_terminal
    <3>2. CASE Observation(t) = "Confirmed"
      <4>1. Confirm(t)
        BY <2>4, <3>2 DEF observe_terminal
      <4>2. PICK k \in Jobs, w \in WorkerIds : Confirms(t, k, w)
        BY <1>1, <3>2, <4>1, ConfirmedFields
      <4> QED BY <2>0, <4>2, NoneIsFresh DEF Finished, Confirms
    <3>3. CASE Observation(t) \in {"Ignored", "Duplicate"}
      BY <2>0, <2>4, <3>3 DEF observe_terminal, trackerVars, Finished
    <3> QED BY <3>1, <3>2, <3>3 DEF Observation
  <2>5. ASSUME NEW k \in Jobs, mark_unconfirmed(k) PROVE Final(j)
    <3>1. /\ jobs'[k] # None /\ jobs'[k].evidence = jobs[k].evidence
          /\ jobs'[k].worker_job_id = jobs[k].worker_job_id
          /\ jobs'[k].terminal = jobs[k].terminal
          /\ jobs[k].terminal # None => jobs'[k].unconfirmed = jobs[k].unconfirmed
          /\ \A i \in Jobs \ {k} : jobs'[i] = jobs[i]
      BY <1>1, <2>5, UnconfirmedFields
    <3>2. worker_ids' = worker_ids
      BY <2>5 DEF mark_unconfirmed
    <3> QED BY <2>0, <3>1, <3>2 DEF Finished
  <2>6. CASE UNCHANGED jvars
    BY <2>0, <2>6 DEF jvars, Finished
  <2>7. ASSUME NEW k \in Jobs, NEW c \in Commands, NEW w \in WorkerIds, accepted(k, c, w)
        PROVE  Final(j)
    BY <2>2, <2>3, <2>7 DEF accepted, AcceptedConflict
  <2> HIDE DEF Final
  <2> QED BY <1>1, <2>1, <2>4, <2>5, <2>6, <2>7 DEF Next
<1>2. IInv /\ IInv' /\ [Next]_jvars => [\A j \in Jobs : Final(j)]_jvars
  BY <1>1
<1> QED BY <1>2, Invariant, PTL DEF Spec, TerminalIsFinal

-----------------------------------------------------------------------------
(* A call on a session, with the Worker and the channels between them.     *)

\* The Worker's jobs: named apart, and each about what it was asked for.
WorkIsSound ==
  /\ work \in [Jobs -> WorkerJob \cup {None}]
  /\ \A j \in Jobs : work[j] # None =>
       /\ jobs[j] # None
       /\ work[j].command = jobs[j].command
       /\ work[j].terminal # None =>
            /\ work[j].terminal.job_id = j
            /\ work[j].terminal.worker_job_id = work[j].wid
            /\ work[j].terminal.command = work[j].command
  /\ \A i, j \in Jobs : work[i] # None /\ work[j] # None /\ work[i].wid = work[j].wid => i = j

\* The tracker holds what the Worker decided, and no evidence against it.
Known ==
  \A j \in Jobs : jobs[j] # None =>
    /\ jobs[j].evidence = FALSE
    /\ jobs[j].worker_job_id # None =>
         work[j] # None /\ work[j].wid = jobs[j].worker_job_id
    /\ jobs[j].terminal # None =>
         work[j] # None /\ work[j].terminal = jobs[j].terminal

\* A terminal the Worker gave to one of its jobs.
Genuine(t) == \E j \in Jobs : work[j] # None /\ t = work[j].terminal /\ t # None

\* What the Worker has said and the call may still hear.
Said ==
  /\ \E S : stdout \in Seq(S)
  /\ \A i \in 1 .. Len(stdout) : stdout[i] = End \/ Genuine(stdout[i])
  /\ call.pc = "finished" => Genuine(call.line)
  /\ last # None => last \in Jobs /\ work[last] # None

Positions == {"idle", "send", "reply", "check", "giveup", "recv", "finished", "status"}

\* The call and its requests.  A request that is under way has not been
\* received, and a command that has been received was sent.
Once ==
  /\ DOMAIN call = {"pc", "job", "line"} /\ call.pc \in Positions
  /\ call.pc # "idle" => call.job \in Jobs /\ jobs[call.job] # None /\ results[call.job] = None
  /\ call.pc = "idle" => call.job = None
  /\ DOMAIN http = {"requests", "reply"}
  /\ http.requests \subseteq [job : Jobs, command : Commands]
  /\ http.reply \in WorkerReply \cup {None}
  /\ received \in [Jobs -> {0, 1}]
  /\ \A r \in http.requests :
       jobs[r.job] # None /\ r.command = jobs[r.job].command /\ received[r.job] = 0
  /\ \A j \in Jobs : work[j] # None => received[j] = 1
  /\ \A j \in Jobs : jobs[j] = None => received[j] = 0 /\ results[j] = None
  /\ call.pc = "send" =>
       received[call.job] = 0 /\ \A r \in http.requests : r.job # call.job

\* A valid answer to the call in progress tells what became of its command.
Replied ==
  call.pc = "reply" /\ http.reply # None /\ http.reply.valid =>
    /\ received[call.job] = 1
    /\ http.reply.wid = None => work[call.job] = None
    /\ http.reply.wid # None => work[call.job] # None /\ work[call.job].wid = http.reply.wid

\* What was returned is true, and a doubt is on record.
Returned ==
  /\ results \in [Jobs -> Terminal \cup {None, Err, BadReply}]
  /\ OkIsTrue
  /\ DoubtIsRecorded

AInv ==
  /\ IInv
  /\ WorkIsSound
  /\ Known
  /\ Said
  /\ Once
  /\ Replied
  /\ Returned
-----------------------------------------------------------------------------
(***************************************************************************)
(* What a step does to the tracker, and what the Worker does to its jobs.  *)
(***************************************************************************)

\* One job of the tracker learns something true, or nothing does.
Learns ==
  /\ \A j \in Jobs : jobs[j] = None => jobs'[j] = None
  /\ \A j \in Jobs : jobs[j] # None =>
       /\ jobs'[j] # None
       /\ jobs'[j].command = jobs[j].command
       /\ jobs'[j].evidence = jobs[j].evidence
       /\ jobs'[j].worker_job_id # jobs[j].worker_job_id =>
            work[j] # None /\ jobs'[j].worker_job_id = work[j].wid
       /\ jobs'[j].terminal # jobs[j].terminal =>
            /\ jobs[j].terminal = None
            /\ work[j] # None /\ jobs'[j].terminal = work[j].terminal
       /\ jobs'[j].terminal = None /\ jobs[j].unconfirmed => jobs'[j].unconfirmed
  /\ \A i, j \in Jobs : jobs'[i] # jobs[i] /\ jobs'[j] # jobs[j] => i = j

\* A job in the Worker's hands stays what it is, and keeps its terminal.
Works ==
  \A j \in Jobs : work[j] # None =>
    /\ work'[j] # None
    /\ work'[j].wid = work[j].wid
    /\ work'[j].command = work[j].command
    /\ work[j].terminal # None => work'[j].terminal = work[j].terminal

\* A step that leaves the tracker's jobs alone learns nothing.
LEMMA NothingLearnt ==
  ASSUME jobs' = jobs
  PROVE  Learns
  BY DEF Learns

\* A step that leaves the Worker's jobs alone does no work.
LEMMA NothingDone ==
  ASSUME work' = work
  PROVE  Works
  BY DEF Works

(* A terminal the Worker gave to a job names that job by the names the     *)
(* tracker knows, so it contradicts nothing.                               *)
LEMMA GenuineAgrees ==
  ASSUME IInv, WorkIsSound, Known, NEW t, Genuine(t)
  PROVE  /\ t \in Terminal /\ t # End /\ t.job_id \in Jobs
         /\ jobs[t.job_id] # None /\ work[t.job_id] # None /\ t = work[t.job_id].terminal
         /\ Observation(t) \in {"Confirmed", "Duplicate"}
         /\ ~IsConflict(t)
<1>1. PICK j \in Jobs : work[j] # None /\ t = work[j].terminal /\ t # None
  BY DEF Genuine
<1>2. work[j] \in WorkerJob /\ t \in Terminal /\ t.job_id = j
  BY <1>1 DEF WorkIsSound, WorkerJob
<1>3. PICK w \in WorkerIds : w = t.worker_job_id /\ w = work[j].wid
  BY <1>1, <1>2 DEF WorkIsSound, Terminal
<1>4. jobs[j] # None /\ t.command = jobs[j].command
  BY <1>1 DEF WorkIsSound
<1>5. worker_ids[w] \in {None, j}
  <2>1. SUFFICES ASSUME NEW k \in Jobs, worker_ids[w] = k PROVE k = j
    BY <1>3 DEF IInv, TypeOK
  <2>2. jobs[k] # None /\ jobs[k].worker_job_id = w /\ w # None
    BY <2>1, NoneIsFresh DEF IInv, IdentityAgrees
  <2>3. work[k] # None /\ work[k].wid = w
    BY <2>2 DEF Known
  <2> QED BY <1>1, <1>3, <2>3 DEF WorkIsSound
<1>6. jobs[j].worker_job_id \in {None, w}
  BY <1>3, <1>4 DEF Known
<1>7. ~OwnerDisagrees(t) /\ Tracked(t.job_id) /\ ~Mismatch(t.job_id, t.command, t.worker_job_id)
  BY <1>2, <1>3, <1>4, <1>5, <1>6 DEF OwnerDisagrees, Tracked, Mismatch
<1>8. jobs[j].terminal = None \/ jobs[j].terminal = t
  BY <1>1, <1>4 DEF Known
<1>9. Observation(t) \in {"Confirmed", "Duplicate"}
  BY <1>2, <1>7, <1>8 DEF Observation
<1>10. t # End
  BY <1>2, MarksAreFresh
<1> QED BY <1>1, <1>2, <1>4, <1>9, <1>10 DEF IsConflict

\* To observe it is to learn it, or to hear it again.
LEMMA ObserveLearns ==
  ASSUME IInv, WorkIsSound, Known, NEW t, Genuine(t), observe_terminal(t)
  PROVE  Learns
<1>1. /\ t \in Terminal /\ work[t.job_id] # None /\ t = work[t.job_id].terminal
      /\ Observation(t) \in {"Confirmed", "Duplicate"}
  BY GenuineAgrees
<1>2. CASE Observation(t) = "Confirmed"
  <2>1. Confirm(t)
    BY <1>2 DEF observe_terminal
  <2>2. PICK k \in Jobs, w \in WorkerIds : Confirms(t, k, w)
    BY <1>1, <1>2, <2>1, ConfirmedFields DEF IInv
  <2>3. jobs[k].command = t.command /\ work[k].wid = w
    BY <1>1, <1>2, <2>2 DEF Observation, Mismatch, Confirms, WorkIsSound
  <2> QED BY <1>1, <2>2, <2>3 DEF Confirms, Learns
<1>3. CASE Observation(t) = "Duplicate"
  BY <1>3, NothingLearnt DEF observe_terminal, trackerVars
<1> QED BY <1>1, <1>2, <1>3

\* The name in a reply is the one the Worker gave, and nobody else carries it.
LEMMA AcceptedLearns ==
  ASSUME IInv, WorkIsSound, Known, NEW j \in Jobs, jobs[j] # None, work[j] # None,
         accepted(j, jobs[j].command, work[j].wid)
  PROVE  /\ Learns
         /\ ~AcceptedConflict(j, jobs[j].command, work[j].wid)
<1>1. PICK w \in WorkerIds, c \in Commands : w = work[j].wid /\ c = jobs[j].command
  BY DEF IInv, TypeOK, TrackedJob, WorkIsSound, WorkerJob
<1>2. worker_ids[w] \in {None, j}
  <2>1. SUFFICES ASSUME NEW k \in Jobs, worker_ids[w] = k PROVE k = j
    BY DEF IInv, TypeOK
  <2>2. jobs[k] # None /\ jobs[k].worker_job_id = w /\ w # None
    BY <2>1, NoneIsFresh DEF IInv, IdentityAgrees
  <2>3. work[k] # None /\ work[k].wid = w
    BY <2>2 DEF Known
  <2> QED BY <1>1, <2>3 DEF WorkIsSound
<1>3. jobs[j].worker_job_id \in {None, w}
  BY <1>1 DEF Known
<1>4. ~Mismatch(j, c, w)
  BY <1>1, <1>2, <1>3 DEF Mismatch
<1>5. ~AcceptedConflict(j, c, w)
  BY <1>4 DEF AcceptedConflict
<1>6. AcceptedAgrees(j, c, w)
  BY <1>1, <1>5 DEF accepted
<1>7. Learns
  BY <1>1, <1>6, AgreedFields DEF IInv, Learns
<1> QED BY <1>1, <1>5, <1>7

\* Giving up records the doubt, unless the terminal is there.
LEMMA MarkLearns ==
  ASSUME IInv, NEW j \in Jobs, mark_unconfirmed(j)
  PROVE  Learns /\ (jobs'[j].terminal = None => jobs'[j].unconfirmed)
<1>1. /\ jobs[j] # None /\ jobs'[j] # None
      /\ jobs'[j].evidence = jobs[j].evidence
      /\ jobs'[j].command = jobs[j].command
      /\ jobs'[j].worker_job_id = jobs[j].worker_job_id
      /\ jobs'[j].terminal = jobs[j].terminal
      /\ \A i \in Jobs \ {j} : jobs'[i] = jobs[i]
  BY UnconfirmedFields DEF IInv
<1>2. ASSUME jobs[j].terminal = None PROVE jobs'[j].unconfirmed = TRUE
  <2>1. jobs[j] \in TrackedJob
    BY DEF mark_unconfirmed, Tracked, IInv, TypeOK
  <2>2. jobs'[j] = [jobs[j] EXCEPT !.unconfirmed = TRUE]
    BY <1>2, <2>1 DEF mark_unconfirmed, IInv, TypeOK
  <2> QED BY <2>1, <2>2 DEF TrackedJob
<1>3. jobs'[j].terminal = None => jobs'[j].unconfirmed
  BY <1>1, <1>2
<1> QED BY <1>1, <1>3 DEF Learns
-----------------------------------------------------------------------------
(***************************************************************************)
(* A move: a step that sends nothing and delivers nothing.  The call stays *)
(* where it is, goes on to another position, or returns what it may.       *)
(***************************************************************************)
GoesOn ==
  /\ call.pc # "idle"
  /\ DOMAIN call' = {"pc", "job", "line"}
  /\ call'.job = call.job
  /\ call'.pc \in Positions \ {"idle", "send", "reply"}
  /\ call'.pc = "finished" => Genuine(call'.line)

\* Err is returned of a rejected command, or with the doubt on record.
MayFail ==
  \/ received[call.job] = 1 /\ work[call.job] = None
  \/ jobs'[call.job].terminal = None => jobs'[call.job].unconfirmed

ReturnsWith(r) ==
  /\ call.pc # "idle" /\ call' = Idle
  /\ results' = [results EXCEPT ![call.job] = r]
  /\ \/ r = Err /\ MayFail
     \/ r = BadReply
     \/ r # None /\ r = jobs[call.job].terminal

Moves ==
  /\ Learns /\ Works
  /\ \A j \in Jobs : work[j] = None => work'[j] = None
  /\ UNCHANGED <<http, received>>
  /\ \/ UNCHANGED <<call, results>>
     \/ GoesOn /\ UNCHANGED results
     \/ \E r : ReturnsWith(r)

\* What the tracker holds stays true.
LEMMA LearnsKeeps ==
  ASSUME Known, Learns, Works
  PROVE  Known'
  BY DEF Known, Learns, Works

\* A move leaves the Worker's jobs sound.
LEMMA SameWorkKeeps ==
  ASSUME WorkIsSound, Learns, work' = work
  PROVE  WorkIsSound'
  BY DEF WorkIsSound, Learns

\* A request under way is still one of a job that waits for nothing else.
LEMMA MovesKeepOnce ==
  ASSUME Once, Known, Moves
  PROVE  Once'
<1>1. /\ http' = http /\ received' = received
      /\ \A j \in Jobs : jobs[j] # None =>
           jobs'[j] # None /\ jobs'[j].command = jobs[j].command
      /\ \A j \in Jobs : jobs[j] = None => jobs'[j] = None
      /\ \A j \in Jobs : work'[j] # None => work[j] # None
  BY DEF Moves, Learns
<1>2. /\ DOMAIN http' = {"requests", "reply"}
      /\ http'.requests \subseteq [job : Jobs, command : Commands]
      /\ http'.reply \in WorkerReply \cup {None}
      /\ received' \in [Jobs -> {0, 1}]
      /\ \A r \in http'.requests :
           jobs'[r.job] # None /\ r.command = jobs'[r.job].command /\ received'[r.job] = 0
      /\ \A j \in Jobs : work'[j] # None => received'[j] = 1
  BY <1>1 DEF Once
<1>3. CASE UNCHANGED <<call, results>>
  BY <1>1, <1>2, <1>3 DEF Once
<1>4. CASE GoesOn /\ UNCHANGED results
  BY <1>1, <1>2, <1>4 DEF Once, GoesOn
<1>5. ASSUME NEW r, ReturnsWith(r) PROVE Once'
  <2>1. DOMAIN call' = {"pc", "job", "line"} /\ call'.pc = "idle" /\ call'.job = None
    BY <1>5 DEF ReturnsWith, Idle
  <2>2. call.job \in Jobs /\ jobs[call.job] # None
    BY <1>5 DEF Once, ReturnsWith
  <2>3. \A j \in Jobs : jobs'[j] = None => received'[j] = 0 /\ results'[j] = None
    BY <1>1, <1>5, <2>2 DEF Once, ReturnsWith
  <2> QED BY <1>2, <2>1, <2>3 DEF Once, Positions
<1> QED BY <1>3, <1>4, <1>5 DEF Moves

\* A move takes no reply, or leaves the position where one counts.
LEMMA MovesKeepReplied ==
  ASSUME Once, Replied, Moves
  PROVE  Replied'
<1>1. CASE UNCHANGED <<call, results>>
  BY <1>1 DEF Once, Replied, Moves, Works
<1>2. CASE GoesOn
  BY <1>2 DEF Replied, GoesOn
<1>3. ASSUME NEW r, ReturnsWith(r) PROVE Replied'
  BY <1>3 DEF Replied, ReturnsWith, Idle
<1> QED BY <1>1, <1>2, <1>3 DEF Moves

\* What a move returns is true, and what was returned stays true.
LEMMA MovesKeepReturned ==
  ASSUME IInv, WorkIsSound, Known, Once, Returned, Moves
  PROVE  Returned'
<1>1. /\ http' = http /\ received' = received
      /\ \A j \in Jobs : work'[j] # None => work[j] # None
      /\ \A j \in Jobs : MayRun(j)' => MayRun(j)
  BY DEF Moves, MayRun
<1>2. \A j \in Jobs : results[j] = Err /\ MayRun(j) =>
        jobs'[j].terminal # None \/ jobs'[j].unconfirmed
  <2> SUFFICES ASSUME NEW j \in Jobs, results[j] = Err, MayRun(j), jobs'[j].terminal = None
               PROVE  jobs'[j].unconfirmed
    OBVIOUS
  <2>1. jobs[j] # None
    BY MarksAreFresh DEF Once
  <2>2. jobs[j].terminal = None
    BY <2>1 DEF Moves, Learns
  <2> QED BY <2>1, <2>2 DEF Returned, DoubtIsRecorded, Moves, Learns
<1>3. \A j \in Jobs : results[j] \notin {None, Err, BadReply} =>
        work'[j] # None /\ results[j] = work'[j].terminal
  BY DEF Returned, OkIsTrue, Moves, Works
<1>4. CASE UNCHANGED results
  <2>1. OkIsTrue'
    BY <1>3, <1>4 DEF OkIsTrue
  <2>2. DoubtIsRecorded'
    BY <1>1, <1>2, <1>4 DEF DoubtIsRecorded
  <2> QED BY <1>4, <2>1, <2>2 DEF Returned
<1>5. ASSUME NEW r, ReturnsWith(r) PROVE Returned'
  <2>1. PICK k \in Jobs : k = call.job /\ jobs[k] # None /\ jobs[k] \in TrackedJob
    BY <1>5 DEF Once, ReturnsWith, IInv, TypeOK
  <2>2. results' = [results EXCEPT ![k] = r] /\ results'[k] = r
    BY <1>5, <2>1 DEF ReturnsWith, Returned
  <2>3. /\ r \in Terminal \cup {Err, BadReply}
        /\ r \notin {Err, BadReply} => work[k] # None /\ r = work[k].terminal /\ r # None
    BY <1>5, <2>1 DEF ReturnsWith, TrackedJob, Known
  <2>4. OkIsTrue'
    BY <1>3, <2>2, <2>3 DEF OkIsTrue, Returned, Moves, Works
  <2>5. r = Err /\ MayRun(k)' => (jobs'[k].terminal = None => jobs'[k].unconfirmed)
    <3> SUFFICES ASSUME r = Err, MayRun(k)' PROVE jobs'[k].terminal = None => jobs'[k].unconfirmed
      OBVIOUS
    <3>1. CASE received[k] = 1 /\ work[k] = None
      BY <1>1, <2>1, <3>1 DEF Once, MayRun
    <3>2. CASE r = jobs[k].terminal /\ r # None
      BY <2>1, <3>2, MarksAreFresh DEF TrackedJob
    <3> QED BY <1>5, <2>1, <3>1, <3>2, MarksAreFresh DEF ReturnsWith, MayFail
  <2>6. DoubtIsRecorded'
    BY <1>1, <1>2, <2>2, <2>5 DEF DoubtIsRecorded, Returned
  <2>7. results' \in [Jobs -> Terminal \cup {None, Err, BadReply}]
    BY <2>2, <2>3 DEF Returned
  <2> QED BY <2>4, <2>6, <2>7 DEF Returned
<1> QED BY <1>4, <1>5 DEF Moves
-----------------------------------------------------------------------------
(***************************************************************************)
(* The steps, one by one.                                                  *)
(***************************************************************************)

\* Where a position is left for another one, without a line in hand.
LEMMA GotoGoesOn ==
  ASSUME Once, call.pc # "idle", NEW pc \in Positions \ {"idle", "send", "reply", "finished"},
         Goto(pc)
  PROVE  GoesOn
  BY DEF Once, Goto, GoesOn

\* An error returned once no conflict can have caused it.
LEMMA ReturnErr ==
  ASSUME call.pc # "idle", MayFail, Return(Err)
  PROVE  \E r : ReturnsWith(r)
<1>1. ReturnsWith(Err)
  BY Zenon DEF Return, ReturnsWith
<1> QED BY <1>1

\* Without evidence against a job there is no conflict.
LEMMA NoConflict ==
  ASSUME Known
  PROVE  ~has_conflicts
  BY DEF Known, has_conflicts

\* A step of the call that leaves the Worker alone is a move.
LEMMA CallMoves ==
  ASSUME AInv,
         Accepted202 \/ Rejected \/ ReplyRefused \/ ResponseLost \/ Check \/ GiveUp \/ RecvTimeout
           \/ RecvFinished \/ Finished2 \/ RecvEnd \/ Status \/ StatusRefused \/ StatusLost \/ Expire
  PROVE  Moves /\ work' = work /\ last' = last
<1> USE DEF AInv
<1>0. /\ work' = work /\ last' = last /\ received' = received /\ http' = http
  BY DEF Accepted202, Rejected, ReplyRefused, ResponseLost, Check, GiveUp, RecvTimeout, RecvFinished,
         Finished2, RecvEnd, Status, StatusRefused, StatusLost, Expire, Return, workerVars
<1>1. Works
  BY <1>0, NothingDone
<1>2. call.pc # "idle" => call.job \in Jobs /\ jobs[call.job] # None
  BY DEF Once
<1> SUFFICES /\ Learns
             /\ \/ UNCHANGED <<call, results>>
                \/ GoesOn /\ UNCHANGED results
                \/ \E r : ReturnsWith(r)
  BY <1>0, <1>1 DEF Moves
<1> USE DEF Positions
<1>3. CASE Accepted202
  <2>1. call.pc = "reply" /\ work[call.job] # None /\ work[call.job].wid = http.reply.wid
    BY <1>3 DEF Accepted202, Reply, Replied
  <2>2. accepted(call.job, jobs[call.job].command, work[call.job].wid)
    BY <1>3, <2>1 DEF Accepted202, Reply
  <2>3. Learns /\ ~AcceptedConflict(call.job, jobs[call.job].command, work[call.job].wid)
    BY <1>2, <2>1, <2>2, AcceptedLearns
  <2>4. ~AcceptedConflict(call.job, jobs[call.job].command, Reply.wid)
    BY <2>1, <2>3 DEF Reply
  <2>5. Goto("check") /\ results' = results
    BY <1>3, <2>4 DEF Accepted202
  <2> QED BY <2>1, <2>3, <2>5, GotoGoesOn
<1>4. CASE Rejected
  <2>1. received[call.job] = 1 /\ work[call.job] = None /\ call.pc # "idle"
    BY <1>4 DEF Rejected, Reply, Replied
  <2>2. Return(Err) /\ jobs' = jobs
    BY <1>4 DEF Rejected, jvars
  <2> QED BY <2>1, <2>2, NothingLearnt, ReturnErr DEF MayFail
<1>5. CASE ResponseLost \/ RecvTimeout \/ RecvEnd \/ StatusRefused \/ StatusLost
  <2>1. jobs' = jobs /\ results' = results /\ call.pc # "idle"
    BY <1>5 DEF ResponseLost, RecvTimeout, RecvEnd, StatusRefused, StatusLost, jvars
  <2>2. Goto("check") \/ Goto("status") \/ Goto("giveup")
    BY <1>5 DEF ResponseLost, RecvTimeout, RecvEnd, StatusRefused, StatusLost
  <2> QED BY <2>1, <2>2, NothingLearnt, GotoGoesOn
<1>6. CASE Check
  <2>1. jobs' = jobs /\ call.pc # "idle"
    BY <1>6 DEF Check, jvars
  <2>2. CASE jobs[call.job].terminal # None /\ Return(jobs[call.job].terminal)
    BY <2>1, <2>2, NothingLearnt DEF Return, ReturnsWith
  <2>3. CASE (Goto("giveup") \/ Goto("recv")) /\ results' = results
    BY <2>1, <2>3, NothingLearnt, GotoGoesOn
  <2> QED BY <1>6, <2>2, <2>3, NoConflict DEF Check
<1>7. CASE GiveUp
  <2>1. call.pc # "idle" /\ mark_unconfirmed(call.job) /\ Return(Err)
    BY <1>7 DEF GiveUp
  <2>2. Learns /\ MayFail
    BY <1>2, <2>1, MarkLearns DEF MayFail
  <2> QED BY <2>1, <2>2, ReturnErr
<1>8. CASE RecvFinished
  <2>1. call.pc = "recv" /\ stdout # <<>> /\ observe_terminal(Head(stdout)) /\ results' = results
    BY <1>8 DEF RecvFinished
  <2>2. Genuine(Head(stdout))
    <3>1. PICK S : stdout \in Seq(S)
      BY DEF Said
    <3>2. 1 \in 1 .. Len(stdout) /\ Head(stdout) = stdout[1]
      BY <2>1, <3>1
    <3> QED BY <1>8, <3>2 DEF RecvFinished, Said
  <2>3. Learns /\ ~IsConflict(Head(stdout))
    BY <2>1, <2>2, GenuineAgrees, ObserveLearns
  <2>4. call' = [call EXCEPT !.pc = "finished", !.line = Head(stdout)]
    BY <1>8, <2>3 DEF RecvFinished
  <2>5. GoesOn
    BY <2>1, <2>2, <2>4 DEF Once, GoesOn
  <2> QED BY <2>1, <2>3, <2>5
<1>9. CASE Finished2
  <2>1. call.pc = "finished" /\ Genuine(call.line) /\ observe_terminal(call.line)
    BY <1>9 DEF Finished2, Said
  <2>2. Learns /\ ~IsConflict(call.line)
    BY <2>1, GenuineAgrees, ObserveLearns
  <2>3. Goto("status") /\ results' = results
    BY <1>9, <2>2 DEF Finished2
  <2> QED BY <2>1, <2>2, <2>3, GotoGoesOn
<1>10. CASE Status
  <2>1. call.pc = "status"
    BY <1>10 DEF Status
  <2>2. LastTerminal # None => Genuine(LastTerminal)
    BY DEF LastTerminal, Genuine, Said
  <2>3. Learns /\ ~(LastTerminal # None /\ IsConflict(LastTerminal))
    <3>1. CASE LastTerminal = None
      BY <1>10, <3>1, NothingLearnt DEF Status, jvars
    <3>2. CASE LastTerminal # None
      BY <1>10, <2>2, <3>2, GenuineAgrees, ObserveLearns DEF Status
    <3> QED BY <3>1, <3>2
  <2>4. (Goto("giveup") \/ Goto("check")) /\ results' = results
    BY <1>10, <2>3 DEF Status
  <2> QED BY <2>1, <2>3, <2>4, GotoGoesOn
<1>11. CASE Expire
  BY <1>11, NothingLearnt DEF Expire, jvars
<1>12. CASE ReplyRefused
  <2>1. call.pc # "idle" /\ Return(BadReply) /\ jobs' = jobs
    BY <1>12 DEF ReplyRefused, jvars
  <2>2. ReturnsWith(BadReply)
    BY <2>1, Zenon DEF Return, ReturnsWith
  <2> QED BY <2>1, <2>2, NothingLearnt
<1> QED BY <1>3, <1>4, <1>5, <1>6, <1>7, <1>8, <1>9, <1>10, <1>11, <1>12

\* So is a step of the Worker that takes no command.
LEMMA WorkerMoves ==
  ASSUME AInv, (\E j \in Jobs : WorkerFinishes(j)) \/ WorkerFails
  PROVE  Moves /\ WorkIsSound'
<1> USE DEF AInv
<1>1. jobs' = jobs /\ call' = call /\ results' = results /\ http' = http /\ received' = received
  BY DEF WorkerFinishes, WorkerFails, jvars, clientVars
<1>2. Learns
  BY <1>1, NothingLearnt
<1>3. CASE WorkerFails
  <2>1. work' = work
    BY <1>3 DEF WorkerFails
  <2> QED BY <1>1, <1>2, <2>1, NothingDone, SameWorkKeeps DEF Moves
<1>4. ASSUME NEW j \in Jobs, WorkerFinishes(j) PROVE Moves /\ WorkIsSound'
  <2>1. PICK c \in Contents :
          work' = [work EXCEPT ![j].terminal =
                     [worker_job_id |-> work[j].wid, job_id |-> j,
                      command |-> work[j].command, content |-> c]]
    BY <1>4 DEF WorkerFinishes
  <2>2. work[j] # None /\ work[j].terminal = None /\ work[j] \in WorkerJob
    BY <1>4 DEF WorkerFinishes, WorkIsSound
  <2> DEFINE t == [worker_job_id |-> work[j].wid, job_id |-> j,
                   command |-> work[j].command, content |-> c]
  <2>3. t \in Terminal /\ t # None /\ t.job_id = j /\ t.worker_job_id = work[j].wid
          /\ t.command = work[j].command
    BY <2>2, NoneIsFresh DEF Terminal, WorkerJob
  <2>4. work'[j] = [work[j] EXCEPT !.terminal = t]
          /\ \A i \in Jobs \ {j} : work'[i] = work[i]
    BY <2>1 DEF WorkIsSound
  <2> HIDE DEF t
  <2>5. work'[j] \in WorkerJob /\ work'[j].wid = work[j].wid
          /\ work'[j].command = work[j].command /\ work'[j].terminal = t
    BY <2>2, <2>3, <2>4 DEF WorkerJob
  <2>6. work'[j] # None
    BY <2>5, MarksAreFresh
  <2>7. Works /\ \A i \in Jobs : work[i] = None => work'[i] = None
    BY <2>2, <2>4, <2>5, <2>6 DEF Works
  <2>8. WorkIsSound'
    <3>1. work' \in [Jobs -> WorkerJob \cup {None}]
      BY <2>1, <2>4, <2>5 DEF WorkIsSound
    <3>2. \A i \in Jobs : work'[i] # None =>
            /\ jobs'[i] # None
            /\ work'[i].command = jobs'[i].command
            /\ work'[i].terminal # None =>
                 /\ work'[i].terminal.job_id = i
                 /\ work'[i].terminal.worker_job_id = work'[i].wid
                 /\ work'[i].terminal.command = work'[i].command
      <4> SUFFICES ASSUME NEW i \in Jobs, work'[i] # None
                   PROVE  /\ jobs'[i] # None
                          /\ work'[i].command = jobs'[i].command
                          /\ work'[i].terminal # None =>
                               /\ work'[i].terminal.job_id = i
                               /\ work'[i].terminal.worker_job_id = work'[i].wid
                               /\ work'[i].terminal.command = work'[i].command
        OBVIOUS
      <4>1. CASE i = j
        BY <1>1, <2>2, <2>3, <2>5, <4>1 DEF WorkIsSound
      <4>2. CASE i # j
        BY <1>1, <2>4, <4>2 DEF WorkIsSound
      <4> QED BY <4>1, <4>2
    <3>3. \A i \in Jobs : work'[i] # None => work[i] # None /\ work'[i].wid = work[i].wid
      BY <2>2, <2>4, <2>5
    <3>4. \A i, k \in Jobs : work'[i] # None /\ work'[k] # None /\ work'[i].wid = work'[k].wid
            => i = k
      BY <3>3 DEF WorkIsSound
    <3> QED BY <3>1, <3>2, <3>4 DEF WorkIsSound
  <2> QED BY <1>1, <1>2, <2>7, <2>8 DEF Moves
<1> QED BY <1>3, <1>4
\* The Worker takes a command: its job is named apart from the others.
LEMMA ReceiveKeeps ==
  ASSUME AInv, NEW r \in http.requests, WorkerReceives(r)
  PROVE  /\ Works /\ Learns
         /\ WorkIsSound' /\ Once' /\ Replied' /\ Returned'
         /\ last' # last => work'[last'] # None /\ last' \in Jobs
<1> USE DEF AInv
<1>1. PICK w \in (WorkerIds \ UsedIds) \cup {None}, valid \in BOOLEAN :
        /\ IF w = None THEN UNCHANGED <<work, last>>
           ELSE /\ work' = [work EXCEPT ![r.job] =
                              [wid |-> w, command |-> r.command, terminal |-> None]]
                /\ last' = r.job
        /\ http' = [requests |-> http.requests \ {r},
                    reply |-> IF call.job = r.job THEN [wid |-> w, valid |-> valid] ELSE http.reply]
  BY DEF WorkerReceives, Answer
<1>2. PICK k \in Jobs, c \in Commands :
        k = r.job /\ c = r.command /\ jobs[k] # None /\ c = jobs[k].command /\ received[k] = 0
  BY DEF Once
<1>3. /\ jobs' = jobs /\ call' = call /\ results' = results
      /\ received' = [received EXCEPT ![k] = @ + 1]
  BY <1>2 DEF WorkerReceives, jvars, clientVars
<1>4. work[k] = None /\ received'[k] = 1 /\ received' \in [Jobs -> {0, 1}]
        /\ \A j \in Jobs \ {k} : received'[j] = received[j]
  BY <1>2, <1>3 DEF Once
<1>5. \A q \in http'.requests : q \in http.requests /\ q.job # k
  <2> SUFFICES ASSUME NEW q \in http.requests, q # r PROVE q.job # k
    BY <1>1
  <2>1. q \in [job : Jobs, command : Commands] /\ r \in [job : Jobs, command : Commands]
    BY DEF Once
  <2> QED BY <1>2, <2>1 DEF Once
<1>6. /\ \A j \in Jobs \ {k} : work'[j] = work[j]
      /\ w = None => work'[k] = None
      /\ w # None =>
           /\ work'[k] = [wid |-> w, command |-> c, terminal |-> None]
           /\ work'[k] \in WorkerJob /\ work'[k] # None /\ w \in WorkerIds
      /\ work' \in [Jobs -> WorkerJob \cup {None}]
  <2>1. CASE w = None
    BY <1>1, <1>4, <2>1 DEF WorkIsSound
  <2>2. CASE w # None
    <3>1. w \in WorkerIds
      BY <2>2
    <3>2. [wid |-> w, command |-> c, terminal |-> None] \in WorkerJob
      BY <3>1 DEF WorkerJob
    <3>3. work' = [work EXCEPT ![k] = [wid |-> w, command |-> c, terminal |-> None]]
      BY <1>1, <1>2, <2>2
    <3> QED BY <2>2, <3>1, <3>2, <3>3, MarksAreFresh DEF WorkIsSound
  <2> QED BY <2>1, <2>2
<1>7. \A i \in Jobs \ {k} : work[i] # None => work[i].wid # w
  <2> SUFFICES ASSUME NEW i \in Jobs \ {k}, work[i] # None PROVE work[i].wid # w
    OBVIOUS
  <2>1. work[i].wid \in UsedIds /\ work[i].wid \in WorkerIds
    BY DEF UsedIds, WorkIsSound, WorkerJob
  <2> QED BY <2>1, NoneIsFresh
<1>8. Works /\ Learns
  BY <1>3, <1>4, <1>6, NothingLearnt DEF Works
<1>9. WorkIsSound'
  <2>1. ASSUME NEW j \in Jobs, work'[j] # None
        PROVE  /\ jobs'[j] # None
               /\ work'[j].command = jobs'[j].command
               /\ work'[j].terminal # None =>
                    /\ work'[j].terminal.job_id = j
                    /\ work'[j].terminal.worker_job_id = work'[j].wid
                    /\ work'[j].terminal.command = work'[j].command
    <3>1. CASE j = k
      BY <1>2, <1>3, <1>6, <2>1, <3>1
    <3>2. CASE j # k
      BY <1>3, <1>6, <2>1, <3>2 DEF WorkIsSound
    <3> QED BY <3>1, <3>2
  <2>2. ASSUME NEW i \in Jobs, NEW j \in Jobs, work'[i] # None, work'[j] # None,
               work'[i].wid = work'[j].wid
        PROVE  i = j
    <3>1. work'[k] # None => work'[k].wid = w
      BY <1>6
    <3> QED BY <1>6, <1>7, <2>2, <3>1 DEF WorkIsSound
  <2> QED BY <1>6, <2>1, <2>2 DEF WorkIsSound
<1>10. /\ DOMAIN http' = {"requests", "reply"}
       /\ http'.requests = http.requests \ {r}
       /\ http'.reply = IF call.job = k THEN [wid |-> w, valid |-> valid] ELSE http.reply
  BY <1>1, <1>2
<1>11. Once'
  <2>1. http'.reply \in WorkerReply \cup {None}
    BY <1>10 DEF Once, WorkerReply
  <2>2. call.pc = "send" => call.job # k
    BY <1>2 DEF Once
  <2>3. \A q \in http'.requests :
          jobs'[q.job] # None /\ q.command = jobs'[q.job].command /\ received'[q.job] = 0
    BY <1>3, <1>4, <1>5 DEF Once
  <2>4. \A j \in Jobs : work'[j] # None => received'[j] = 1
    BY <1>4, <1>6 DEF Once
  <2>5. \A j \in Jobs : jobs'[j] = None => received'[j] = 0 /\ results'[j] = None
    BY <1>2, <1>3, <1>4 DEF Once
  <2>6. call.pc = "send" => received'[call.job] = 0 /\ \A q \in http'.requests : q.job # call.job
    BY <1>4, <1>10, <2>2 DEF Once
  <2> QED BY <1>3, <1>4, <1>10, <2>1, <2>3, <2>4, <2>5, <2>6 DEF Once
<1>12. Replied'
  <2> SUFFICES ASSUME call.pc = "reply", http'.reply # None, http'.reply.valid
               PROVE  /\ received'[call.job] = 1
                      /\ http'.reply.wid = None => work'[call.job] = None
                      /\ http'.reply.wid # None =>
                           work'[call.job] # None /\ work'[call.job].wid = http'.reply.wid
    BY <1>3 DEF Replied
  <2>1. CASE call.job = k
    BY <1>4, <1>6, <1>10, <2>1
  <2>2. CASE call.job # k
    <3>1. call.job \in Jobs
      BY DEF Once
    <3> QED BY <1>4, <1>6, <1>10, <2>2, <3>1 DEF Replied
  <2> QED BY <2>1, <2>2
<1>13. Returned'
  <2>1. \A j \in Jobs : MayRun(j)' => MayRun(j)
    BY <1>2, <1>5, <1>6 DEF MayRun
  <2>2. OkIsTrue'
    BY <1>3, <1>4, <1>6 DEF Returned, OkIsTrue
  <2>3. DoubtIsRecorded'
    BY <1>3, <2>1 DEF Returned, DoubtIsRecorded
  <2> QED BY <1>3, <2>2, <2>3 DEF Returned
<1>14. last' # last => work'[last'] # None /\ last' \in Jobs
  BY <1>1, <1>2, <1>6
<1> QED BY <1>8, <1>9, <1>11, <1>12, <1>13, <1>14

\* A request is lost, or another run's Worker answers it.
LEMMA LossKeeps ==
  ASSUME AInv, NEW r \in http.requests, RequestLost(r) \/ AnotherAnswers(r)
  PROVE  Once' /\ Replied' /\ Returned'
<1> USE DEF AInv
<1>1. /\ jobs' = jobs /\ call' = call /\ results' = results /\ received' = received /\ work' = work
  BY DEF RequestLost, AnotherAnswers, jvars, clientVars, workerVars
<1>2. /\ http'.requests = http.requests \ {r} /\ DOMAIN http' = {"requests", "reply"}
      /\ http'.reply = http.reply \/ http'.reply = [wid |-> None, valid |-> FALSE]
  <2>1. CASE RequestLost(r)
    BY <2>1 DEF RequestLost, Once
  <2>2. CASE AnotherAnswers(r)
    BY <2>2 DEF AnotherAnswers, Answer
  <2> QED BY <2>1, <2>2
<1>3. Once' /\ Replied'
  <2>1. http'.reply \in WorkerReply \cup {None}
    <3>1. [wid |-> None, valid |-> FALSE] \in WorkerReply
      BY DEF WorkerReply
    <3>2. http.reply \in WorkerReply \cup {None}
      BY DEF Once
    <3> QED BY ONLY <1>2, <3>1, <3>2
  <2>2. Once'
    BY <1>1, <1>2, <2>1 DEF Once
  <2>3. Replied'
    BY <1>1, <1>2 DEF Replied
  <2> QED BY <2>2, <2>3
<1>4. \A j \in Jobs : MayRun(j)' => MayRun(j)
  BY <1>1, <1>2 DEF MayRun
<1> QED BY <1>1, <1>3, <1>4 DEF Returned, OkIsTrue, DoubtIsRecorded

\* A job is registered; nobody knows of it yet.
LEMMA CallKeeps ==
  ASSUME AInv, NEW j \in Jobs, NEW c \in Commands, Call(j, c)
  PROVE  WorkIsSound' /\ Known' /\ Once' /\ Replied' /\ Returned' /\ Works
<1> USE DEF AInv
<1>1. /\ call.pc = "idle" /\ register(j, c)
      /\ call' = [pc |-> "send", job |-> j, line |-> None]
      /\ results' = results /\ http' = http /\ received' = received /\ work' = work
  BY DEF Call, workerVars
<1>2. /\ jobs[j] = None /\ jobs'[j] # None
      /\ jobs'[j].evidence = FALSE /\ jobs'[j].worker_job_id = None /\ jobs'[j].terminal = None
      /\ \A i \in Jobs \ {j} : jobs'[i] = jobs[i]
  BY <1>1, RegisteredFields DEF IInv
<1>3. work[j] = None /\ received[j] = 0 /\ results[j] = None
        /\ \A r \in http.requests : r.job # j
  BY <1>2 DEF Once, WorkIsSound
<1>4. WorkIsSound' /\ Known'
  BY <1>1, <1>2, <1>3 DEF WorkIsSound, Known
<1>5. DOMAIN call' = {"pc", "job", "line"} /\ call'.pc = "send" /\ call'.job = j
  BY <1>1
<1>6. Once'
  BY <1>1, <1>2, <1>3, <1>5 DEF Once, Positions
<1>7. Replied'
  BY <1>5 DEF Replied
<1>8. Returned'
  <2>1. \A i \in Jobs : MayRun(i)' => MayRun(i)
    BY <1>1 DEF MayRun
  <2>2. DoubtIsRecorded'
    BY <1>1, <1>2, <1>3, <2>1, MarksAreFresh DEF Returned, DoubtIsRecorded
  <2> QED BY <1>1, <2>2 DEF Returned, OkIsTrue
<1> QED BY <1>1, <1>4, <1>6, <1>7, <1>8, NothingDone

\* The command is sent: neither received nor under way before.
LEMMA SendKeeps ==
  ASSUME AInv, Send
  PROVE  Once' /\ Replied' /\ Returned'
<1> USE DEF AInv
<1>1. /\ jobs' = jobs /\ results' = results /\ received' = received /\ work' = work
      /\ call.pc = "send" /\ Goto("reply")
      /\ http' = [requests |-> http.requests \cup
                                 {[job |-> call.job, command |-> jobs[call.job].command]},
                  reply |-> None]
  BY DEF Send, jvars, workerVars
<1>2. PICK k \in Jobs, c \in Commands :
        k = call.job /\ jobs[k] # None /\ c = jobs[k].command /\ received[k] = 0 /\ results[k] = None
  BY <1>1 DEF Once, IInv, TypeOK, TrackedJob
<1>3. /\ http'.requests = http.requests \cup {[job |-> k, command |-> c]}
      /\ http'.reply = None /\ DOMAIN http' = {"requests", "reply"}
  BY <1>1, <1>2
<1>4. DOMAIN call' = {"pc", "job", "line"} /\ call'.pc = "reply" /\ call'.job = k
  BY <1>1, <1>2 DEF Once, Goto
<1>5. Once'
  BY <1>1, <1>2, <1>3, <1>4 DEF Once, Positions
<1>6. Replied'
  BY <1>3 DEF Replied
<1>7. Returned'
  <2>1. \A i \in Jobs \ {k} : MayRun(i)' => MayRun(i)
    BY <1>1, <1>3 DEF MayRun
  <2>2. DoubtIsRecorded'
    BY <1>1, <1>2, <2>1, MarksAreFresh DEF Returned, DoubtIsRecorded
  <2> QED BY <1>1, <2>2 DEF Returned, OkIsTrue
<1> QED BY <1>5, <1>6, <1>7
-----------------------------------------------------------------------------
(***************************************************************************)
(* The invariant.                                                          *)
(***************************************************************************)

\* A step of the system is a step of the tracker, or none.
LEMMA TrackerStep ==
  ASSUME AInv, [AsyncNext]_vars
  PROVE  [Next]_jvars
<1> USE DEF AInv
<1>1. ASSUME NEW j \in Jobs, NEW c \in Commands, Call(j, c) PROVE Next
  BY <1>1 DEF Call, Next
<1>2. CASE Accepted202
  <2>1. PICK k \in Jobs, c \in Commands, w \in WorkerIds :
          k = call.job /\ c = jobs[call.job].command /\ w = Reply.wid
    BY <1>2 DEF Accepted202, Reply, Once, IInv, TypeOK, TrackedJob, WorkerReply
  <2>2. accepted(k, c, w)
    BY <1>2, <2>1 DEF Accepted202
  <2> QED BY <2>2 DEF Next
<1>3. CASE GiveUp
  BY <1>3 DEF GiveUp, Once, Next
<1>4. ASSUME NEW t, Genuine(t), observe_terminal(t) PROVE Next
  BY <1>4, GenuineAgrees DEF Next
<1>5. CASE RecvFinished
  <2>1. PICK S : stdout \in Seq(S)
    BY DEF Said
  <2>2. 1 \in 1 .. Len(stdout) /\ Head(stdout) = stdout[1]
    BY <1>5, <2>1 DEF RecvFinished
  <2>3. Genuine(Head(stdout)) /\ observe_terminal(Head(stdout))
    BY <1>5, <2>2 DEF RecvFinished, Said
  <2> QED BY <1>4, <2>3
<1>6. CASE Finished2
  BY <1>4, <1>6 DEF Finished2, Said
<1>7. CASE Status
  <2>1. LastTerminal # None => Genuine(LastTerminal)
    BY DEF LastTerminal, Genuine, Said
  <2> QED BY <1>4, <1>7, <2>1 DEF Status
<1>8. CASE Send \/ Rejected \/ ReplyRefused \/ ResponseLost \/ Check \/ RecvTimeout \/ RecvEnd
             \/ StatusRefused \/ StatusLost \/ Expire
  BY <1>8 DEF Send, Rejected, ReplyRefused, ResponseLost, Check, RecvTimeout, RecvEnd, StatusRefused,
              StatusLost, Expire
<1>9. CASE Worker
  BY <1>9 DEF Worker, WorkerReceives, AnotherAnswers, RequestLost, WorkerFinishes, WorkerFails
<1>10. CASE UNCHANGED vars
  BY <1>10 DEF vars
<1> QED BY <1>1, <1>2, <1>3, <1>5, <1>6, <1>7, <1>8, <1>9, <1>10 DEF AsyncNext, Step

\* Genuine after the step.
StillGenuine(t) == \E j \in Jobs : work'[j] # None /\ t = work'[j].terminal /\ t # None

\* What was written stays true, and what is read was written.
LEMMA SaidKeeps ==
  ASSUME AInv, AsyncNext, Works, last' # last => work'[last'] # None /\ last' \in Jobs
  PROVE  Said'
<1> USE DEF AInv
<1>0. PICK S : stdout \in Seq(S)
  BY DEF Said
<1>1. \A t : Genuine(t) => StillGenuine(t)
  BY DEF Works, Genuine, StillGenuine
<1>2. last' # None => last' \in Jobs /\ work'[last'] # None
  BY DEF Said, Works
<1>3. call'.pc = "finished" => StillGenuine(call'.line)
  <2>1. CASE RecvFinished
    <3>1. 1 \in 1 .. Len(stdout) /\ Head(stdout) = stdout[1]
      BY <1>0, <2>1 DEF RecvFinished
    <3>2. Genuine(Head(stdout))
      BY <2>1, <3>1 DEF RecvFinished, Said
    <3>3. call' = [call EXCEPT !.pc = "finished", !.line = Head(stdout)] \/ Goto("giveup")
      BY <2>1 DEF RecvFinished
    <3>4. call'.pc = "finished" => call'.line = Head(stdout)
      BY <3>3 DEF Goto, Once
    <3> QED BY <1>1, <3>2, <3>4
  <2>2. CASE UNCHANGED call
    BY <1>1, <2>2 DEF Said
  <2>3. CASE call' = Idle
    BY <2>3 DEF Idle
  <2>4. ASSUME NEW pc \in Positions \ {"finished"}, Goto(pc) PROVE call'.pc # "finished"
    BY <2>4 DEF Goto, Once
  <2>5. CASE \E pc \in Positions \ {"finished"} : Goto(pc)
    BY <2>4, <2>5
  <2>6. ASSUME NEW j \in Jobs, NEW c \in Commands, Call(j, c) PROVE call'.pc # "finished"
    BY <2>6 DEF Call
  <2>7. Step /\ ~RecvFinished => call' = Idle \/ \E pc \in Positions \ {"finished"} : Goto(pc)
    BY DEF Step, Send, Accepted202, Rejected, ReplyRefused, ResponseLost, Check, GiveUp, RecvTimeout, Finished2,
           RecvEnd, Status, StatusRefused, StatusLost, Return, Positions
  <2>8. Worker \/ Expire => UNCHANGED call
    BY DEF Worker, WorkerReceives, AnotherAnswers, RequestLost, WorkerFinishes, WorkerFails, Expire, clientVars
  <2> QED BY <2>1, <2>2, <2>3, <2>5, <2>6, <2>7, <2>8 DEF AsyncNext
<1>4. /\ \E R : stdout' \in Seq(R)
      /\ \A i \in 1 .. Len(stdout') : stdout'[i] = End \/ StillGenuine(stdout'[i])
  <2>1. CASE UNCHANGED stdout
    BY <1>0, <1>1, <2>1 DEF Said
  <2>2. CASE RecvFinished \/ RecvEnd
    <3>1. stdout' = Tail(stdout) /\ stdout # <<>>
      BY <2>2 DEF RecvFinished, RecvEnd
    <3>2. stdout' \in Seq(S)
      BY <1>0, <3>1
    <3>3. \A i \in 1 .. Len(stdout') : i + 1 \in 1 .. Len(stdout) /\ stdout'[i] = stdout[i + 1]
      BY <1>0, <3>1
    <3> QED BY <1>1, <3>2, <3>3 DEF Said
  <2>3. ASSUME NEW t, stdout' = Append(stdout, t), t = End \/ StillGenuine(t)
        PROVE  /\ \E R : stdout' \in Seq(R)
               /\ \A i \in 1 .. Len(stdout') : stdout'[i] = End \/ StillGenuine(stdout'[i])
    <3>1. stdout \in Seq(S \cup {t}) /\ t \in S \cup {t}
      BY <1>0
    <3>2. stdout' \in Seq(S \cup {t}) /\ Len(stdout') = Len(stdout) + 1 /\ stdout'[Len(stdout')] = t
            /\ \A i \in 1 .. Len(stdout) : stdout'[i] = stdout[i]
      BY <2>3, <3>1
    <3>3. Len(stdout) \in Nat
      BY <1>0
    <3>4. \A i \in 1 .. Len(stdout') : i \in 1 .. Len(stdout) \/ i = Len(stdout')
      BY <3>2, <3>3
    <3> QED BY <1>1, <2>3, <3>2, <3>4 DEF Said
  <2>4. ASSUME NEW j \in Jobs, WorkerFinishes(j)
        PROVE  \E t : stdout' = Append(stdout, t) /\ StillGenuine(t)
    <3>1. PICK c \in Contents :
            LET t == [worker_job_id |-> work[j].wid, job_id |-> j,
                      command |-> work[j].command, content |-> c]
            IN  work' = [work EXCEPT ![j].terminal = t] /\ stdout' = Append(stdout, t)
      BY <2>4 DEF WorkerFinishes
    <3> DEFINE t == [worker_job_id |-> work[j].wid, job_id |-> j,
                     command |-> work[j].command, content |-> c]
    <3>2. work[j] # None /\ work[j] \in WorkerJob
      BY <2>4 DEF WorkerFinishes, WorkIsSound
    <3>3. t \in Terminal /\ t # None
      BY <3>2, NoneIsFresh DEF Terminal, WorkerJob
    <3> HIDE DEF t
    <3>4. work' = [work EXCEPT ![j].terminal = t] /\ stdout' = Append(stdout, t)
      BY <3>1 DEF t
    <3>5. work'[j] = [work[j] EXCEPT !.terminal = t]
      BY <3>4 DEF WorkIsSound
    <3>6. work'[j].terminal = t
      BY <3>2, <3>5 DEF WorkerJob
    <3>7. work'[j] # None
      BY <3>2 DEF Works
    <3>8. StillGenuine(t)
      BY <3>3, <3>6, <3>7 DEF StillGenuine
    <3> QED BY <3>4, <3>8
  <2>5. CASE WorkerFails
    BY <2>3, <2>5 DEF WorkerFails
  <2>6. (\E j \in Jobs, c \in Commands : Call(j, c)) \/ Expire \/ (Step /\ ~(RecvFinished \/ RecvEnd))
          \/ (\E r \in http.requests : WorkerReceives(r) \/ AnotherAnswers(r) \/ RequestLost(r))
        => UNCHANGED stdout
    BY DEF Call, Expire, Step, Send, Accepted202, Rejected, ReplyRefused, ResponseLost, Check, GiveUp, RecvTimeout,
           Finished2, Status, StatusRefused, StatusLost, WorkerReceives, AnotherAnswers, RequestLost, workerVars
  <2> QED BY <2>1, <2>2, <2>3, <2>4, <2>5, <2>6 DEF AsyncNext, Worker
<1> QED BY <1>2, <1>3, <1>4 DEF Said, Genuine, StillGenuine
\* At first nobody knows anything.
LEMMA AInvInit == AsyncInit => AInv
<1> SUFFICES ASSUME AsyncInit PROVE AInv
  OBVIOUS
<1>1. IInv
  BY InvInit DEF AsyncInit
<1>2. /\ \A j \in Jobs : jobs[j] = None /\ work[j] = None /\ received[j] = 0 /\ results[j] = None
      /\ work \in [Jobs -> WorkerJob \cup {None}]
      /\ received \in [Jobs -> {0, 1}] /\ results \in [Jobs -> Terminal \cup {None, Err}]
  BY DEF AsyncInit, Init
<1>3. call.pc = "idle" /\ call.job = None /\ DOMAIN call = {"pc", "job", "line"}
  BY DEF AsyncInit, Idle
<1>4. http.requests = {} /\ http.reply = None /\ DOMAIN http = {"requests", "reply"}
  BY DEF AsyncInit
<1>5. stdout \in Seq({}) /\ Len(stdout) = 0 /\ last = None
  BY DEF AsyncInit
<1>6. WorkIsSound /\ Known
  BY <1>2 DEF WorkIsSound, Known
<1>7. Said
  BY <1>3, <1>5 DEF Said
<1>8. Once /\ Replied
  BY <1>2, <1>3, <1>4 DEF Once, Replied, Positions
<1>9. Returned
  BY <1>2, MarksAreFresh DEF Returned, OkIsTrue, DoubtIsRecorded
<1> QED BY <1>1, <1>6, <1>7, <1>8, <1>9 DEF AInv

\* Every step keeps the invariant.
LEMMA AInvStep == AInv /\ [AsyncNext]_vars => AInv'
<1> SUFFICES ASSUME AInv, [AsyncNext]_vars PROVE AInv'
  OBVIOUS
<1>1. IInv'
  BY TrackerStep, InvStep DEF AInv
<1>2. CASE UNCHANGED vars
  BY <1>1, <1>2 DEF vars, jvars, clientVars, workerVars, AInv, WorkIsSound, Known, Said, Genuine, Once,
        Replied, Returned, OkIsTrue, DoubtIsRecorded, MayRun
<1>3. ASSUME AsyncNext, Moves, WorkIsSound', last' # last => work'[last'] # None /\ last' \in Jobs
      PROVE  AInv'
  <2>1. Known'
    BY <1>3, LearnsKeeps DEF Moves, AInv
  <2>2. Said'
    BY <1>3, SaidKeeps DEF Moves
  <2>3. Once' /\ Replied' /\ Returned'
    BY <1>3, MovesKeepOnce, MovesKeepReplied, MovesKeepReturned DEF AInv
  <2> QED BY <1>1, <1>3, <2>1, <2>2, <2>3 DEF AInv
<1>4. CASE (Step /\ ~Send) \/ Expire
  <2>1. Moves /\ work' = work /\ last' = last
    BY <1>4, CallMoves DEF Step
  <2>2. WorkIsSound'
    BY <2>1, SameWorkKeeps DEF Moves, AInv
  <2> QED BY <1>3, <1>4, <2>1, <2>2 DEF AsyncNext
<1>5. CASE (\E j \in Jobs : WorkerFinishes(j)) \/ WorkerFails
  <2>1. Moves /\ WorkIsSound'
    BY <1>5, WorkerMoves
  <2>2. last' # last => work'[last'] # None /\ last' \in Jobs
    BY <1>5, <2>1 DEF WorkerFinishes, WorkerFails, Moves, Works
  <2> QED BY <1>3, <1>5, <2>1, <2>2 DEF AsyncNext, Worker
<1>6. ASSUME NEW r \in http.requests, WorkerReceives(r) PROVE AInv'
  <2>1. AsyncNext
    BY <1>6 DEF AsyncNext, Worker
  <2>2. /\ Works /\ Learns /\ WorkIsSound' /\ Once' /\ Replied' /\ Returned'
        /\ last' # last => work'[last'] # None /\ last' \in Jobs
    BY <1>6, ReceiveKeeps
  <2> QED BY <1>1, <2>1, <2>2, LearnsKeeps, SaidKeeps DEF AInv
<1>7. ASSUME NEW r \in http.requests, RequestLost(r) \/ AnotherAnswers(r) PROVE AInv'
  <2>1. AsyncNext
    BY <1>7 DEF AsyncNext, Worker
  <2>2. jobs' = jobs /\ work' = work /\ last' = last
    BY <1>7 DEF RequestLost, AnotherAnswers, jvars, workerVars
  <2>3. Learns /\ Works
    BY <2>2, NothingLearnt, NothingDone
  <2>4. WorkIsSound' /\ Known' /\ Said'
    BY <2>1, <2>2, <2>3, SameWorkKeeps, LearnsKeeps, SaidKeeps DEF AInv
  <2> QED BY <1>1, <1>7, <2>4, LossKeeps DEF AInv
<1>8. ASSUME NEW j \in Jobs, NEW c \in Commands, Call(j, c) PROVE AInv'
  <2>1. AsyncNext /\ last' = last
    BY <1>8 DEF AsyncNext, Call, workerVars
  <2>2. WorkIsSound' /\ Known' /\ Once' /\ Replied' /\ Returned' /\ Works
    BY <1>8, CallKeeps
  <2> QED BY <1>1, <2>1, <2>2, SaidKeeps DEF AInv
<1>9. CASE Send
  <2>1. AsyncNext /\ jobs' = jobs /\ work' = work /\ last' = last
    BY <1>9 DEF AsyncNext, Step, Send, jvars, workerVars
  <2>2. Learns /\ Works
    BY <2>1, NothingLearnt, NothingDone
  <2>3. WorkIsSound' /\ Known' /\ Said'
    BY <2>1, <2>2, SameWorkKeeps, LearnsKeeps, SaidKeeps DEF AInv
  <2> QED BY <1>1, <1>9, <2>3, SendKeeps DEF AInv
<1> QED BY <1>2, <1>4, <1>5, <1>6, <1>7, <1>8, <1>9 DEF AsyncNext, Worker

\* The invariant holds.
LEMMA AInvAlways == AsyncSpec => []AInv
  BY AInvInit, AInvStep, PTL DEF AsyncSpec

\* Every variable of AsyncJob holds what it is declared to hold.
THEOREM AsyncTypeCorrect == AsyncSpec => []AsyncTypeOK
<1>1. AInv => AsyncTypeOK
  <2> SUFFICES ASSUME AInv PROVE AsyncTypeOK
    OBVIOUS
  <2>1. received \in [Jobs -> Nat]
    BY DEF AInv, Once
  <2>2. call.job \in Jobs \cup {None} /\ (call.job = None <=> call.pc = "idle")
    BY NoneIsFresh DEF AInv, Once
  <2> QED BY <2>1, <2>2 DEF AInv, IInv, WorkIsSound, Once, Returned, Positions, AsyncTypeOK
<1> QED BY <1>1, AInvAlways, PTL

(***************************************************************************)
(* No false alarm: whatever is late, repeated, overtaken or lost, a        *)
(* conforming Worker is never charged with a conflict.                     *)
(***************************************************************************)
THEOREM NoFalseConflictHolds == AsyncSpec => []NoFalseConflict
<1>1. AInv => NoFalseConflict
  BY NoConflict DEF AInv, NoFalseConflict
<1> QED BY <1>1, AInvAlways, PTL

(***************************************************************************)
(* A caller can rely on a call: the Worker receives the command once at    *)
(* most, a terminal that is returned is the one it gave to that job, and a *)
(* failed call of a job that may still run leaves its doubt with the       *)
(* tracker.                                                                *)
(***************************************************************************)
THEOREM CallIsHonestHolds == AsyncSpec => []CallIsHonest
<1>1. AInv => CallIsHonest
  BY DEF AInv, Once, Returned, CallIsHonest, ReceivedAtMostOnce
<1> QED BY <1>1, AInvAlways, PTL

-----------------------------------------------------------------------------
(***************************************************************************)
(* AsyncJob implements JobPromise.                                         *)
(***************************************************************************)
Decided == [j \in Jobs |-> IF work[j] = None THEN None ELSE work[j].terminal]
Learnt == [j \in Jobs |-> IF jobs[j] = None THEN None ELSE jobs[j].terminal]

\* A move that leaves the Worker alone learns one outcome, or none.
LEMMA MoveLearns ==
  ASSUME AInv, Learns, work' = work
  PROVE  \/ Decided' = Decided /\ Learnt' = Learnt
         \/ \E k \in Jobs :
              /\ Decided[k] # None /\ Learnt[k] = None
              /\ Learnt' = [Learnt EXCEPT ![k] = Decided[k]]
              /\ Decided' = Decided
<1>1. Decided' = Decided
  BY DEF Decided
<1>2. CASE \A j \in Jobs : Learnt'[j] = Learnt[j]
  BY <1>1, <1>2 DEF Learnt
<1>3. ASSUME NEW k \in Jobs, Learnt'[k] # Learnt[k]
      PROVE  /\ Decided[k] # None /\ Learnt[k] = None
             /\ Learnt' = [Learnt EXCEPT ![k] = Decided[k]]
  <2>1. /\ jobs[k] # None /\ jobs'[k] # None /\ jobs'[k].terminal # jobs[k].terminal
        /\ jobs'[k] # jobs[k]
    BY <1>3 DEF Learnt, Learns
  <2>2. /\ jobs[k].terminal = None
        /\ work[k] # None /\ jobs'[k].terminal = work[k].terminal
    BY <2>1 DEF Learns
  <2>3. \A i \in Jobs \ {k} : jobs'[i] = jobs[i]
    BY <2>1 DEF Learns
  <2>4. Learnt[k] = None /\ Learnt'[k] = Decided[k] /\ Decided[k] # None
    BY <2>1, <2>2 DEF Learnt, Decided
  <2>5. \A i \in Jobs \ {k} : Learnt'[i] = Learnt[i]
    BY <2>3 DEF Learnt
  <2> QED BY <2>4, <2>5 DEF Learnt
<1> QED BY <1>1, <1>2, <1>3

\* At first nothing is decided or learnt.
LEMMA PromiseInit ==
  ASSUME AsyncInit
  PROVE  Decided = [j \in Jobs |-> None] /\ Learnt = [j \in Jobs |-> None]
  BY DEF AsyncInit, Init, Decided, Learnt

\* A step decides one outcome, learns one that was decided, or does neither.
LEMMA PromiseStep ==
  ASSUME AInv, [AsyncNext]_vars
  PROVE  \/ Decided' = Decided /\ Learnt' = Learnt
         \/ \E k \in Jobs :
              /\ Decided[k] # None /\ Learnt[k] = None
              /\ Learnt' = [Learnt EXCEPT ![k] = Decided[k]]
              /\ Decided' = Decided
         \/ \E k \in Jobs :
              /\ Decided[k] = None
              /\ \E t \in Terminal : Decided' = [Decided EXCEPT ![k] = t]
              /\ Learnt' = Learnt
<1>1. CASE jobs' = jobs /\ work' = work
  BY <1>1 DEF Decided, Learnt
<1>2. CASE (Step /\ ~Send) \/ Expire
  BY <1>2, CallMoves, MoveLearns DEF Step, Moves
<1>3. ASSUME NEW j \in Jobs, NEW c \in Commands, Call(j, c)
      PROVE  Decided' = Decided /\ Learnt' = Learnt
  <2>1. register(j, c) /\ work' = work
    BY <1>3 DEF Call, workerVars
  <2>2. /\ jobs[j] = None /\ jobs'[j].terminal = None
        /\ \A i \in Jobs \ {j} : jobs'[i] = jobs[i]
    BY <2>1, RegisteredFields DEF AInv, IInv
  <2> QED BY <2>1, <2>2 DEF Decided, Learnt
<1>4. ASSUME NEW r \in http.requests, WorkerReceives(r)
      PROVE  Decided' = Decided /\ Learnt' = Learnt
  <2>1. PICK k \in Jobs : k = r.job /\ received[k] = 0
    BY DEF AInv, Once
  <2>2. work[k] = None /\ jobs' = jobs
    BY <1>4, <2>1 DEF AInv, Once, WorkerReceives, jvars
  <2>3. \/ work' = work
        \/ \E w \in WorkerIds :
             work' = [work EXCEPT ![k] = [wid |-> w, command |-> r.command, terminal |-> None]]
    BY <1>4, <2>1 DEF WorkerReceives
  <2>4. \A j \in Jobs \ {k} : work'[j] = work[j]
    BY <2>3 DEF AInv, WorkIsSound
  <2>5. work'[k] = None \/ work'[k].terminal = None
    BY <2>2, <2>3 DEF AInv, WorkIsSound
  <2> QED BY <2>2, <2>4, <2>5 DEF Decided, Learnt
<1>5. ASSUME NEW j \in Jobs, WorkerFinishes(j)
      PROVE  /\ Decided[j] = None
             /\ \E t \in Terminal : Decided' = [Decided EXCEPT ![j] = t]
             /\ Learnt' = Learnt
  <2>1. PICK c \in Contents :
          work' = [work EXCEPT ![j].terminal =
                     [worker_job_id |-> work[j].wid, job_id |-> j,
                      command |-> work[j].command, content |-> c]]
    BY <1>5 DEF WorkerFinishes
  <2> DEFINE t == [worker_job_id |-> work[j].wid, job_id |-> j,
                   command |-> work[j].command, content |-> c]
  <2>2. work[j] # None /\ work[j] \in WorkerJob /\ work[j].terminal = None /\ jobs' = jobs
    BY <1>5 DEF WorkerFinishes, AInv, WorkIsSound, jvars
  <2>3. t \in Terminal
    BY <2>2 DEF Terminal, WorkerJob
  <2> HIDE DEF t
  <2>4. work'[j] = [work[j] EXCEPT !.terminal = t] /\ \A i \in Jobs \ {j} : work'[i] = work[i]
    BY <2>1 DEF AInv, WorkIsSound, t
  <2>5. work'[j].terminal = t /\ work'[j] \in WorkerJob
    BY <2>2, <2>3, <2>4 DEF WorkerJob
  <2>6. Decided[j] = None /\ Decided'[j] = t /\ \A i \in Jobs \ {j} : Decided'[i] = Decided[i]
    BY <2>2, <2>4, <2>5, MarksAreFresh DEF Decided
  <2>7. Decided' = [Decided EXCEPT ![j] = t]
    BY <2>6 DEF Decided
  <2> QED BY <2>2, <2>3, <2>6, <2>7 DEF Learnt
<1>6. CASE Send \/ WorkerFails \/ (\E r \in http.requests : RequestLost(r) \/ AnotherAnswers(r))
             \/ UNCHANGED vars
  <2>1. jobs' = jobs /\ work' = work
    BY <1>6 DEF Send, WorkerFails, RequestLost, AnotherAnswers, jvars, workerVars, vars
  <2> QED BY <1>1, <2>1
<1> QED BY <1>2, <1>3, <1>4, <1>5, <1>6 DEF AsyncNext, Worker

(***************************************************************************)
(* The orchestrator learns the outcome the Worker gave to a job, once, and *)
(* nothing else: WorkerFinishes decides it, the step of the tracker that   *)
(* confirms it learns it, and every other step stutters.                   *)
(***************************************************************************)
THEOREM PromiseIsKept == AsyncSpec => KeepsPromise
<1>1. AsyncInit => Promise!Init
  BY PromiseInit DEF Promise!Init, Decided, Learnt
<1>2. AInv /\ [AsyncNext]_vars => [Promise!Next]_<<Decided, Learnt>>
  <2> SUFFICES ASSUME AInv, [AsyncNext]_vars PROVE Promise!Next \/ UNCHANGED <<Decided, Learnt>>
    OBVIOUS
  <2>1. \A k \in Jobs, t \in Terminal :
          Decided[k] = None /\ Decided' = [Decided EXCEPT ![k] = t] /\ Learnt' = Learnt
          => Promise!Decide(k)
    BY DEF Promise!Decide, Decided, Learnt
  <2>2. \A k \in Jobs :
          /\ Decided[k] # None /\ Learnt[k] = None
          /\ Learnt' = [Learnt EXCEPT ![k] = Decided[k]]
          /\ Decided' = Decided
          => Promise!Learn(k)
    BY DEF Promise!Learn, Decided, Learnt
  <2> QED BY PromiseStep, <2>1, <2>2 DEF Promise!Next
<1> QED BY <1>1, <1>2, AInvAlways, PTL DEF AsyncSpec, KeepsPromise, Promise!Spec, Decided, Learnt

=============================================================================
