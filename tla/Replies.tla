---------------------------- MODULE Replies ----------------------------
(***************************************************************************)
(* What is believed of a Worker.  The caller has two channels: the lines   *)
(* the Worker writes, which come in order, and its answers over HTTP, each *)
(* of which is as old as its request.  The Worker may exit at any time,    *)
(* and then the Worker of another run may answer at the same port.  Lines  *)
(* and answers may be malformed in one field; a Worker does not lie.       *)
(*                                                                         *)
(* The caller checks who the Worker is (Scopes), waits for its source to   *)
(* be active, gives it one command and asks it to stop.                    *)
(***************************************************************************)
EXTENDS Manifest, Sequences, TLC

CONSTANTS
    Sessions,  \* [features, lifecycle, urls, scopes]: what a Ready adopted
    MaxWritten,  \* bound: lines of the Worker
    MaxAsked     \* bound: requests for a status

VARIABLES
    peer,   \* the Worker: [alive, state, stream, asLaunched, lines, facts]
    caller  \* [session, at, seen, read, pending, answer, asked, believes]

Own == "own run"
Other == "other run"
WorkerStates == {"starting", "running", "stopping", "failed"}
StreamStates == {"waiting", "active", "ended"}
Stateless == "stateless"  \* a stream object that names no state
NoSnapshot == [whole |-> TRUE, state |-> "none", ok |-> FALSE, error |-> FALSE]
NoAnswer == [code |-> 0]

Adopts(session, feature) == feature \in DOMAIN session.features

(* In a scene without sessions nobody talks.                               *)
RepliesInit(sessions) ==
    \/ sessions = {} /\ peer = NoAnswer /\ caller = NoAnswer
    \/ \E session \in sessions, asLaunched \in BOOLEAN :
          /\ peer = [alive |-> TRUE, state |-> "running", asLaunched |-> asLaunched, lines |-> <<>>, facts |-> {},
                     stream |-> IF Adopts(session, Streaming) THEN "waiting" ELSE "none"]
          /\ caller = [session |-> session, seen |-> "none", read |-> 0, pending |-> <<>>,
                       answer |-> NoAnswer, asked |-> 0, believes |-> {},
                       at |-> IF session.scopes THEN "identify"
                              ELSE IF session.lifecycle = "run_bound" THEN "observe" ELSE "command"]

-----------------------------------------------------------------------------
(* What a status, a line or an answer must be.                             *)

async_snapshot(snapshot, terminal) ==
    \/ snapshot.state = "none"
    \/ /\ snapshot.whole
       /\ IF terminal THEN \/ snapshot.state = "succeeded" /\ snapshot.ok /\ ~snapshot.error
                           \/ snapshot.state = "failed" /\ ~snapshot.ok /\ snapshot.error
                           \/ snapshot.state = "cancelled" /\ ~snapshot.ok
          ELSE snapshot.state \in {"queued", "running"}

async_status_snapshots(status, session) ==
    Adopts(session, AsyncJobs) =>
        async_snapshot(status.active_job, FALSE) /\ async_snapshot(status.last_job, TRUE)

StateIsSound(value) ==
    /\ value.worker_state \in WorkerStates
    /\ value.worker_state = "failed" => value.fatal_error

StreamIsSound(value, session) ==
    /\ {value.lifecycle} = session.features[Streaming].list
    /\ value.stream \in StreamStates

(* Bug to rule out: whoever answers at the port is believed.               *)
StatusOfAnyone(value, session) == value.version = 3 /\ value.utc /\ StateIsSound(value)

status_is_valid(value, session) ==
    /\ value.version = 3 /\ value.utc /\ value.run_id = Own
    /\ StateIsSound(value)
    /\ value.features = session.features
    /\ adopted_fields(value)
    /\ endpoints_are_valid(value.urls) /\ value.urls.status = session.urls.status
    /\ async_status_snapshots(value, session)
    /\ Adopts(session, Streaming) => StreamIsSound(value, session)

stream_source_ready(status) ==
    IF status.fatal_error \/ status.worker_state \in {"failed", "stopping"} \/ status.stream = "ended"
    THEN "never"
    ELSE IF status.stream = "active" /\ status.worker_state = "running" THEN "now" ELSE "later"

event_envelope(line) ==
    /\ line.version = 3 /\ line.utc /\ line.run_id = Own
    /\ line.event = "status" => line.stream # Stateless /\ StateIsSound(line)
    /\ line.event = "error" =>
          /\ line.scope \in {"request", "job", "worker"} /\ line.whole
          /\ line.fatal => line.scope = "worker"
    /\ line.event = "summary" => line.whole

stream_transition(previous, next) ==
    \/ previous \in {"none", next}
    \/ <<previous, next>> \in {<<"waiting", "active">>, <<"waiting", "ended">>, <<"active", "ended">>}

(* record_event, as far as the stream goes.                                *)
record_event(line) ==
    /\ event_envelope(line)
    /\ line.event = "status" =>
          /\ async_status_snapshots(line, caller.session)
          /\ IF Adopts(caller.session, Streaming)
             THEN StreamIsSound(line, caller.session) /\ stream_transition(caller.seen, line.stream)
             ELSE line.stream = "none"

command_accepted(answer, kind) ==
    /\ answer.version = 3 /\ answer.run_id = Own /\ answer.code = 202 /\ answer.status = "accepted"
    /\ answer.command /\ answer.job /\ answer.kind = kind /\ ~answer.error
    /\ kind = "async_job" <=> answer.worker_job

command_rejected(answer) ==
    /\ answer.version = 3 /\ answer.run_id = Own /\ answer.code \in {400, 409, 429, 500}
    /\ answer.command /\ answer.job /\ ~answer.worker_job
    /\ answer.status = IF answer.code \in {409, 429} THEN "rejected" ELSE "error"
    /\ answer.kind \in {"control", "async_job", "none"} /\ answer.error

(* The start of a Scopes stream, which has no client job.                  *)
start_accepted(answer) ==
    /\ answer.version = 3 /\ answer.code = 202 /\ answer.kind = "control" /\ answer.run_id = Own
    /\ ~answer.worker_job /\ ~answer.error

stop_accepted(answer) ==
    /\ answer.version = 3 /\ answer.code \in {200, 202} /\ answer.run_id = Own
    /\ answer.status = "accepted" /\ ~answer.error

-----------------------------------------------------------------------------
(* The Worker.                                                             *)

(* One field is not what it should be.                                     *)
Malformed(value) ==
    {[value EXCEPT !.version = 2], [value EXCEPT !.run_id = Other]}

Status(runId) ==
    [event |-> "status", version |-> 3, utc |-> TRUE, run_id |-> runId,
     worker_state |-> IF runId = Own THEN peer.state ELSE "running",
     fatal_error |-> runId = Own /\ peer.state = "failed",
     stream |-> IF runId = Own THEN peer.stream ELSE "active",
     features |-> caller.session.features, lifecycle |-> caller.session.lifecycle,
     urls |-> caller.session.urls, active_job |-> NoSnapshot, last_job |-> NoSnapshot,
     asLaunched |-> runId = Own /\ peer.asLaunched]

OneMore(features) == features @@ (JobCancel :> 0)

FlawedStatus(value) ==
    Malformed(value)
        \cup {[value EXCEPT !.worker_state = "failed"], [value EXCEPT !.lifecycle = "other"],
              [value EXCEPT !.stream = "unknown"], [value EXCEPT !.stream = Stateless],
              [value EXCEPT !.features = OneMore(@)],
              [value EXCEPT !.urls.status.port = 0],
              [value EXCEPT !.last_job = [NoSnapshot EXCEPT !.state = "succeeded"]],
              [value EXCEPT !.active_job = [NoSnapshot EXCEPT !.state = "cancelled"]]}

Line(event) == [event |-> event, version |-> 3, utc |-> TRUE, run_id |-> Own, whole |-> TRUE]
ErrorLine(scope) ==
    [event |-> "error", version |-> 3, utc |-> TRUE, run_id |-> Own, whole |-> TRUE,
     scope |-> scope, fatal |-> scope = "worker"]

Says(line) == peer' = [peer EXCEPT !.lines = Append(@, line)]

Moves(state, stream, line) ==
    peer' = [peer EXCEPT !.state = state, !.stream = stream, !.lines = Append(@, line),
                         !.facts = @ \cup ({"active"} \cap {stream})]

(* Lines count while somebody may read them.                               *)
Speak ==
    /\ peer.alive /\ Len(peer.lines) < MaxWritten
    /\ caller.at \in {"observe", "asking", "look", "command", "deferred"} /\ Adopts(caller.session, Streaming)
    /\ \/ \E stream \in StreamStates :
             /\ stream_transition(peer.stream, stream) /\ Adopts(caller.session, Streaming)
             /\ Moves(peer.state, stream, [Status(Own) EXCEPT !.stream = stream])
       \/ Moves("failed", peer.stream, ErrorLine("worker"))
       \/ Moves("stopping", peer.stream, [Status(Own) EXCEPT !.worker_state = "stopping"])
       \/ Says(Line("sample")) \/ Says(Line("summary")) \/ Says(ErrorLine("job"))
       \/ \E line \in FlawedStatus(Status(Own)) \cup Malformed(Line("sample"))
             \cup {[Line("summary") EXCEPT !.whole = FALSE], [ErrorLine("job") EXCEPT !.fatal = TRUE],
                   [Status(Own) EXCEPT !.stream = "waiting"]} : Says(line)
    /\ UNCHANGED caller

Leaves == peer.alive /\ peer' = [peer EXCEPT !.alive = FALSE] /\ UNCHANGED caller

(* Answers, from the Worker or from whoever has its port by now.           *)
Kind == IF Adopts(caller.session, Streaming) THEN "control" ELSE "async_job"
Who == IF peer.alive THEN Own ELSE Other

Accepted(runId) ==
    [version |-> 3, run_id |-> runId, code |-> 202, status |-> "accepted", command |-> TRUE, job |-> TRUE,
     kind |-> Kind, worker_job |-> Kind = "async_job", error |-> FALSE]
Refusal(runId, code) ==
    [Accepted(runId) EXCEPT !.code = code, !.status = IF code = 409 THEN "rejected" ELSE "error",
                            !.kind = "none", !.worker_job = FALSE, !.error = TRUE]

FlawedAnswer(answer) ==
    Malformed(answer)
        \cup {[answer EXCEPT !.code = 500], [answer EXCEPT !.status = "unknown"],
              [answer EXCEPT !.command = FALSE], [answer EXCEPT !.job = FALSE],
              [answer EXCEPT !.kind = "unknown"], [answer EXCEPT !.worker_job = ~answer.worker_job],
              [answer EXCEPT !.error = ~answer.error]}

(* A command that was taken may still be answered with an error.           *)
Broken == [Refusal(Own, 500) EXCEPT !.worker_job = TRUE]

TakesNote(fact) ==
    peer' = IF Who = Own THEN [peer EXCEPT !.facts = @ \cup {fact}] ELSE peer

-----------------------------------------------------------------------------
(* The caller.                                                             *)

Goes(at) == [caller EXCEPT !.at = at, !.answer = NoAnswer]
Believes(fact, at) == [Goes(at) EXCEPT !.believes = @ \cup {fact}]

(* A request for a status is answered some time before the answer is read. *)
Ask ==
    /\ \/ caller.at = "identify" /\ caller' = Goes("identifying")
       \/ caller.at = "observe" /\ caller.asked < MaxAsked
          /\ caller' = [Goes("asking") EXCEPT !.asked = @ + 1]
    /\ UNCHANGED peer

Reply ==
    /\ caller.at \in {"identifying", "asking"} /\ caller.answer = NoAnswer
    /\ \E answer \in {[code |-> 503, value |-> Status(Who)]}
             \cup {[code |-> 200, value |-> v] : v \in {Status(Who)} \cup FlawedStatus(Status(Who))} :
          caller' = [caller EXCEPT !.answer = answer]
    /\ UNCHANGED peer

(* A request fails or a wait is over: what is left to do is to ask the     *)
(* Worker to stop.                                                         *)
Fails ==
    /\ caller.at \in {"identifying", "observe", "asking", "deferred"}
    /\ caller' = Goes("stop")
    /\ UNCHANGED peer

EndsWait(line) ==
    \/ line.event = "summary"
    \/ line.event = "error" /\ line.scope = "worker"
    \/ line.event = "status" /\ (\/ line.worker_state \in {"failed", "stopping"}
                                \/ line.fatal_error \/ line.stream = "ended")

EndsStart(line) ==
    \/ line.event \in {"summary", "error"}
    \/ line.event = "status" /\ (line.worker_state = "failed" \/ line.stream = "ended" \/ line.fatal_error)

IsActive(line) == line.event = "status" /\ line.worker_state = "running" /\ line.stream = "active"

(* recv_worker_event while a source is waited for.  Lines are kept for     *)
(* those who come after.                                                   *)
TakeLine ==
    /\ caller.at \in {"observe", "look", "deferred"} /\ caller.read < Len(peer.lines)
    /\ LET line == peer.lines[caller.read + 1]
           taken == [caller EXCEPT !.read = @ + 1]
           noted == IF line.event = "status" THEN [taken EXCEPT !.seen = line.stream] ELSE taken
           kept == [noted EXCEPT !.pending = Append(@, line.event)]
       IN caller' =
            IF ~record_event(line) THEN [taken EXCEPT !.at = "stop", !.answer = NoAnswer]
            ELSE IF caller.at = "deferred"
            THEN IF IsActive(line) THEN [kept EXCEPT !.at = "stop", !.believes = @ \cup {"active"}]
                 ELSE IF EndsStart(line) THEN [kept EXCEPT !.at = "stop"] ELSE kept
            ELSE IF EndsWait(line) THEN [noted EXCEPT !.at = "stop", !.answer = NoAnswer] ELSE kept
    /\ UNCHANGED peer

(* validate_session: the status is that of the Worker that was launched.   *)
Identify ==
    /\ caller.at = "identifying" /\ caller.answer # NoAnswer
    /\ LET status == caller.answer.value
       IN caller' = IF /\ caller.answer.code = 200 /\ status_is_valid(status, caller.session)
                       /\ ~status.fatal_error /\ status.worker_state # "failed" /\ status.asLaunched
                    THEN Believes("identified", "command") ELSE Goes("stop")
    /\ UNCHANGED peer

(* wait_for_stream_active: the status is judged now, but the lines are     *)
(* looked at once more before it counts.                                   *)
Judge ==
    /\ caller.at = "asking" /\ caller.answer # NoAnswer
    /\ LET status == caller.answer.value
       IN caller' = IF /\ caller.answer.code = 200 /\ status_is_valid(status, caller.session)
                       /\ stream_source_ready(status) # "never"
                    THEN [caller EXCEPT !.at = "look"] ELSE Goes("stop")
    /\ UNCHANGED peer

Decide ==
    /\ caller.at = "look"
    /\ LET status == caller.answer.value
       IN caller' = IF caller.seen = "ended" THEN Goes("stop")
                    ELSE IF \/ stream_source_ready(status) = "now"
                            \/ caller.seen = "active" /\ status.worker_state = "running"
                    THEN Believes("active", "command") ELSE Goes("observe")
    /\ UNCHANGED peer

(* The three kinds of command, by what the Worker runs as.                 *)
Answered(answer) ==
    caller' =
        CASE caller.session.lifecycle = "deferred_start" ->
                IF start_accepted(answer) THEN Believes("taken", "deferred") ELSE Goes("stop")
          [] caller.session.lifecycle = "run_bound" ->
                IF command_accepted(answer, "control") THEN Believes("taken", "stop") ELSE Goes("stop")
          [] OTHER ->
                IF answer.code = 202
                THEN IF command_accepted(answer, "async_job") THEN Believes("taken", "stop") ELSE Goes("stop")
                ELSE IF command_rejected(answer) THEN Believes("refused", "stop") ELSE Goes("stop")

Give ==
    /\ caller.at = "command"
    /\ \/ /\ TakesNote("taken")
          /\ \/ \E answer \in {Accepted(Who), Broken} \cup FlawedAnswer(Accepted(Who)) : Answered(answer)
             \/ caller' = Goes("stop")
       \/ /\ UNCHANGED peer
          /\ \/ \E code \in {400, 409} :
                   \E answer \in {Refusal(Who, code)} \cup FlawedAnswer(Refusal(Who, code)) : Answered(answer)
             \/ caller' = Goes("stop")

Stopped(answer) == caller' = IF stop_accepted(answer) THEN Believes("stopped", "done") ELSE Goes("done")

Stop ==
    /\ caller.at = "stop"
    /\ \/ /\ TakesNote("stopped")
          /\ \E answer \in {Accepted(Who)} \cup FlawedAnswer(Accepted(Who)) : Stopped(answer)
       \/ UNCHANGED peer /\ (Stopped(Refusal(Who, 409)) \/ caller' = Goes("done"))

ReplyStep ==
    \/ Speak \/ Leaves
    \/ Ask \/ Reply \/ Fails \/ TakeLine \/ Identify \/ Judge \/ Decide
    \/ Give \/ Stop
=============================================================================
