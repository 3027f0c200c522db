------------------------- MODULE WorkbenchProofs -------------------------
(***************************************************************************)
(* Proofs about the Workbench, for any scenes: any documents, templates,   *)
(* configurations, edits, instruments and conversations.                   *)
(***************************************************************************)
EXTENDS Workbench, WorkflowProofs

Commanded == {"deferred", "stop", "done"}

(* A status said by the Worker's own run is not ahead of what happened.    *)
Honest(line) ==
    line.event = "status" /\ line.run_id = Own /\ line.stream = "active" => "active" \in peer.facts

(* What the Worker is and wrote.                                           *)
Peer ==
    /\ DOMAIN peer = {"alive", "state", "asLaunched", "lines", "facts", "stream"}
    /\ \E S : peer.lines \in Seq(S)
    /\ \A i \in 1 .. Len(peer.lines) : Honest(peer.lines[i])
    /\ peer.stream = "active" => "active" \in peer.facts

(* An answer that is held, and what was read.                              *)
Heard ==
    /\ DOMAIN caller = {"session", "at", "seen", "read", "pending", "answer", "asked", "believes"}
    /\ caller.read \in Nat
    /\ caller.seen = "active" => "active" \in peer.facts
    /\ caller.answer # NoAnswer /\ caller.answer.value.run_id = Own =>
          /\ caller.answer.value.stream = "active" => "active" \in peer.facts
          /\ caller.answer.value.asLaunched => peer.asLaunched
    /\ caller.at = "look" => caller.answer # NoAnswer /\ caller.answer.value.run_id = Own

(* What is believed, and that the command is given once.                   *)
Believed ==
    /\ caller.believes \cap {"active", "taken", "stopped"} \subseteq peer.facts
    /\ "identified" \in caller.believes => peer.asLaunched
    /\ "refused" \in caller.believes => "taken" \notin peer.facts
    /\ "refused" \in caller.believes \/ "taken" \in peer.facts => caller.at \in Commanded

TalkInv == Scenes[scene].sessions # {} => Peer /\ Heard /\ Believed

(* One line more is written.                                               *)
LEMMA Written ==
    ASSUME NEW s, NEW e, \E S : s \in Seq(S)
    PROVE  /\ \E S : Append(s, e) \in Seq(S)
           /\ Len(Append(s, e)) = Len(s) + 1
           /\ Len(s) \in Nat
           /\ \A i \in 1 .. Len(s) : Append(s, e)[i] = s[i]
           /\ Append(s, e)[Len(s) + 1] = e
<1>1. PICK S : s \in Seq(S)
    OBVIOUS
<1>2. s \in Seq(S \cup {e}) /\ e \in S \cup {e}
    BY <1>1
<1>. QED
    BY <1>2

(* A status with one wrong field is no more true of a run than it was.     *)
LEMMA FlawedTells ==
    ASSUME NEW runId, NEW v \in {Status(runId)} \cup FlawedStatus(Status(runId))
    PROVE  /\ v.event = "status"
           /\ v.run_id \in {runId, Other}
           /\ v.stream \in {Status(runId).stream, "unknown", Stateless}
           /\ v.asLaunched = Status(runId).asLaunched
<1>. DEFINE s == Status(runId)
<1>1. /\ DOMAIN s = {"event", "version", "utc", "run_id", "worker_state", "fatal_error", "stream", "features",
                     "lifecycle", "urls", "active_job", "last_job", "asLaunched"}
      /\ s.event = "status" /\ s.run_id = runId
    BY DEF Status
<1>. HIDE DEF s
<1>2. v \in {s} \cup FlawedStatus(s)
    BY DEF s
<1>3. CASE v = s
    BY <1>1, <1>3 DEF s
<1>4. CASE v \in Malformed(s)
    <2>1. v = [s EXCEPT !.version = 2] \/ v = [s EXCEPT !.run_id = Other]
        BY <1>4 DEF Malformed
    <2>. QED
        BY <1>1, <2>1 DEF s
<1>5. CASE \/ v = [s EXCEPT !.worker_state = "failed"] \/ v = [s EXCEPT !.lifecycle = "other"]
          \/ v = [s EXCEPT !.stream = "unknown"] \/ v = [s EXCEPT !.stream = Stateless]
    BY <1>1, <1>5 DEF s, Stateless
<1>6. ASSUME NEW x, \/ v = [s EXCEPT !.features = x] \/ v = [s EXCEPT !.urls = x]
                   \/ v = [s EXCEPT !.last_job = x] \/ v = [s EXCEPT !.active_job = x]
      PROVE  /\ v.event = s.event /\ v.run_id = s.run_id /\ v.stream = s.stream /\ v.asLaunched = s.asLaunched
    BY <1>1, <1>6
<1>7. CASE v = [s EXCEPT !.features = OneMore(@)]
    BY <1>1, <1>6, <1>7 DEF s
<1>8. CASE v = [s EXCEPT !.urls.status.port = 0]
    BY <1>1, <1>6, <1>8 DEF s
<1>9. CASE \/ v = [s EXCEPT !.last_job = [NoSnapshot EXCEPT !.state = "succeeded"]]
          \/ v = [s EXCEPT !.active_job = [NoSnapshot EXCEPT !.state = "cancelled"]]
    BY <1>1, <1>6, <1>9 DEF s
<1>. QED
    BY <1>2, <1>3, <1>4, <1>5, <1>7, <1>8, <1>9 DEF FlawedStatus

(* An answer with one wrong field: of its code and its status one is right.*)
LEMMA FlawedAnswers ==
    ASSUME NEW runId, NEW a,
           DOMAIN a = {"version", "run_id", "code", "status", "command", "job", "kind", "worker_job", "error"},
           a.run_id = runId,
           NEW v \in {a} \cup FlawedAnswer(a)
    PROVE  /\ v.run_id \in {runId, Other}
           /\ \/ v.code = a.code
              \/ v.code = 500 /\ v.status = a.status
<1>1. CASE v = a \/ v \in Malformed(a)
    BY <1>1 DEF Malformed
<1>2. CASE v = [a EXCEPT !.code = 500] \/ v = [a EXCEPT !.status = "unknown"]
    BY <1>2
<1>3. ASSUME NEW x, \/ v = [a EXCEPT !.command = x] \/ v = [a EXCEPT !.job = x] \/ v = [a EXCEPT !.kind = x]
                   \/ v = [a EXCEPT !.worker_job = x] \/ v = [a EXCEPT !.error = x]
      PROVE  v.run_id = runId /\ v.code = a.code
    BY <1>3
<1>. QED
    BY <1>1, <1>2, <1>3 DEF FlawedAnswer

(* The answers of whoever has the port: none that takes a command looks    *)
(* like a refusal, and the other way round.                                *)
LEMMA AcceptedAnswers ==
    ASSUME NEW runId, NEW v \in {Accepted(runId)} \cup FlawedAnswer(Accepted(runId))
    PROVE  v.run_id \in {runId, Other} /\ ~command_rejected(v)
<1>. DEFINE a == Accepted(runId)
<1>1. /\ DOMAIN a = {"version", "run_id", "code", "status", "command", "job", "kind", "worker_job", "error"}
      /\ a.run_id = runId /\ a.code = 202 /\ a.status = "accepted"
    BY DEF Accepted
<1>2. v \in {a} \cup FlawedAnswer(a)
    OBVIOUS
<1>. HIDE DEF a
<1>3. /\ v.run_id \in {runId, Other}
      /\ \/ v.code = a.code
         \/ v.code = 500 /\ v.status = a.status
    BY <1>1, <1>2, FlawedAnswers
<1>. QED
    BY <1>1, <1>3 DEF command_rejected

\* The same of a refusal.
LEMMA RefusedAnswers ==
    ASSUME NEW runId, NEW code, code # 202, NEW v \in {Refusal(runId, code)} \cup FlawedAnswer(Refusal(runId, code))
    PROVE  v.code # 202
<1>. DEFINE a == Refusal(runId, code)
<1>1. /\ DOMAIN a = {"version", "run_id", "code", "status", "command", "job", "kind", "worker_job", "error"}
      /\ a.run_id = runId /\ a.code = code
    BY DEF Refusal, Accepted
<1>2. v \in {a} \cup FlawedAnswer(a)
    OBVIOUS
<1>. HIDE DEF a
<1>3. v.code = code \/ v.code = 500
    BY <1>1, <1>2, FlawedAnswers
<1>. QED
    BY <1>3

\* And of the answer of a Worker that took a command and then broke.
LEMMA BrokenAnswer == Broken.code = 500 /\ ~command_rejected(Broken)
    BY DEF Broken, Refusal, Accepted, command_rejected

(* Who is believed: only its own run.                                      *)
LEMMA OwnOnly ==
    ASSUME NEW answer
    PROVE  /\ \A session : status_is_valid(answer, session) => answer.run_id = Own
           /\ \A kind : command_accepted(answer, kind) => answer.code = 202 /\ answer.run_id = Own
           /\ start_accepted(answer) => answer.code = 202 /\ answer.run_id = Own
           /\ stop_accepted(answer) => answer.code \in {200, 202} /\ answer.run_id = Own
           /\ record_event(answer) => answer.run_id = Own
<1>1. \A session : status_is_valid(answer, session) => answer.run_id = Own
    BY DEF status_is_valid
<1>2. record_event(answer) => answer.run_id = Own
    BY DEF record_event, event_envelope
<1>3. \A kind : command_accepted(answer, kind) => answer.code = 202 /\ answer.run_id = Own
    BY DEF command_accepted
<1>. QED
    BY <1>1, <1>2, <1>3 DEF start_accepted, stop_accepted

(* What the Worker writes is true of it, even when a field is wrong.       *)
LEMMA SpeakKeeps ==
    ASSUME Peer, Heard, Believed, Speak
    PROVE  Peer' /\ Heard' /\ Believed'
<1>. UNCHANGED caller
    BY DEF Speak
<1>1. ASSUME NEW line, Says(line), Honest(line)
      PROVE  Peer' /\ Heard' /\ Believed'
    <2>1. /\ peer'.lines = Append(peer.lines, line)
          /\ DOMAIN peer' = DOMAIN peer
          /\ peer'.facts = peer.facts
          /\ peer'.stream = peer.stream
          /\ peer'.asLaunched = peer.asLaunched
        BY <1>1 DEF Says, Peer
    <2>2. /\ \E S : peer'.lines \in Seq(S)
          /\ Len(peer'.lines) = Len(peer.lines) + 1 /\ Len(peer.lines) \in Nat
          /\ \A i \in 1 .. Len(peer.lines) : peer'.lines[i] = peer.lines[i]
          /\ peer'.lines[Len(peer.lines) + 1] = line
        <3>1. \E S : peer.lines \in Seq(S)
            BY DEF Peer
        <3>. HIDE DEF Peer
        <3>2. /\ \E S : Append(peer.lines, line) \in Seq(S)
              /\ Len(Append(peer.lines, line)) = Len(peer.lines) + 1 /\ Len(peer.lines) \in Nat
              /\ \A i \in 1 .. Len(peer.lines) : Append(peer.lines, line)[i] = peer.lines[i]
              /\ Append(peer.lines, line)[Len(peer.lines) + 1] = line
            BY ZenonT(40), <3>1, Written
        <3>. QED
            BY <2>1, <3>2
    <2>3. Peer'
        BY <2>1, <2>2, <1>1 DEF Peer, Honest
    <2>. QED
        BY <2>1, <2>3 DEF Heard, Believed
<1>2. ASSUME NEW state, NEW stream, NEW line, Moves(state, stream, line), line.event = "status" => line.stream = stream
      PROVE  Peer' /\ Heard' /\ Believed'
    <2>1. /\ peer'.lines = Append(peer.lines, line)
          /\ DOMAIN peer' = DOMAIN peer
          /\ peer'.facts = peer.facts \cup ({"active"} \cap {stream})
          /\ peer'.stream = stream
          /\ peer'.asLaunched = peer.asLaunched
        BY <1>2 DEF Moves, Peer
    <2>2. /\ \E S : peer'.lines \in Seq(S)
          /\ Len(peer'.lines) = Len(peer.lines) + 1 /\ Len(peer.lines) \in Nat
          /\ \A i \in 1 .. Len(peer.lines) : peer'.lines[i] = peer.lines[i]
          /\ peer'.lines[Len(peer.lines) + 1] = line
        <3>1. \E S : peer.lines \in Seq(S)
            BY DEF Peer
        <3>. HIDE DEF Peer
        <3>2. /\ \E S : Append(peer.lines, line) \in Seq(S)
              /\ Len(Append(peer.lines, line)) = Len(peer.lines) + 1 /\ Len(peer.lines) \in Nat
              /\ \A i \in 1 .. Len(peer.lines) : Append(peer.lines, line)[i] = peer.lines[i]
              /\ Append(peer.lines, line)[Len(peer.lines) + 1] = line
            BY ZenonT(40), <3>1, Written
        <3>. QED
            BY <2>1, <3>2
    <2>3. Peer'
        <3>1. line.event = "status" /\ line.stream = "active" => "active" \in peer'.facts
            BY <1>2, <2>1
        <3>2. ASSUME NEW i \in 1 .. Len(peer'.lines) PROVE Honest(peer.lines[i])'
            <4>1. CASE i \in 1 .. Len(peer.lines)
                <5>1. Honest(peer.lines[i]) /\ peer'.lines[i] = peer.lines[i]
                    BY <2>2, <4>1 DEF Peer
                <5>. QED
                    BY <2>1, <5>1 DEF Honest
            <4>2. CASE i = Len(peer.lines) + 1
                BY <2>2, <3>1, <4>2 DEF Honest
            <4>. QED
                BY <2>2, <4>1, <4>2
        <3>3. peer'.stream = "active" => "active" \in peer'.facts
            BY <2>1
        <3>4. DOMAIN peer' = {"alive", "state", "asLaunched", "lines", "facts", "stream"}
            BY <2>1 DEF Peer
        <3>. QED
            BY <2>2, <3>2, <3>3, <3>4 DEF Peer
    <2>. QED
        BY <2>1, <2>3 DEF Heard, Believed
<1>3. ASSUME NEW stream \in StreamStates, Moves(peer.state, stream, [Status(Own) EXCEPT !.stream = stream])
      PROVE  Peer' /\ Heard' /\ Believed'
    BY <1>2, <1>3 DEF Status
<1>4. CASE Moves("failed", peer.stream, ErrorLine("worker"))
    BY <1>2, <1>4 DEF ErrorLine, Line
<1>5. CASE Moves("stopping", peer.stream, [Status(Own) EXCEPT !.worker_state = "stopping"])
    BY <1>2, <1>5 DEF Status
<1>6. CASE Says(Line("sample")) \/ Says(Line("summary")) \/ Says(ErrorLine("job"))
    BY <1>1, <1>6 DEF Honest, ErrorLine, Line
<1>7. ASSUME NEW line \in FlawedStatus(Status(Own)) PROVE Honest(line)
    <2>1. line.stream = "active" => peer.stream = "active"
        BY <1>7, FlawedTells DEF Status, Stateless
    <2>. QED
        BY <2>1 DEF Honest, Peer
<1>8. ASSUME NEW line \in Malformed(Line("sample"))
             \cup {[Line("summary") EXCEPT !.whole = FALSE], [ErrorLine("job") EXCEPT !.fatal = TRUE],
                   [Status(Own) EXCEPT !.stream = "waiting"]}
      PROVE  Honest(line)
    BY <1>8 DEF Malformed, Line, ErrorLine, Status, Honest
<1>. QED
    BY <1>1, <1>3, <1>4, <1>5, <1>6, <1>7, <1>8 DEF Speak

(* What is answered is true of whoever answers.                            *)
LEMMA ReplyKeeps ==
    ASSUME Peer, Heard, Believed, Reply
    PROVE  Peer' /\ Heard' /\ Believed'
<1>1. PICK answer \in {[code |-> 503, value |-> Status(Who)]}
             \cup {[code |-> 200, value |-> v] : v \in {Status(Who)} \cup FlawedStatus(Status(Who))} :
          caller' = [caller EXCEPT !.answer = answer]
    BY DEF Reply
<1>2. ASSUME NEW v \in {Status(Who)} \cup FlawedStatus(Status(Who)), v.run_id = Own
      PROVE  /\ v.stream = "active" => "active" \in peer.facts
             /\ v.asLaunched => peer.asLaunched
    <2>1. /\ Who = Own
          /\ v.stream \in {Status(Who).stream, "unknown", Stateless} /\ v.asLaunched = Status(Who).asLaunched
        <3>1. /\ v.run_id \in {Who, Other} /\ v.asLaunched = Status(Who).asLaunched
              /\ v.stream \in {Status(Who).stream, "unknown", Stateless}
            <4>. HIDE DEF Who
            <4>. QED
                BY ONLY FlawedTells, v \in {Status(Who)} \cup FlawedStatus(Status(Who))
        <3>2. Who = Own
            BY ONLY <1>2, <3>1 DEF Own, Other
        <3>. QED
            BY <3>1, <3>2
    <2>2. Status(Who).stream = peer.stream
        BY ONLY <2>1 DEF Status
    <2>4. Status(Who).asLaunched => peer.asLaunched
        BY ONLY <2>1 DEF Status
    <2>3. peer.stream = "active" => "active" \in peer.facts
        BY DEF Peer
    <2>. QED
        BY ONLY <2>1, <2>2, <2>3, <2>4 DEF Stateless
<1>3. answer # NoAnswer
    BY <1>1 DEF NoAnswer
<1>4. answer.value \in {Status(Who)} \cup FlawedStatus(Status(Who))
    BY <1>1
<1>5. UNCHANGED peer
    BY DEF Reply
<1>6. /\ caller'.answer = answer /\ caller'.at = caller.at /\ caller'.seen = caller.seen
      /\ caller'.believes = caller.believes /\ DOMAIN caller' = DOMAIN caller /\ caller'.read = caller.read
    BY <1>1 DEF Heard
<1>. QED
    BY <1>2, <1>4, <1>5, <1>6 DEF Reply, Peer, Heard, Believed, Honest

(* The actions that take up nothing.                                       *)
LEMMA WaitsKeep ==
    ASSUME Peer, Heard, Believed, Leaves \/ Ask \/ Fails
    PROVE  Peer' /\ Heard' /\ Believed'
<1>1. CASE Leaves
    <2>1. /\ caller' = caller /\ peer'.lines = peer.lines /\ peer'.facts = peer.facts
          /\ peer'.stream = peer.stream /\ peer'.asLaunched = peer.asLaunched /\ DOMAIN peer' = DOMAIN peer
        BY <1>1 DEF Leaves, Peer
    <2>. QED
        BY <2>1 DEF Peer, Heard, Believed, Honest
<1>2. CASE Ask \/ Fails
    <2>1. /\ peer' = peer /\ caller'.answer = NoAnswer /\ caller'.seen = caller.seen /\ caller'.read = caller.read
          /\ caller'.believes = caller.believes /\ DOMAIN caller' = DOMAIN caller
          /\ caller'.at \in {"identifying", "asking", "stop"}
          /\ caller.at \in Commanded => caller'.at \in Commanded
        BY <1>2 DEF Ask, Fails, Goes, Heard, Commanded
    <2>. QED
        BY <2>1 DEF Peer, Heard, Believed, Honest
<1>. QED
    BY <1>1, <1>2

(* A line that is believed is of the Worker's own run.                     *)
LEMMA TakeLineKeeps ==
    ASSUME Peer, Heard, Believed, TakeLine
    PROVE  Peer' /\ Heard' /\ Believed'
<1>. DEFINE line == peer.lines[caller.read + 1]
<1>1. peer' = peer /\ caller.at \in {"observe", "look", "deferred"} /\ Honest(line)
    <2>1. Len(peer.lines) \in Nat /\ caller.read + 1 \in 1 .. Len(peer.lines)
        BY Written DEF TakeLine, Peer, Heard
    <2>. QED
        BY <2>1 DEF TakeLine, Peer
<1>2. record_event(line) => line.run_id = Own
    BY OwnOnly
<1>3. /\ DOMAIN caller' = DOMAIN caller
      /\ caller'.read = caller.read + 1
      /\ (caller'.at = caller.at /\ caller'.answer = caller.answer) \/ caller'.at = "stop"
      /\ caller'.answer \in {caller.answer, NoAnswer}
      /\ caller'.seen = caller.seen
            \/ (line.run_id = Own /\ line.event = "status" /\ caller'.seen = line.stream)
      /\ \/ caller'.believes = caller.believes
         \/ /\ caller'.believes = caller.believes \cup {"active"}
            /\ line.run_id = Own /\ IsActive(line)
    <2>. DEFINE taken == [caller EXCEPT !.read = @ + 1]
                noted == IF line.event = "status" THEN [taken EXCEPT !.seen = line.stream] ELSE taken
                kept == [noted EXCEPT !.pending = Append(@, line.event)]
    <2>1. /\ DOMAIN taken = DOMAIN caller /\ taken.read = caller.read + 1 /\ taken.at = caller.at
          /\ taken.answer = caller.answer /\ taken.seen = caller.seen /\ taken.believes = caller.believes
        BY DEF Heard
    <2>2. /\ DOMAIN noted = DOMAIN caller /\ noted.read = caller.read + 1 /\ noted.at = caller.at
          /\ noted.answer = caller.answer /\ noted.believes = caller.believes
          /\ noted.seen = IF line.event = "status" THEN line.stream ELSE caller.seen
        BY <2>1 DEF Heard
    <2>3. /\ DOMAIN kept = DOMAIN caller /\ kept.read = caller.read + 1 /\ kept.at = caller.at
          /\ kept.answer = caller.answer /\ kept.believes = caller.believes /\ kept.seen = noted.seen
        BY <2>2 DEF Heard
    <2>4. caller' =
            IF ~record_event(line) THEN [taken EXCEPT !.at = "stop", !.answer = NoAnswer]
            ELSE IF caller.at = "deferred"
            THEN IF IsActive(line) THEN [kept EXCEPT !.at = "stop", !.believes = @ \cup {"active"}]
                 ELSE IF EndsStart(line) THEN [kept EXCEPT !.at = "stop"] ELSE kept
            ELSE IF EndsWait(line) THEN [noted EXCEPT !.at = "stop", !.answer = NoAnswer] ELSE kept
        BY DEF TakeLine
    <2>. HIDE DEF taken, noted, kept
    <2>. QED
        <3>1. CASE ~record_event(line)
            <4>1. caller' = [taken EXCEPT !.at = "stop", !.answer = NoAnswer]
                BY <2>4, <3>1
            <4>. QED
                BY <2>1, <4>1 DEF Heard
        <3>2. CASE record_event(line) /\ caller.at = "deferred"
            <4>1. \/ IsActive(line) /\ caller' = [kept EXCEPT !.at = "stop", !.believes = @ \cup {"active"}]
                  \/ caller' = [kept EXCEPT !.at = "stop"]
                  \/ caller' = kept
                BY <2>4, <3>2
            <4>. QED
                BY <1>2, <2>2, <2>3, <3>2, <4>1 DEF Heard
        <3>3. CASE record_event(line) /\ caller.at # "deferred"
            <4>1. caller' = [noted EXCEPT !.at = "stop", !.answer = NoAnswer] \/ caller' = kept
                BY <2>4, <3>3
            <4>. QED
                BY <1>2, <2>2, <2>3, <3>3, <4>1 DEF Heard
        <3>. QED
            BY <3>1, <3>2, <3>3
<1>4. IsActive(line) /\ line.run_id = Own => "active" \in peer.facts
    BY <1>1 DEF IsActive, Honest
<1>. QED
    BY <1>1, <1>3, <1>4 DEF Peer, Heard, Believed, Honest, Commanded

(* A status counts only if it is of the Worker's own run.                  *)
LEMMA JudgeKeeps ==
    ASSUME Peer, Heard, Believed, Identify \/ Judge \/ Decide
    PROVE  Peer' /\ Heard' /\ Believed'
<1>1. CASE Identify
    <2>1. /\ peer' = peer /\ caller'.answer = NoAnswer /\ caller'.seen = caller.seen /\ caller'.read = caller.read
          /\ DOMAIN caller' = DOMAIN caller /\ caller.at \notin Commanded /\ caller'.at \in {"command", "stop"}
          /\ \/ caller'.believes = caller.believes
             \/ /\ caller'.believes = caller.believes \cup {"identified"}
                /\ caller.answer # NoAnswer
                /\ caller.answer.value.asLaunched
                /\ status_is_valid(caller.answer.value, caller.session)
        BY <1>1 DEF Identify, Believes, Goes, Heard, Commanded
    <2>2. caller'.believes = caller.believes
             \/ (caller'.believes = caller.believes \cup {"identified"} /\ peer.asLaunched)
        <3>1. status_is_valid(caller.answer.value, caller.session) => caller.answer.value.run_id = Own
            BY OwnOnly
        <3>2. caller.answer # NoAnswer /\ caller.answer.value.run_id = Own /\ caller.answer.value.asLaunched
                  => peer.asLaunched
            BY DEF Heard
        <3>. QED
            BY <2>1, <3>1, <3>2
    <2>. QED
        BY <2>1, <2>2 DEF Peer, Heard, Believed, Honest
<1>2. CASE Judge
    <2>1. /\ peer' = peer /\ caller'.seen = caller.seen /\ caller'.read = caller.read
          /\ DOMAIN caller' = DOMAIN caller /\ caller'.believes = caller.believes /\ caller.at \notin Commanded
          /\ \/ caller'.answer = NoAnswer /\ caller'.at = "stop"
             \/ /\ caller'.answer = caller.answer /\ caller.answer # NoAnswer /\ caller'.at = "look"
                /\ status_is_valid(caller.answer.value, caller.session)
        BY <1>2 DEF Judge, Goes, Heard, Commanded
    <2>. QED
        BY <2>1, OwnOnly DEF Peer, Heard, Believed, Honest
<1>3. CASE Decide
    <2>1. /\ peer' = peer /\ caller'.seen = caller.seen /\ caller'.answer = NoAnswer /\ caller'.read = caller.read
          /\ DOMAIN caller' = DOMAIN caller /\ caller.at = "look" /\ caller'.at \in {"command", "stop", "observe"}
          /\ \/ caller'.believes = caller.believes
             \/ /\ caller'.believes = caller.believes \cup {"active"}
                /\ stream_source_ready(caller.answer.value) = "now" \/ caller.seen = "active"
        BY <1>3 DEF Decide, Goes, Believes, Heard
    <2>2. stream_source_ready(caller.answer.value) = "now" => caller.answer.value.stream = "active"
        BY DEF stream_source_ready
    <2>. QED
        BY <2>1, <2>2 DEF Peer, Heard, Believed, Honest, Commanded
<1>. QED
    BY <1>1, <1>2, <1>3

(* What is answered to the command.                                        *)
LEMMA GiveKeeps ==
    ASSUME Peer, Heard, Believed, Give
    PROVE  Peer' /\ Heard' /\ Believed'
<1>1. /\ caller.at = "command" /\ "taken" \notin peer.facts /\ "refused" \notin caller.believes
    BY DEF Give, Believed, Commanded
<1>2. ASSUME NEW answer, Answered(answer)
      PROVE  /\ DOMAIN caller' = DOMAIN caller /\ caller'.answer = NoAnswer
             /\ caller'.seen = caller.seen /\ caller'.read = caller.read
             /\ caller'.at \in Commanded /\ caller'.at # "look"
             /\ \/ caller'.believes = caller.believes
                \/ /\ caller'.believes = caller.believes \cup {"taken"}
                   /\ answer.code = 202 /\ answer.run_id = Own
                \/ /\ caller'.believes = caller.believes \cup {"refused"}
                   /\ command_rejected(answer)
    <2>1. CASE caller' = Goes("stop")
        BY <2>1 DEF Goes, Heard, Commanded
    <2>2. CASE start_accepted(answer) /\ caller' = Believes("taken", "deferred")
        BY <2>2, OwnOnly DEF Believes, Goes, Heard, Commanded
    <2>3. CASE (\E kind : command_accepted(answer, kind)) /\ caller' = Believes("taken", "stop")
        BY <2>3, OwnOnly DEF Believes, Goes, Heard, Commanded
    <2>4. CASE command_rejected(answer) /\ caller' = Believes("refused", "stop")
        BY <2>4 DEF Believes, Goes, Heard, Commanded
    <2>. QED
        BY <1>2, <2>1, <2>2, <2>3, <2>4 DEF Answered
<1>3. CASE /\ TakesNote("taken")
           /\ \/ \E answer \in {Accepted(Who), Broken} \cup FlawedAnswer(Accepted(Who)) : Answered(answer)
              \/ caller' = Goes("stop")
    <2>1. ASSUME NEW answer \in {Accepted(Who), Broken} \cup FlawedAnswer(Accepted(Who))
          PROVE  /\ answer.code = 202 /\ answer.run_id = Own => Who = Own
                 /\ ~command_rejected(answer)
        <3>1. CASE answer = Broken
            BY <3>1, BrokenAnswer
        <3>2. CASE answer \in {Accepted(Who)} \cup FlawedAnswer(Accepted(Who))
            <4>1. answer.run_id \in {Who, Other} /\ ~command_rejected(answer)
                BY <3>2, AcceptedAnswers
            <4>. QED
                BY <4>1 DEF Own, Other, Who
        <3>. QED
            BY <2>1, <3>1, <3>2
    <2>2. /\ DOMAIN peer' = DOMAIN peer /\ peer'.lines = peer.lines /\ peer'.stream = peer.stream
          /\ peer'.asLaunched = peer.asLaunched
          /\ peer.facts \subseteq peer'.facts /\ (Who = Own => "taken" \in peer'.facts)
        BY <1>3 DEF TakesNote, Peer
    <2>3. /\ DOMAIN caller' = DOMAIN caller /\ caller'.answer = NoAnswer
          /\ caller'.seen = caller.seen /\ caller'.read = caller.read
          /\ caller'.at \in Commanded /\ caller'.at # "look"
          /\ \/ caller'.believes = caller.believes
             \/ caller'.believes = caller.believes \cup {"taken"} /\ Who = Own
        <3>1. CASE caller' = Goes("stop")
            BY <3>1 DEF Goes, Heard, Commanded
        <3>2. CASE \E answer \in {Accepted(Who), Broken} \cup FlawedAnswer(Accepted(Who)) : Answered(answer)
            BY <3>2, <1>2, <2>1
        <3>. QED
            BY <1>3, <3>1, <3>2
    <2>4. Peer'
        BY <2>2 DEF Peer, Honest
    <2>5. Heard'
        BY <2>2, <2>3 DEF Heard
    <2>6. Believed'
        BY <1>1, <2>2, <2>3 DEF Believed
    <2>. QED
        BY <2>4, <2>5, <2>6
<1>4. CASE /\ UNCHANGED peer
           /\ \/ \E code \in {400, 409} :
                    \E answer \in {Refusal(Who, code)} \cup FlawedAnswer(Refusal(Who, code)) : Answered(answer)
              \/ caller' = Goes("stop")
    <2>1. ASSUME NEW code \in {400, 409}, NEW answer \in {Refusal(Who, code)} \cup FlawedAnswer(Refusal(Who, code))
          PROVE  answer.code # 202
        BY <2>1, RefusedAnswers
    <2>2. /\ DOMAIN caller' = DOMAIN caller /\ caller'.answer = NoAnswer
          /\ caller'.seen = caller.seen /\ caller'.read = caller.read
          /\ caller'.at \in Commanded /\ caller'.at # "look"
          /\ \/ caller'.believes = caller.believes
             \/ caller'.believes = caller.believes \cup {"refused"}
        <3>1. CASE caller' = Goes("stop")
            BY <3>1 DEF Goes, Heard, Commanded
        <3>2. CASE \E code \in {400, 409} :
                    \E answer \in {Refusal(Who, code)} \cup FlawedAnswer(Refusal(Who, code)) : Answered(answer)
            BY <3>2, <1>2, <2>1
        <3>. QED
            BY <1>4, <3>1, <3>2
    <2>3. Peer'
        BY <1>4 DEF Peer, Honest
    <2>. QED
        BY <1>1, <1>4, <2>2, <2>3 DEF Heard, Believed
<1>. QED
    BY <1>3, <1>4 DEF Give

(* What is answered to the request to stop.                                *)
LEMMA StopKeeps ==
    ASSUME Peer, Heard, Believed, Stop
    PROVE  Peer' /\ Heard' /\ Believed'
<1>1. ASSUME NEW answer, Stopped(answer)
      PROVE  /\ DOMAIN caller' = DOMAIN caller /\ caller'.answer = NoAnswer
             /\ caller'.seen = caller.seen /\ caller'.read = caller.read /\ caller'.at = "done"
             /\ \/ caller'.believes = caller.believes
                \/ /\ caller'.believes = caller.believes \cup {"stopped"}
                   /\ answer.code \in {200, 202} /\ answer.run_id = Own
    BY <1>1, OwnOnly DEF Stopped, Believes, Goes, Heard
<1>2. CASE /\ TakesNote("stopped")
           /\ \E answer \in {Accepted(Who)} \cup FlawedAnswer(Accepted(Who)) : Stopped(answer)
    <2>1. PICK answer \in {Accepted(Who)} \cup FlawedAnswer(Accepted(Who)) : Stopped(answer)
        BY <1>2
    <2>2. answer.run_id = Own => Who = Own
        BY <2>1, AcceptedAnswers DEF Own, Other, Who
    <2>3. /\ DOMAIN peer' = DOMAIN peer /\ peer'.lines = peer.lines /\ peer'.stream = peer.stream
          /\ peer'.asLaunched = peer.asLaunched
          /\ peer'.facts \in {peer.facts, peer.facts \cup {"stopped"}}
          /\ Who = Own => "stopped" \in peer'.facts
        BY <1>2 DEF TakesNote, Peer
    <2>4. Peer' /\ Heard'
        BY <1>1, <2>1, <2>3 DEF Peer, Heard, Honest
    <2>5. Believed'
        BY <1>1, <2>1, <2>2, <2>3 DEF Believed, Commanded
    <2>. QED
        BY <2>4, <2>5
<1>3. CASE UNCHANGED peer /\ (Stopped(Refusal(Who, 409)) \/ caller' = Goes("done"))
    <2>1. Refusal(Who, 409).code = 409
        BY DEF Refusal, Accepted
    <2>2. /\ DOMAIN caller' = DOMAIN caller /\ caller'.answer = NoAnswer /\ caller'.read = caller.read
          /\ caller'.seen = caller.seen /\ caller'.at = "done" /\ caller'.believes = caller.believes
        <3>1. CASE Stopped(Refusal(Who, 409))
            BY <1>1, <2>1, <3>1
        <3>2. CASE caller' = Goes("done")
            BY <3>2 DEF Goes, Heard
        <3>. QED
            BY <1>3, <3>1, <3>2
    <2>. QED
        BY <1>3, <2>2 DEF Peer, Heard, Believed, Honest, Commanded
<1>. QED
    BY <1>2, <1>3 DEF Stop

(* Whatever a caller believes of its Worker is true of that Worker, for    *)
(* any Ready it adopted, any number of lines and of requests.              *)
THEOREM OwnIsBelieved == Spec => []OnlyOwnIsBelieved
<1>1. Init => TalkInv
    <2>. SUFFICES ASSUME Init, Scenes[scene].sessions # {} PROVE Peer /\ Heard /\ Believed
        BY DEF TalkInv
    <2>1. PICK session \in Scenes[scene].sessions, asLaunched \in BOOLEAN :
              /\ peer = [alive |-> TRUE, state |-> "running", asLaunched |-> asLaunched, lines |-> <<>>, facts |-> {},
                     stream |-> IF Adopts(session, Streaming) THEN "waiting" ELSE "none"]
              /\ caller = [session |-> session, seen |-> "none", read |-> 0, pending |-> <<>>,
                       answer |-> NoAnswer, asked |-> 0, believes |-> {},
                       at |-> IF session.scopes THEN "identify"
                              ELSE IF session.lifecycle = "run_bound" THEN "observe" ELSE "command"]
        BY DEF Init, RepliesInit
    <2>2. peer.lines \in Seq({}) /\ Len(peer.lines) = 0
        BY <2>1
    <2>. QED
        BY <2>1, <2>2 DEF Peer, Heard, Believed
<1>2. TalkInv /\ [Next]_vars => TalkInv'
    <2>. SUFFICES ASSUME TalkInv, [Next]_vars, Scenes[scene]'.sessions # {} PROVE Peer' /\ Heard' /\ Believed'
        BY DEF TalkInv
    <2>1. UNCHANGED scene
        BY DEF Next, Writing, Open, Preparing, Working, Talking, Looking, Feeding, Used, vars
    <2>2. Peer /\ Heard /\ Believed
        BY <2>1 DEF TalkInv
    <2>3. CASE Talking
        BY <2>2, <2>3, SpeakKeeps, ReplyKeeps, WaitsKeep, TakeLineKeeps, JudgeKeeps, GiveKeeps, StopKeeps
           DEF Talking, ReplyStep
    <2>4. CASE UNCHANGED talk
        BY <2>2, <2>4 DEF talk, Peer, Heard, Believed, Honest
    <2>. QED
        BY <2>3, <2>4 DEF Next, Writing, Open, Preparing, Working, Looking, Feeding, vars
<1>3. TalkInv => OnlyOwnIsBelieved
    BY DEF TalkInv, Believed, OnlyOwnIsBelieved
<1>. QED
    BY <1>1, <1>2, <1>3, PTL DEF Spec


-----------------------------------------------------------------------------
(* The bench.  The records keep their fields.                              *)
Fields ==
    /\ DOMAIN supply = Channels
    /\ \A c \in Channels : DOMAIN supply[c] = {"on", "ov", "oc"}
    /\ DOMAIN job = Operations
    /\ \A o \in Operations :
          DOMAIN job[o] = {"tool", "command", "channels", "todo", "report", "state"}
    /\ DOMAIN manual = {"at", "clear", "live"}
    /\ DOMAIN actions = {"at", "next", "results", "name"}

(* One operation at a time has a Worker that may be at work.               *)
Exclusive ==
    /\ active = "manual" <=> manual.at # "idle"
    /\ active = "run" <=> actions.at \in {"step", "job", "sample", "ending"}
    /\ \A o \in Operations : active # o => job[o] = NoJob
    /\ manual.at = "start" => job["manual"] = NoJob

(* How far the outputs are off, by the manual operation's last command.    *)
OffByHand ==
    LET now == job["manual"]
    IN /\ manual.at = "safe-off" => now.command = "safe-off"
       /\ now.state = "succeeded" /\ now.command = "safe-off" => now.todo = {}
       /\ manual.live /\ now.command = "safe-off" =>
             \A d \in Channels \ now.todo : ~supply[d].on
       /\ manual.live /\ now.command = "clear-protection" => \A d \in Channels : ~supply[d].on
       /\ job["run"].tool = "powers" => job["run"].command # "clear-protection"

SupplyInv == Fields /\ Exclusive /\ OffByHand

(* The manual operation clears a channel.                                  *)
Clearing == active = "manual" /\ job["manual"].command = "clear-protection"


(* The supply is not driven and no operation begins or ends: what is left  *)
(* is the run, whose Worker may be given a command that clears nothing.    *)
LEMMA ActKeepsSupply ==
    ASSUME SupplyInv, Act
    PROVE  SupplyInv'
<1>1. /\ UNCHANGED <<supply, active, manual>>
      /\ active = "run"
      /\ DOMAIN actions' = DOMAIN actions
      /\ actions'.at \in {"step", "job", "sample", "ending"}
      /\ \/ job' = job
         \/ \E new : /\ job' = [job EXCEPT !["run"] = new]
                     /\ DOMAIN new = {"tool", "command", "channels", "todo", "report", "state"}
                     /\ new.tool = "powers" => new.command # "clear-protection"
    <2>1. UNCHANGED <<supply, active, manual>> /\ actions.at \in {"step", "job", "sample"}
        BY DEF Act, Sample
    <2>2. active = "run"
        BY <2>1 DEF SupplyInv, Exclusive
    <2>3. DOMAIN actions = {"at", "next", "results", "name"}
        BY DEF SupplyInv, Fields
    <2>4. ASSUME NEW r, Keep(r)
          PROVE  DOMAIN actions' = DOMAIN actions /\ actions'.at = "step"
        BY <2>3, <2>4 DEF Keep
    <2>5. ASSUME Fail
          PROVE  DOMAIN actions' = DOMAIN actions /\ actions'.at = "ending"
        BY <2>3, <2>5 DEF Fail
    <2>6. CASE Wait
        BY <2>1, <2>2, <2>4, <2>6 DEF Wait
    <2>7. CASE Refuse
        BY <2>1, <2>2, <2>5, <2>7 DEF Refuse
    <2>8. CASE Drive
        <3>1. DOMAIN actions' = DOMAIN actions /\ actions'.at = "job"
            BY <2>3, <2>8 DEF Drive
        <3>2. validate_powers(Current.action, Arguments)
            BY <2>8 DEF Drive, Dispatches, AdapterAccepts
        <3>3. worker_command(Current.action) # "clear-protection"
            BY <3>2 DEF validate_powers, PowersActions, worker_command
        <3>. DEFINE command == worker_command(Current.action)
                    channels == Asked(Arguments)
                    new == [tool |-> "powers", command |-> command, channels |-> channels, state |-> "working",
                            todo |-> IF command = "protection-status" THEN Registers(channels) ELSE channels,
                            report |-> [seen |-> Tripped, ov |-> FALSE, oc |-> FALSE,
                                        protection |-> <<>>, outputs |-> <<>>]]
        <3>4. /\ job' = [job EXCEPT !["run"] = new]
              /\ DOMAIN new = {"tool", "command", "channels", "todo", "report", "state"}
              /\ new.command # "clear-protection"
            BY <2>8, <3>3 DEF Drive, Command
        <3>. HIDE DEF new
        <3>. QED
            BY <2>1, <2>2, <3>1, <3>4
    <2>9. CASE Trigger
        BY <2>1, <2>2, <2>3, <2>5, <2>9 DEF Trigger
    <2>10. CASE Aim
        <3>1. DOMAIN actions' = DOMAIN actions /\ actions'.at = "job"
            BY <2>3, <2>10 DEF Aim
        <3>. DEFINE new == [NoJob EXCEPT !.tool = "scopes", !.command = Current.action,
                                         !.todo = FileKinds(Current.action), !.state = "working"]
        <3>2. job' = [job EXCEPT !["run"] = new]
            BY <2>10 DEF Aim
        <3>3. DOMAIN new = {"tool", "command", "channels", "todo", "report", "state"} /\ new.tool = "scopes"
            BY DEF NoJob
        <3>. HIDE DEF new
        <3>. QED
            BY <2>1, <2>2, <3>1, <3>2, <3>3
    <2>11. CASE Talk
        <3>1. DOMAIN actions' = DOMAIN actions /\ actions'.at = "job"
            BY <2>3, <2>11 DEF Talk
        <3>. DEFINE new == [NoJob EXCEPT !.tool = "serial", !.state = "working",
                                         !.command = serial_command(Current.action, Arguments).command]
        <3>2. job' = [job EXCEPT !["run"] = new]
            BY <2>11 DEF Talk
        <3>3. DOMAIN new = {"tool", "command", "channels", "todo", "report", "state"} /\ new.tool = "serial"
            BY DEF NoJob
        <3>. HIDE DEF new
        <3>. QED
            BY <2>1, <2>2, <3>1, <3>2, <3>3
    <2>12. CASE Driven
        BY <2>1, <2>2, <2>4, <2>5, <2>12 DEF Driven
    <2>13. CASE Aimed
        BY <2>1, <2>2, <2>4, <2>5, <2>13 DEF Aimed
    <2>14. CASE Talked
        BY <2>1, <2>2, <2>4, <2>5, <2>14 DEF Talked
    <2>15. CASE Sample
        BY <2>1, <2>2, <2>4, <2>5, <2>15 DEF Sample
    <2>. QED
        BY <2>6, <2>7, <2>8, <2>9, <2>10, <2>11, <2>12, <2>13, <2>14, <2>15 DEF Act
<1>. QED
    BY <1>1 DEF SupplyInv, Fields, Exclusive, OffByHand, Operations

(* A trip switches outputs off and latches; it clears nothing.             *)
LEMMA TripKeepsSupply ==
    ASSUME SupplyInv, Trip
    PROVE  /\ SupplyInv'
           /\ \A c \in Channels, flag \in {"ov", "oc"} : supply[c][flag] => supply'[c][flag]
<1>1. PICK protection \in Channels \X {"ov", "oc"} :
          supply' = [supply EXCEPT ![protection[1]] = [@ EXCEPT !.on = FALSE, ![protection[2]] = TRUE]]
    BY BenchAssumption DEF Trip
<1>2. PICK c \in Channels, flag \in {"ov", "oc"} : protection = <<c, flag>>
    OBVIOUS
<1>3. supply' = [supply EXCEPT ![c] = [@ EXCEPT !.on = FALSE, ![flag] = TRUE]]
    BY <1>1, <1>2
<1>4. /\ DOMAIN supply' = Channels
      /\ \A d \in Channels :
            /\ DOMAIN supply'[d] = {"on", "ov", "oc"}
            /\ supply'[d].on => supply[d].on
            /\ \A f \in {"ov", "oc"} : supply[d][f] => supply'[d][f]
    BY <1>3 DEF SupplyInv, Fields
<1>5. UNCHANGED <<active, manual, actions, job>>
    BY DEF Trip
<1>. QED
    BY <1>4, <1>5 DEF SupplyInv, Fields, Exclusive, OffByHand

(* The manual operation: the next command is given once the last one has   *)
(* succeeded, and clearing is the one after Safe-Off.                      *)
LEMMA ManualKeepsSupply ==
    ASSUME SupplyInv, Manual
    PROVE  SupplyInv' /\ UNCHANGED supply
<1>. UNCHANGED supply
    BY DEF Manual, BeginManual
<1>1. CASE BeginManual
    <2>1. /\ DOMAIN manual' = {"at", "clear", "live"} /\ manual'.at = "start" /\ active' = "manual"
          /\ active = "none"
        BY <1>1 DEF BeginManual, register
    <2>2. UNCHANGED <<actions, job>>
        BY <1>1 DEF BeginManual
    <2>. QED
        BY <2>1, <2>2 DEF SupplyInv, Fields, Exclusive, OffByHand, NoJob, Operations
<1>2. ASSUME NEW at, NEW command, NEW channels, Issue(at, command, channels), manual.at # "idle",
             at \notin {"idle", "start"}, at = "safe-off" => command = "safe-off",
             command = "safe-off" => channels = Channels,
             command = "clear-protection" /\ manual.live => \A d \in Channels : ~supply[d].on,
             UNCHANGED actions
      PROVE  SupplyInv'
    <2>1. /\ DOMAIN manual' = {"at", "clear", "live"} /\ manual'.at = at /\ manual'.live = manual.live
          /\ active = "manual" /\ active' = active
        BY <1>2 DEF Issue, SupplyInv, Fields, Exclusive
    <2>2. /\ DOMAIN job' = Operations /\ job'["run"] = job["run"]
          /\ DOMAIN job'["manual"] = {"tool", "command", "channels", "todo", "report", "state"}
          /\ job'["manual"].command = command /\ job'["manual"].state = "working"
          /\ command = "safe-off" => job'["manual"].todo = Channels
        BY <1>2 DEF Issue, Command, SupplyInv, Fields, Operations
    <2>3. Fields'
        BY <1>2, <2>1, <2>2 DEF SupplyInv, Fields, Operations
    <2>4. Exclusive'
        BY <1>2, <2>1, <2>2 DEF SupplyInv, Exclusive, Operations
    <2>5. OffByHand'
        BY <1>2, <2>1, <2>2 DEF SupplyInv, OffByHand
    <2>. QED
        BY <2>3, <2>4, <2>5 DEF SupplyInv
<1>3. ASSUME Leave, manual.at # "idle", UNCHANGED actions
      PROVE  SupplyInv'
    BY <1>3 DEF Leave, SupplyInv, Fields, Exclusive, OffByHand
<1>4. ASSUME NEW answer, Over(answer), manual.at # "idle", UNCHANGED actions
      PROVE  SupplyInv'
    <2>1. /\ manual' = NoSession /\ active' = "none" /\ active = "manual"
          /\ DOMAIN job' = Operations /\ job'["run"] = job["run"] /\ job'["manual"] = NoJob
        BY <1>4 DEF Over, SupplyInv, Fields, Exclusive, Operations
    <2>. QED
        BY <1>4, <2>1 DEF SupplyInv, Fields, Exclusive, OffByHand, Operations, NoSession, NoJob
<1>5. CASE StartManual /\ UNCHANGED actions
    BY <1>2, <1>4, <1>5 DEF StartManual
<1>6. CASE ClearManual /\ UNCHANGED actions
    <2>1. Succeeded("manual") /\ manual.live => \A d \in Channels : ~supply[d].on
        BY <1>6 DEF ClearManual, Succeeded, SupplyInv, OffByHand
    <2>. QED
        BY <1>2, <1>3, <1>6, <2>1 DEF ClearManual
<1>7. CASE Cleared /\ UNCHANGED actions
    BY <1>2, <1>3, <1>7 DEF Cleared
<1>8. CASE Answer /\ UNCHANGED actions
    BY <1>3, <1>4, <1>8 DEF Answer
<1>9. CASE ShutdownManual /\ UNCHANGED actions
    BY <1>4, <1>9 DEF ShutdownManual
<1>. QED
    BY <1>1, <1>5, <1>6, <1>7, <1>8, <1>9 DEF Manual

(* A Worker of the supply at work: what it writes.                         *)
LEMMA PowersKeepsSupply ==
    ASSUME SupplyInv, NEW o \in Operations, PowersWorker(o)
    PROVE  /\ SupplyInv'
           /\ \A c \in Channels, flag \in {"ov", "oc"} :
                 supply[c][flag] /\ ~supply'[c][flag] =>
                     Clearing /\ \A d \in Channels : ~supply'[d].on
<1>. DEFINE now == job[o]
<1>1. /\ now.state = "working" /\ now.tool = "powers" /\ active = o
      /\ UNCHANGED <<active, manual, actions>>
    BY DEF PowersWorker, SupplyInv, Exclusive, NoJob
<1>2. /\ DOMAIN job = Operations /\ DOMAIN now = {"tool", "command", "channels", "todo", "report", "state"}
      /\ DOMAIN supply = Channels
    BY DEF SupplyInv, Fields
<1>3. ASSUME NEW r, NEW report, Advance(o, r, report)
      PROVE  /\ DOMAIN job' = Operations /\ \A p \in Operations : p # o => job'[p] = job[p]
             /\ DOMAIN job'[o] = DOMAIN now /\ job'[o].todo = now.todo \ {r}
             /\ job'[o].command = now.command /\ job'[o].tool = now.tool /\ job'[o].state = now.state
    BY <1>2, <1>3 DEF Advance
<1>4. CASE WriteRegister(o)
    <2>1. PICK c \in now.todo :
            /\ Advance(o, c, now.report)
            /\ supply' = [supply EXCEPT ![c] =
                IF ~Writes(o) THEN @
                ELSE CASE
                     now.command \in {"safe-off", "output-off"} -> [@ EXCEPT !.on = FALSE]
                  [] now.command = "output-on" -> [@ EXCEPT !.on = ~supply[c].ov /\ ~supply[c].oc]
                  [] now.command = "clear-protection" -> [@ EXCEPT !.ov = FALSE, !.oc = FALSE]
                  [] OTHER -> @]
        BY <1>4 DEF WriteRegister
    <2>2. DOMAIN supply' = Channels /\ \A d \in Channels : d # c => supply'[d] = supply[d]
        BY <1>2, <2>1
    <2>3. ASSUME c \in Channels
          PROVE  /\ DOMAIN supply'[c] = {"on", "ov", "oc"}
                 /\ Writes(o) /\ now.command = "safe-off" => ~supply'[c].on
                 /\ ~Writes(o) \/ now.command = "clear-protection" => supply'[c].on = supply[c].on
                 /\ ~Writes(o) \/ now.command # "clear-protection" =>
                       \A f \in {"ov", "oc"} : supply'[c][f] = supply[c][f]
        <3>1. DOMAIN supply[c] = {"on", "ov", "oc"}
            BY <2>3 DEF SupplyInv, Fields
        <3>2. CASE ~Writes(o)
            <4>1. supply'[c] = supply[c]
                BY <1>2, <2>1, <2>3, <3>2
            <4>. QED
                BY <3>1, <3>2, <4>1
        <3>3. CASE Writes(o) /\ now.command \in {"safe-off", "output-off"}
            <4>1. supply'[c] = [supply[c] EXCEPT !.on = FALSE]
                BY <1>2, <2>1, <2>3, <3>3
            <4>. QED
                BY <3>1, <3>3, <4>1
        <3>4. CASE Writes(o) /\ now.command = "output-on"
            <4>1. supply'[c] = [supply[c] EXCEPT !.on = ~supply[c].ov /\ ~supply[c].oc]
                BY <1>2, <2>1, <2>3, <3>4
            <4>. QED
                BY <3>1, <3>4, <4>1
        <3>5. CASE Writes(o) /\ now.command = "clear-protection"
            <4>1. supply'[c] = [supply[c] EXCEPT !.ov = FALSE, !.oc = FALSE]
                BY <1>2, <2>1, <2>3, <3>5
            <4>. QED
                BY <3>1, <3>5, <4>1
        <3>6. CASE Writes(o) /\ now.command \notin {"safe-off", "output-off", "output-on", "clear-protection"}
            <4>1. supply'[c] = supply[c]
                BY <1>2, <2>1, <2>3, <3>6
            <4>. QED
                BY <3>1, <3>6, <4>1
        <3>. QED
            BY <3>2, <3>3, <3>4, <3>5, <3>6
    <2>4. o = "manual" => (Writes(o) <=> manual.live)
        BY DEF Writes
    <2>5. Fields'
        BY <1>1, <1>2, <1>3, <2>1, <2>2, <2>3 DEF SupplyInv, Fields
    <2>6. Exclusive'
        BY <1>1, <1>3, <2>1 DEF SupplyInv, Exclusive, Operations, NoJob
    <2>7. CASE o = "manual"
        <3>1. OffByHand'
            BY <1>1, <1>3, <2>1, <2>2, <2>3, <2>4, <2>7 DEF SupplyInv, OffByHand, Operations
        <3>2. manual.live /\ now.command = "clear-protection" => \A d \in Channels : ~supply'[d].on
            BY <2>2, <2>3, <2>7 DEF SupplyInv, OffByHand
        <3>3. \A d \in Channels, flag \in {"ov", "oc"} :
                 supply[d][flag] /\ ~supply'[d][flag] => Writes(o) /\ now.command = "clear-protection"
            BY <2>2, <2>3
        <3>. QED
            BY <1>1, <2>4, <2>5, <2>6, <2>7, <3>1, <3>2, <3>3 DEF SupplyInv, Clearing
    <2>8. CASE o = "run"
        <3>1. job["manual"] = NoJob /\ now.command # "clear-protection"
            BY <1>1, <2>8 DEF SupplyInv, Exclusive, OffByHand, Operations
        <3>2. OffByHand'
            BY <1>1, <1>3, <2>1, <2>8, <3>1 DEF SupplyInv, Exclusive, OffByHand, Operations, NoJob
        <3>. QED
            BY <2>2, <2>3, <2>5, <2>6, <3>1, <3>2 DEF SupplyInv
    <2>. QED
        BY <2>7, <2>8 DEF Operations
<1>5. CASE ReadRegister(o)
    <2>1. UNCHANGED supply /\ now.command = "protection-status"
        BY <1>5 DEF ReadRegister
    <2>2. PICK r, report : Advance(o, r, report)
        BY <1>5 DEF ReadRegister
    <2>3. /\ DOMAIN job' = Operations /\ \A p \in Operations : p # o => job'[p] = job[p]
          /\ DOMAIN job'[o] = DOMAIN now /\ job'[o].todo = now.todo \ {r}
          /\ job'[o].command = now.command /\ job'[o].tool = now.tool /\ job'[o].state = now.state
        BY <1>3, <2>2
    <2>4. Fields' /\ Exclusive'
        BY <1>1, <1>2, <2>1, <2>3 DEF SupplyInv, Fields, Exclusive, Operations, NoJob
    <2>5. OffByHand'
        BY <1>1, <2>1, <2>3 DEF SupplyInv, Exclusive, OffByHand, Operations
    <2>. QED
        BY <2>1, <2>4, <2>5 DEF SupplyInv
<1>6. CASE WorkerEnds(o) /\ UNCHANGED supply
    <2>1. /\ DOMAIN job' = Operations /\ \A p \in Operations : p # o => job'[p] = job[p]
          /\ DOMAIN job'[o] = DOMAIN now /\ job'[o].todo = now.todo
          /\ job'[o].command = now.command /\ job'[o].tool = now.tool
          /\ job'[o].state = "succeeded" => now.todo = {}
        BY <1>2, <1>6 DEF WorkerEnds
    <2>2. Fields' /\ Exclusive'
        BY <1>1, <1>2, <1>6, <2>1 DEF SupplyInv, Fields, Exclusive, Operations, NoJob
    <2>3. OffByHand'
        BY <1>1, <1>6, <2>1 DEF SupplyInv, Exclusive, OffByHand, Operations
    <2>. QED
        BY <1>6, <2>2, <2>3 DEF SupplyInv
<1>. QED
    BY <1>4, <1>5, <1>6 DEF PowersWorker

(* The beginning and the end of a run.                                     *)
LEMMA RunKeepsSupply ==
    ASSUME SupplyInv, BeginRun \/ EndRun
    PROVE  /\ SupplyInv'
           /\ \A c \in Channels, flag \in {"ov", "oc"} : supply'[c][flag] = supply[c][flag]
<1>1. CASE BeginRun
    <2>1. /\ UNCHANGED <<supply, manual, job>> /\ actions.at = "ready" /\ active = "none"
          /\ DOMAIN actions' = DOMAIN actions
          /\ \/ active' = "run" /\ actions'.at = "step"
             \/ active' = "none" /\ actions'.at = "done"
        BY <1>1 DEF BeginRun, register, SupplyInv, Fields
    <2>. QED
        BY <2>1 DEF SupplyInv, Fields, Exclusive, OffByHand, Operations
<1>2. CASE EndRun
    <2>1. /\ UNCHANGED manual /\ active = "run" /\ active' = "none" /\ actions'.at = "done"
          /\ DOMAIN actions' = DOMAIN actions
          /\ DOMAIN job' = Operations /\ job'["run"] = NoJob /\ job'["manual"] = job["manual"]
        BY <1>2 DEF EndRun, SupplyInv, Fields, Exclusive, Operations
    <2>2. PICK off \in SUBSET SwitchedOn :
            supply' = [c \in Channels |-> IF c \in off THEN [supply[c] EXCEPT !.on = FALSE] ELSE supply[c]]
        BY <1>2 DEF EndRun
    <2>3. /\ DOMAIN supply' = Channels
          /\ \A c \in Channels :
                /\ DOMAIN supply'[c] = {"on", "ov", "oc"}
                /\ \A flag \in {"ov", "oc"} : supply'[c][flag] = supply[c][flag]
        BY <2>2 DEF SupplyInv, Fields
    <2>4. job["manual"] = NoJob
        BY <2>1 DEF SupplyInv, Exclusive, Operations
    <2>. QED
        BY <2>1, <2>3, <2>4 DEF SupplyInv, Fields, Exclusive, OffByHand, Operations, NoJob
<1>. QED
    BY <1>1, <1>2

(* The Workers of the other instruments.                                   *)
LEMMA OthersKeepSupply ==
    ASSUME SupplyInv, MeterWorker \/ ScopesWorker \/ SerialWorker
    PROVE  SupplyInv' /\ UNCHANGED supply
<1>1. UNCHANGED <<supply, active, manual, actions>>
    BY DEF MeterWorker, ScopesWorker, SerialWorker
<1>2. CASE MeterWorker
    BY <1>1, <1>2 DEF MeterWorker, SupplyInv, Fields, Exclusive, OffByHand
<1>3. CASE ScopesWorker \/ SerialWorker
    <2>1. /\ job["run"].state = "working" /\ job["run"].tool \in {"scopes", "serial"}
          /\ DOMAIN job' = Operations /\ job'["manual"] = job["manual"]
          /\ DOMAIN job'["run"] = DOMAIN job["run"] /\ job'["run"].tool = job["run"].tool
        BY <1>3 DEF ScopesWorker, SerialWorker, SupplyInv, Fields, Operations
    <2>2. active = "run"
        BY <2>1 DEF SupplyInv, Exclusive, Operations, NoJob
    <2>. QED
        BY <1>1, <2>1, <2>2 DEF SupplyInv, Fields, Exclusive, OffByHand, Operations
<1>. QED
    BY <1>2, <1>3

(* Every step keeps the invariant, and clears a latch only while every     *)
(* output is off.                                                          *)
LEMMA BenchKeepsSupply ==
    ASSUME SupplyInv, [Next]_vars
    PROVE  /\ SupplyInv'
           /\ \A c \in Channels, flag \in {"ov", "oc"} :
                 supply[c][flag] /\ ~supply'[c][flag] =>
                     Clearing /\ \A d \in Channels : ~supply'[d].on
<1>1. CASE BenchStep
    BY <1>1, ActKeepsSupply, TripKeepsSupply, ManualKeepsSupply, PowersKeepsSupply, RunKeepsSupply,
       OthersKeepSupply DEF BenchStep, Act
<1>2. CASE UNCHANGED bench
    BY <1>2 DEF bench, SupplyInv, Fields, Exclusive, OffByHand
<1>. QED
    BY <1>1, <1>2 DEF Next, Writing, Open, Preparing, Working, Talking, Looking, Feeding, Used, vars

\* Nothing has happened at the bench when a scene begins.
LEMMA SupplyStarts == Init => SupplyInv
<1>. SUFFICES ASSUME Init PROVE SupplyInv
    OBVIOUS
<1>1. /\ supply = [c \in Channels |-> [on |-> FALSE, ov |-> FALSE, oc |-> FALSE]]
      /\ active = "none" /\ manual = NoSession
      /\ \E at \in {"ready", "off"} : actions = [at |-> at, next |-> 1, results |-> <<>>, name |-> None]
      /\ job = [o \in Operations |-> NoJob]
    BY DEF Init, BenchInit
<1>. QED
    BY <1>1 DEF SupplyInv, Fields, Exclusive, OffByHand, NoSession, NoJob, Operations

(* A protection latch is cleared only while every output is off, for any   *)
(* number of channels, whatever trips, fails or times out.                 *)
THEOREM ClearingIsSafe == Spec => ClearIsSafe
<1>1. SupplyInv /\ [Next]_vars => SupplyInv'
    BY BenchKeepsSupply
<1>2. SupplyInv /\ [Next]_vars =>
          [\A c \in Channels, flag \in {"ov", "oc"} :
              supply[c][flag] /\ ~supply'[c][flag] => \A d \in Channels : ~supply'[d].on]_vars
    BY BenchKeepsSupply
<1>. QED
    BY <1>1, <1>2, SupplyStarts, PTL DEF Spec, ClearIsSafe

-----------------------------------------------------------------------------
(* The preparation of a run.  What is used has been accepted and changes   *)
(* no more, and the Workers are started from specifications that were made *)
(* in one step from the configuration that was checked in the same step.   *)

\* What of an accepted document the preparation relies on.
Sound ==
    /\ DraftReadable
    /\ \A i \in ToolActions : Known(steps[i].target)
    /\ \A k \in DOMAIN template.backgrounds : Known(template.backgrounds[k].owner)
    /\ \A i \in ToolActions :
          Instance(steps[i].target).tool = "serial" => steps[i].action \in SerialCommands
    /\ \A i \in ToolActions :
          Instance(steps[i].target).tool = "powers" /\ steps[i].action = "measure" =>
              steps[i].bindings = NoBindings /\ Has(steps[i].arguments, "channel")

Settled == scene \in DOMAIN Scenes /\ (opened => Len(steps) = Scenes[scene].length /\ Sound)

Prepared ==
    /\ DOMAIN run = {"at", "live", "confirmed", "samples", "config", "specs", "started"}
    /\ run.live \in BOOLEAN
    /\ ~opened \/ run.at \in {"none", "confirmed", "loaded"} =>
          run.specs = NoBindings /\ run.started = NoBindings
    /\ DOMAIN run.started \subseteq DOMAIN run.specs
    /\ \A id \in DOMAIN run.started :
          DOMAIN run.started[id] \subseteq DOMAIN run.specs[id].manifest.features
    /\ \A id \in DOMAIN run.specs : run.specs[id].tool = "serial" =>
          /\ run.specs[id].manifest.binding = "startup"
          /\ \A i \in ToolActions : steps[i].target = id =>
                KindOf(run.specs[id].manifest, steps[i].action) = "async_job"

DeskInv == Settled /\ Prepared /\ LiveIsConfirmed

\* With ids that are unique, an id names its instance.
LEMMA IdNames ==
    ASSUME \A i, j \in Indices : template.instances[i].id = template.instances[j].id => i = j,
           NEW k \in Indices
    PROVE  Instance(template.instances[k].id) = template.instances[k]
<1>1. Named(template.instances[k].id) = {k}
    BY DEF Named
<1>2. (CHOOSE i \in {k} : \A j \in {k} : i <= j) = k
    OBVIOUS
<1>. QED
    BY ZenonT(40), <1>1, <1>2 DEF Instance

\* An id that is known names an instance that has it.
LEMMA KnownIsThere ==
    ASSUME \A i, j \in Indices : template.instances[i].id = template.instances[j].id => i = j,
           NEW id, Known(id)
    PROVE  /\ Instance(id).id = id
           /\ \E k \in Indices : Instance(id) = template.instances[k]
<1>1. PICK k \in Indices : template.instances[k].id = id
    BY DEF Known, Named
<1>2. Instance(id) = template.instances[k]
    BY <1>1, IdNames
<1>. QED
    BY <1>1, <1>2

\* An instance a run needs is the one its id names.
LEMMA NeededIsNamed ==
    ASSUME Sound, NEW instance \in referenced_tool_instances
    PROVE  Instance(instance.id) = instance
<1>1. PICK id \in {steps[i].target : i \in ToolActions} \cup Owners : instance = Instance(id)
    BY DEF referenced_tool_instances
<1>2. Known(id)
    BY <1>1 DEF Sound, Owners
<1>3. Instance(id).id = id
    BY <1>2, KnownIsThere DEF Sound, DraftReadable
<1>. QED
    BY <1>1, <1>3

\* What a document is accepted for is what is relied on.
LEMMA AcceptedIsSound ==
    ASSUME TemplateAccepts
    PROVE  Sound
<1>1. DraftReadable
    BY DEF TemplateAccepts, ValidInstances, DraftReadable
<1>2. \A i \in ToolActions : Known(steps[i].target)
    BY DEF TemplateAccepts, ValidInstances
<1>3. \A k \in DOMAIN template.backgrounds : Known(template.backgrounds[k].owner)
    BY DEF TemplateAccepts, ValidBackground
<1>4. ASSUME NEW i \in ToolActions, Instance(steps[i].target).tool = "serial"
      PROVE  steps[i].action \in SerialCommands
    <2>1. validate_tool_action(steps[i])
        BY <1>4 DEF TemplateAccepts
    <2>2. validate_serial(steps[i].action, steps[i].arguments, steps[i].bindings)
        BY <1>4, <2>1 DEF validate_tool_action
    <2>. QED
        BY <2>2 DEF validate_serial, SerialActions, SerialCommands
<1>5. ASSUME NEW i \in ToolActions, Instance(steps[i].target).tool = "powers", steps[i].action = "measure"
      PROVE  steps[i].bindings = NoBindings /\ Has(steps[i].arguments, "channel")
    <2>1. validate_tool_action(steps[i])
        BY <1>5 DEF TemplateAccepts
    <2>2. ValidPowerMeasure(steps[i])
        BY <1>5, <2>1 DEF validate_tool_action
    <2>. QED
        BY <2>2 DEF ValidPowerMeasure
<1>. QED
    BY <1>1, <1>2, <1>3, <1>4, <1>5 DEF Sound

\* It stays so while neither the steps nor the template change.
LEMMA SoundStays ==
    ASSUME Sound, UNCHANGED <<steps, template>>
    PROVE  Sound'
<1>1. \A id : Known(id)' = Known(id) /\ Instance(id)' = Instance(id)
    BY DEF Known, Named, Instance, Indices
<1>2. DraftReadable'
    BY DEF Sound, DraftReadable, Indices, setup_is_valid
<1>3. ToolActions' = ToolActions
    BY DEF ToolActions
<1>. QED
    BY <1>1, <1>2, <1>3 DEF Sound

\* Every instance has one identity, so two with one identity are one.
LEMMA UniqueIsApart ==
    ASSUME Sound, NEW config,
           validate_unique_live_resources(referenced_tool_instances, config),
           \A instance \in referenced_tool_instances : Assigned(config, instance.id),
           NEW a \in referenced_tool_instances, NEW b \in referenced_tool_instances, a # b,
           a.tool = "serial" <=> b.tool = "serial"
    PROVE  IF a.tool = "serial"
           THEN ~(\A field \in {"is", "key", "port"} :
                      live_resource(config, a.id)[field] = live_resource(config, b.id)[field])
           ELSE live_resource(config, a.id) # live_resource(config, b.id)
<1>1. Identity(a, live_resource(config, a.id)) # Identity(b, live_resource(config, b.id))
    BY DEF validate_unique_live_resources
<1>2. CASE a.tool = "serial"
    <2>1. SUFFICES ASSUME \A field \in {"is", "key", "port"} :
                              live_resource(config, a.id)[field] = live_resource(config, b.id)[field]
                   PROVE  FALSE
        BY <1>2
    <2>2. a.setup.transport = "tcp" <=> IsEndpoint(live_resource(config, a.id))
        BY <1>2 DEF validate_unique_live_resources
    <2>3. b.setup.transport = "tcp" <=> IsEndpoint(live_resource(config, b.id))
        BY <1>2 DEF validate_unique_live_resources
    <2>4. a.setup.transport = "tcp" <=> b.setup.transport = "tcp"
        BY <2>1, <2>2, <2>3 DEF IsEndpoint
    <2>. QED
        BY <1>1, <1>2, <2>1, <2>4 DEF Identity
<1>3. CASE a.tool # "serial"
    BY <1>1, <1>3 DEF Identity
<1>. QED
    BY <1>2, <1>3

(* What is prepared for a live run is what was confirmed.                  *)
LEMMA ReadyToLaunch ==
    ASSUME Sound, NEW specs,
           CanPrepare(run.live, run.config, run.samples),
           run.live = TRUE => validate_confirmed_live_resources(
                                  referenced_tool_instances, run.config, run.confirmed),
           specs = prepare_worker_launch_specs(run.live, run.config, run.samples)
    PROVE  /\ \A id \in DOMAIN specs : specs[id].tool = "serial" =>
                /\ specs[id].manifest.binding = "startup"
                /\ \A i \in ToolActions : steps[i].target = id =>
                      KindOf(specs[id].manifest, steps[i].action) = "async_job"
           /\ run.live = TRUE =>
                 \A id \in DOMAIN specs :
                    /\ specs[id].resource = run.confirmed.resource[id]
                    /\ specs[id].backend = run.confirmed.backend[id]
                    /\ specs[id].resource.is # "blank"
                    /\ \A other \in DOMAIN specs \ {id} : ~SameInstrument(specs[id], specs[other])
<1>1. \A id \in DOMAIN specs :
          \E instance \in referenced_tool_instances :
              /\ instance.id = id /\ Instance(id) = instance
              /\ specs[id] = LaunchSpec(instance, run.live, run.config, run.samples)
    BY NeededIsNamed DEF prepare_worker_launch_specs
<1>2. ASSUME NEW id \in DOMAIN specs, specs[id].tool = "serial"
      PROVE  /\ specs[id].manifest.binding = "startup"
             /\ \A i \in ToolActions : steps[i].target = id =>
                   KindOf(specs[id].manifest, steps[i].action) = "async_job"
    <2>1. PICK instance \in referenced_tool_instances :
              /\ instance.id = id /\ Instance(id) = instance
              /\ specs[id] = LaunchSpec(instance, run.live, run.config, run.samples)
        BY <1>1
    <2>2. /\ instance.tool = "serial"
          /\ specs[id].manifest = Executables[run.config.exe[instance.tool]].probe.manifest
        BY <1>2, <2>1 DEF LaunchSpec
    <2>3. CanLaunch(instance, run.live, run.config, run.samples)
        BY DEF CanPrepare
    <2>4. validate_existing_worker_integration("serial", specs[id].manifest)
        BY <2>2, <2>3 DEF CanLaunch, probe_existing_worker_integration
    <2>5. specs[id].manifest.binding = "startup"
        BY <2>4 DEF validate_existing_worker_integration, Execution
    <2>6. \A c \in SerialCommands : KindOf(specs[id].manifest, c) = "async_job"
        BY <2>4 DEF validate_existing_worker_integration
    <2>. QED
        BY <2>1, <2>2, <2>5, <2>6 DEF Sound
<1>3. ASSUME run.live = TRUE, NEW id \in DOMAIN specs
      PROVE  /\ specs[id].resource = run.confirmed.resource[id]
             /\ specs[id].backend = run.confirmed.backend[id]
             /\ specs[id].resource.is # "blank"
             /\ \A other \in DOMAIN specs \ {id} : ~SameInstrument(specs[id], specs[other])
    <2>1. PICK a \in referenced_tool_instances :
              a.id = id /\ specs[id] = LaunchSpec(a, run.live, run.config, run.samples)
        BY <1>1
    <2>2. /\ specs[id].resource = live_resource(run.config, id) /\ specs[id].backend = live_backend(run.config, id)
          /\ specs[id].tool = a.tool
        BY <1>3, <2>1 DEF LaunchSpec
    <2>3. /\ \A instance \in referenced_tool_instances : Assigned(run.config, instance.id)
          /\ run.confirmed.resource[id] = live_resource(run.config, id)
          /\ run.confirmed.backend[id] = live_backend(run.config, id)
          /\ validate_unique_live_resources(referenced_tool_instances, run.config)
        BY <1>3, <2>1 DEF validate_confirmed_live_resources
    <2>4. specs[id].resource.is # "blank"
        BY <2>1, <2>2, <2>3 DEF Assigned
    <2>5. ASSUME NEW other \in DOMAIN specs \ {id}
          PROVE  ~SameInstrument(specs[id], specs[other])
        <3>1. PICK b \in referenced_tool_instances :
                  b.id = other /\ specs[other] = LaunchSpec(b, run.live, run.config, run.samples)
            BY <1>1, <2>5
        <3>2. specs[other].resource = live_resource(run.config, other) /\ specs[other].tool = b.tool
            BY <1>3, <3>1 DEF LaunchSpec
        <3>3. a # b
            BY <2>1, <2>5, <3>1
        <3>. QED
            BY <2>1, <2>2, <2>3, <3>1, <3>2, <3>3, UniqueIsApart DEF SameInstrument
    <2>. QED
        BY <2>2, <2>3, <2>4, <2>5
<1>. QED
    BY <1>2, <1>3

(* A step at the desk: only begin_run makes specifications, and a Worker   *)
(* is counted as started only when its Ready message keeps to its own.     *)
LEMMA DeskKeepsRun ==
    ASSUME DeskInv, opened, UNCHANGED <<steps, template, scene, opened>>, DeskStep
    PROVE  DeskInv'
<1>1. Settled'
    BY SoundStays DEF DeskInv, Settled
<1>2. CASE UNCHANGED run
    <2>1. Prepared'
        BY <1>2 DEF DeskInv, Prepared, ToolActions
    <2>2. LiveIsConfirmed'
        BY <1>2 DEF DeskInv, LiveIsConfirmed
    <2>. QED
        BY <1>1, <2>1, <2>2 DEF DeskInv
<1>3. ASSUME run.at \in {"none", "confirmed", "loaded"},
             DOMAIN run' = DOMAIN run, run'.live \in BOOLEAN,
             run'.specs = run.specs, run'.started = run.started,
             run'.at \in {"none", "confirmed", "loaded", "refused"}
      PROVE  DeskInv'
    <2>1. run'.specs = NoBindings /\ run'.started = NoBindings
        BY <1>3 DEF DeskInv, Prepared
    <2>2. DOMAIN run'.specs = {} /\ DOMAIN run'.started = {}
        BY <2>1 DEF NoBindings
    <2>3. Prepared'
        BY <1>3, <2>1, <2>2 DEF DeskInv, Prepared, NoBindings
    <2>4. LiveIsConfirmed'
        BY <2>2 DEF LiveIsConfirmed
    <2>. QED
        BY <1>1, <2>3, <2>4 DEF DeskInv
<1>4. CASE Confirm
    BY <1>3, <1>4 DEF Confirm, DeskInv, Prepared
<1>5. ASSUME NEW samples, Simulate(samples)
      PROVE  DeskInv'
    BY <1>3, <1>5 DEF Simulate, DeskInv, Prepared
<1>6. CASE LoadConfig
    BY <1>3, <1>6 DEF LoadConfig, DeskInv, Prepared
<1>7. CASE begin_run
    <2>. DEFINE accepted ==
            /\ run.live => /\ validate_confirmed_live_resources(
                                  referenced_tool_instances, run.config, run.confirmed)
                           /\ validate_live_preflight(run.config)
            /\ CanPrepare(run.live, run.config, run.samples)
    <2>1. CASE ~accepted
        <3>1. run' = [run EXCEPT !.at = "refused"]
            BY <1>7, <2>1 DEF begin_run
        <3>. QED
            BY <1>3, <1>7, <3>1 DEF begin_run, DeskInv, Prepared
    <2>2. CASE accepted
        <3>. DEFINE specs == prepare_worker_launch_specs(run.live, run.config, run.samples)
        <3>1. run' = [run EXCEPT !.at = "prepared", !.specs = specs]
            BY <1>7, <2>2 DEF begin_run
        <3>2. CanPrepare(run.live, run.config, run.samples)
            BY <2>2
        <3>3. run.live = TRUE => validate_confirmed_live_resources(
                                     referenced_tool_instances, run.config, run.confirmed)
            BY <2>2
        <3>4. Sound
            BY DEF DeskInv, Settled
        <3>5. /\ \A id \in DOMAIN specs : specs[id].tool = "serial" =>
                /\ specs[id].manifest.binding = "startup"
                /\ \A i \in ToolActions : steps[i].target = id =>
                      KindOf(specs[id].manifest, steps[i].action) = "async_job"
              /\ run.live = TRUE =>
                 \A id \in DOMAIN specs :
                    /\ specs[id].resource = run.confirmed.resource[id]
                    /\ specs[id].backend = run.confirmed.backend[id]
                    /\ specs[id].resource.is # "blank"
                    /\ \A other \in DOMAIN specs \ {id} : ~SameInstrument(specs[id], specs[other])
            BY <3>2, <3>3, <3>4, ReadyToLaunch
        <3>. HIDE DEF specs, accepted
        <3>6. /\ DOMAIN run' = DOMAIN run /\ run'.at = "prepared" /\ run'.specs = specs
              /\ run'.live = run.live /\ run'.confirmed = run.confirmed /\ run'.started = run.started
            BY <3>1 DEF DeskInv, Prepared
        <3>7. run.started = NoBindings
            BY <1>7 DEF begin_run, DeskInv, Prepared
        <3>8. DOMAIN run'.started = {}
            BY <3>6, <3>7 DEF NoBindings
        <3>9. Prepared'
            BY <3>5, <3>6, <3>8 DEF DeskInv, Prepared, ToolActions
        <3>10. LiveIsConfirmed'
            BY <3>5, <3>6 DEF DeskInv, Prepared, LiveIsConfirmed
        <3>. QED
            BY <1>1, <3>9, <3>10 DEF DeskInv
    <2>. QED
        BY <2>1, <2>2
<1>8. ASSUME NEW id, NEW ready, start_worker(id, ready)
      PROVE  DeskInv'
    <2>1. /\ DOMAIN run' = DOMAIN run /\ run'.specs = run.specs
          /\ run'.live = run.live /\ run'.confirmed = run.confirmed
          /\ run'.at \in {"prepared", "failed"} /\ id \in DOMAIN run.specs
        BY <1>8 DEF start_worker, DeskInv, Prepared
    <2>2. LiveIsConfirmed'
        BY <2>1 DEF DeskInv, LiveIsConfirmed
    <2>3. /\ DOMAIN run'.started \subseteq DOMAIN run.specs
          /\ \A k \in DOMAIN run'.started :
                DOMAIN run'.started[k] \subseteq DOMAIN run.specs[k].manifest.features
        <3>1. CASE ready_is_accepted(ready, run.specs[id].manifest)
            <4>1. run'.started = [k \in DOMAIN run.started \cup {id} |->
                                     IF k = id THEN ready.features ELSE run.started[k]]
                BY <1>8, <3>1 DEF start_worker, DeskInv, Prepared
            <4>2. DOMAIN ready.features \subseteq DOMAIN run.specs[id].manifest.features
                BY <3>1 DEF ready_is_accepted, validate_runtime_features, Declares
            <4>. QED
                BY <2>1, <4>1, <4>2 DEF DeskInv, Prepared
        <3>2. CASE ~ready_is_accepted(ready, run.specs[id].manifest)
            <4>1. run'.started = run.started
                BY <1>8, <3>2 DEF start_worker, DeskInv, Prepared
            <4>. QED
                BY <4>1 DEF DeskInv, Prepared
        <3>. QED
            BY <3>1, <3>2
    <2>4. Prepared'
        BY <2>1, <2>3 DEF DeskInv, Prepared, ToolActions
    <2>. QED
        BY <1>1, <2>2, <2>4 DEF DeskInv
<1>9. CASE EditLiveResource \/ EditExecutable
    BY <1>2, <1>9 DEF EditLiveResource, EditExecutable, set_tool_executable, reset_tool_executable, BeginEdit
<1>10. ASSUME NEW thread, Truncate(thread) \/ Save(thread)
       PROVE  DeskInv'
    BY <1>2, <1>10 DEF Truncate, Save
<1>11. CASE ShowResources \/ ShowBackends
    BY <1>2, <1>11 DEF ShowResources, ShowBackends
<1>. QED
    BY <1>4, <1>5, <1>6, <1>7, <1>8, <1>9, <1>10, <1>11 DEF DeskStep
\* Nothing is prepared before the document is used.
LEMMA NextKeepsRun ==
    ASSUME DeskInv, [Next]_vars
    PROVE  DeskInv'
<1>1. ASSUME UNCHANGED <<steps, template, scene, opened, desk>>
      PROVE  DeskInv'
    <2>. UNCHANGED run
        BY <1>1 DEF desk
    <2>1. Settled'
        BY <1>1, SoundStays DEF DeskInv, Settled
    <2>2. Prepared'
        BY <1>1 DEF DeskInv, Prepared, ToolActions
    <2>3. LiveIsConfirmed'
        BY <1>1 DEF DeskInv, LiveIsConfirmed
    <2>. QED
        BY <2>1, <2>2, <2>3 DEF DeskInv
<1>2. ASSUME ~opened, UNCHANGED <<scene, desk>>, opened' => Len(steps') = Scenes[scene].length /\ Sound'
      PROVE  DeskInv'
    <2>1. UNCHANGED run
        BY <1>2 DEF desk
    <2>2. run.specs = NoBindings /\ run.started = NoBindings
        BY <1>2 DEF DeskInv, Prepared
    <2>3. DOMAIN run.specs = {} /\ DOMAIN run.started = {}
        BY <2>2 DEF NoBindings
    <2>4. Prepared' /\ LiveIsConfirmed'
        BY <2>1, <2>2, <2>3 DEF DeskInv, Prepared, LiveIsConfirmed, NoBindings
    <2>5. Settled'
        BY <1>2 DEF DeskInv, Settled
    <2>. QED
        BY <2>4, <2>5 DEF DeskInv
<1>3. CASE Writing
    <2>1. ~opened
        BY <1>3, ScenesAssumption DEF Writing, DeskInv, Settled
    <2>. QED
        BY <1>2, <1>3, <2>1 DEF Writing
<1>4. CASE Open
    <2>1. Sound
        BY <1>4, AcceptedIsSound DEF Open
    <2>2. Sound'
        BY <1>4, <2>1, SoundStays DEF Open
    <2>. QED
        BY <1>2, <1>4, <2>2 DEF Open
<1>5. CASE Preparing
    BY <1>5, DeskKeepsRun DEF Preparing, Used
<1>6. CASE Working \/ Talking \/ Looking \/ Feeding
    BY <1>1, <1>6 DEF Working, Talking, Looking, Feeding, Used
<1>7. CASE UNCHANGED vars
    BY <1>1, <1>7 DEF vars
<1>. QED
    BY <1>3, <1>4, <1>5, <1>6, <1>7 DEF Next

\* Nothing is opened and no run is on when a scene begins.
LEMMA DeskStarts == Init => DeskInv
<1>. SUFFICES ASSUME Init PROVE DeskInv
    OBVIOUS
<1>1. run = NoRun /\ ~opened /\ scene \in DOMAIN Scenes
    BY DEF Init, DeskInit
<1>2. DOMAIN NoBindings = {}
    BY DEF NoBindings
<1>3. Prepared
    BY <1>1, <1>2 DEF NoRun, Prepared
<1>. QED
    BY <1>1, <1>3 DEF DeskInv, Settled, NoRun, LiveIsConfirmed

(* However the configuration is edited, emptied and written back while a   *)
(* run is confirmed, checked and prepared, and whatever program answers:   *)
(* no Worker runs but the one that was confirmed, on the instrument that   *)
(* was confirmed, and no instrument has two; for any template, any tools   *)
(* that are installed and any number of edits.                             *)
THEOREM NoOtherIsStarted == Spec => []StartedAsPrepared
<1>1. DeskInv /\ [Next]_vars => DeskInv'
    BY NextKeepsRun
<1>2. DeskInv => StartedAsPrepared
    <2>. SUFFICES ASSUME DeskInv
                  PROVE  StartedAsPrepared
        OBVIOUS
    <2>1. ASSUME NEW id \in DOMAIN run.started
          PROVE  LET spec == run.specs[id]
                 IN /\ DOMAIN run.started[id] \subseteq DOMAIN spec.manifest.features
                    /\ spec.tool = "serial" /\ AsyncJobs \in DOMAIN run.started[id] =>
                          \A i \in ToolActions : steps[i].target = id =>
                              CanRunJob(spec.manifest, run.started[id], steps[i].action, FALSE)
        BY <2>1 DEF DeskInv, Prepared, CanRunJob
    <2>2. StartedIsProbed
        BY <2>1 DEF StartedIsProbed
    <2>. QED
        BY <2>2 DEF DeskInv, StartedAsPrepared
<1>. QED
    BY <1>1, <1>2, DeskStarts, PTL DEF Spec
\* What the draft looks at, the run needs.
LEMMA DraftedIsNeeded ==
    ASSUME Sound
    PROVE  DraftInstances \subseteq referenced_tool_instances
<1>1. ASSUME NEW instance \in DraftInstances
      PROVE  instance \in referenced_tool_instances
    <2>1. PICK k \in Indices : instance = template.instances[k]
        BY <1>1 DEF DraftInstances, ToSet, Indices
    <2>2. Instance(instance.id) = instance
        BY <2>1, IdNames DEF Sound, DraftReadable
    <2>3. instance.id \in {steps[i].target : i \in ToolActions} \cup Owners
        BY <1>1 DEF DraftInstances, Owners
    <2>. QED
        BY <2>2, <2>3 DEF referenced_tool_instances
<1>. QED
    BY <1>1

(* The draft that is shown while a template is edited complains of no      *)
(* template that Live preflight lets through: for any template, any        *)
(* configuration and any models.                                           *)
THEOREM DraftComplainsOfNoMore == Spec => []DraftIsNoStricter
<1>1. DeskInv /\ [Next]_vars => DeskInv'
    BY NextKeepsRun
<1>2. DeskInv => DraftIsNoStricter
    <2>. SUFFICES ASSUME DeskInv, opened \/ TemplateAccepts, validate_live_preflight(file.config)
                  PROVE  validate_live_preflight_draft(file.config)
        BY DEF DraftIsNoStricter
    <2>1. Sound
        BY AcceptedIsSound DEF DeskInv, Settled
    <2>2. DraftInstances \subseteq referenced_tool_instances
        BY <2>1, DraftedIsNeeded
    <2>3. validate_live_resources(DraftInstances, file.config)
        <3>1. validate_live_resources(referenced_tool_instances, file.config)
            BY DEF validate_live_preflight
        <3>. QED
            BY <2>2, <3>1 DEF validate_live_resources, validate_unique_live_resources
    <2>4. validate_with_capabilities(DraftInstances, file.config)
        <3>1. validate_with_capabilities(referenced_tool_instances, file.config)
            BY DEF validate_live_preflight
        <3>. QED
            BY <2>2, <3>1 DEF validate_with_capabilities
    <2>. QED
        BY <2>1, <2>3, <2>4 DEF validate_live_preflight_draft, Sound
<1>. QED
    BY <1>1, <1>2, DeskStarts, PTL DEF Spec
-----------------------------------------------------------------------------
(* What a report on protection says.  now is a job of a Worker of the      *)
(* supply, s the supply: while it is read, latches are set and none is     *)
(* cleared, so what has been read stays true.                              *)

-----------------------------------------------------------------------------
(* The document is written from the alphabet of the scene.                 *)

FromAlphabet(doc, alphabet) == \A i \in Places(doc) : \E step \in alphabet : doc[i].page = step.page

DocumentInv == scene \in DOMAIN Scenes /\ ReadInv /\ FromAlphabet(steps, Scenes[scene].alphabet)

(* Pages of one name are one page, in all that can be written.             *)
LEMMA PagesOfAlphabet ==
    ASSUME NEW doc, NEW alphabet, Writable(alphabet), FromAlphabet(doc, alphabet)
    PROVE  PagesAgree(doc)
    BY DEF Writable, FromAlphabet, PagesAgree

(* What is written next is from the alphabet, or a mark.                   *)
LEMMA AlphabetStays ==
    ASSUME Understood(steps, check), NEW alphabet, FromAlphabet(steps, alphabet), NEW e,
           e.kind \in {"else", "end"} \/ \E step \in alphabet : e.page = step.page
    PROVE  FromAlphabet(Append(steps, e), alphabet)
<1>. DEFINE more == Append(steps, e)
            n == Len(steps)
<1>1. /\ n \in Nat /\ Len(more) = n + 1 /\ SameUpTo(steps, more, n) /\ more[n + 1] = e
    BY Reading
<1>. HIDE DEF more
<1>2. /\ \A j \in 1 .. n : more[j] = steps[j]
      /\ Places(more) = IF IsStep(more, n + 1) THEN Places(steps) \cup {n + 1} ELSE Places(steps)
      /\ Places(steps) \subseteq 1 .. n
    BY <1>1, StepsOfMore
<1>3. IsStep(more, n + 1) => \E step \in alphabet : more[n + 1].page = step.page
    BY <1>1 DEF IsStep
<1>. HIDE DEF n
<1>4. \A i \in Places(more) : \E step \in alphabet : more[i].page = step.page
    BY <1>2, <1>3 DEF FromAlphabet
<1>. QED
    BY <1>4 DEF FromAlphabet, more

(* Every step keeps what is known of the document.                        *)
LEMMA NextKeepsDocument ==
    ASSUME DocumentInv, [Next]_vars
    PROVE  DocumentInv'
<1>. DEFINE alphabet == Scenes[scene].alphabet
<1>1. CASE UNCHANGED <<scene, steps, check>>
    BY <1>1 DEF DocumentInv, ReadInv
<1>2. CASE Writing
    <2>1. check.ok /\ scene' = scene /\ Writable(alphabet)
        BY <1>2, ScenesAssumption DEF Writing, DocumentInv
    <2>2. Understood(steps, check) /\ ReadInv /\ FromAlphabet(steps, alphabet)
        BY <2>1 DEF DocumentInv, ReadInv, Exact
    <2>3. ASSUME NEW step \in alphabet, NEW id, Read([step EXCEPT !.id = id])
          PROVE  ReadInv' /\ FromAlphabet(steps', alphabet)
        <3>. DEFINE s == [step EXCEPT !.id = id]
        <3>1. s.kind \notin {"else", "end"} /\ s.page = step.page
            BY <2>1 DEF Writable
        <3>. HIDE DEF s, alphabet
        <3>2. FromAlphabet(Append(steps, s), alphabet)
            BY <2>2, <3>1, AlphabetStays
        <3>3. PagesAgree(Append(steps, s))
            BY <2>1, <3>2, PagesOfAlphabet
        <3>4. Read(s)
            BY <2>3 DEF s
        <3>5. steps' = Append(steps, s)
            BY <3>4 DEF Read
        <3>. QED
            BY <2>1, <2>2, <3>1, <3>2, <3>3, <3>4, <3>5, ReadIsExact
    <2>4. ASSUME ReadElse PROVE ReadInv' /\ FromAlphabet(steps', alphabet)
        <3>. DEFINE mark == [kind |-> "else", id |-> 0]
        <3>1. steps' = Append(steps, mark) /\ mark.kind \in {"else", "end"}
            BY <2>4 DEF ReadElse
        <3>. HIDE DEF mark, alphabet
        <3>2. FromAlphabet(Append(steps, mark), alphabet)
            BY <2>2, <3>1, AlphabetStays
        <3>. QED
            BY <2>1, <2>2, <2>4, <3>1, <3>2, ElseIsExact
    <2>5. ASSUME ReadEnd PROVE ReadInv' /\ FromAlphabet(steps', alphabet)
        <3>. DEFINE mark == [kind |-> "end", id |-> 0]
        <3>1. steps' = Append(steps, mark) /\ mark.kind \in {"else", "end"}
            BY <2>5 DEF ReadEnd
        <3>. HIDE DEF mark, alphabet
        <3>2. FromAlphabet(Append(steps, mark), alphabet)
            BY <2>2, <3>1, AlphabetStays
        <3>. QED
            BY <2>1, <2>2, <2>5, <3>1, <3>2, EndIsExact
    <2>6. (\E step \in alphabet, id \in {Len(steps) + 1} \cup Scenes[scene].again : Read([step EXCEPT !.id = id]))
              \/ ReadElse \/ ReadEnd
        BY <1>2 DEF Writing
    <2>7. ReadInv' /\ FromAlphabet(steps', alphabet)
        BY <2>3, <2>4, <2>5, <2>6
    <2>. QED
        BY <2>1, <2>7 DEF DocumentInv
<1>3. UNCHANGED <<scene, steps, check>> \/ Writing
    BY DEF Next, Open, Preparing, Working, Talking, Looking, Feeding, Used, vars
<1>. QED
    BY <1>1, <1>2, <1>3

(* The one pass of the validator accepts the well-formed documents and no  *)
(* others, and the draft complains of no template that Live preflight lets *)
(* through: for any alphabet and any length of a document.                 *)
THEOREM AcceptedIsWellFormed == Spec => []CheckersAgree
<1>1. Init => DocumentInv
    <2>. SUFFICES ASSUME Init PROVE DocumentInv
        OBVIOUS
    <2>1. scene \in DOMAIN Scenes /\ WorkflowInit
        BY DEF Init
    <2>2. Places(steps) = {}
        <3>1. steps = <<>> /\ Len(<<>>) = 0 /\ 1 .. 0 = {}
            BY <2>1 DEF WorkflowInit
        <3>. QED
            BY <3>1 DEF Places
    <2>. QED
        BY <2>1, <2>2, NothingReadIsExact DEF DocumentInv, FromAlphabet
<1>2. DocumentInv => AcceptsExactly
    BY DEF DocumentInv, ReadInv, Exact, AcceptsExactly
<1>3. AcceptsExactly /\ DraftIsNoStricter => CheckersAgree
    BY DEF CheckersAgree
<1>4. Spec => []DocumentInv
    BY <1>1, NextKeepsDocument, PTL DEF Spec
<1>. QED
    BY <1>2, <1>3, <1>4, DraftComplainsOfNoMore, PTL

Latches == {"ov", "oc"}

\* Each entry is true, and every channel that has been read has one.
Truthful(now, s) ==
    LET list == now.report.protection
    IN /\ \A i \in DOMAIN list : list[i].channel \in now.channels
       /\ \A i \in DOMAIN list, f \in Latches :
             /\ <<list[i].channel, f>> \in now.report.seen => list[i][f]
             /\ list[i][f] => s[list[i].channel][f]
       /\ \A c \in now.channels \ now.todo : \E i \in DOMAIN list : list[i].channel = c

\* Both lists of a report name the same channels, each once.
Paired(now) ==
    LET list == now.report.protection
        others == now.report.outputs
    IN /\ \E S : list \in Seq(S)
       /\ \E S : others \in Seq(S)
       /\ Len(others) = Len(list)
       /\ \A i \in 1 .. Len(list) :
             /\ DOMAIN list[i] = {"channel", "ov", "oc"}
             /\ others[i].channel = list[i].channel /\ list[i].channel \notin now.todo
       /\ \A i, j \in 1 .. Len(list) : list[i].channel = list[j].channel => i = j

Totals(now, s) ==
    \A f \in Latches :
        /\ (\E c \in now.channels : <<c, f>> \in now.report.seen) => now.report[f]
        /\ now.report[f] => \E c \in now.channels : s[c][f]

Reported(now, s) ==
    /\ now.channels \subseteq Channels /\ now.todo \subseteq now.channels \cup {0}
    /\ DOMAIN now.report = {"seen", "ov", "oc", "protection", "outputs"}
    /\ now.report.seen \subseteq Channels \X Latches
    /\ \A c \in Channels, f \in Latches : <<c, f>> \in now.report.seen => s[c][f]
    /\ 0 \notin now.todo => Totals(now, s)
    /\ now.state # "succeeded" => Truthful(now, s) /\ Paired(now)
    /\ now.state = "succeeded" =>
          now.todo = {} /\ (protection_report_is_accepted(now.report) => Truthful(now, s))

Reports ==
    \A o \in Operations :
        job[o].tool = "powers" /\ job[o].command = "protection-status" => Reported(job[o], supply)

\* What has been read stays true while no latch is cleared.
LEMMA ReadingStays ==
    ASSUME NEW now, NEW s, NEW t, Reported(now, s),
           \A c \in Channels, f \in Latches : s[c][f] => t[c][f]
    PROVE  Reported(now, t)
<1>1. Totals(now, s) => Totals(now, t)
    BY DEF Reported, Totals
<1>2. Truthful(now, s) => Truthful(now, t)
    BY DEF Reported, Truthful
<1>. QED
    BY <1>1, <1>2 DEF Reported

\* A report begins empty.
LEMMA ReadingBegins ==
    ASSUME NEW channels, channels \subseteq Channels, NEW seen, NEW now, NEW s,
           seen \subseteq Channels \X Latches,
           \A c \in Channels, f \in Latches : <<c, f>> \in seen => s[c][f],
           now.channels = channels, now.todo = channels \cup {0}, now.state = "working",
           now.report = [seen |-> seen, ov |-> FALSE, oc |-> FALSE, protection |-> <<>>, outputs |-> <<>>]
    PROVE  Reported(now, s)
<1>1. Truthful(now, s)
    BY DEF Truthful
<1>2. Paired(now)
    <2>1. now.report.protection = <<>> /\ now.report.outputs = <<>>
        OBVIOUS
    <2>2. <<>> \in Seq({}) /\ Len(<<>>) = 0
        OBVIOUS
    <2>. QED
        BY <2>1, <2>2 DEF Paired
<1>. QED
    BY <1>1, <1>2 DEF Reported

\* The total is read: of the channels that are asked for.
LEMMA TotalIsRead ==
    ASSUME NEW now, NEW s, NEW new, Reported(now, s), now.state = "working",
           new.channels = now.channels, new.state = now.state, new.todo = now.todo \ {0},
           new.report = [now.report EXCEPT !.ov = \E c \in now.channels : s[c].ov,
                                           !.oc = \E c \in now.channels : s[c].oc]
    PROVE  Reported(new, s)
<1>1. /\ DOMAIN new.report = DOMAIN now.report
      /\ new.report.seen = now.report.seen
      /\ new.report.protection = now.report.protection /\ new.report.outputs = now.report.outputs
      /\ new.report.ov <=> \E c \in now.channels : s[c].ov
      /\ new.report.oc <=> \E c \in now.channels : s[c].oc
    BY DEF Reported
<1>2. \A c \in now.channels : c \in Channels
    BY DEF Reported
<1>3. \A f \in Latches, c \in now.channels : <<c, f>> \in now.report.seen => s[c][f]
    BY <1>2 DEF Reported
<1>4. ASSUME NEW f \in Latches
      PROVE  new.report[f] <=> \E c \in now.channels : s[c][f]
    <2>1. CASE f = "ov"
        BY <1>1, <2>1
    <2>2. CASE f = "oc"
        BY <1>1, <2>2
    <2>. QED
        BY <2>1, <2>2 DEF Latches
<1>5. Totals(new, s)
    BY <1>1, <1>3, <1>4 DEF Totals
<1>6. Truthful(new, s)
    BY <1>1, <1>2, BenchAssumption DEF Reported, Truthful
<1>7. Paired(new)
    BY <1>1 DEF Reported, Paired
<1>. QED
    BY <1>1, <1>5, <1>6, <1>7 DEF Reported
\* A channel is read: it was not read before.
LEMMA ChannelIsRead ==
    ASSUME NEW now, NEW s, NEW new, Reported(now, s), now.state = "working",
           NEW c \in now.todo \ {0},
           new.channels = now.channels, new.state = now.state, new.todo = now.todo \ {c},
           new.report = [now.report EXCEPT
               !.protection = Append(@, [channel |-> c, ov |-> s[c].ov, oc |-> s[c].oc]),
               !.outputs = Append(@, [channel |-> c, on |-> s[c].on])]
    PROVE  Reported(new, s)
<1>. DEFINE list == now.report.protection
            others == now.report.outputs
            entry == [channel |-> c, ov |-> s[c].ov, oc |-> s[c].oc]
            output == [channel |-> c, on |-> s[c].on]
            longer == Append(list, entry)
            further == Append(others, output)
            n == Len(list)
<1>1. /\ DOMAIN new.report = DOMAIN now.report
      /\ new.report.seen = now.report.seen /\ new.report.ov = now.report.ov /\ new.report.oc = now.report.oc
      /\ new.report.protection = longer /\ new.report.outputs = further
    BY DEF Reported
<1>2. c \in now.channels /\ c \in Channels
    BY DEF Reported
<1>3. DOMAIN entry = {"channel", "ov", "oc"} /\ entry.channel = c /\ output.channel = c /\ \A f \in Latches : entry[f] = s[c][f]
    BY DEF Latches
<1>. HIDE DEF entry, output
<1>4. PICK S : list \in Seq(S)
    BY DEF Reported, Paired
<1>5. PICK T : others \in Seq(T)
    BY DEF Reported, Paired
<1>6. n \in Nat /\ Len(others) = n /\ DOMAIN list = 1 .. n
    BY <1>4 DEF Reported, Paired
<1>7. /\ longer \in Seq(S \cup {entry})
      /\ Len(longer) = n + 1 /\ DOMAIN longer = 1 .. n + 1
      /\ \A i \in 1 .. n : longer[i] = list[i]
      /\ longer[n + 1] = entry
    <2>1. list \in Seq(S \cup {entry}) /\ entry \in S \cup {entry}
        BY <1>4
    <2>. QED
        BY <2>1, <1>6, AppendProperties
<1>8. /\ further \in Seq(T \cup {output})
      /\ Len(further) = n + 1
      /\ \A i \in 1 .. n : further[i] = others[i]
      /\ further[n + 1] = output
    <2>1. others \in Seq(T \cup {output}) /\ output \in T \cup {output}
        BY <1>5
    <2>. QED
        BY <2>1, <1>6, AppendProperties
<1>9. \A i \in 1 .. n :
          /\ DOMAIN list[i] = {"channel", "ov", "oc"}
          /\ others[i].channel = list[i].channel /\ list[i].channel \notin now.todo
    BY DEF Reported, Paired
<1>10. \A i, j \in 1 .. n : list[i].channel = list[j].channel => i = j
    BY DEF Reported, Paired
<1>. HIDE DEF n, longer, further
<1>11. \A i \in 1 .. n + 1 : i \in 1 .. n \/ i = n + 1
    BY <1>6
<1>12. Truthful(new, s)
    <2>1. ASSUME NEW i \in 1 .. n + 1
          PROVE  /\ longer[i].channel \in now.channels
                 /\ \A f \in Latches :
                       /\ <<longer[i].channel, f>> \in now.report.seen => longer[i][f]
                       /\ longer[i][f] => s[longer[i].channel][f]
        <3>1. CASE i \in 1 .. n
            BY <1>6, <1>7, <3>1 DEF Reported, Truthful
        <3>2. CASE i = n + 1
            BY <1>2, <1>3, <1>7, <3>2 DEF Reported
        <3>. QED
            BY <1>11, <3>1, <3>2
    <2>2. ASSUME NEW d \in now.channels \ new.todo
          PROVE  \E i \in 1 .. n + 1 : longer[i].channel = d
        <3>1. CASE d = c
            <4>1. n + 1 \in 1 .. n + 1
                BY <1>6
            <4>. QED
                BY <1>3, <1>7, <3>1, <4>1
        <3>2. CASE d # c
            <4>1. PICK i \in 1 .. n : list[i].channel = d
                BY <1>6, <2>2, <3>2 DEF Reported, Truthful
            <4>2. i \in 1 .. n + 1
                BY <1>6
            <4>. QED
                BY <1>7, <4>1, <4>2
        <3>. QED
            BY <3>1, <3>2
    <2>. QED
        BY <1>1, <1>7, <2>1, <2>2 DEF Truthful
<1>13. Paired(new)
    <2>1. ASSUME NEW i \in 1 .. n + 1
          PROVE  /\ DOMAIN longer[i] = {"channel", "ov", "oc"}
                 /\ further[i].channel = longer[i].channel
                 /\ longer[i].channel \notin new.todo
        BY <1>3, <1>7, <1>8, <1>9, <1>11, <2>1
    <2>2. ASSUME NEW i \in 1 .. n + 1, NEW j \in 1 .. n + 1,
                 longer[i].channel = longer[j].channel
          PROVE  i = j
        <3>1. CASE i \in 1 .. n /\ j \in 1 .. n
            BY <1>7, <1>10, <2>2, <3>1
        <3>2. CASE i = n + 1 /\ j \in 1 .. n
            BY <1>3, <1>7, <1>9, <2>2, <3>2
        <3>3. CASE j = n + 1 /\ i \in 1 .. n
            BY <1>3, <1>7, <1>9, <2>2, <3>3
        <3>. QED
            BY <1>11, <3>1, <3>2, <3>3
    <2>. QED
        BY <1>1, <1>7, <1>8, <2>1, <2>2 DEF Paired
<1>14. Totals(now, s) => Totals(new, s)
    <2>1. \A f \in Latches : new.report[f] = now.report[f]
        BY <1>1 DEF Latches
    <2>. QED
        BY <1>1, <2>1 DEF Totals
<1>. QED
    BY <1>1, <1>12, <1>13, <1>14 DEF Reported
\* A report that was garbled is refused, or nothing is wrong with it.
LEMMA GarbledIsRefused ==
    ASSUME NEW now, NEW s, NEW new, Reported(now, s), now.state = "working", now.todo = {},
           Len(now.report.protection) > 1,
           new.channels = now.channels, new.state = "succeeded", new.todo = {},
           new.report \in Garbled(now.report)
    PROVE  Reported(new, s)
<1>. DEFINE list == now.report.protection
            others == now.report.outputs
            n == Len(list)
<1>1. PICK S : list \in Seq(S)
    BY DEF Reported, Paired
<1>2. PICK T : others \in Seq(T)
    BY DEF Reported, Paired
<1>3. n \in Nat /\ n > 1 /\ Len(others) = n /\ DOMAIN list = 1 .. n /\ DOMAIN others = 1 .. n
    BY <1>1, <1>2 DEF Reported, Paired
<1>4. \A i \in 1 .. n : DOMAIN list[i] = {"channel", "ov", "oc"} /\ others[i].channel = list[i].channel
    BY DEF Reported, Paired
<1>5. \A i, j \in 1 .. n : list[i].channel = list[j].channel => i = j
    BY DEF Reported, Paired
<1>6. Truthful(now, s) /\ Totals(now, s)
    BY DEF Reported
<1>7. DOMAIN now.report = {"seen", "ov", "oc", "protection", "outputs"}
    BY DEF Reported
<1>8. /\ DOMAIN new.report = DOMAIN now.report
      /\ new.report.seen = now.report.seen /\ new.report.ov = now.report.ov /\ new.report.oc = now.report.oc
      /\ \/ new.report.protection = list /\ new.report.outputs = Tail(others)
         \/ /\ new.report.outputs = others
            /\ \E c \in {0, 2} : new.report.protection = [list EXCEPT ![1].channel = c]
    BY <1>7 DEF Garbled
<1>. HIDE DEF n
<1>9. ASSUME protection_report_is_accepted(new.report)
      PROVE  Truthful(new, s)
    <2>. DEFINE first == list[1].channel
    <2>1. /\ \A i \in DOMAIN new.report.protection : new.report.protection[i].channel \in 1 .. MaxChannel
          /\ {new.report.protection[i].channel : i \in DOMAIN new.report.protection}
                = {new.report.outputs[i].channel : i \in DOMAIN new.report.outputs}
        BY <1>9 DEF protection_report_is_accepted
    <2>2. CASE new.report.protection = list /\ new.report.outputs = Tail(others)
        <3>1. /\ DOMAIN Tail(others) = 1 .. n - 1
              /\ \A i \in 1 .. n - 1 : Tail(others)[i] = others[i + 1]
            BY <1>2, <1>3
        <3>2. 1 \in 1 .. n
            BY <1>3
        <3>3. first \in {Tail(others)[i].channel : i \in DOMAIN Tail(others)}
            <4>1. first \in {list[i].channel : i \in DOMAIN list}
                BY <1>3, <3>2
            <4>. QED
                BY ZenonT(40), <2>1, <2>2, <4>1
        <3>5. PICK i \in 1 .. n - 1 : Tail(others)[i].channel = first
            BY <3>1, <3>3
        <3>4. i + 1 \in 1 .. n /\ i + 1 # 1
            BY <1>3
        <3>. QED
            <4>1. others[i + 1].channel = first
                BY <3>1, <3>5
            <4>2. list[i + 1].channel = list[1].channel
                BY <1>4, <3>4, <4>1
            <4>. QED
                BY <1>5, <3>2, <3>4, <4>2
    <2>3. ASSUME NEW c \in {0, 2}, new.report.outputs = others,
                 new.report.protection = [list EXCEPT ![1].channel = c]
          PROVE  Truthful(new, s)
        <3>1. 1 \in 1 .. n
            BY <1>3
        <3>2. /\ DOMAIN new.report.protection = 1 .. n
              /\ new.report.protection[1] = [list[1] EXCEPT !.channel = c]
              /\ \A i \in 1 .. n : i # 1 => new.report.protection[i] = list[i]
            BY <1>3, <2>3, <3>1
        <3>3. /\ new.report.protection[1].channel = c
              /\ \A f \in Latches : new.report.protection[1][f] = list[1][f]
            BY <1>4, <3>1, <3>2 DEF Latches
        <3>4. PICK i \in 1 .. n : new.report.protection[i].channel = first
            <4>1. others[1].channel = first
                BY <1>4, <3>1
            <4>2. first \in {others[i].channel : i \in DOMAIN others}
                BY <1>3, <3>1, <4>1
            <4>3. first \in {new.report.protection[i].channel : i \in DOMAIN new.report.protection}
                BY ZenonT(40), <2>1, <2>3, <4>2
            <4>. QED
                BY <3>2, <4>3
        <3>5. c = first
            BY <1>5, <3>1, <3>2, <3>3, <3>4
        <3>6. \A j \in 1 .. n :
                 /\ new.report.protection[j].channel = list[j].channel
                 /\ \A f \in Latches : new.report.protection[j][f] = list[j][f]
            BY <3>2, <3>3, <3>5
        <3>7. \A j \in 1 .. n :
                 /\ list[j].channel \in now.channels
                 /\ \A f \in Latches :
                       /\ <<list[j].channel, f>> \in now.report.seen => list[j][f]
                       /\ list[j][f] => s[list[j].channel][f]
            BY <1>3, <1>6 DEF Truthful
        <3>8. \A d \in now.channels : \E j \in 1 .. n : list[j].channel = d
            BY <1>3, <1>6 DEF Truthful
        <3>. DEFINE changed == new.report.protection
        <3>9. new.report.seen = now.report.seen
            BY <1>8
        <3>. HIDE DEF changed, list
        <3>10. ASSUME NEW j \in 1 .. n
               PROVE  /\ changed[j].channel \in now.channels
                      /\ \A f \in Latches :
                            /\ <<changed[j].channel, f>> \in now.report.seen => changed[j][f]
                            /\ changed[j][f] => s[changed[j].channel][f]
            <4>1. changed[j].channel = list[j].channel
                BY <3>6 DEF changed
            <4>2. \A f \in Latches : changed[j][f] = list[j][f]
                BY <3>6 DEF changed
            <4>. QED
                BY <3>7, <4>1, <4>2
        <3>11. \A d \in now.channels : \E j \in 1 .. n : changed[j].channel = d
            <4>1. \A j \in 1 .. n : changed[j].channel = list[j].channel
                BY <3>6 DEF changed
            <4>. QED
                BY <3>8, <4>1
        <3>12. DOMAIN changed = 1 .. n
            BY <3>2 DEF changed
        <3>. QED
            BY <3>9, <3>10, <3>11, <3>12 DEF Truthful, changed
    <2>. QED
        BY <1>8, <2>2, <2>3
<1>10. Totals(new, s)
    <2>1. \A f \in Latches : new.report[f] = now.report[f]
        BY <1>8 DEF Latches
    <2>. QED
        BY <1>6, <1>8, <2>1 DEF Totals
<1>. QED
    BY <1>7, <1>8, <1>9, <1>10 DEF Reported

(* What the manual operation asks for, and what is being read.             *)
ReportInv ==
    /\ SupplyInv /\ Reports
    /\ manual.at = "status" =>
          /\ job["manual"].tool = "powers" /\ job["manual"].command = "protection-status"
          /\ job["manual"].channels = Channels

(* A command that is given to a Worker of the supply reads nothing yet.    *)
LEMMA CommandReads ==
    ASSUME SupplyInv, Reports, NEW o \in Operations, NEW command, NEW channels,
           Command(o, command, channels), channels \subseteq Channels, UNCHANGED supply
    PROVE  /\ Reports'
           /\ job'[o].tool = "powers" /\ job'[o].command = command /\ job'[o].channels = channels
<1>. DEFINE new == [tool |-> "powers", command |-> command, channels |-> channels, state |-> "working",
                    todo |-> IF command = "protection-status" THEN Registers(channels) ELSE channels,
                    report |-> [seen |-> Tripped, ov |-> FALSE, oc |-> FALSE,
                                protection |-> <<>>, outputs |-> <<>>]]
<1>1. job' = [job EXCEPT ![o] = new] /\ DOMAIN job = Operations
    BY DEF Command, SupplyInv, Fields
<1>2. /\ new.tool = "powers" /\ new.command = command /\ new.channels = channels /\ new.state = "working"
      /\ new.report = [seen |-> Tripped, ov |-> FALSE, oc |-> FALSE, protection |-> <<>>, outputs |-> <<>>]
      /\ command = "protection-status" => new.todo = channels \cup {0}
    BY DEF Registers
<1>. HIDE DEF new
<1>3. /\ Tripped \subseteq Channels \X Latches
      /\ \A c \in Channels, f \in Latches : <<c, f>> \in Tripped => supply[c][f]
    BY DEF Tripped, Latches
<1>4. command = "protection-status" => Reported(new, supply)
    BY <1>2, <1>3, ReadingBegins
<1>5. job'[o] = new /\ \A p \in Operations : p # o => job'[p] = job[p]
    BY <1>1
<1>. QED
    BY <1>2, <1>4, <1>5 DEF Reports

(* A Worker of the supply at work: it reads, or it ends.                   *)
LEMMA PowersReads ==
    ASSUME SupplyInv, Reports, NEW o \in Operations, PowersWorker(o),
           job[o].command = "protection-status"
    PROVE  UNCHANGED supply /\ Reported(job'[o], supply) /\ job'[o].channels = job[o].channels
<1>. DEFINE now == job[o]
            new == job'[o]
<1>1. now.state = "working" /\ Reported(now, supply)
    BY DEF PowersWorker, Reports
<1>2. DOMAIN job = Operations /\ DOMAIN now = {"tool", "command", "channels", "todo", "report", "state"}
    BY DEF SupplyInv, Fields
<1>3. ASSUME NEW r, NEW report, Advance(o, r, report)
      PROVE  /\ new.channels = now.channels /\ new.state = now.state
             /\ new.todo = now.todo \ {r} /\ new.report = report
    BY <1>2, <1>3 DEF Advance
<1>4. CASE ReadRegister(o)
    <2>1. UNCHANGED supply
        BY <1>4 DEF ReadRegister
    <2>2. CASE Advance(o, 0, [now.report EXCEPT !.ov = \E c \in now.channels : supply[c].ov,
                                               !.oc = \E c \in now.channels : supply[c].oc])
        <3>1. /\ new.channels = now.channels /\ new.state = now.state /\ new.todo = now.todo \ {0}
              /\ new.report = [now.report EXCEPT !.ov = \E c \in now.channels : supply[c].ov,
                                                 !.oc = \E c \in now.channels : supply[c].oc]
            BY <1>3, <2>2
        <3>. HIDE DEF now, new
        <3>2. Reported(new, supply)
            BY <1>1, <3>1, TotalIsRead
        <3>. QED
            BY <2>1, <3>1, <3>2 DEF now, new
    <2>3. ASSUME NEW c \in now.todo \ {0},
                 Advance(o, c,
                     [now.report EXCEPT
                         !.protection = Append(@, [channel |-> c, ov |-> supply[c].ov, oc |-> supply[c].oc]),
                         !.outputs = Append(@, [channel |-> c, on |-> supply[c].on])])
          PROVE  Reported(new, supply) /\ new.channels = now.channels
        <3>1. /\ new.channels = now.channels /\ new.state = now.state /\ new.todo = now.todo \ {c}
              /\ new.report = [now.report EXCEPT
                     !.protection = Append(@, [channel |-> c, ov |-> supply[c].ov, oc |-> supply[c].oc]),
                     !.outputs = Append(@, [channel |-> c, on |-> supply[c].on])]
            BY <1>3, <2>3
        <3>. HIDE DEF now, new
        <3>2. Reported(new, supply)
            BY <1>1, <3>1, ChannelIsRead
        <3>. QED
            BY <3>1, <3>2
    <2>. QED
        BY <1>4, <2>1, <2>2, <2>3 DEF ReadRegister
<1>5. CASE WorkerEnds(o) /\ UNCHANGED supply
    <2>1. CASE job' = [job EXCEPT ![o].state = "failed"]
        <3>1. /\ new.channels = now.channels /\ new.todo = now.todo /\ new.report = now.report
              /\ new.state = "failed"
            BY <1>2, <2>1
        <3>. HIDE DEF now, new
        <3>2. Truthful(new, supply) /\ Paired(new)
            BY <1>1, <3>1 DEF Reported, Truthful, Paired
        <3>3. Totals(now, supply) => Totals(new, supply)
            BY <3>1 DEF Totals
        <3>4. Reported(new, supply)
            BY <1>1, <3>1, <3>2, <3>3 DEF Reported
        <3>. QED
            BY <1>5, <3>1, <3>4 DEF now, new
    <2>2. CASE now.todo = {} /\ job' = [job EXCEPT ![o].state = "succeeded"]
        <3>1. /\ new.channels = now.channels /\ new.todo = now.todo /\ new.report = now.report
              /\ new.state = "succeeded"
            BY <1>2, <2>2
        <3>2. now.todo = {}
            BY <2>2
        <3>. HIDE DEF now, new
        <3>3. Totals(now, supply) => Totals(new, supply)
            BY ONLY <3>1 DEF Totals
        <3>4. protection_report_is_accepted(new.report) => Truthful(new, supply)
            <4>1. Truthful(now, supply) => Truthful(new, supply)
                BY ONLY <3>1 DEF Truthful
            <4>. QED
                BY ONLY <1>1, <3>1, <4>1 DEF Reported
        <3>6. Reported(new, supply)
            BY ONLY <1>1, <3>1, <3>2, <3>3, <3>4 DEF Reported
        <3>. QED
            BY <1>5, <3>1, <3>6 DEF now, new
    <2>3. CASE /\ now.todo = {} /\ now.command = "protection-status" /\ Len(now.report.protection) > 1
               /\ \E report \in Garbled(now.report) :
                     job' = [job EXCEPT ![o].state = "succeeded", ![o].report = report]
        <3>1. /\ new.channels = now.channels /\ new.todo = {} /\ new.report \in Garbled(now.report)
              /\ new.state = "succeeded"
            BY <1>2, <2>3
        <3>2. now.todo = {} /\ Len(now.report.protection) > 1
            BY <2>3
        <3>. HIDE DEF now, new
        <3>3. Reported(new, supply)
            BY <1>1, <3>1, <3>2, GarbledIsRefused
        <3>. QED
            BY <1>5, <3>1, <3>3 DEF now, new
    <2>. QED
        BY <1>5, <2>1, <2>2, <2>3 DEF WorkerEnds
<1>. QED
    BY <1>4, <1>5 DEF PowersWorker, WriteRegister

(* What is shown of a report that has been accepted.                       *)
ShownTrips(status) ==
    {latch \in Channels \X {"ov", "oc"} :
        \E entry \in status.channels : entry.channel = latch[1] /\ entry[latch[2]]}

(* It is what was read.                                                    *)
LEMMA AnswerIsTruthful ==
    ASSUME NEW now, NEW s, Reported(now, s), now.state = "succeeded", now.channels = Channels,
           protection_report_is_accepted(now.report),
           NEW status, status = parse_protection_status(now.report)
    PROVE  /\ now.report.seen \subseteq ShownTrips(status)
           /\ \A latch \in ShownTrips(status) : latch \in Channels \X Latches /\ s[latch[1]][latch[2]]
           /\ status.tripped <=> ShownTrips(status) # {}
<1>. DEFINE list == now.report.protection
            tripped == ShownTrips(status)
<1>0. /\ tripped \subseteq Channels \X Latches
      /\ \A c \in Channels, f \in Latches :
            <<c, f>> \in tripped <=> \E entry \in status.channels : entry.channel = c /\ entry[f]
    BY DEF ShownTrips, Latches
<1>. HIDE DEF tripped
<1>1. now.todo = {} /\ Truthful(now, s)
    BY DEF Reported
<1>2. now.report.seen \subseteq Channels \X Latches
    BY DEF Reported
<1>3. ASSUME NEW c \in Channels, NEW f \in Latches
      PROVE  <<c, f>> \in tripped <=> \E i \in DOMAIN list : list[i].channel = c /\ list[i][f]
    <2>1. <<c, f>> \in tripped <=> \E entry \in status.channels : entry.channel = c /\ entry[f]
        BY <1>0
    <2>. DEFINE on(i) == \E j \in DOMAIN now.report.outputs :
                            now.report.outputs[j].channel = list[i].channel /\ now.report.outputs[j].on
                entry(i) == [channel |-> list[i].channel, on |-> on(i), ov |-> list[i].ov, oc |-> list[i].oc]
    <2>2. status.channels = {entry(i) : i \in DOMAIN list}
        BY DEF parse_protection_status
    <2>3. ASSUME NEW i \in DOMAIN list
          PROVE  entry(i).channel = list[i].channel /\ (entry(i)[f] <=> list[i][f])
        <3>1. CASE f = "ov"
            BY <3>1
        <3>2. CASE f = "oc"
            BY <3>2
        <3>. QED
            BY <3>1, <3>2 DEF Latches
    <2>. HIDE DEF entry
    <2>. QED
        BY <2>1, <2>2, <2>3
<1>4. ASSUME NEW c \in Channels, NEW f \in Latches, <<c, f>> \in now.report.seen
      PROVE  <<c, f>> \in tripped
    <2>1. PICK i \in DOMAIN list : list[i].channel = c
        BY <1>1 DEF Truthful
    <2>2. list[i][f]
        BY <1>1, <1>4, <2>1 DEF Truthful
    <2>. QED
        BY <1>3, <2>1, <2>2
<1>5. \A c \in Channels, f \in Latches : <<c, f>> \in tripped => s[c][f]
    BY <1>1, <1>3 DEF Truthful
<1>6. status.tripped <=> \E f \in Latches : \E i \in DOMAIN list : list[i][f]
    <2>1. status.tripped <=> now.report.ov \/ now.report.oc
        BY DEF parse_protection_status
    <2>2. now.report.ov <=> \E i \in DOMAIN list : list[i].ov
        BY DEF protection_report_is_accepted, Flags
    <2>3. now.report.oc <=> \E i \in DOMAIN list : list[i].oc
        BY DEF protection_report_is_accepted, Flags
    <2>. QED
        BY <2>1, <2>2, <2>3 DEF Latches
<1>7. status.tripped <=> tripped # {}
    <2>2. \A i \in DOMAIN list : list[i].channel \in Channels
        BY <1>1 DEF Truthful
    <2>3. ASSUME status.tripped
          PROVE  tripped # {}
        <3>1. PICK f \in Latches, i \in DOMAIN list : list[i][f]
            BY <1>6, <2>3
        <3>2. <<list[i].channel, f>> \in tripped
            BY <1>3, <2>2, <3>1
        <3>. QED
            BY <3>2
    <2>4. ASSUME tripped # {}
          PROVE  status.tripped
        <3>1. PICK c \in Channels, f \in Latches : <<c, f>> \in tripped
            BY <1>0, <2>4
        <3>. QED
            BY <1>3, <1>6, <3>1
    <2>. QED
        BY <2>3, <2>4
<1>8. ASSUME NEW latch \in now.report.seen
      PROVE  latch \in tripped
    <2>1. PICK c \in Channels, f \in Latches : latch = <<c, f>>
        BY <1>2
    <2>. QED
        BY <1>4, <2>1
<1>9. ASSUME NEW latch \in tripped
      PROVE  latch \in Channels \X Latches /\ s[latch[1]][latch[2]]
    <2>1. PICK c \in Channels, f \in Latches : latch = <<c, f>>
        BY <1>0
    <2>. QED
        BY <1>5, <2>1
<1>. QED
    BY <1>7, <1>8, <1>9 DEF tripped

(* A report that is not being read stays as true as it was.                *)
LEMMA ReportsStay ==
    ASSUME SupplyInv, Reports, [Next]_vars, NEW o \in Operations,
           job[o].tool = "powers", job[o].command = "protection-status"
    PROVE  Reported(job[o], supply')
<1>1. \A c \in Channels, f \in Latches : supply[c][f] /\ ~supply'[c][f] => Clearing
    BY BenchKeepsSupply DEF Latches
<1>2. ~Clearing
    BY DEF Clearing, SupplyInv, Exclusive, NoJob, Operations
<1>3. Reported(job[o], supply)
    BY DEF Reports
<1>. QED
    BY <1>1, <1>2, <1>3, ReadingStays

(* The steps of the manual operation; only an answer is shown.             *)
LEMMA ManualKeepsReports ==
    ASSUME ReportInv, Manual
    PROVE  ReportInv' /\ (PanelIsTruthful => PanelIsTruthful')
<1>1. SupplyInv' /\ UNCHANGED supply
    BY ManualKeepsSupply DEF ReportInv
<1>2. DOMAIN job = Operations /\ DOMAIN manual = {"at", "clear", "live"}
    BY DEF ReportInv, SupplyInv, Fields
<1>3. CASE BeginManual
    <2>1. UNCHANGED <<job, panel>> /\ manual'.at = "start"
        BY <1>3 DEF BeginManual
    <2>. QED
        BY <1>1, <2>1 DEF ReportInv, Reports, PanelIsTruthful
<1>4. ASSUME NEW at, NEW command, NEW channels, Issue(at, command, channels), channels \subseteq Channels,
             at = "status" => command = "protection-status" /\ channels = Channels
      PROVE  ReportInv' /\ (PanelIsTruthful => PanelIsTruthful')
    <2>1. manual'.at = at /\ UNCHANGED panel /\ Command("manual", command, channels) /\ "manual" \in Operations
        BY <1>2, <1>4 DEF Issue, Operations
    <2>2. /\ Reports'
          /\ job'["manual"].tool = "powers" /\ job'["manual"].command = command
          /\ job'["manual"].channels = channels
        BY <1>1, <1>4, <2>1, CommandReads DEF ReportInv
    <2>. QED
        BY <1>1, <1>4, <2>1, <2>2 DEF ReportInv, PanelIsTruthful
<1>5. ASSUME Leave
      PROVE  ReportInv' /\ (PanelIsTruthful => PanelIsTruthful')
    <2>1. UNCHANGED <<job, panel>> /\ manual'.at = "shutdown"
        BY <1>2, <1>5 DEF Leave
    <2>. QED
        BY <1>1, <2>1 DEF ReportInv, Reports, PanelIsTruthful
<1>6. ASSUME NEW answer, Over(answer)
      PROVE  ReportInv' /\ panel' = answer
    <2>1. /\ manual'.at = "idle" /\ panel' = answer
          /\ job'["manual"] = NoJob /\ job'["run"] = job["run"]
        BY <1>2, <1>6 DEF Over, NoSession, Operations
    <2>. QED
        BY <1>1, <2>1 DEF ReportInv, Reports, NoJob, Operations
<1>7. CASE StartManual
    <2>1. CASE Over(NothingShown)
        BY <1>6, <2>1 DEF PanelIsTruthful, NothingShown
    <2>. QED
        BY <1>4, <1>7, <2>1 DEF StartManual
<1>8. CASE ClearManual
    <2>1. CASE Leave
        BY <1>5, <2>1
    <2>2. CASE Issue("clear", "clear-protection", {manual.clear})
        <3>1. manual'.at = "clear" /\ UNCHANGED panel /\ Command("manual", "clear-protection", {manual.clear})
            BY <1>2, <2>2 DEF Issue
        <3>2. /\ job'["manual"].command = "clear-protection"
              /\ job'["run"] = job["run"]
            BY <1>2, <3>1 DEF Command, Operations
        <3>. QED
            BY <1>1, <3>1, <3>2 DEF ReportInv, Reports, PanelIsTruthful, Operations
    <2>. QED
        BY <1>8, <2>1, <2>2 DEF ClearManual
<1>9. CASE Cleared
    BY <1>4, <1>5, <1>9 DEF Cleared
<1>10. CASE Answer
    <2>1. CASE Leave
        BY <1>5, <2>1
    <2>. DEFINE now == job["manual"]
                status == parse_protection_status(now.report)
                answer == [live |-> manual.live, status |-> status, before |-> now.report.seen, after |-> Tripped]
    <2>2. CASE Succeeded("manual") /\ protection_report_is_accepted(now.report) /\ Over(answer)
        <3>1. /\ Reported(now, supply) /\ now.state = "succeeded" /\ now.channels = Channels
            BY <1>10, <2>2 DEF ReportInv, Reports, Answer, Succeeded, Operations
        <3>7. protection_report_is_accepted(now.report)
            BY <2>2
        <3>. HIDE DEF now
        <3>2. /\ now.report.seen \subseteq ShownTrips(status)
              /\ \A latch \in ShownTrips(status) : latch \in Channels \X Latches /\ supply[latch[1]][latch[2]]
              /\ status.tripped <=> ShownTrips(status) # {}
            BY <3>1, <3>7, AnswerIsTruthful
        <3>3. ShownTrips(status) \subseteq Tripped
            BY <3>2 DEF Tripped, Latches
        <3>4. panel' = answer
            BY <1>6, <2>2
        <3>. HIDE DEF status
        <3>5. /\ panel'.status = status /\ panel'.before = now.report.seen /\ panel'.after = Tripped
            BY <3>4
        <3>6. PanelIsTruthful'
            BY <3>2, <3>3, <3>5 DEF PanelIsTruthful, ShownTrips
        <3>. QED
            BY <1>6, <2>2, <3>6
    <2>. QED
        BY <1>10, <2>1, <2>2 DEF Answer
<1>11. CASE ShutdownManual
    BY <1>6, <1>11 DEF ShutdownManual, PanelIsTruthful, NothingShown
<1>. QED
    BY <1>3, <1>7, <1>8, <1>9, <1>10, <1>11 DEF Manual

(* Every step: what is read is read off the supply.                        *)
LEMMA NextKeepsReports ==
    ASSUME ReportInv, [Next]_vars
    PROVE  ReportInv' /\ (PanelIsTruthful => PanelIsTruthful')
<1>1. SupplyInv' /\ SupplyInv /\ Reports
    BY BenchKeepsSupply DEF ReportInv
<1>2. DOMAIN job = Operations /\ \A o \in Operations :
          DOMAIN job[o] = {"tool", "command", "channels", "todo", "report", "state"}
    BY <1>1 DEF SupplyInv, Fields
<1>3. ASSUME UNCHANGED <<manual, panel>>,
             \A o \in Operations :
                 \/ job'[o] = job[o]
                 \/ o # "manual" /\ (job'[o].tool # "powers" \/ job'[o].command # "protection-status")
      PROVE  ReportInv' /\ (PanelIsTruthful => PanelIsTruthful')
    <2>1. Reports'
        BY <1>1, <1>3, ReportsStay DEF Reports
    <2>2. job'["manual"] = job["manual"]
        BY <1>3 DEF Operations
    <2>. QED
        BY <1>1, <1>3, <2>1, <2>2 DEF ReportInv, PanelIsTruthful
<1>4. CASE Trip
    BY <1>3, <1>4 DEF Trip
<1>5. CASE BeginRun
    BY <1>3, <1>5 DEF BeginRun
<1>6. CASE EndRun
    BY <1>2, <1>3, <1>6 DEF EndRun, NoJob, Operations
<1>7. CASE Act
    <2>1. UNCHANGED <<supply, manual, panel>>
        BY <1>7 DEF Act
    <2>2. CASE Drive
        <3>1. Command("run", worker_command(Current.action), Asked(Arguments)) /\ Asked(Arguments) \subseteq Channels
            BY <2>2 DEF Drive, Asked
        <3>2. Reports'
            BY <1>1, <2>1, <3>1, CommandReads DEF Operations
        <3>3. job'["manual"] = job["manual"]
            BY <1>2, <3>1 DEF Command, Operations
        <3>. QED
            BY <1>1, <2>1, <3>2, <3>3 DEF ReportInv, PanelIsTruthful
    <2>3. CASE Aim
        BY <1>2, <1>3, <2>1, <2>3 DEF Aim, NoJob, Operations
    <2>4. CASE Talk
        BY <1>2, <1>3, <2>1, <2>4 DEF Talk, NoJob, Operations
    <2>5. CASE UNCHANGED job
        BY <1>3, <2>1, <2>5
    <2>6. Drive \/ Aim \/ Talk \/ UNCHANGED job
        BY <1>7 DEF Act, Wait, Refuse, Trigger, Driven, Aimed, Talked, Sample
    <2>. QED
        BY <2>2, <2>3, <2>4, <2>5, <2>6
<1>8. ASSUME NEW o \in Operations, PowersWorker(o)
      PROVE  ReportInv' /\ (PanelIsTruthful => PanelIsTruthful')
    <2>1. UNCHANGED <<manual, panel>>
        BY <1>8 DEF PowersWorker
    <2>2. /\ \A p \in Operations : p # o => job'[p] = job[p]
          /\ job'[o].command = job[o].command /\ job'[o].tool = job[o].tool
        <3>1. CASE \E r, report : Advance(o, r, report)
            BY <1>2, <3>1 DEF Advance
        <3>2. CASE WorkerEnds(o)
            BY <1>2, <3>2 DEF WorkerEnds
        <3>. QED
            BY <1>8, <3>1, <3>2 DEF PowersWorker, WriteRegister, ReadRegister
    <2>3. CASE job[o].command = "protection-status"
        <3>1. UNCHANGED supply /\ Reported(job'[o], supply) /\ job'[o].channels = job[o].channels
            BY <1>1, <1>8, <2>3, PowersReads
        <3>2. Reports'
            BY <1>1, <2>2, <3>1 DEF Reports
        <3>. QED
            BY <1>1, <2>1, <2>2, <3>1, <3>2 DEF ReportInv, PanelIsTruthful, Operations
    <2>4. CASE job[o].command # "protection-status"
        <3>1. Reports'
            BY <1>1, <2>2, <2>4, ReportsStay DEF Reports
        <3>2. manual.at = "status" => o # "manual"
            BY <2>4 DEF ReportInv
        <3>. QED
            BY <1>1, <2>1, <2>2, <3>1, <3>2 DEF ReportInv, PanelIsTruthful, Operations
    <2>. QED
        BY <2>3, <2>4
<1>9. CASE MeterWorker
    BY <1>3, <1>9 DEF MeterWorker
<1>10. CASE ScopesWorker
    BY <1>2, <1>3, <1>10 DEF ScopesWorker, Operations
<1>11. CASE SerialWorker
    BY <1>2, <1>3, <1>11 DEF SerialWorker, Operations
<1>12. CASE UNCHANGED bench
    BY <1>3, <1>12 DEF bench
<1>13. CASE BenchStep
    BY <1>4, <1>5, <1>6, <1>7, <1>8, <1>9, <1>10, <1>11, <1>13, ManualKeepsReports DEF BenchStep
<1>. QED
    BY <1>12, <1>13 DEF Next, Writing, Open, Preparing, Working, Talking, Looking, Feeding, Used, vars

-----------------------------------------------------------------------------
(* The results of a run.  Each is kept at its step's own place, and what   *)
(* is under way belongs to the step that is current.                       *)

Kinds == {"output", "meta"}

\* result, of the step at place i, is real while the files are d.
IsReal(result, i, step, d) ==
    /\ Has(result, "channel") => result.channel = step.arguments.channel.of[1]
    /\ Has(result, "trigger") => result.trigger = i
    /\ Has(result, "tripped") => (result.before => result.tripped) /\ (result.tripped => result.after)
    /\ Has(result, "name") =>
          /\ result.kinds \subseteq Kinds
          /\ \A kind \in result.kinds : result.name \in Names /\ d[result.name][kind] = i

AllReal == \A i \in DOMAIN actions.results : IsReal(actions.results[i], i, steps[i], disk)

\* There is one result for each step that is done.
OnePerStep ==
    /\ \E S : steps \in Seq(S)
    /\ \E S : actions.results \in Seq(S)
    /\ actions.next \in Nat \ {0} /\ Len(actions.results) = actions.next - 1
    /\ ~opened => actions.at \in {"ready", "off"} /\ actions.results = <<>>

OtherEvents == [event : {"status", "message", "error", "summary", "foreign"}, trigger : {Old}]

\* At most one trigger is out, that of the current step, and its sample is last.
Metered ==
    LET answer == [event |-> "sample", trigger |-> actions.next]
    IN /\ DOMAIN meter = {"pending", "queue"}
       /\ actions.at \notin {"sample", "ending"} => meter.pending = {} /\ meter.queue = <<>>
       /\ actions.at = "sample" =>
             \/ meter.pending = {actions.next} /\ meter.queue = <<>>
             \/ meter.pending = {actions.next} /\ \E e \in OtherEvents : meter.queue = <<e>>
             \/ meter.pending = {} /\ meter.queue = <<answer>>
             \/ meter.pending = {} /\ \E e \in OtherEvents : meter.queue = <<e, answer>>

\* The supply is asked what the current step asks.
Driving ==
    actions.at = "job" =>
        /\ actions.next \in ToolActions
        /\ ToolOf(Current) = "powers" =>
              /\ job["run"].tool = "powers" /\ job["run"].command = worker_command(Current.action)
              /\ job["run"].channels = Asked(Arguments)

\* The files that are being written are those of the current step alone.
Filing ==
    /\ DOMAIN disk = Names /\ \A n \in Names : DOMAIN disk[n] = Kinds
    /\ actions.at = "job" /\ ToolOf(Current) = "scopes" =>
          \A kind \in FileKinds(Current.action) :
              actions.name \in Names /\ disk[actions.name][kind] \in {None, actions.next}
    /\ job["run"].tool = "scopes" /\ job["run"].state = "working" =>
          /\ actions.at \in {"job", "ending"}
          /\ \A kind \in job["run"].todo :
                /\ kind \in Kinds /\ actions.name \in Names
                /\ \A i \in DOMAIN actions.results :
                      Has(actions.results[i], "name") /\ actions.results[i].kinds # {} =>
                          actions.results[i].name # actions.name

RunInv == OnePerStep /\ AllReal /\ Metered /\ Driving /\ Filing

\* The result of a step is kept.
LEMMA ResultIsKept ==
    ASSUME SupplyInv, OnePerStep, AllReal, opened, NEW result, Keep(result),
           IsReal(result, actions.next, Current, disk), UNCHANGED <<steps, disk, opened>>
    PROVE  /\ OnePerStep' /\ AllReal'
           /\ actions'.at = "step"
<1>. DEFINE list == actions.results
            longer == Append(list, result)
            n == actions.next
<1>1. DOMAIN actions = {"at", "next", "results", "name"}
    BY DEF SupplyInv, Fields
<1>2. actions'.at = "step" /\ actions'.next = n + 1 /\ actions'.results = longer
    BY <1>1 DEF Keep
<1>3. PICK S : list \in Seq(S)
    BY DEF OnePerStep
<1>4. n \in Nat \ {0} /\ Len(list) = n - 1
    BY DEF OnePerStep
<1>5. list \in Seq(S \cup {result}) /\ result \in S \cup {result}
    BY <1>3
<1>6. /\ longer \in Seq(S \cup {result})
      /\ Len(longer) = n
      /\ \A i \in 1 .. n - 1 : longer[i] = list[i]
      /\ longer[n] = result
    BY <1>4, <1>5, AppendProperties
<1>. HIDE DEF longer, n
<1>7. DOMAIN longer = 1 .. n /\ DOMAIN list = 1 .. n - 1
    BY <1>3, <1>4, <1>6
<1>8. OnePerStep'
    BY <1>2, <1>4, <1>6 DEF OnePerStep
<1>9. ASSUME NEW i \in 1 .. n
      PROVE  IsReal(longer[i], i, steps[i], disk)
    <2>1. CASE i = n
        BY <1>6, <2>1 DEF Current, n
    <2>2. CASE i # n
        <3>1. i \in 1 .. n - 1
            BY <1>4, <2>2
        <3>. QED
            BY <1>6, <1>7, <3>1 DEF AllReal
    <2>. QED
        BY <2>1, <2>2
<1>10. AllReal'
    BY <1>2, <1>7, <1>9 DEF AllReal
<1>. QED
    BY <1>2, <1>8, <1>10

\* A step is done, and nothing is under way.
LEMMA KeepKeepsResults ==
    ASSUME SupplyInv, RunInv, opened, NEW result, Keep(result),
           IsReal(result, actions.next, Current, disk), UNCHANGED <<steps, disk, opened, job>>,
           job["run"].tool = "scopes" => job["run"].state # "working",
           meter'.pending = {} /\ meter'.queue = <<>> /\ DOMAIN meter' = {"pending", "queue"}
    PROVE  RunInv'
<1>1. OnePerStep' /\ AllReal' /\ actions'.at = "step"
    BY ResultIsKept DEF RunInv
<1>2. Metered' /\ Driving'
    BY <1>1 DEF Metered, Driving
<1>3. Filing'
    BY <1>1 DEF RunInv, Filing
<1>. QED
    BY <1>1, <1>2, <1>3 DEF RunInv

\* A failed step has no result.
LEMMA FailKeepsResults ==
    ASSUME SupplyInv, RunInv, opened, Fail, UNCHANGED <<steps, disk, opened, job>>, DOMAIN meter' = DOMAIN meter
    PROVE  RunInv'
<1>1. /\ actions'.at = "ending" /\ actions'.next = actions.next
      /\ actions'.results = actions.results /\ actions'.name = actions.name
    BY DEF Fail, SupplyInv, Fields
<1>2. OnePerStep' /\ AllReal'
    BY <1>1 DEF RunInv, OnePerStep, AllReal
<1>3. Metered' /\ Driving'
    BY <1>1 DEF RunInv, Metered, Driving
<1>4. Filing'
    BY <1>1 DEF RunInv, Filing
<1>. QED
    BY <1>2, <1>3, <1>4 DEF RunInv

\* The channel of a measurement is not computed.
LEMMA MeasuredAsWritten ==
    ASSUME Sound, actions.next \in ToolActions, ToolOf(Current) = "powers", Current.action = "measure"
    PROVE  Arguments.channel = Current.arguments.channel
<1>1. Current.bindings = NoBindings /\ Has(Current.arguments, "channel")
    BY DEF Sound, Current, ToolOf
<1>2. ~Has(Current.bindings, "tx_value") /\ ~Has(Current.bindings, "channel")
    BY <1>1 DEF NoBindings, Has
<1>3. Arguments = resolve_tool_arguments(Current.arguments, Current.bindings)
    BY <1>2 DEF Arguments, tool_arguments, truncate_dynamic_integer_argument
<1>. QED
    BY <1>1, <1>2, <1>3 DEF resolve_tool_arguments, Has

\* The total of a report stands for the channels that were asked for.
LEMMA TotalIsOfTheAsked ==
    ASSUME ReportInv, Driving, actions.at = "job", ToolOf(Current) = "powers",
           Current.action = "protection-status", Succeeded("run")
    PROVE  /\ TrippedOf(job["run"].report.seen) => augment_protection_status(job["run"].report)
           /\ augment_protection_status(job["run"].report) => TrippedOf(Tripped)
<1>. DEFINE now == job["run"]
            asked == Asked(Arguments)
<1>1. now.tool = "powers" /\ now.command = "protection-status" /\ now.channels = asked
    BY DEF Driving, worker_command
<1>2. Reported(now, supply)
    BY <1>1 DEF ReportInv, Reports, Operations
<1>3. now.todo = {} /\ Totals(now, supply) /\ asked \subseteq Channels
    BY <1>1, <1>2 DEF Succeeded, Reported
<1>. HIDE DEF now
<1>4. augment_protection_status(now.report) <=> \E f \in Latches : now.report[f]
    BY DEF augment_protection_status, Latches
<1>5. ASSUME TrippedOf(now.report.seen)
      PROVE  augment_protection_status(now.report)
    <2>1. PICK latch \in asked \X Latches : latch \in now.report.seen
        BY <1>5 DEF TrippedOf, Latches
    <2>2. PICK c \in asked, f \in Latches : latch = <<c, f>>
        BY <2>1
    <2>. QED
        BY <1>1, <1>3, <1>4, <2>1, <2>2 DEF Totals
<1>6. ASSUME augment_protection_status(now.report)
      PROVE  TrippedOf(Tripped)
    <2>1. PICK f \in Latches : now.report[f]
        BY <1>4, <1>6
    <2>2. PICK c \in asked : supply[c][f]
        BY <1>1, <1>3, <2>1 DEF Totals
    <2>3. <<c, f>> \in Tripped /\ <<c, f>> \in asked \X Latches
        BY <1>3, <2>2 DEF Tripped, Latches
    <2>. QED
        BY <2>3 DEF TrippedOf, Latches
<1>. QED
    BY <1>5, <1>6 DEF now

\* The run goes from step to step.
LEMMA ActKeepsResults ==
    ASSUME ReportInv, RunInv, Sound, opened, Act, UNCHANGED <<steps, template, opened>>
    PROVE  RunInv'
<1>. DEFINE n == actions.next
            now == job["run"]
<1>1. SupplyInv /\ OnePerStep /\ AllReal /\ Metered /\ Driving /\ Filing
    BY DEF ReportInv, RunInv
<1>2. /\ DOMAIN actions = {"at", "next", "results", "name"} /\ DOMAIN job = Operations
      /\ DOMAIN meter = {"pending", "queue"}
    BY <1>1 DEF SupplyInv, Fields, Metered
<1>3. IsReal(NoBindings, n, Current, disk)
    BY DEF NoBindings, IsReal, Has
<1>4. ASSUME actions.at = "step"
      PROVE  /\ meter.pending = {} /\ meter.queue = <<>>
             /\ now.tool = "scopes" => now.state # "working"
    BY <1>1, <1>4 DEF Metered, Filing
<1>5. ASSUME actions.at = "step", n <= Len(steps), Current.kind = "tool-action"
      PROVE  n \in ToolActions
    <2>1. PICK S : steps \in Seq(S)
        BY <1>1 DEF OnePerStep
    <2>2. DOMAIN steps = 1 .. Len(steps) /\ Len(steps) \in Nat
        BY <2>1
    <2>3. n \in Nat \ {0}
        BY <1>1 DEF OnePerStep
    <2>. QED
        BY <1>5, <2>2, <2>3 DEF ToolActions, Current
<1>6. ASSUME actions'.at = "job", n \in ToolActions, UNCHANGED <<meter, disk>>,
             meter.pending = {}, meter.queue = <<>>,
             actions'.next = n, actions'.results = actions.results,
             ToolOf(Current) = "powers" =>
                /\ job'["run"].tool = "powers" /\ job'["run"].command = worker_command(Current.action)
                /\ job'["run"].channels = Asked(Arguments),
             Filing'
      PROVE  RunInv'
    <2>1. OnePerStep' /\ AllReal'
        BY <1>1, <1>6 DEF OnePerStep, AllReal
    <2>2. Metered'
        BY <1>2, <1>6 DEF Metered
    <2>3. /\ ToolActions' = ToolActions /\ Current' = Current
          /\ ToolOf(Current)' = ToolOf(Current) /\ Arguments' = Arguments
        BY <1>6 DEF ToolActions, Current, ToolOf, Instance, Named, Indices, Arguments
    <2>4. Asked(Arguments)' = Asked(Arguments)
        BY <2>3 DEF Asked
    <2>5. Driving'
        BY <1>6, <2>3, <2>4 DEF Driving
    <2>. QED
        BY <1>6, <2>1, <2>2, <2>5 DEF RunInv
<1>7. CASE Wait /\ actions.at = "step"
    BY <1>1, <1>2, <1>3, <1>4, <1>7, KeepKeepsResults DEF Wait
<1>8. CASE Refuse
    BY <1>1, <1>8, FailKeepsResults DEF Refuse
<1>9. CASE Drive /\ actions.at = "step" /\ n <= Len(steps)
    <2>1. n \in ToolActions /\ ToolOf(Current) = "powers" /\ UNCHANGED <<meter, disk>>
        BY <1>5, <1>9 DEF Drive, Dispatches
    <2>2. /\ actions'.at = "job" /\ actions'.next = n /\ actions'.results = actions.results
          /\ actions'.name = actions.name
        BY <1>2, <1>9 DEF Drive
    <2>3. /\ job'["run"].tool = "powers" /\ job'["run"].command = worker_command(Current.action)
          /\ job'["run"].channels = Asked(Arguments)
        BY <1>2, <1>9 DEF Drive, Command, Operations
    <2>4. ToolOf(Current)' = ToolOf(Current)
        BY <2>2 DEF Current, ToolOf, Instance, Named, Indices
    <2>5. Filing'
        BY <1>1, <2>1, <2>2, <2>3, <2>4 DEF Filing
    <2>. QED
        BY <1>4, <1>6, <1>9, <2>1, <2>2, <2>3, <2>5
<1>10. CASE Trigger /\ actions.at = "step"
    <2>1. UNCHANGED <<job, disk>> /\ DOMAIN meter' = DOMAIN meter
        BY <1>2, <1>10 DEF Trigger
    <2>2. CASE Fail
        BY <1>1, <2>1, <2>2, FailKeepsResults
    <2>3. CASE /\ actions' = [actions EXCEPT !.at = "sample"]
               /\ meter' = [meter EXCEPT !.pending = @ \cup {n}]
        <3>1. /\ actions'.at = "sample" /\ actions'.next = n /\ actions'.results = actions.results
              /\ actions'.name = actions.name
            BY <1>2, <2>3
        <3>2. meter'.pending = {n} /\ meter'.queue = <<>>
            BY <1>1, <1>4, <1>10, <2>3 DEF Metered
        <3>3. OnePerStep' /\ AllReal'
            BY <1>1, <2>1, <3>1 DEF OnePerStep, AllReal
        <3>4. Metered' /\ Driving'
            BY <1>2, <2>3, <3>1, <3>2 DEF Metered, Driving
        <3>5. Filing'
            BY <1>1, <1>4, <1>10, <2>1, <3>1 DEF Filing
        <3>. QED
            BY <3>3, <3>4, <3>5 DEF RunInv
    <2>. QED
        BY <1>10, <2>2, <2>3 DEF Trigger
<1>11. CASE Aim /\ actions.at = "step" /\ n <= Len(steps)
    <2>1. n \in ToolActions /\ ToolOf(Current) = "scopes" /\ UNCHANGED <<meter, disk>>
        BY <1>5, <1>11 DEF Aim, Dispatches
    <2>2. PICK name \in IF FileKinds(Current.action) = {} THEN {None}
                        ELSE {m \in Names : unique_output_paths(m)} :
             /\ job' = [job EXCEPT !["run"] =
                   [NoJob EXCEPT !.tool = "scopes", !.command = Current.action,
                                 !.todo = FileKinds(Current.action), !.state = "working"]]
             /\ actions' = [actions EXCEPT !.at = "job", !.name = name]
        BY <1>11 DEF Aim
    <2>3. /\ actions'.at = "job" /\ actions'.next = n /\ actions'.results = actions.results
          /\ actions'.name = name
        BY <1>2, <2>2
    <2>4. job'["run"].tool = "scopes" /\ job'["run"].todo = FileKinds(Current.action)
        BY <1>2, <2>2 DEF NoJob, Operations
    <2>5. FileKinds(Current.action) \subseteq Kinds
        BY DEF FileKinds, Kinds
    <2>6. \A kind \in FileKinds(Current.action) : name \in Names /\ \A k \in Kinds : disk[name][k] = None
        BY <1>1, <2>2 DEF unique_output_paths, Filing
    <2>7. Current' = Current
        BY <2>3 DEF Current
    <2>8. ASSUME NEW kind \in FileKinds(Current.action), NEW i \in DOMAIN actions.results,
                 Has(actions.results[i], "name"), actions.results[i].kinds # {}
          PROVE  actions.results[i].name # name
        <3>1. PICK k : k \in actions.results[i].kinds
            BY <2>8
        <3>2. k \in Kinds /\ actions.results[i].name \in Names /\ disk[actions.results[i].name][k] = i
            BY <1>1, <2>8, <3>1 DEF AllReal, IsReal
        <3>3. PICK S : actions.results \in Seq(S)
            BY <1>1 DEF OnePerStep
        <3>4. i \in Nat
            BY <2>8, <3>3
        <3>. QED
            BY <2>6, <3>2, <3>4, BenchAssumption
    <2>9. Filing'
        BY <1>1, <2>1, <2>3, <2>4, <2>5, <2>6, <2>7, <2>8 DEF Filing
    <2>. QED
        BY <1>4, <1>6, <1>11, <2>1, <2>3, <2>9
<1>12. CASE Talk /\ actions.at = "step" /\ n <= Len(steps)
    <2>1. n \in ToolActions /\ ToolOf(Current) = "serial" /\ UNCHANGED <<meter, disk>>
        BY <1>5, <1>12 DEF Talk, Dispatches
    <2>2. /\ actions'.at = "job" /\ actions'.next = n /\ actions'.results = actions.results
          /\ actions'.name = actions.name
        BY <1>2, <1>12 DEF Talk
    <2>3. job'["run"].tool = "serial"
        BY <1>2, <1>12 DEF Talk, NoJob, Operations
    <2>4. ToolOf(Current)' = ToolOf(Current)
        BY <2>2 DEF Current, ToolOf, Instance, Named, Indices
    <2>5. Filing'
        BY <1>1, <2>1, <2>2, <2>3, <2>4 DEF Filing
    <2>. QED
        BY <1>4, <1>6, <1>12, <2>1, <2>2, <2>5
<1>13. CASE actions.at = "job" /\ Driven
    <2>1. UNCHANGED <<job, meter, disk>> /\ ToolOf(Current) = "powers"
        BY <1>13 DEF Driven
    <2>2. meter.pending = {} /\ meter.queue = <<>>
        BY <1>1, <1>13 DEF Metered
    <2>3. CASE Fail
        BY <1>1, <2>1, <2>3, FailKeepsResults
    <2>4. ASSUME Succeeded("run"), NEW result, Keep(result), IsReal(result, n, Current, disk)
          PROVE  RunInv'
        <3>1. now.state # "working"
            BY <2>4 DEF Succeeded
        <3>. QED
            BY <1>1, <1>2, <2>1, <2>2, <2>4, <3>1, KeepKeepsResults
    <2>5. ASSUME Succeeded("run"), Current.action = "measure",
                 NEW reading \in [channel : Channels, voltage : BOOLEAN, current : BOOLEAN],
                 measure_result_is_valid(reading, Arguments.channel.of[1]),
                 Keep([channel |-> reading.channel])
          PROVE  RunInv'
        <3>. DEFINE result == [channel |-> reading.channel]
        <3>1. result.channel = Current.arguments.channel.of[1]
            BY <1>1, <1>13, <2>1, <2>5, MeasuredAsWritten DEF measure_result_is_valid, Driving
        <3>2. DOMAIN result = {"channel"}
            OBVIOUS
        <3>3. Keep(result)
            BY <2>5
        <3>. HIDE DEF result
        <3>4. IsReal(result, n, Current, disk)
            BY <3>1, <3>2 DEF IsReal, Has
        <3>. QED
            BY <2>4, <2>5, <3>3, <3>4
    <2>6. ASSUME Succeeded("run"), Current.action = "protection-status",
                 Keep([tripped |-> augment_protection_status(now.report),
                       before |-> TrippedOf(now.report.seen), after |-> TrippedOf(Tripped)])
          PROVE  RunInv'
        <3>. DEFINE result == [tripped |-> augment_protection_status(now.report),
                               before |-> TrippedOf(now.report.seen), after |-> TrippedOf(Tripped)]
        <3>1. /\ TrippedOf(now.report.seen) => augment_protection_status(now.report)
              /\ augment_protection_status(now.report) => TrippedOf(Tripped)
            BY <1>1, <1>13, <2>1, <2>6, TotalIsOfTheAsked
        <3>2. /\ DOMAIN result = {"tripped", "before", "after"}
              /\ result.before => result.tripped
              /\ result.tripped => result.after
            BY <3>1
        <3>3. Keep(result)
            BY <2>6
        <3>. HIDE DEF result
        <3>4. IsReal(result, n, Current, disk)
            BY <3>2 DEF IsReal, Has
        <3>. QED
            BY <2>4, <2>6, <3>3, <3>4
    <2>7. CASE Succeeded("run") /\ Keep(NoBindings)
        BY <1>3, <2>4, <2>7
    <2>. QED
        BY <1>13, <2>3, <2>5, <2>6, <2>7 DEF Driven
<1>14. CASE actions.at = "job" /\ Aimed
    <2>1. UNCHANGED <<job, meter, disk>> /\ ToolOf(Current) = "scopes"
        BY <1>14 DEF Aimed
    <2>2. meter.pending = {} /\ meter.queue = <<>>
        BY <1>1, <1>14 DEF Metered
    <2>3. CASE Fail
        BY <1>1, <2>1, <2>3, FailKeepsResults
    <2>. DEFINE kinds == FileKinds(Current.action)
                result == [name |-> actions.name, kinds |-> kinds]
    <2>4. CASE Succeeded("run") /\ (\A kind \in kinds : disk[actions.name][kind] # None) /\ Keep(result)
        <3>1. now.state # "working"
            BY <2>4 DEF Succeeded
        <3>2. kinds \subseteq Kinds
            BY DEF FileKinds, Kinds
        <3>3. \A kind \in kinds : actions.name \in Names /\ disk[actions.name][kind] = n
            BY <1>1, <1>14, <2>1, <2>4 DEF Filing
        <3>4. DOMAIN result = {"name", "kinds"} /\ result.name = actions.name /\ result.kinds = kinds
            OBVIOUS
        <3>5. Keep(result)
            BY <2>4
        <3>. HIDE DEF result, kinds
        <3>6. IsReal(result, n, Current, disk)
            BY <3>2, <3>3, <3>4 DEF IsReal, Has
        <3>. QED
            BY <1>1, <1>2, <2>1, <2>2, <3>1, <3>5, <3>6, KeepKeepsResults
    <2>. QED
        BY <1>14, <2>3, <2>4 DEF Aimed
<1>15. CASE actions.at = "job" /\ Talked
    <2>1. UNCHANGED <<job, meter, disk>>
        BY <1>15 DEF Talked
    <2>4. CASE Fail
        BY <1>1, <2>1, <2>4, FailKeepsResults
    <2>2. meter.pending = {} /\ meter.queue = <<>>
        BY <1>1, <1>15 DEF Metered
    <2>3. Succeeded("run") => now.state # "working"
        BY DEF Succeeded
    <2>5. CASE Succeeded("run") /\ Keep(NoBindings)
        BY <1>1, <1>2, <1>3, <2>1, <2>2, <2>3, <2>5, KeepKeepsResults
    <2>. QED
        BY <1>15, <2>4, <2>5 DEF Talked
<1>16. CASE Sample
    <2>1. actions.at = "sample" /\ UNCHANGED <<job, disk>> /\ DOMAIN meter' = DOMAIN meter
        BY <1>2, <1>16 DEF Sample
    <2>2. CASE Fail
        BY <1>1, <2>1, <2>2, FailKeepsResults
    <2>. DEFINE answer == [event |-> "sample", trigger |-> n]
                head == Head(meter.queue)
    <2>3. CASE ~Fail
        <3>1. /\ meter.queue # <<>> /\ meter' = [meter EXCEPT !.queue = Tail(@)]
              /\ CASE classify_meters_event(head.event) = "success" -> Keep([trigger |-> head.trigger])
                   [] classify_meters_event(head.event) = "failure" -> Fail
                   [] OTHER -> UNCHANGED actions
            BY <2>3, <1>16 DEF Sample
        <3>2. CASE meter.pending = {} /\ meter.queue = <<answer>>
            <4>1. head = answer /\ Tail(meter.queue) = <<>>
                BY <3>2
            <4>2. Keep([trigger |-> n])
                BY <3>1, <4>1 DEF classify_meters_event
            <4>. DEFINE result == [trigger |-> n]
            <4>3. DOMAIN result = {"trigger"} /\ result.trigger = n /\ Keep(result)
                BY <4>2
            <4>. HIDE DEF result
            <4>4. IsReal(result, n, Current, disk)
                BY <4>3 DEF IsReal, Has
            <4>5. meter'.pending = {} /\ meter'.queue = <<>> /\ DOMAIN meter' = {"pending", "queue"}
                BY <1>2, <3>1, <3>2, <4>1
            <4>6. now.tool = "scopes" => now.state # "working"
                BY <1>1, <2>1 DEF Filing
            <4>. QED
                BY <1>1, <2>1, <4>3, <4>4, <4>5, <4>6, KeepKeepsResults
        <3>3. ASSUME NEW e \in OtherEvents, head = e,
                     \/ meter.pending = {n} /\ Tail(meter.queue) = <<>>
                     \/ meter.pending = {} /\ Tail(meter.queue) = <<answer>>
              PROVE  RunInv'
            <4>1. UNCHANGED actions
                BY <2>3, <3>1, <3>3 DEF classify_meters_event, OtherEvents
            <4>2. /\ meter'.pending = meter.pending /\ meter'.queue = Tail(meter.queue)
                  /\ DOMAIN meter' = {"pending", "queue"}
                BY <1>2, <3>1
            <4>3. OnePerStep' /\ AllReal' /\ Driving'
                BY <1>1, <2>1, <4>1 DEF OnePerStep, AllReal, Driving
            <4>4. Metered'
                BY <2>1, <3>3, <4>1, <4>2 DEF Metered
            <4>5. Filing'
                BY <1>1, <2>1, <4>1 DEF Filing
            <4>. QED
                BY <4>3, <4>4, <4>5 DEF RunInv
        <3>4. CASE meter.pending = {n} /\ meter.queue = <<>>
            BY <3>1, <3>4
        <3>5. ASSUME NEW e \in OtherEvents, meter.pending = {n} /\ meter.queue = <<e>>
              PROVE  RunInv'
            BY <3>3, <3>5
        <3>6. ASSUME NEW e \in OtherEvents, meter.pending = {} /\ meter.queue = <<e, answer>>
              PROVE  RunInv'
            <4>1. head = e /\ Tail(meter.queue) = <<answer>>
                BY <3>6
            <4>. QED
                BY <3>3, <3>6, <4>1
        <3>. QED
            BY <1>1, <2>1, <3>2, <3>4, <3>5, <3>6 DEF Metered
    <2>. QED
        BY <2>2, <2>3
<1>. QED
    BY <1>7, <1>8, <1>9, <1>10, <1>11, <1>12, <1>13, <1>14, <1>15, <1>16 DEF Act

\* The run is not concerned, but for the command its Worker has.
LEMMA RunIsLeftAlone ==
    ASSUME RunInv, UNCHANGED <<steps, template, opened, actions, meter, disk>>,
           job'["run"].tool = job["run"].tool, job'["run"].command = job["run"].command,
           job'["run"].channels = job["run"].channels, job'["run"].todo \subseteq job["run"].todo,
           job'["run"].state = "working" => job["run"].state = "working"
    PROVE  RunInv'
<1>1. OnePerStep' /\ AllReal' /\ Metered'
    BY DEF RunInv, OnePerStep, AllReal, Metered
<1>2. /\ ToolActions' = ToolActions /\ Current' = Current
      /\ ToolOf(Current)' = ToolOf(Current) /\ Arguments' = Arguments
    BY DEF ToolActions, Current, ToolOf, Instance, Named, Indices, Arguments
<1>3. Asked(Arguments)' = Asked(Arguments)
    BY <1>2 DEF Asked
<1>4. Driving'
    BY <1>2, <1>3 DEF RunInv, Driving
<1>5. Filing'
    BY <1>2 DEF RunInv, Filing
<1>. QED
    BY <1>1, <1>4, <1>5 DEF RunInv

\* A sequence of one grows to one of two.
LEMMA TwoInOrder ==
    ASSUME NEW a, NEW b
    PROVE  Append(<<a>>, b) = <<a, b>>
<1>. DEFINE s == Append(<<a>>, b)
            t == <<a, b>>
<1>1. <<a>> \in Seq({a, b}) /\ b \in {a, b} /\ Len(<<a>>) = 1
    OBVIOUS
<1>2. s \in Seq({a, b}) /\ Len(s) = 2 /\ s[1] = a /\ s[2] = b
    BY <1>1, AppendProperties
<1>3. t \in Seq({a, b}) /\ Len(t) = 2 /\ t[1] = a /\ t[2] = b
    OBVIOUS
<1>. HIDE DEF s, t
<1>4. s = t
    <2>1. \A i \in 1 .. Len(s) : s[i] = t[i]
        BY <1>2, <1>3
    <2>. QED
        BY <1>2, <1>3, <2>1, SeqEqual
<1>. QED
    BY <1>4 DEF s, t

\* The meter measures once for the trigger it took.
LEMMA MeterKeepsResults ==
    ASSUME RunInv, MeterWorker, UNCHANGED <<steps, template, opened>>
    PROVE  RunInv'
<1>. DEFINE answer == [event |-> "sample", trigger |-> actions.next]
<1>1. UNCHANGED <<actions, job, disk>>
    BY DEF MeterWorker
<1>2. /\ ToolActions' = ToolActions /\ Current' = Current
      /\ ToolOf(Current)' = ToolOf(Current) /\ Arguments' = Arguments
    BY <1>1 DEF ToolActions, Current, ToolOf, Instance, Named, Indices, Arguments
<1>3. Asked(Arguments)' = Asked(Arguments)
    BY <1>2 DEF Asked
<1>4. OnePerStep' /\ AllReal' /\ Driving' /\ Filing'
    BY <1>1, <1>2, <1>3 DEF RunInv, OnePerStep, AllReal, Driving, Filing
<1>5. Metered
    BY DEF RunInv
<1>6. ASSUME NEW trigger \in meter.pending,
             meter' = [pending |-> meter.pending \ {trigger},
                       queue |-> Append(meter.queue, [event |-> "sample", trigger |-> trigger])]
      PROVE  Metered'
    <2>1. actions.at \in {"sample", "ending"}
        BY <1>5, <1>6 DEF Metered
    <2>2. DOMAIN meter' = {"pending", "queue"}
        BY <1>6
    <2>3. CASE actions.at = "sample"
        <3>1. meter.pending = {actions.next} /\ trigger = actions.next
            BY <1>5, <1>6, <2>3 DEF Metered
        <3>2. meter'.pending = {} /\ meter'.queue = Append(meter.queue, answer)
            BY <1>6, <3>1
        <3>3. CASE meter.queue = <<>>
            <4>1. meter'.queue = <<answer>>
                BY <3>2, <3>3
            <4>. QED
                BY <1>1, <2>2, <2>3, <3>2, <4>1 DEF Metered
        <3>4. ASSUME NEW e \in OtherEvents, meter.queue = <<e>>
              PROVE  Metered'
            <4>. HIDE DEF answer
            <4>1. Append(<<e>>, answer) = <<e, answer>>
                BY TwoInOrder
            <4>2. meter'.queue = <<e, answer>>
                BY <3>2, <3>4, <4>1
            <4>. USE DEF answer
            <4>. QED
                BY <1>1, <2>2, <2>3, <3>2, <4>2 DEF Metered
        <3>. QED
            BY <1>5, <2>3, <3>1, <3>3, <3>4 DEF Metered
    <2>4. CASE actions.at = "ending"
        BY <1>1, <2>2, <2>4 DEF Metered
    <2>. QED
        BY <2>1, <2>3, <2>4
<1>7. ASSUME meter.queue = <<>>, actions.at = "sample",
             NEW said \in {"status", "message", "error", "summary", "foreign"},
             meter' = [meter EXCEPT !.queue = <<[event |-> said, trigger |-> Old]>>]
      PROVE  Metered'
    <2>1. meter.pending = {actions.next}
        BY <1>5, <1>7 DEF Metered
    <2>. DEFINE e == [event |-> said, trigger |-> Old]
    <2>2. e \in OtherEvents
        BY DEF OtherEvents
    <2>3. meter'.pending = meter.pending /\ meter'.queue = <<e>> /\ DOMAIN meter' = {"pending", "queue"}
        BY <1>5, <1>7 DEF Metered
    <2>. HIDE DEF e
    <2>. QED
        BY <1>1, <1>7, <2>1, <2>2, <2>3 DEF Metered
<1>8. Metered'
    BY <1>6, <1>7 DEF MeterWorker
<1>. QED
    BY <1>4, <1>8 DEF RunInv

\* A file is written for the current step, over none of an earlier one.
LEMMA ScopesKeepResults ==
    ASSUME SupplyInv, RunInv, ScopesWorker, UNCHANGED <<steps, template, opened>>
    PROVE  RunInv'
<1>. DEFINE now == job["run"]
<1>1. /\ now.state = "working" /\ now.tool = "scopes"
      /\ UNCHANGED <<actions, meter>>
    BY DEF ScopesWorker
<1>2. DOMAIN job = Operations /\ DOMAIN now = {"tool", "command", "channels", "todo", "report", "state"}
    BY DEF SupplyInv, Fields, Operations
<1>3. ASSUME NEW state \in {"succeeded", "failed"}, job' = [job EXCEPT !["run"].state = state], UNCHANGED disk
      PROVE  RunInv'
    <2>1. /\ job'["run"].tool = now.tool /\ job'["run"].command = now.command
          /\ job'["run"].channels = now.channels /\ job'["run"].todo = now.todo
        BY <1>2, <1>3 DEF Operations
    <2>. QED
        BY <1>1, <1>3, <2>1, RunIsLeftAlone
<1>4. ASSUME NEW kind \in now.todo, job' = [job EXCEPT !["run"].todo = @ \ {kind}],
             disk' = [disk EXCEPT ![actions.name][kind] = actions.next]
      PROVE  RunInv'
    <2>1. /\ job'["run"].tool = now.tool /\ job'["run"].command = now.command
          /\ job'["run"].channels = now.channels /\ job'["run"].todo = now.todo \ {kind}
        BY <1>2, <1>4 DEF Operations
    <2>2. /\ kind \in Kinds /\ actions.name \in Names
          /\ \A i \in DOMAIN actions.results :
                Has(actions.results[i], "name") /\ actions.results[i].kinds # {} =>
                    actions.results[i].name # actions.name
        BY <1>1, <1>4 DEF RunInv, Filing
    <2>3. DOMAIN disk = Names /\ \A m \in Names : DOMAIN disk[m] = Kinds
        BY DEF RunInv, Filing
    <2>4. /\ DOMAIN disk' = Names /\ \A m \in Names : DOMAIN disk'[m] = Kinds
          /\ \A m \in Names : m # actions.name => disk'[m] = disk[m]
          /\ \A k \in Kinds : k # kind => disk'[actions.name][k] = disk[actions.name][k]
          /\ disk'[actions.name][kind] = actions.next
        BY <1>4, <2>2, <2>3
    <2>5. OnePerStep' /\ Metered'
        BY <1>1 DEF RunInv, OnePerStep, Metered
    <2>6. AllReal'
        BY <1>1, <2>2, <2>4 DEF RunInv, AllReal, IsReal
    <2>7. /\ ToolActions' = ToolActions /\ Current' = Current
          /\ ToolOf(Current)' = ToolOf(Current) /\ Arguments' = Arguments
        BY <1>1 DEF ToolActions, Current, ToolOf, Instance, Named, Indices, Arguments
    <2>8. Asked(Arguments)' = Asked(Arguments)
        BY <2>7 DEF Asked
    <2>9. Driving'
        BY <1>1, <2>1, <2>7, <2>8 DEF RunInv, Driving
    <2>10. FileKinds(Current.action) \subseteq Kinds
        BY DEF FileKinds, Kinds
    <2>11. Filing'
        BY <1>1, <2>1, <2>4, <2>7, <2>10 DEF RunInv, Filing
    <2>. QED
        BY <2>5, <2>6, <2>9, <2>11 DEF RunInv
<1>. QED
    BY <1>3, <1>4 DEF ScopesWorker

\* A run begins, and ends.
LEMMA RunKeepsResults ==
    ASSUME SupplyInv, RunInv, opened, UNCHANGED <<steps, template, opened>>, BeginRun \/ EndRun
    PROVE  RunInv'
<1>1. DOMAIN actions = {"at", "next", "results", "name"} /\ DOMAIN job = Operations
    BY DEF SupplyInv, Fields
<1>2. /\ actions'.at \in {"step", "done"} /\ actions'.next = actions.next
      /\ actions'.results = actions.results /\ actions'.name = actions.name
      /\ UNCHANGED disk
    BY <1>1 DEF BeginRun, EndRun
<1>3. OnePerStep' /\ AllReal' /\ Driving'
    BY <1>2 DEF RunInv, OnePerStep, AllReal, Driving
<1>4. CASE BeginRun
    <2>1. actions.at = "ready" /\ UNCHANGED <<job, meter>>
        BY <1>4 DEF BeginRun
    <2>2. Metered' /\ Filing'
        BY <1>2, <2>1 DEF RunInv, Metered, Filing
    <2>. QED
        BY <1>3, <2>2 DEF RunInv
<1>5. CASE EndRun
    <2>1. /\ meter' = [pending |-> {}, queue |-> <<>>]
          /\ job'["run"] = NoJob
        BY <1>1, <1>5 DEF EndRun, Operations
    <2>2. Metered' /\ Filing'
        BY <1>2, <2>1 DEF RunInv, Metered, Filing, NoJob
    <2>. QED
        BY <1>3, <2>2 DEF RunInv
<1>. QED
    BY <1>4, <1>5

(* Results are real only for the document that was accepted (Settled of     *)
(* DeskInv), so the three invariants are kept together.                    *)
ResultInv == DeskInv /\ ReportInv /\ RunInv

(* What the run's results say survives every step.                         *)
LEMMA NextKeepsResults ==
    ASSUME ResultInv, [Next]_vars
    PROVE  RunInv'
<1>1. SupplyInv /\ DeskInv /\ ReportInv /\ RunInv
    BY DEF ResultInv, ReportInv
<1>2. DOMAIN job = Operations /\ \A o \in Operations :
          DOMAIN job[o] = {"tool", "command", "channels", "todo", "report", "state"}
    BY <1>1 DEF SupplyInv, Fields
<1>3. CASE UNCHANGED <<steps, template, opened, bench>>
    <2>1. UNCHANGED <<actions, meter, disk, job>>
        BY <1>3 DEF bench
    <2>. QED
        BY <1>1, <1>3, <2>1, RunIsLeftAlone
<1>4. CASE Writing
    <2>1. ~opened /\ UNCHANGED <<opened, bench>>
        BY <1>1, <1>4, ScenesAssumption DEF Writing, DeskInv, Settled
    <2>2. UNCHANGED <<actions, meter, disk, job>>
        BY <2>1 DEF bench
    <2>3. PICK S : steps \in Seq(S)
        BY <1>1 DEF RunInv, OnePerStep
    <2>4. \E step : steps' = Append(steps, step)
        BY <1>4 DEF Writing, Read, ReadElse, ReadEnd
    <2>5. \E T : steps' \in Seq(T)
        <3>1. PICK step : steps' = Append(steps, step)
            BY <2>4
        <3>2. steps \in Seq(S \cup {step}) /\ step \in S \cup {step}
            BY <2>3
        <3>3. steps' \in Seq(S \cup {step})
            BY <3>1, <3>2, AppendProperties
        <3>. QED
            BY <3>3
    <2>6. actions.at \in {"ready", "off"} /\ actions.results = <<>>
        BY <1>1, <2>1 DEF RunInv, OnePerStep
    <2>7. OnePerStep' /\ Metered'
        BY <1>1, <2>1, <2>2, <2>5 DEF RunInv, OnePerStep, Metered
    <2>8. AllReal' /\ Driving'
        BY <2>2, <2>6 DEF AllReal, Driving
    <2>9. Filing'
        BY <1>1, <2>2, <2>6 DEF RunInv, Filing
    <2>. QED
        BY <2>7, <2>8, <2>9 DEF RunInv
<1>5. CASE Open
    <2>1. UNCHANGED <<steps, template, actions, meter, disk, job>> /\ opened'
        BY <1>5 DEF Open, bench
    <2>2. /\ ToolActions' = ToolActions /\ Current' = Current
          /\ ToolOf(Current)' = ToolOf(Current) /\ Arguments' = Arguments
        BY <2>1 DEF ToolActions, Current, ToolOf, Instance, Named, Indices, Arguments
    <2>3. Asked(Arguments)' = Asked(Arguments)
        BY <2>2 DEF Asked
    <2>. QED
        BY <1>1, <2>1, <2>2, <2>3 DEF RunInv, OnePerStep, AllReal, Metered, Driving, Filing
<1>6. CASE Working
    <2>1. UNCHANGED <<steps, template, opened>> /\ opened /\ BenchStep
        BY <1>6 DEF Working, Used
    <2>2. Sound
        BY <1>1, <2>1 DEF DeskInv, Settled
    <2>3. CASE Trip
        BY <1>1, <2>1, <2>3, RunIsLeftAlone DEF Trip
    <2>4. CASE Manual
        <3>1. UNCHANGED <<actions, meter, disk>> /\ job'["run"] = job["run"]
            BY <1>2, <2>4 DEF Manual, BeginManual, StartManual, ClearManual, Cleared, Answer,
               ShutdownManual, Issue, Leave, Over, Command, Operations
        <3>. QED
            BY <1>1, <2>1, <3>1, RunIsLeftAlone
    <2>5. CASE BeginRun \/ EndRun
        BY <1>1, <2>1, <2>5, RunKeepsResults
    <2>6. CASE Act
        BY <1>1, <2>1, <2>2, <2>6, ActKeepsResults
    <2>7. ASSUME NEW o \in Operations, PowersWorker(o)
          PROVE  RunInv'
        <3>1. UNCHANGED <<actions, meter, disk>> /\ job[o].state = "working"
            BY <2>7 DEF PowersWorker
        <3>2. /\ \A p \in Operations : p # o => job'[p] = job[p]
              /\ job'[o].tool = job[o].tool /\ job'[o].command = job[o].command
              /\ job'[o].channels = job[o].channels /\ job'[o].todo \subseteq job[o].todo
            <4>1. CASE \E r, report : Advance(o, r, report)
                BY <1>2, <4>1 DEF Advance
            <4>2. CASE WorkerEnds(o)
                BY <1>2, <4>2 DEF WorkerEnds
            <4>. QED
                BY <2>7, <4>1, <4>2 DEF PowersWorker, WriteRegister, ReadRegister
        <3>. QED
            BY <1>1, <2>1, <3>1, <3>2, RunIsLeftAlone DEF Operations
    <2>8. CASE MeterWorker
        BY <1>1, <2>1, <2>8, MeterKeepsResults
    <2>9. CASE ScopesWorker
        BY <1>1, <2>1, <2>9, ScopesKeepResults
    <2>10. CASE SerialWorker
        <3>1. PICK state : job' = [job EXCEPT !["run"].state = state]
            BY <2>10 DEF SerialWorker
        <3>2. /\ UNCHANGED <<actions, meter, disk>> /\ job["run"].state = "working"
              /\ job'["run"].tool = job["run"].tool /\ job'["run"].command = job["run"].command
              /\ job'["run"].channels = job["run"].channels /\ job'["run"].todo = job["run"].todo
            BY <1>2, <2>10, <3>1 DEF SerialWorker, Operations
        <3>. QED
            BY <1>1, <2>1, <3>2, RunIsLeftAlone
    <2>. QED
        BY <2>1, <2>3, <2>4, <2>5, <2>6, <2>7, <2>8, <2>9, <2>10 DEF BenchStep
<1>. QED
    BY <1>3, <1>4, <1>5, <1>6 DEF Next, Preparing, Talking, Looking, Feeding, Used, vars

(* All of it holds when nothing has been written, read or shown.           *)
LEMMA ResultsStart == Init => ResultInv /\ PanelIsTruthful
<1>. SUFFICES ASSUME Init PROVE ResultInv /\ PanelIsTruthful
    OBVIOUS
<1>1. DeskInv /\ SupplyInv
    BY DeskStarts, SupplyStarts
<1>2. /\ steps = <<>> /\ ~opened
      /\ manual = NoSession /\ panel \in {None, NothingShown}
      /\ \E at \in {"ready", "off"} : actions = [at |-> at, next |-> 1, results |-> <<>>, name |-> None]
      /\ job = [o \in Operations |-> NoJob]
      /\ meter = [pending |-> {}, queue |-> <<>>]
      /\ disk = [n \in Names |-> IF n = FirstName THEN [NoFiles EXCEPT !["output"] = Old] ELSE NoFiles]
    BY DEF Init, BenchInit, WorkflowInit
<1>3. Reports /\ manual.at # "status" /\ PanelIsTruthful
    BY <1>2 DEF Reports, NoJob, NoSession, PanelIsTruthful, NothingShown
<1>4. /\ actions.at \in {"ready", "off"} /\ actions.next = 1 /\ actions.results = <<>>
      /\ job["run"].tool = "powers"
    BY <1>2 DEF NoJob, Operations
<1>5. OnePerStep
    <2>1. <<>> \in Seq({}) /\ Len(<<>>) = 0
        OBVIOUS
    <2>. QED
        BY <1>2, <1>4, <2>1 DEF OnePerStep
<1>6. AllReal /\ Metered /\ Driving
    BY <1>2, <1>4 DEF AllReal, Metered, Driving
<1>7. Filing
    BY <1>2, <1>4 DEF Filing, NoFiles, Kinds
<1>. QED
    BY <1>1, <1>3, <1>5, <1>6, <1>7 DEF ResultInv, ReportInv, RunInv

(* What a result or a panel shows is what the instrument did for it, for   *)
(* any document that is accepted, any channels, trips and files: reports   *)
(* are read register by register while the supply trips, may be garbled,   *)
(* and commands may fail, time out or go on after they were given up.      *)
THEOREM WhatIsShownIsReal == Spec => []ShownIsReal
<1>1. ResultInv /\ PanelIsTruthful /\ [Next]_vars => ResultInv' /\ PanelIsTruthful'
    BY NextKeepsRun, NextKeepsReports, NextKeepsResults DEF ResultInv
<1>2. ResultInv /\ PanelIsTruthful => ShownIsReal
    BY DEF ResultInv, RunInv, AllReal, IsReal, ResultsAreReal, ShownIsReal
<1>. QED
    BY <1>1, <1>2, ResultsStart, PTL DEF Spec

-----------------------------------------------------------------------------
(* The software timer.  The predicates are about a dispatcher f, its       *)
(* source s and a clock c.                                                 *)

DispatcherFields ==
    {"config", "pc", "left", "stream", "total", "first", "timer", "called_off", "over", "failed",
     "reply", "current", "sets", "monitor", "arrived", "waited", "runs"}
SourceFields == {"phase", "queue", "left", "made", "ready", "stopped", "hurried"}
TimerFields == {"next", "pending", "deadline", "ready", "end", "stopping"}

Spoken(queue) ==
    /\ \E S : queue \in Seq(S)
    /\ \A i \in 1 .. Len(queue) : queue[i].is \in {"status", "sample", "rx", "summary", "closed"}

Shaped(f, s, c) ==
    /\ DOMAIN f = DispatcherFields /\ DOMAIN s = SourceFields /\ c \in Nat
    /\ Conforms(f.config) /\ s.made \in Nat
    /\ f.pc \in {"off", "command", "events", "triggering", "stopping"}
    /\ f.pc = "triggering" => f.timer # Nothing
    /\ Spoken(s.queue)
    /\ f.timer # Nothing =>
          /\ f.config.interval # 0 /\ DOMAIN f.timer = TimerFields
          /\ {f.timer.next, f.timer.pending} \subseteq Nat /\ f.timer.stopping \in BOOLEAN
          /\ {f.left, f.total, f.waited, s.left, s.ready} \subseteq Nat
          /\ s.stopped \in BOOLEAN

(* What is on its way from a source: its samples in the order of their     *)
(* numbers, none missing, and none after it has said that it ends.         *)
Samples(queue) == {i \in 1 .. Len(queue) : queue[i].is = "sample"}

IsEnd(e) == e.is \in {"summary", "closed"} \/ (e.is = "status" /\ e.stream = "ended")

Numbered(queue, total, made) ==
    /\ \E S : queue \in Seq(S)
    /\ \A i \in Samples(queue) : queue[i].captured \in total + 1 .. made
    /\ \A i, j \in Samples(queue) : i < j => queue[i].captured < queue[j].captured
    /\ \A n \in total + 1 .. made : \E i \in Samples(queue) : queue[i].captured = n

EndsLast(queue) ==
    \A i, j \in 1 .. Len(queue) : i < j /\ IsEnd(queue[i]) => queue[j].is # "sample"

Announced(queue, stopped) ==
    \A i \in 1 .. Len(queue) :
        /\ queue[i].is # "rx"
        /\ queue[i].is = "status" =>
              /\ queue[i].stream \in {"active", "ended"} /\ queue[i].stopping \in BOOLEAN
              /\ queue[i].stopping => stopped

(* The first event of a run says that the source is active, so no sample   *)
(* comes before the stream is open or after it is over.                    *)
Phased(f, s) ==
    /\ s.phase \in {"idle", "active", "ended"} /\ f.stream \in {"none", "active", "ended"}
    /\ s.phase = "idle" => s.queue = <<>> /\ f.stream = "none"
    /\ s.phase # "idle" /\ f.stream = "none" =>
          s.queue # <<>> /\ s.queue[1].is = "status" /\ s.queue[1].stream = "active"
    /\ s.phase = "active" => f.stream # "ended" /\ \A i \in 1 .. Len(s.queue) : ~IsEnd(s.queue[i])
    /\ f.stream = "ended" => Samples(s.queue) = {}

Piped(f, s) ==
    /\ f.total <= s.made
    /\ Numbered(s.queue, f.total, s.made)
    /\ EndsLast(s.queue)
    /\ Announced(s.queue, s.stopped)
    /\ Phased(f, s)

(* The source is asked for whole measurements, up to the limit.            *)
Asks(f, s, c) ==
    /\ ~s.hurried
    /\ s.ready <= c + f.config.interval
    /\ \E n \in Nat : s.made + s.left = n * f.config.batch
    /\ f.config.limit # 0 => s.made + s.left <= f.config.limit
    /\ f.failed \notin {"unasked", "excess", "sequence", "outside"}

(* What was asked for and has not been handled is what the timer waits     *)
(* for, unless it is to stop; and it waits for the source's time at least. *)
Agreed(f, s) ==
    /\ f.pc \in {"command", "events", "triggering"} =>
          f.failed = "no" /\ (f.timer.stopping => s.stopped)
    /\ f.pc \in {"command", "events"} /\ ~f.timer.stopping =>
          /\ s.made + s.left = f.total + f.timer.pending
          /\ f.timer.pending = 0 => s.ready <= f.timer.next
    /\ f.pc = "triggering" =>
          /\ f.timer.pending = 0 /\ ~f.timer.stopping
          /\ f.reply = "accepted" => s.made + s.left = f.total + f.config.batch
    /\ f.pc = "stopping" => f.timer.stopping

Rests(f) == f.called_off \/ f.over \/ f.stream = "ended" \/ f.timer.stopping

IsDue(f, c) ==
    /\ ~Rests(f) /\ f.stream = "active" /\ f.timer.pending = 0 /\ ~AllTaken(f) /\ c >= f.timer.next

(* A timer that was due once is due until it has its turn or rests.        *)
Patient(f, c) ==
    /\ f.waited <= EventBatch
    /\ f.pc = "events" =>
          /\ f.left \in 0 .. EventBatch
          /\ f.waited # 0 => Rests(f) \/ (IsDue(f, c) /\ f.waited + f.left <= EventBatch)
    /\ f.pc = "command" => f.waited = 0 \/ Rests(f)
    /\ f.pc = "triggering" => f.waited = 0

Paced(f, s, c) ==
    f.timer # Nothing => /\ Asks(f, s, c) /\ Agreed(f, s) /\ Patient(f, c)
                         /\ f.pc # "off" => Piped(f, s)

PaceInv ==
    /\ scene \in DOMAIN Scenes
    /\ Scenes[scene].feeds = {} => feed = Nothing
    /\ Scenes[scene].feeds # {} => Shaped(feed, source, clock) /\ Paced(feed, source, clock)

(* What is left of a queue when its first event is taken.                  *)
LEMMA QueueOfTail ==
    ASSUME NEW queue, \E S : queue \in Seq(S), queue # <<>>
    PROVE  /\ \E S : Tail(queue) \in Seq(S)
           /\ Len(queue) \in Nat \ {0} /\ Len(Tail(queue)) = Len(queue) - 1
           /\ \A i \in 1 .. Len(Tail(queue)) : Tail(queue)[i] = queue[i + 1]
           /\ Head(queue) = queue[1]
    OBVIOUS


(* Taking the first event keeps the numbers and the order of the rest, and *)
(* a sample that is taken is the next one.                                 *)
LEMMA NumbersWhenTaken ==
    ASSUME NEW queue, NEW total \in Nat, NEW made \in Nat, Numbered(queue, total, made),
           EndsLast(queue), queue # <<>>
    PROVE  /\ EndsLast(Tail(queue))
           /\ Head(queue).is # "sample" => Numbered(Tail(queue), total, made)
           /\ Head(queue).is = "sample" =>
                 /\ Head(queue).captured = total + 1 /\ total < made
                 /\ Numbered(Tail(queue), total + 1, made)
<1>. DEFINE rest == Tail(queue)
<1>1. /\ \E S : rest \in Seq(S)
      /\ Len(queue) \in Nat \ {0} /\ Len(rest) = Len(queue) - 1
      /\ \A i \in 1 .. Len(rest) : rest[i] = queue[i + 1]
      /\ Head(queue) = queue[1]
    BY QueueOfTail DEF Numbered
<1>. HIDE DEF rest
<1>2. EndsLast(rest)
    <2>. SUFFICES ASSUME NEW i \in 1 .. Len(rest), NEW j \in 1 .. Len(rest), i < j, IsEnd(rest[i])
                  PROVE  rest[j].is # "sample"
        BY DEF EndsLast
    <2>1. i + 1 \in 1 .. Len(queue) /\ j + 1 \in 1 .. Len(queue) /\ i + 1 < j + 1
        BY <1>1
    <2>2. IsEnd(queue[i + 1]) /\ rest[j] = queue[j + 1]
        BY <1>1
    <2>. QED
        BY <2>1, <2>2 DEF EndsLast
<1>3. \A i \in Samples(rest) : i + 1 \in Samples(queue) /\ i \in 1 .. Len(rest)
    BY <1>1 DEF Samples
<1>4. \A i \in Samples(queue) : i # 1 => i - 1 \in Samples(rest) /\ rest[i - 1] = queue[i]
    BY <1>1 DEF Samples
<1>5. \A i, j \in Samples(rest) : i < j => rest[i].captured < rest[j].captured
    <2>. SUFFICES ASSUME NEW i \in Samples(rest), NEW j \in Samples(rest), i < j
                  PROVE  rest[i].captured < rest[j].captured
        OBVIOUS
    <2>1. /\ i + 1 \in Samples(queue) /\ j + 1 \in Samples(queue)
          /\ i \in 1 .. Len(rest) /\ j \in 1 .. Len(rest) /\ i < j
        BY ONLY <1>3, i \in Samples(rest), j \in Samples(rest), i < j
    <2>2. i + 1 < j + 1 /\ rest[i] = queue[i + 1] /\ rest[j] = queue[j + 1]
        BY ONLY <1>1, <2>1
    <2>3. \A a, b \in Samples(queue) : a < b => queue[a].captured < queue[b].captured
        BY DEF Numbered
    <2>. QED
        BY ONLY <2>1, <2>2, <2>3
<1>6. CASE Head(queue).is # "sample"
    <2>1. 1 \notin Samples(queue)
        BY <1>1, <1>6 DEF Samples
    <2>2. \A n \in total + 1 .. made : \E i \in Samples(rest) : rest[i].captured = n
        BY <1>4, <2>1 DEF Numbered
    <2>3. Numbered(rest, total, made)
        BY <1>1, <1>3, <1>5, <2>2 DEF Numbered
    <2>. QED
        BY <1>2, <1>6, <2>3 DEF rest
<1>7. CASE Head(queue).is = "sample"
    <2>1. 1 \in Samples(queue)
        BY <1>1, <1>7 DEF Samples
    <2>2. \A i \in Samples(queue) : i \in 1 .. Len(queue) /\ queue[i].captured \in total + 1 .. made
        BY DEF Samples, Numbered
    <2>3. total < made /\ total + 1 \in total + 1 .. made
        BY <2>1, <2>2
    <2>4. queue[1].captured = total + 1
        <3>1. PICK i \in Samples(queue) : queue[i].captured = total + 1
            BY <2>3 DEF Numbered
        <3>2. CASE i = 1
            BY <3>1, <3>2
        <3>3. CASE i # 1
            <4>1. 1 < i
                BY <2>2, <3>3, <1>1
            <4>2. queue[1].captured < total + 1
                BY <2>1, <3>1, <4>1 DEF Numbered
            <4>. QED
                BY <2>1, <2>2, <4>2
        <3>. QED
            BY <3>2, <3>3
    <2>5. \A i \in Samples(rest) : rest[i].captured \in total + 2 .. made
        <3>. TAKE i \in Samples(rest)
        <3>1. i + 1 \in Samples(queue) /\ 1 < i + 1 /\ rest[i] = queue[i + 1]
            BY <1>1, <1>3
        <3>2. queue[1].captured < queue[i + 1].captured
            BY <2>1, <3>1 DEF Numbered
        <3>. QED
            BY <2>2, <2>4, <3>1, <3>2
    <2>6. \A n \in total + 2 .. made : \E i \in Samples(rest) : rest[i].captured = n
        <3>. TAKE n \in total + 2 .. made
        <3>1. PICK i \in Samples(queue) : queue[i].captured = n
            BY DEF Numbered
        <3>2. i # 1
            BY <2>4, <3>1
        <3>. QED
            BY <1>4, <3>1, <3>2
    <2>7. Numbered(rest, total + 1, made)
        BY <1>1, <1>5, <2>5, <2>6 DEF Numbered
    <2>. QED
        BY <1>1, <1>2, <1>7, <2>3, <2>4, <2>7 DEF rest
<1>. QED
    BY <1>6, <1>7

(* An event that is added keeps the numbers; a sample does when it is the  *)
(* next one made and nothing has ended.                                    *)
LEMMA NumbersWhenAdded ==
    ASSUME NEW queue, NEW total \in Nat, NEW made \in Nat, total <= made, Numbered(queue, total, made),
           EndsLast(queue), NEW e
    PROVE  /\ e.is # "sample" => /\ Numbered(Append(queue, e), total, made)
                                 /\ EndsLast(Append(queue, e))
           /\ e.is = "sample" /\ e.captured = made + 1 /\ (\A i \in 1 .. Len(queue) : ~IsEnd(queue[i])) =>
                 Numbered(Append(queue, e), total, made + 1) /\ EndsLast(Append(queue, e))
<1>. DEFINE more == Append(queue, e)
<1>1. /\ \E S : more \in Seq(S)
      /\ Len(queue) \in Nat /\ Len(more) = Len(queue) + 1
      /\ \A i \in 1 .. Len(queue) : more[i] = queue[i]
      /\ more[Len(queue) + 1] = e
    <2>1. \E S : queue \in Seq(S)
        BY DEF Numbered
    <2>2. /\ \E S : Append(queue, e) \in Seq(S)
          /\ Len(Append(queue, e)) = Len(queue) + 1 /\ Len(queue) \in Nat
          /\ \A i \in 1 .. Len(queue) : Append(queue, e)[i] = queue[i]
          /\ Append(queue, e)[Len(queue) + 1] = e
        BY ZenonT(40), <2>1, Written
    <2>. QED
        BY <2>2
<1>. HIDE DEF more
<1>2. \A i \in Samples(queue) : i \in 1 .. Len(queue) /\ i \in Samples(more) /\ more[i] = queue[i]
    BY <1>1 DEF Samples
<1>3. \A i \in Samples(more) : i \in Samples(queue) \/ (i = Len(queue) + 1 /\ e.is = "sample")
    BY <1>1 DEF Samples
<1>4. CASE e.is # "sample"
    <2>1. \A i \in Samples(more) : i \in Samples(queue) /\ more[i] = queue[i]
        BY <1>2, <1>3, <1>4
    <2>2. \A n \in total + 1 .. made : \E i \in Samples(more) : more[i].captured = n
        BY <1>2 DEF Numbered
    <2>3. Numbered(more, total, made)
        BY <1>1, <2>1, <2>2 DEF Numbered
    <2>4. EndsLast(more)
        BY <1>1, <1>4 DEF EndsLast
    <2>. QED
        BY <1>4, <2>3, <2>4 DEF more
<1>5. CASE e.is = "sample" /\ e.captured = made + 1 /\ \A i \in 1 .. Len(queue) : ~IsEnd(queue[i])
    <2>1. Len(queue) + 1 \in Samples(more)
        BY <1>1, <1>5 DEF Samples
    <2>2. \A i \in Samples(more) : more[i].captured \in total + 1 .. made + 1
        BY <1>1, <1>2, <1>3, <1>5 DEF Numbered
    <2>3. \A i, j \in Samples(more) : i < j => more[i].captured < more[j].captured
        <3>. TAKE i, j \in Samples(more)
        <3>. HAVE i < j
        <3>1. i \in Samples(queue)
            BY <1>1, <1>2, <1>3
        <3>2. queue[i].captured \in total + 1 .. made /\ more[i] = queue[i]
            BY <1>2, <3>1 DEF Numbered
        <3>3. CASE j \in Samples(queue)
            BY <1>2, <3>1, <3>3 DEF Numbered
        <3>4. CASE j = Len(queue) + 1
            BY <1>1, <1>5, <3>2, <3>4
        <3>. QED
            BY <1>3, <3>3, <3>4
    <2>4. \A n \in total + 1 .. made + 1 : \E i \in Samples(more) : more[i].captured = n
        <3>. TAKE n \in total + 1 .. made + 1
        <3>1. CASE n = made + 1
            BY <1>1, <1>5, <2>1, <3>1
        <3>2. CASE n # made + 1
            <4>1. PICK i \in Samples(queue) : queue[i].captured = n
                BY <3>2 DEF Numbered
            <4>. QED
                BY <1>2, <4>1
        <3>. QED
            BY <3>1, <3>2
    <2>5. Numbered(more, total, made + 1)
        BY <1>1, <2>2, <2>3, <2>4 DEF Numbered
    <2>6. EndsLast(more)
        BY <1>1, <1>5 DEF EndsLast
    <2>. QED
        BY <1>5, <2>5, <2>6 DEF more
<1>. QED
    BY <1>4, <1>5 DEF more

(* As many samples are on their way as were made and not handled.          *)
LEMMA ReadingsOnTheirWay ==
    ASSUME NEW queue, NEW total \in Nat, NEW made \in Nat, total <= made, Numbered(queue, total, made)
    PROVE  Quantify(DOMAIN queue, LAMBDA i : queue[i].is = "sample") = made - total
<1>. DEFINE number == [i \in Samples(queue) |-> queue[i].captured]
<1>1. Quantify(DOMAIN queue, LAMBDA i : queue[i].is = "sample") = Cardinality(Samples(queue))
    <2>1. PICK S : queue \in Seq(S)
        BY DEF Numbered
    <2>2. DOMAIN queue = 1 .. Len(queue)
        BY <2>1
    <2>. QED
        BY <2>2 DEF Quantify, Samples
<1>2. Len(queue) \in Nat
    BY DEF Numbered
<1>3. IsFiniteSet(Samples(queue))
    <2>1. IsFiniteSet(1 .. Len(queue))
        <3>1. 1 \in Int /\ Len(queue) \in Int
            BY <1>2
        <3>. QED
            BY <3>1, FS_Interval
    <2>2. Samples(queue) \subseteq 1 .. Len(queue)
        BY DEF Samples
    <2>. QED
        BY <2>1, <2>2, FS_Subset
<1>4. \A i, j \in Samples(queue) : queue[i].captured = queue[j].captured => i = j
    <2>. TAKE i, j \in Samples(queue)
    <2>1. queue[i].captured \in Int /\ queue[j].captured \in Int /\ i \in Int /\ j \in Int
        BY <1>2 DEF Numbered, Samples
    <2>2. i < j => queue[i].captured < queue[j].captured
        BY DEF Numbered
    <2>3. j < i => queue[j].captured < queue[i].captured
        BY DEF Numbered
    <2>. QED
        BY <2>1, <2>2, <2>3
<1>5. number \in Bijection(Samples(queue), total + 1 .. made)
    <2>1. number \in [Samples(queue) -> total + 1 .. made]
        BY DEF Numbered
    <2>2. number \in Injection(Samples(queue), total + 1 .. made)
        BY <1>4, <2>1 DEF Injection, IsInjective
    <2>3. number \in Surjection(Samples(queue), total + 1 .. made)
        BY <2>1 DEF Surjection, Numbered
    <2>. QED
        BY <2>2, <2>3 DEF Bijection
<1>6. Cardinality(total + 1 .. made) = Cardinality(Samples(queue))
    BY <1>3, <1>5, FS_Bijection DEF ExistsBijection
<1>7. Cardinality(total + 1 .. made) = made - total
    <2>1. total + 1 \in Int /\ made \in Int
        OBVIOUS
    <2>2. Cardinality(total + 1 .. made) = IF total + 1 > made THEN 0 ELSE made - (total + 1) + 1
        BY <2>1, FS_Interval
    <2>. QED
        BY <2>2
<1>. QED
    BY <1>1, <1>6, <1>7


-----------------------------------------------------------------------------
(* What the parts of a step do to a dispatcher.                            *)
Alike(f, g) ==
    /\ DOMAIN f = DispatcherFields /\ DOMAIN g = DispatcherFields
    /\ g.config = f.config /\ g.left = f.left /\ g.called_off = f.called_off /\ g.reply = f.reply
    /\ g.waited = f.waited
    /\ f.timer = Nothing => g.timer = Nothing
    /\ f.timer # Nothing /\ DOMAIN f.timer = TimerFields =>
          g.timer # Nothing /\ DOMAIN g.timer = TimerFields

(* A software timer is not the absence of one.                             *)
LEMMA TimerIsSomething ==
    ASSUME NEW t, DOMAIN t = TimerFields
    PROVE  t # Nothing
<1>1. DOMAIN Nothing = {"is"}
    BY DEF Nothing
<1>. QED
    BY <1>1 DEF TimerFields

(* Keeping a sample counts it and disturbs nothing else.                   *)
LEMMA StoredCounts ==
    ASSUME NEW f, NEW e, DOMAIN f = DispatcherFields
    PROVE  LET g == Stored(f, e)
           IN /\ Alike(f, g) /\ g.pc = f.pc /\ g.total = f.total + 1 /\ g.stream = f.stream
              /\ g.over = f.over /\ g.failed = f.failed /\ g.timer = f.timer
    BY DEF Stored, Alike, DispatcherFields

(* A look at the timer without a trigger can only find that it is late.    *)
LEMMA TickOf ==
    ASSUME NEW f, DOMAIN f = DispatcherFields
    PROVE  LET g == tick(f)
           IN /\ Alike(f, g) /\ g.pc = f.pc /\ g.total = f.total /\ g.stream = f.stream
              /\ g.over = f.over /\ g.failed \in {f.failed, "late"}
              /\ f.timer # Nothing /\ DOMAIN f.timer = TimerFields =>
                    /\ g.timer.pending = f.timer.pending /\ g.timer.next = f.timer.next
                    /\ g.timer.stopping = f.timer.stopping
<1>1. CASE Resting(f)
    BY <1>1 DEF tick, Alike
<1>2. CASE ~Resting(f) /\ Late(f)
    BY <1>2 DEF tick, Alike, DispatcherFields
<1>3. CASE ~Resting(f) /\ ~Late(f)
    <2>1. f.timer # Nothing
        BY <1>3 DEF Resting
    <2>2. tick(f) \in {f, [f EXCEPT !.timer.end = clock + ActionTimeout]}
        BY <1>3 DEF tick
    <2>3. LET g == [f EXCEPT !.timer.end = clock + ActionTimeout]
          IN DOMAIN f.timer = TimerFields => g.timer # Nothing /\ DOMAIN g.timer = TimerFields
        BY TimerIsSomething DEF DispatcherFields, TimerFields
    <2>. QED
        BY <2>1, <2>2, <2>3 DEF Alike, DispatcherFields, TimerFields
<1>. QED
    BY <1>1, <1>2, <1>3

(* Without a timer an event concerns the figures only.                     *)
LEMMA EventWithoutTimer ==
    ASSUME NEW f, NEW e, DOMAIN f = DispatcherFields, f.timer = Nothing,
           e.is \in {"status", "sample", "rx", "summary"}
    PROVE  Alike(f, event(f, e)) /\ event(f, e).pc = f.pc
<1>. DEFINE kept == Stored(f, e)
<1>1. Alike(f, kept) /\ kept.pc = f.pc
    BY StoredCounts
<1>. HIDE DEF kept
<1>2. CASE e.is = "status"
    <2>1. event(f, e) = [f EXCEPT !.stream = e.stream, !.timer = Nothing]
        BY <1>2 DEF event
    <2>. QED
        BY <2>1 DEF Alike, DispatcherFields
<1>3. CASE e.is = "summary"
    BY <1>3 DEF event, Alike, DispatcherFields
<1>4. CASE e.is \in {"sample", "rx"}
    <2>1. event(f, e) \in {[f EXCEPT !.failed = "outside"], [kept EXCEPT !.failed = "sequence"],
                           [kept EXCEPT !.failed = "excess"], kept}
        BY <1>4 DEF event, kept
    <2>. QED
        BY <1>1, <2>1 DEF Alike, DispatcherFields
<1>. QED
    BY <1>2, <1>3, <1>4

(* What a source with a timer announces.                                   *)
LEMMA EventOfStatus ==
    ASSUME NEW f, NEW e, DOMAIN f = DispatcherFields, f.timer # Nothing, DOMAIN f.timer = TimerFields,
           f.timer.stopping \in BOOLEAN, e.stopping \in BOOLEAN, e.is = "status"
    PROVE  LET g == event(f, e)
           IN /\ Alike(f, g) /\ g.pc = f.pc /\ g.total = f.total /\ g.stream = e.stream
              /\ g.over = f.over /\ g.failed = f.failed
              /\ g.timer.pending = f.timer.pending /\ g.timer.next = f.timer.next
              /\ g.timer.stopping = (f.timer.stopping \/ e.stopping)
<1>. DEFINE t == IF e.stopping THEN [f.timer EXCEPT !.stopping = TRUE] ELSE f.timer
<1>1. event(f, e) = [f EXCEPT !.stream = e.stream, !.timer = t]
    BY DEF event, DispatcherFields
<1>2. DOMAIN t = TimerFields /\ t.pending = f.timer.pending /\ t.next = f.timer.next
      /\ t.stopping = (f.timer.stopping \/ e.stopping)
    BY DEF TimerFields
<1>3. t # Nothing
    BY <1>2, TimerIsSomething
<1>. HIDE DEF t
<1>. QED
    BY <1>1, <1>2, <1>3 DEF Alike, DispatcherFields

(* A summary ends the run for the dispatcher, and disturbs nothing else.   *)
LEMMA EventOfSummary ==
    ASSUME NEW f, NEW e, DOMAIN f = DispatcherFields, e.is = "summary"
    PROVE  LET g == event(f, e)
           IN /\ Alike(f, g) /\ g.pc = f.pc /\ g.total = f.total /\ g.stream = f.stream
              /\ g.over = TRUE /\ g.failed = f.failed /\ g.timer = f.timer
    BY DEF event, Alike, DispatcherFields

(* A sample that was asked for is counted, and found late at worst.        *)
LEMMA EventOfSample ==
    ASSUME NEW f, NEW e, DOMAIN f = DispatcherFields, f.timer # Nothing, DOMAIN f.timer = TimerFields,
           f.timer.stopping \in BOOLEAN, f.timer.stopping \/ f.timer.pending # 0,
           e.is = "sample", f.stream = "active", e.captured = f.total + 1,
           f.config.limit # 0 => ~(f.total + 1 > f.config.limit)
    PROVE  LET g == event(f, e)
           IN /\ Alike(f, g) /\ g.pc = f.pc /\ g.total = f.total + 1 /\ g.stream = f.stream
              /\ g.over = f.over /\ g.timer.stopping = f.timer.stopping
              /\ \/ f.timer.stopping /\ g.failed = f.failed /\ g.timer = f.timer
                 \/ ~f.timer.stopping /\ g.failed = "late" /\ g.timer = f.timer
                 \/ /\ ~f.timer.stopping /\ g.failed = f.failed
                    /\ g.timer.pending = f.timer.pending - 1
                    /\ g.timer.next = IF f.timer.pending = 1 THEN clock + f.config.interval
                                      ELSE f.timer.next
<1>. DEFINE kept == Stored(f, e)
<1>1. /\ Alike(f, kept) /\ kept.pc = f.pc /\ kept.total = f.total + 1 /\ kept.stream = f.stream
      /\ kept.over = f.over /\ kept.failed = f.failed /\ kept.timer = f.timer
    BY StoredCounts
<1>2. event(f, e) = sample(kept)
    BY DEF event
<1>. HIDE DEF kept
<1>3. CASE f.timer.stopping
    BY <1>1, <1>2, <1>3 DEF sample
<1>4. CASE ~f.timer.stopping /\ clock >= f.timer.deadline
    <2>1. sample(kept) = [kept EXCEPT !.failed = "late"]
        BY <1>1, <1>4 DEF sample
    <2>. QED
        BY <1>1, <1>2, <1>4, <2>1 DEF Alike, DispatcherFields
<1>5. CASE ~f.timer.stopping /\ ~(clock >= f.timer.deadline)
    <2>. DEFINE t == [f.timer EXCEPT !.pending = @ - 1,
                                     !.next = IF f.timer.pending = 1 THEN clock + f.config.interval ELSE @]
    <2>1. sample(kept) = Obtained(kept)
        BY <1>1, <1>5 DEF sample
    <2>2. Obtained(kept) = [kept EXCEPT !.timer = t]
        BY <1>1 DEF Obtained, Alike, DispatcherFields
    <2>3. /\ DOMAIN t = TimerFields /\ t.pending = f.timer.pending - 1 /\ t.stopping = f.timer.stopping
          /\ t.next = IF f.timer.pending = 1 THEN clock + f.config.interval ELSE f.timer.next
        BY DEF TimerFields
    <2>4. t # Nothing
        BY <2>3, TimerIsSomething
    <2>. HIDE DEF t
    <2>. QED
        BY <1>1, <1>2, <1>5, <2>1, <2>2, <2>3, <2>4 DEF Alike, DispatcherFields
<1>. QED
    BY <1>3, <1>4, <1>5

(* To stop is to ask for no more.                                          *)
LEMMA StoppingOf ==
    ASSUME NEW f, DOMAIN f = DispatcherFields
    PROVE  LET g == Stopping(f)
           IN /\ Alike(f, g) /\ g.pc = "stopping" /\ g.total = f.total /\ g.stream = f.stream
              /\ g.over = f.over /\ g.failed = f.failed
              /\ f.timer # Nothing /\ DOMAIN f.timer = TimerFields =>
                    /\ g.timer.pending = f.timer.pending /\ g.timer.next = f.timer.next
                    /\ g.timer.stopping = TRUE
<1>1. CASE f.timer = Nothing
    BY <1>1 DEF Stopping, Alike, DispatcherFields
<1>2. CASE f.timer # Nothing
    <2>. DEFINE t == [f.timer EXCEPT !.stopping = TRUE]
    <2>1. Stopping(f) = [f EXCEPT !.pc = "stopping", !.timer = t]
        BY <1>2 DEF Stopping, DispatcherFields
    <2>2. DOMAIN f.timer = TimerFields =>
              /\ DOMAIN t = TimerFields /\ t.pending = f.timer.pending /\ t.next = f.timer.next
              /\ t.stopping = TRUE
        BY DEF TimerFields
    <2>3. DOMAIN f.timer = TimerFields => t # Nothing
        BY <2>2, TimerIsSomething
    <2>. HIDE DEF t
    <2>. QED
        BY <1>2, <2>1, <2>2, <2>3 DEF Alike, DispatcherFields
<1>. QED
    BY <1>1, <1>2


(* What has arrived is taken: the pipe stays in order, and a sample is the *)
(* next one of a stream that is open.                                      *)
LEMMA PipeSays ==
    ASSUME NEW f, NEW s, f.total \in Nat, s.made \in Nat, Spoken(s.queue), Piped(f, s), s.queue # <<>>,
           Head(s.queue).is # "closed"
    PROVE  /\ Head(s.queue).is \in {"status", "sample", "summary"}
           /\ Head(s.queue).is = "sample" =>
                 /\ f.stream = "active" /\ f.total < s.made
                 /\ Head(s.queue).captured = f.total + 1
           /\ Head(s.queue).is = "status" =>
                 /\ Head(s.queue).stream \in {"active", "ended"} /\ Head(s.queue).stopping \in BOOLEAN
                 /\ Head(s.queue).stopping => s.stopped
<1>. DEFINE e == Head(s.queue)
<1>1. Len(s.queue) \in Nat \ {0} /\ e = s.queue[1]
    BY QueueOfTail DEF Spoken
<1>2. 1 \in 1 .. Len(s.queue)
    BY <1>1
<1>3. e.is = "sample" => e.captured = f.total + 1 /\ f.total < s.made
    BY NumbersWhenTaken DEF Piped
<1>. HIDE DEF e
<1>4. e.is \in {"status", "sample", "summary"}
    BY <1>1, <1>2 DEF Spoken, Piped, Announced, e
<1>5. e.is = "status" =>
          e.stream \in {"active", "ended"} /\ e.stopping \in BOOLEAN /\ (e.stopping => s.stopped)
    BY <1>1, <1>2 DEF Piped, Announced
<1>6. e.is = "sample" => f.stream = "active"
    <2>1. e.is = "sample" => 1 \in Samples(s.queue)
        BY <1>1, <1>2 DEF Samples
    <2>. QED
        BY <1>1, <1>4, <2>1 DEF Piped, Phased
<1>. QED
    BY <1>3, <1>4, <1>5, <1>6 DEF e

(* What has arrived is taken, and the rest is still in order.              *)
LEMMA PipeMoves ==
    ASSUME NEW f, NEW g, NEW s, NEW r, f.total \in Nat, s.made \in Nat, s.stopped \in BOOLEAN,
           Spoken(s.queue), Piped(f, s), s.queue # <<>>, Head(s.queue).is # "closed",
           r.queue = Tail(s.queue), r.made = s.made, r.phase = s.phase, s.stopped => r.stopped,
           g.stream = IF Head(s.queue).is = "status" THEN Head(s.queue).stream ELSE f.stream,
           g.total = IF Head(s.queue).is = "sample" THEN f.total + 1 ELSE f.total
    PROVE  Piped(g, r)
<1>. DEFINE e == Head(s.queue)
            rest == Tail(s.queue)
<1>1. /\ \E S : rest \in Seq(S)
      /\ Len(s.queue) \in Nat \ {0} /\ Len(rest) = Len(s.queue) - 1
      /\ \A i \in 1 .. Len(rest) : rest[i] = s.queue[i + 1]
      /\ e = s.queue[1]
    BY QueueOfTail DEF Spoken
<1>2. 1 \in 1 .. Len(s.queue) /\ \A i \in 1 .. Len(rest) : i + 1 \in 1 .. Len(s.queue) /\ 1 < i + 1
    BY <1>1
<1>3. /\ EndsLast(rest)
      /\ e.is # "sample" => Numbered(rest, f.total, s.made)
      /\ e.is = "sample" => /\ e.captured = f.total + 1 /\ f.total < s.made
                            /\ Numbered(rest, f.total + 1, s.made)
    BY NumbersWhenTaken DEF Piped
<1>. HIDE DEF e, rest
<1>5. e.is = "status" => e.stream \in {"active", "ended"}
    BY PipeSays DEF e
<1>6. Announced(rest, r.stopped)
    <2>1. Announced(s.queue, s.stopped)
        BY DEF Piped
    <2>2. \A i \in 1 .. Len(rest) : i + 1 \in 1 .. Len(s.queue) /\ rest[i] = s.queue[i + 1]
        BY ONLY <1>1, <1>2
    <2>3. s.stopped => r.stopped
        OBVIOUS
    <2>4. ASSUME NEW i \in 1 .. Len(rest)
          PROVE  /\ rest[i].is # "rx"
                 /\ rest[i].is = "status" =>
                       /\ rest[i].stream \in {"active", "ended"} /\ rest[i].stopping \in BOOLEAN
                       /\ rest[i].stopping => r.stopped
        <3>1. /\ s.queue[i + 1].is # "rx"
              /\ s.queue[i + 1].is = "status" =>
                    /\ s.queue[i + 1].stream \in {"active", "ended"}
                    /\ s.queue[i + 1].stopping \in BOOLEAN
                    /\ s.queue[i + 1].stopping => s.stopped
            BY ONLY <2>1, <2>2 DEF Announced
        <3>2. rest[i] = s.queue[i + 1]
            BY ONLY <2>2
        <3>. QED
            BY ONLY <2>3, <3>1, <3>2
    <2>. QED
        BY ONLY <2>4 DEF Announced
<1>8. Phased(g, r)
    <2>1. s.phase # "idle" /\ (f.stream = "none" => e.is = "status" /\ e.stream = "active")
        BY <1>1 DEF Piped, Phased
    <2>2. g.stream \in {"active", "ended"} \/ g.stream = f.stream
        BY <1>5 DEF e
    <2>3. g.stream \in {"active", "ended"}
        BY <2>1, <2>2 DEF Piped, Phased, e
    <2>4. \A i \in Samples(rest) : i + 1 \in Samples(s.queue)
        BY <1>1, <1>2 DEF Samples
    <2>5. ASSUME g.stream = "ended" PROVE Samples(rest) = {}
        <3>1. CASE e.is # "status"
            BY <2>4, <2>5, <3>1 DEF Piped, Phased, e
        <3>2. CASE e.is = "status"
            <4>1. IsEnd(s.queue[1])
                BY <1>1, <2>5, <3>2 DEF IsEnd, e
            <4>2. \A i \in 1 .. Len(rest) : rest[i].is # "sample"
                BY <1>1, <1>2, <4>1 DEF Piped, EndsLast
            <4>. QED
                BY <4>2 DEF Samples
        <3>. QED
            BY <3>1, <3>2
    <2>6. ASSUME s.phase = "active"
          PROVE  g.stream # "ended" /\ \A i \in 1 .. Len(rest) : ~IsEnd(rest[i])
        <3>1. \A i \in 1 .. Len(s.queue) : ~IsEnd(s.queue[i])
            BY <2>6 DEF Piped, Phased
        <3>2. f.stream # "ended"
            BY <2>6 DEF Piped, Phased
        <3>. QED
            BY <1>1, <1>2, <3>1, <3>2 DEF IsEnd, e
    <2>. QED
        BY <2>1, <2>3, <2>5, <2>6 DEF Piped, Phased, rest
<1>9. g.total <= r.made /\ Numbered(rest, g.total, r.made)
    <2>1. f.total <= s.made
        BY DEF Piped
    <2>. QED
        BY <1>3, <2>1 DEF e
<1>. QED
    BY <1>3, <1>6, <1>8, <1>9 DEF rest, Piped

(* Taking the first event leaves a queue of events.                        *)
LEMMA SpokenOn ==
    ASSUME NEW queue, Spoken(queue), queue # <<>>
    PROVE  /\ Spoken(Tail(queue))
           /\ Head(queue).is \in {"status", "sample", "rx", "summary", "closed"}
<1>1. /\ \E S : Tail(queue) \in Seq(S)
      /\ Len(queue) \in Nat \ {0} /\ Len(Tail(queue)) = Len(queue) - 1
      /\ \A i \in 1 .. Len(Tail(queue)) : Tail(queue)[i] = queue[i + 1]
      /\ Head(queue) = queue[1]
    BY QueueOfTail DEF Spoken
<1>2. 1 \in 1 .. Len(queue) /\ \A i \in 1 .. Len(Tail(queue)) : i + 1 \in 1 .. Len(queue)
    BY <1>1
<1>. QED
    BY <1>1, <1>2 DEF Spoken

(* A dispatcher that may have been told to stop keeps the source's side.   *)
LEMMA AsksOn ==
    ASSUME NEW f, NEW g, NEW s, NEW r, NEW c, Asks(f, s, c), g.config = f.config,
           r.hurried = s.hurried, r.ready = s.ready, r.made = s.made, r.left = s.left,
           g.failed \in {f.failed, "late", "trigger", "shutdown"}
    PROVE  Asks(g, r, c)
    BY DEF Asks

-----------------------------------------------------------------------------
(* The steps, one by one.                                                  *)

(* An event is handled: the sample that was asked for is counted and moves *)
(* the timer, and what is not asked for cannot come.                       *)
LEMMA HandleIsPaced ==
    ASSUME Shaped(feed, source, clock), Paced(feed, source, clock), Handle
    PROVE  Shaped(feed', source', clock') /\ Paced(feed', source', clock')
<1>. DEFINE e == Head(source.queue)
            f == Took(feed)
            g == event(f, e)
            h == IF e.is = "closed" THEN Gone(feed) ELSE IF g.failed = "no" THEN tick(g) ELSE g
<1>1. /\ feed.pc = "events" /\ feed.left # 0 /\ source.queue # <<>>
      /\ feed' = IF h.failed # "no" THEN Stopping(h) ELSE h
      /\ \E accepted \in BOOLEAN :
            source' = [source EXCEPT !.queue = Tail(@), !.stopped = @ \/ accepted]
      /\ clock' = clock
    BY DEF Handle, At, BatchOver
<1>2. /\ Alike(f, f) /\ f.config = feed.config /\ f.pc = "events" /\ f.left = feed.left - 1
      /\ f.stream = feed.stream /\ f.total = feed.total /\ f.timer = feed.timer
      /\ f.called_off = feed.called_off /\ f.over = feed.over /\ f.failed = feed.failed
      /\ f.reply = feed.reply /\ f.waited = IF Due(feed) THEN feed.waited + 1 ELSE 0
    BY <1>1 DEF Took, Shaped, Alike, DispatcherFields
<1>3. Alike(feed, Gone(feed)) /\ Gone(feed).pc = "off" /\ Gone(feed).timer = feed.timer
      /\ Gone(feed).failed = feed.failed /\ Gone(feed).total = feed.total
    BY DEF Gone, Shaped, Alike, DispatcherFields
<1>4. /\ DOMAIN source' = SourceFields /\ source'.queue = Tail(source.queue)
      /\ source'.phase = source.phase /\ source'.left = source.left /\ source'.made = source.made
      /\ source'.ready = source.ready /\ source'.hurried = source.hurried
      /\ source.stopped \in BOOLEAN => source'.stopped \in BOOLEAN /\ (source.stopped => source'.stopped)
    BY <1>1 DEF Shaped, SourceFields
<1>5. Spoken(source'.queue) /\ e.is \in {"status", "sample", "rx", "summary", "closed"}
    BY <1>1, <1>4, SpokenOn DEF Shaped
<1>. HIDE DEF f, g, h, e
<1>6. CASE feed.timer = Nothing
    <2>1. e.is # "closed" => Alike(f, g) /\ g.pc = "events"
        BY <1>2, <1>5, <1>6, EventWithoutTimer DEF Alike, g
    <2>2. h \in {Gone(feed), tick(g), g} /\ (h \in {tick(g), g} => h = Gone(feed) \/ e.is # "closed")
        BY DEF h
    <2>3. e.is # "closed" => Alike(g, tick(g)) /\ tick(g).pc = "events"
        BY <2>1, TickOf DEF Alike
    <2>4. /\ DOMAIN h = DispatcherFields /\ h.config = feed.config /\ h.timer = Nothing
          /\ h.pc \in {"off", "events"}
        BY <1>2, <1>3, <1>6, <2>1, <2>2, <2>3 DEF Alike
    <2>5. Alike(h, Stopping(h)) /\ Stopping(h).pc = "stopping"
        BY <2>4, StoppingOf
    <2>6. /\ DOMAIN feed' = DispatcherFields /\ feed'.config = feed.config /\ feed'.timer = Nothing
          /\ feed'.pc \in {"off", "events", "stopping"}
        BY <1>1, <2>4, <2>5 DEF Alike
    <2>. QED
        BY <1>1, <1>4, <1>5, <2>6 DEF Shaped, Paced
<1>7. CASE feed.timer # Nothing /\ e.is = "closed"
    <2>1. feed' = Gone(feed)
        BY <1>1, <1>3, <1>7 DEF Paced, Agreed, h
    <2>2. Shaped(feed', source', clock')
        BY <1>1, <1>3, <1>4, <1>5, <1>7, <2>1 DEF Shaped, Alike
    <2>3. Asks(feed', source', clock')
        BY <1>1, <1>3, <1>4, <1>7, <2>1, AsksOn DEF Paced, Alike
    <2>4. Agreed(feed', source') /\ Patient(feed', clock')
        BY <1>3, <1>7, <2>1 DEF Paced, Agreed, Patient, Alike
    <2>. QED
        BY <1>3, <2>1, <2>2, <2>3, <2>4 DEF Paced
<1>8. CASE feed.timer # Nothing /\ e.is # "closed"
    <2>1. /\ Asks(feed, source, clock) /\ Agreed(feed, source) /\ Patient(feed, clock)
          /\ Piped(feed, source)
          /\ DOMAIN feed.timer = TimerFields /\ feed.config.interval # 0
          /\ {feed.timer.next, feed.timer.pending} \subseteq Nat /\ feed.timer.stopping \in BOOLEAN
          /\ {feed.left, feed.total, feed.waited, source.left, source.ready} \subseteq Nat
          /\ source.stopped \in BOOLEAN /\ clock \in Nat /\ source.made \in Nat
          /\ {feed.config.interval, feed.config.limit, feed.config.batch} \subseteq Nat
        BY <1>1, <1>8 DEF Shaped, Paced, Conforms
    <2>2. /\ feed.failed = "no" /\ (feed.timer.stopping => source.stopped)
          /\ ~feed.timer.stopping =>
                /\ source.made + source.left = feed.total + feed.timer.pending
                /\ feed.timer.pending = 0 => source.ready <= feed.timer.next
        BY <1>1, <2>1 DEF Agreed
    <2>3. /\ e.is \in {"status", "sample", "summary"}
          /\ e.is = "sample" =>
                feed.stream = "active" /\ feed.total < source.made /\ e.captured = feed.total + 1
          /\ e.is = "status" =>
                e.stream \in {"active", "ended"} /\ e.stopping \in BOOLEAN /\ (e.stopping => source.stopped)
        BY <1>1, <1>8, <2>1, PipeSays DEF Shaped, e
    <2>4. /\ Alike(f, g) /\ g.pc = "events" /\ g.failed \in {"no", "late"}
          /\ g.stream = IF e.is = "status" THEN e.stream ELSE feed.stream
          /\ g.total = IF e.is = "sample" THEN feed.total + 1 ELSE feed.total
          /\ {g.timer.pending, g.timer.next} \subseteq Nat /\ g.timer.stopping \in BOOLEAN
          /\ feed.over => g.over
          /\ feed.timer.stopping => g.timer.stopping
          /\ g.timer.stopping => source.stopped
          /\ g.failed = "no" /\ ~g.timer.stopping =>
                /\ source.made + source.left = g.total + g.timer.pending
                /\ g.timer.pending = 0 => source.ready <= g.timer.next
          /\ IsDue(feed, clock) => Rests(g) \/ IsDue(g, clock)
        <3>1. CASE e.is = "status"
            <4>1. /\ Alike(f, g) /\ g.pc = f.pc /\ g.total = f.total /\ g.stream = e.stream
                  /\ g.over = f.over /\ g.failed = f.failed
                  /\ g.timer.pending = f.timer.pending /\ g.timer.next = f.timer.next
                  /\ g.timer.stopping = (f.timer.stopping \/ e.stopping)
                BY <1>2, <1>8, <2>1, <2>3, <3>1, EventOfStatus DEF g, Alike
            <4>2. IsDue(feed, clock) => Rests(g) \/ IsDue(g, clock)
                BY <1>2, <2>1, <2>3, <3>1, <4>1 DEF IsDue, Rests, AllTaken, Alike
            <4>. QED
                BY <1>2, <2>1, <2>2, <2>3, <3>1, <4>1, <4>2
        <3>2. CASE e.is = "summary"
            <4>1. /\ Alike(f, g) /\ g.pc = f.pc /\ g.total = f.total /\ g.stream = f.stream
                  /\ g.over = TRUE /\ g.failed = f.failed /\ g.timer = f.timer
                BY <1>2, <3>2, EventOfSummary DEF g, Alike
            <4>. QED
                BY <1>2, <2>1, <2>2, <3>2, <4>1 DEF Rests
        <3>3. CASE e.is = "sample"
            <4>1. feed.timer.stopping \/ feed.timer.pending # 0
                BY <2>1, <2>2, <2>3, <3>3
            <4>2. feed.config.limit # 0 => ~(feed.total + 1 > feed.config.limit)
                BY <2>1, <2>3, <3>3 DEF Asks
            <4>3. /\ Alike(f, g) /\ g.pc = f.pc /\ g.total = f.total + 1 /\ g.stream = f.stream
                  /\ g.over = f.over /\ g.timer.stopping = f.timer.stopping
                  /\ \/ f.timer.stopping /\ g.failed = f.failed /\ g.timer = f.timer
                     \/ ~f.timer.stopping /\ g.failed = "late" /\ g.timer = f.timer
                     \/ /\ ~f.timer.stopping /\ g.failed = f.failed
                        /\ g.timer.pending = f.timer.pending - 1
                        /\ g.timer.next = IF f.timer.pending = 1 THEN clock + f.config.interval
                                          ELSE f.timer.next
                BY <1>2, <1>8, <2>1, <2>3, <3>3, <4>1, <4>2, EventOfSample DEF g, Alike
            <4>4. ~IsDue(feed, clock)
                BY <4>1 DEF IsDue, Rests
            <4>5. source.ready <= clock + feed.config.interval
                BY <2>1 DEF Asks
            <4>. QED
                BY <1>2, <2>1, <2>2, <2>3, <3>3, <4>1, <4>3, <4>4, <4>5
        <3>. QED
            BY <2>3, <3>1, <3>2, <3>3
    <2>5. /\ Alike(g, h) /\ h.pc = "events" /\ h.failed \in {"no", "late"}
          /\ h.stream = g.stream /\ h.total = g.total /\ h.over = g.over
          /\ h.timer.pending = g.timer.pending /\ h.timer.next = g.timer.next
          /\ h.timer.stopping = g.timer.stopping
          /\ h.failed = "no" => g.failed = "no"
        <3>1. h = IF g.failed = "no" THEN tick(g) ELSE g
            BY <1>8 DEF h
        <3>2. DOMAIN g = DispatcherFields /\ g.timer # Nothing /\ DOMAIN g.timer = TimerFields
            BY <1>2, <1>8, <2>1, <2>4 DEF Alike
        <3>3. /\ Alike(g, tick(g)) /\ tick(g).pc = g.pc /\ tick(g).total = g.total
              /\ tick(g).stream = g.stream /\ tick(g).over = g.over /\ tick(g).failed \in {g.failed, "late"}
              /\ tick(g).timer.pending = g.timer.pending /\ tick(g).timer.next = g.timer.next
              /\ tick(g).timer.stopping = g.timer.stopping
            BY <3>2, TickOf
        <3>4. Alike(g, g)
            BY <3>2 DEF Alike
        <3>. QED
            BY <2>4, <3>1, <3>3, <3>4
    <2>6. /\ DOMAIN h = DispatcherFields /\ h.timer # Nothing /\ DOMAIN h.timer = TimerFields
          /\ h.config = feed.config /\ h.left = feed.left - 1 /\ h.called_off = feed.called_off
          /\ h.reply = feed.reply /\ h.waited = f.waited
        BY <1>2, <1>8, <2>1, <2>4, <2>5 DEF Alike
    <2>7. f.waited \in Nat /\ f.waited <= EventBatch /\ feed.left - 1 \in 0 .. EventBatch
          /\ (f.waited # 0 => IsDue(feed, clock) /\ f.waited + feed.left - 1 <= EventBatch)
        <3>1. EventBatch \in Nat \ {0}
            BY FeedAssumption
        <3>2. /\ feed.left \in 0 .. EventBatch
              /\ feed.waited # 0 => Rests(feed) \/ (IsDue(feed, clock) /\ feed.waited + feed.left <= EventBatch)
            BY <1>1, <2>1 DEF Patient
        <3>3. Due(feed) <=> IsDue(feed, clock)
            BY <1>8, <2>1 DEF Due, IsDue, Resting, Rests
        <3>4. IsDue(feed, clock) => ~Rests(feed)
            BY DEF IsDue
        <3>5. CASE IsDue(feed, clock)
            <4>1. f.waited = feed.waited + 1
                BY <1>2, <3>3, <3>5
            <4>2. feed.waited # 0 => feed.waited + feed.left <= EventBatch
                BY <3>2, <3>4, <3>5
            <4>3. feed.waited \in Nat /\ feed.left \in Nat \ {0}
                BY <1>1, <2>1, <3>2
            <4>. QED
                BY ONLY <3>1, <3>2, <3>5, <4>1, <4>2, <4>3
        <3>6. CASE ~IsDue(feed, clock)
            <4>1. f.waited = 0
                BY <1>2, <3>3, <3>6
            <4>. QED
                BY <1>1, <3>1, <3>2, <4>1
        <3>. QED
            BY <3>5, <3>6
    <2>8. IsDue(feed, clock) => Rests(h) \/ IsDue(h, clock)
        <3>1. /\ Rests(g) => Rests(h)
              /\ IsDue(g, clock) => Rests(h) \/ IsDue(h, clock)
            BY <1>2, <2>4, <2>5, <2>6 DEF Rests, IsDue, AllTaken, Alike
        <3>. QED
            BY <2>4, <3>1
    <2>9. /\ Alike(h, Stopping(h)) /\ Stopping(h).pc = "stopping" /\ Stopping(h).total = h.total
          /\ Stopping(h).stream = h.stream /\ Stopping(h).failed = h.failed
          /\ Stopping(h).timer.pending = h.timer.pending /\ Stopping(h).timer.next = h.timer.next
          /\ Stopping(h).timer.stopping = TRUE
        BY <2>6, StoppingOf
    <2>10. /\ DOMAIN feed' = DispatcherFields /\ feed'.timer # Nothing /\ DOMAIN feed'.timer = TimerFields
           /\ feed'.config = feed.config /\ feed'.left = feed.left - 1 /\ feed'.waited = f.waited
           /\ feed'.total = g.total /\ feed'.stream = g.stream /\ feed'.failed \in {"no", "late"}
           /\ feed'.timer.pending = g.timer.pending /\ feed'.timer.next = g.timer.next
           /\ feed'.timer.stopping \in BOOLEAN
           /\ \/ feed' = h /\ feed'.pc = "events" /\ feed'.failed = "no"
              \/ feed'.pc = "stopping" /\ feed'.timer.stopping
        <3>1. CASE h.failed = "no"
            <4>1. feed' = h
                BY <1>1, <3>1
            <4>. QED
                BY <2>4, <2>5, <2>6, <3>1, <4>1
        <3>2. CASE h.failed # "no"
            <4>1. feed' = Stopping(h)
                BY <1>1, <3>2
            <4>. QED
                BY <2>5, <2>6, <2>9, <3>2, <4>1 DEF Alike
        <3>. QED
            BY <3>1, <3>2
    <2>11. Shaped(feed', source', clock')
        <3>1. feed'.total \in Nat
            BY <2>1, <2>4, <2>10
        <3>2. Conforms(feed'.config)
            BY <2>10 DEF Shaped
        <3>3. {feed'.left, feed'.total, feed'.waited, feed'.timer.next, feed'.timer.pending} \subseteq Nat
            BY <2>4, <2>7, <2>10, <3>1
        <3>4. {source'.left, source'.ready} \subseteq Nat /\ source'.made \in Nat /\ source'.stopped \in BOOLEAN
            BY <1>4, <2>1
        <3>5. feed'.pc \in {"events", "stopping"} /\ feed'.config.interval # 0 /\ clock' \in Nat
            BY <1>1, <2>1, <2>10
        <3>. QED
            BY <1>4, <1>5, <2>10, <3>2, <3>3, <3>4, <3>5 DEF Shaped
    <2>12. Asks(feed', source', clock')
        BY ZenonT(40), <1>1, <1>4, <2>1, <2>10 DEF Asks
    <2>13. Agreed(feed', source')
        <3>1. CASE feed' = h /\ feed'.pc = "events" /\ feed'.failed = "no"
            BY <1>4, <2>1, <2>4, <2>5, <2>10, <3>1 DEF Agreed
        <3>2. CASE feed'.pc = "stopping" /\ feed'.timer.stopping
            BY <3>2 DEF Agreed
        <3>. QED
            BY <2>10, <3>1, <3>2
    <2>14. Patient(feed', clock')
        <3>1. CASE feed' = h /\ feed'.pc = "events"
            BY <1>1, <2>6, <2>7, <2>8, <3>1 DEF Patient
        <3>2. CASE feed'.pc = "stopping"
            BY <2>7, <2>10, <3>2 DEF Patient
        <3>. QED
            BY <2>10, <3>1, <3>2
    <2>15. Piped(feed', source')
        <3>1. Spoken(source.queue) /\ (source.stopped => source'.stopped)
            BY <1>4, <2>1 DEF Shaped
        <3>2. /\ feed'.stream = IF e.is = "status" THEN e.stream ELSE feed.stream
              /\ feed'.total = IF e.is = "sample" THEN feed.total + 1 ELSE feed.total
            BY <2>4, <2>10
        <3>. QED
            BY <1>1, <1>4, <1>8, <2>1, <3>1, <3>2, PipeMoves DEF e
    <2>. QED
        BY <2>11, <2>12, <2>13, <2>14, <2>15 DEF Paced
<1>. QED
    BY <1>6, <1>7, <1>8

(* What is asked to stop, and how the source may take it.                  *)
LEMMA AskedToStop ==
    ASSUME Shaped(feed, source, clock), AskToStop
    PROVE  /\ DOMAIN source' = SourceFields /\ source'.queue = source.queue
           /\ source'.phase = source.phase /\ source'.left = source.left /\ source'.made = source.made
           /\ source'.ready = source.ready /\ source'.hurried = source.hurried
           /\ source.stopped \in BOOLEAN =>
                 source'.stopped \in BOOLEAN /\ (source.stopped => source'.stopped)
    BY DEF AskToStop, Shaped, SourceFields

(* A dispatcher that goes on to stop leaves all as it is.                  *)
LEMMA StopsPaced ==
    ASSUME Shaped(feed, source, clock), Paced(feed, source, clock), feed.pc # "off",
           NEW g, Alike(feed, g), g.total = feed.total, g.stream = feed.stream,
           g.failed \in {feed.failed, "late", "trigger"},
           feed.timer # Nothing => /\ g.timer.pending = feed.timer.pending
                                   /\ g.timer.next = feed.timer.next,
           feed' = Stopping(g), AskToStop, clock' = clock
    PROVE  Shaped(feed', source', clock') /\ Paced(feed', source', clock')
<1>1. /\ Alike(g, feed') /\ feed'.pc = "stopping" /\ feed'.total = g.total /\ feed'.stream = g.stream
      /\ feed'.failed = g.failed
      /\ g.timer # Nothing /\ DOMAIN g.timer = TimerFields =>
            /\ feed'.timer.pending = g.timer.pending /\ feed'.timer.next = g.timer.next
            /\ feed'.timer.stopping = TRUE
    BY StoppingOf DEF Alike
<1>2. /\ DOMAIN source' = SourceFields /\ source'.queue = source.queue
      /\ source'.phase = source.phase /\ source'.left = source.left /\ source'.made = source.made
      /\ source'.ready = source.ready /\ source'.hurried = source.hurried
      /\ source.stopped \in BOOLEAN =>
            source'.stopped \in BOOLEAN /\ (source.stopped => source'.stopped)
    BY AskedToStop
<1>3. CASE feed.timer = Nothing
    BY <1>1, <1>2, <1>3 DEF Shaped, Paced, Alike
<1>4. CASE feed.timer # Nothing
    <2>1. /\ feed'.timer # Nothing /\ DOMAIN feed'.timer = TimerFields
          /\ feed'.config = feed.config /\ feed'.left = feed.left /\ feed'.waited = feed.waited
          /\ feed'.timer.pending = feed.timer.pending /\ feed'.timer.next = feed.timer.next
          /\ feed'.timer.stopping = TRUE
        BY <1>1, <1>4 DEF Shaped, Alike
    <2>2. /\ source.stopped \in BOOLEAN /\ Asks(feed, source, clock) /\ Piped(feed, source)
          /\ Patient(feed, clock)
        BY <1>4 DEF Shaped, Paced
    <2>3. Shaped(feed', source', clock')
        <3>1. /\ {feed.left, feed.total, feed.waited, source.left, source.ready} \subseteq Nat
              /\ {feed.timer.next, feed.timer.pending} \subseteq Nat /\ source.made \in Nat
              /\ feed.config.interval # 0 /\ Conforms(feed.config) /\ Spoken(source.queue) /\ clock \in Nat
            BY <1>4 DEF Shaped
        <3>2. {feed'.left, feed'.total, feed'.waited, feed'.timer.next, feed'.timer.pending} \subseteq Nat
            BY <1>1, <2>1, <3>1
        <3>3. DOMAIN feed' = DispatcherFields /\ feed'.timer.stopping \in BOOLEAN
            BY <1>1, <2>1 DEF Alike
        <3>. QED
            BY <1>1, <1>2, <2>1, <2>2, <3>1, <3>2, <3>3 DEF Shaped
    <2>4. Asks(feed', source', clock')
        BY <1>1, <1>2, <2>1, <2>2 DEF Asks
    <2>5. Agreed(feed', source') /\ Patient(feed', clock')
        BY <1>1, <2>1, <2>2 DEF Agreed, Patient
    <2>6. Piped(feed', source')
        BY <1>1, <1>2, <2>2 DEF Piped, Phased, Announced
    <2>. QED
        BY <2>3, <2>4, <2>5, <2>6 DEF Paced
<1>. QED
    BY <1>3, <1>4

(* Releasing the Worker only asks it to stop.                              *)
LEMMA ReleaseIsPaced ==
    ASSUME Shaped(feed, source, clock), Paced(feed, source, clock), ReleaseWorker
    PROVE  Shaped(feed', source', clock') /\ Paced(feed', source', clock')
<1>1. Alike(feed, feed)
    BY DEF Shaped, Alike
<1>. QED
    BY <1>1, StopsPaced DEF ReleaseWorker, At

(* A run begins with a fresh timer, a fresh source and nothing on its way. *)
LEMMA WorkerOnIsPaced ==
    ASSUME Shaped(feed, source, clock), WorkerOn
    PROVE  Shaped(feed', source', clock') /\ Paced(feed', source', clock')
<1>. DEFINE fresh == [Off(feed.config, feed.runs - 1) EXCEPT !.pc = "command", !.sets = feed.sets,
                                                           !.timer = config_timer(feed.config)]
<1>1. feed' \in {fresh, capture_on(fresh)} /\ source' = FreshSource /\ clock' = clock
    BY DEF WorkerOn
<1>2. /\ DOMAIN fresh = DispatcherFields /\ fresh.pc = "command" /\ fresh.config = feed.config
      /\ fresh.left = 0 /\ fresh.stream = "none" /\ fresh.total = 0 /\ fresh.failed = "no"
      /\ fresh.waited = 0 /\ fresh.timer = config_timer(feed.config)
    BY DEF Off, DispatcherFields
<1>. HIDE DEF fresh
<1>3. /\ DOMAIN feed' = DispatcherFields /\ feed'.pc = "command" /\ feed'.config = feed.config
      /\ feed'.left = 0 /\ feed'.stream = "none" /\ feed'.total = 0 /\ feed'.failed = "no"
      /\ feed'.waited = 0 /\ feed'.timer = config_timer(feed.config)
    BY <1>1, <1>2 DEF capture_on, DispatcherFields
<1>4. /\ DOMAIN source' = SourceFields /\ source'.phase = "idle" /\ source'.queue = <<>>
      /\ source'.left = 0 /\ source'.made = 0 /\ source'.ready = 0 /\ source'.stopped = FALSE
      /\ source'.hurried = FALSE
    BY <1>1 DEF FreshSource, SourceFields
<1>5. <<>> \in Seq({}) /\ Len(<<>>) = 0
    OBVIOUS
<1>6. Spoken(source'.queue) /\ Samples(source'.queue) = {}
    BY <1>4, <1>5 DEF Spoken, Samples
<1>7. CASE feed.config.interval = 0
    BY <1>1, <1>3, <1>4, <1>6, <1>7 DEF config_timer, Shaped, Paced
<1>8. CASE feed.config.interval # 0
    <2>1. /\ DOMAIN feed'.timer = TimerFields /\ feed'.timer.next = clock /\ feed'.timer.pending = 0
          /\ feed'.timer.stopping = FALSE
        BY <1>3, <1>8 DEF config_timer, TimerFields
    <2>2. feed'.timer # Nothing
        BY <2>1, TimerIsSomething
    <2>3. clock \in Nat /\ EventBatch \in Nat \ {0} /\ {feed.config.interval, feed.config.batch} \subseteq Nat
        BY <1>8, FeedAssumption DEF Shaped, Conforms
    <2>4. Shaped(feed', source', clock')
        <3>1. /\ {feed'.left, feed'.total, feed'.waited, feed'.timer.next, feed'.timer.pending} \subseteq Nat
              /\ {source'.left, source'.ready, source'.made} \subseteq Nat
            BY <1>3, <1>4, <2>1, <2>3
        <3>3. feed'.timer.stopping \in BOOLEAN /\ source'.stopped \in BOOLEAN
            BY <1>4, <2>1
        <3>2. Conforms(feed'.config) /\ feed'.config.interval # 0
            BY <1>3, <1>8 DEF Shaped
        <3>. QED
            BY <1>1, <1>3, <1>4, <1>6, <2>1, <2>2, <2>3, <3>1, <3>2, <3>3 DEF Shaped
    <2>5. Asks(feed', source', clock')
        <3>1. source'.made + source'.left = 0 * feed'.config.batch
            BY <1>3, <1>4, <2>3
        <3>2. feed'.config.limit # 0 => source'.made + source'.left <= feed'.config.limit
            BY <1>3, <1>4, <1>8 DEF Shaped, Conforms
        <3>. QED
            BY <1>1, <1>3, <1>4, <2>3, <3>1, <3>2 DEF Asks
    <2>6. Agreed(feed', source')
        BY <1>3, <1>4, <2>1, <2>3 DEF Agreed
    <2>7. Patient(feed', clock')
        BY <1>3, <2>3 DEF Patient
    <2>8. Piped(feed', source')
        <3>1. Numbered(source'.queue, 0, 0)
            BY <1>4, <1>5, <1>6 DEF Numbered
        <3>. QED
            BY <1>3, <1>4, <1>5, <1>6, <3>1 DEF Piped, EndsLast, Announced, Phased
    <2>. QED
        BY <2>4, <2>5, <2>6, <2>7, <2>8 DEF Paced
<1>. QED
    BY <1>7, <1>8

(* A command opens a batch of events with a whole allowance, or asks to    *)
(* stop.                                                                   *)
LEMMA TakeCommandIsPaced ==
    ASSUME Shaped(feed, source, clock), Paced(feed, source, clock), TakeCommand
    PROVE  Shaped(feed', source', clock') /\ Paced(feed', source', clock')
<1>. DEFINE next == [feed EXCEPT !.pc = "events", !.left = EventBatch]
<1>1. /\ feed' \in {next, capture_on(next), [next EXCEPT !.current = 0]}
      /\ source' = source /\ clock' = clock /\ feed.pc = "command"
    BY DEF TakeCommand, At
<1>2. /\ DOMAIN next = DispatcherFields /\ next.pc = "events" /\ next.left = EventBatch
      /\ next.config = feed.config /\ next.stream = feed.stream /\ next.total = feed.total
      /\ next.timer = feed.timer /\ next.called_off = feed.called_off /\ next.over = feed.over
      /\ next.failed = feed.failed /\ next.waited = feed.waited
    BY DEF Shaped, DispatcherFields
<1>. HIDE DEF next
<1>3. /\ DOMAIN feed' = DispatcherFields /\ feed'.pc = "events" /\ feed'.left = EventBatch
      /\ feed'.config = feed.config /\ feed'.stream = feed.stream /\ feed'.total = feed.total
      /\ feed'.timer = feed.timer /\ feed'.called_off = feed.called_off /\ feed'.over = feed.over
      /\ feed'.failed = feed.failed /\ feed'.waited = feed.waited
    BY <1>1, <1>2 DEF capture_on, DispatcherFields
<1>4. EventBatch \in Nat \ {0}
    BY FeedAssumption
<1>5. Shaped(feed', source', clock')
    BY <1>1, <1>3, <1>4 DEF Shaped
<1>6. ASSUME feed.timer # Nothing PROVE Paced(feed', source', clock')
    <2>1. Asks(feed', source', clock')
        BY <1>1, <1>3, <1>6 DEF Paced, Asks
    <2>2. Agreed(feed', source')
        BY <1>1, <1>3, <1>6 DEF Paced, Agreed
    <2>3. Patient(feed', clock')
        <3>1. feed.waited <= EventBatch /\ (feed.waited # 0 => Rests(feed))
            BY <1>1, <1>6 DEF Paced, Patient
        <3>2. Rests(feed) => Rests(feed')
            BY <1>3 DEF Rests
        <3>. QED
            BY <1>3, <1>4, <3>1, <3>2 DEF Patient
    <2>4. Piped(feed', source')
        BY <1>1, <1>3, <1>6 DEF Paced, Piped, Phased
    <2>. QED
        BY <2>1, <2>2, <2>3, <2>4 DEF Paced
<1>. QED
    BY <1>3, <1>5, <1>6 DEF Paced

(* A run that is called off rests.                                         *)
LEMMA CallOffIsPaced ==
    ASSUME Shaped(feed, source, clock), Paced(feed, source, clock), CallOff
    PROVE  Shaped(feed', source', clock') /\ Paced(feed', source', clock')
<1>1. /\ DOMAIN feed' = DispatcherFields /\ feed'.pc = feed.pc /\ feed'.left = feed.left
      /\ feed'.config = feed.config /\ feed'.stream = feed.stream /\ feed'.total = feed.total
      /\ feed'.timer = feed.timer /\ feed'.called_off = TRUE /\ feed'.reply = feed.reply
      /\ feed'.failed = feed.failed /\ feed'.waited = feed.waited
      /\ source' = source /\ clock' = clock
    BY DEF CallOff, Shaped, DispatcherFields
<1>2. Shaped(feed', source', clock')
    BY <1>1 DEF Shaped
<1>3. ASSUME feed.timer # Nothing PROVE Paced(feed', source', clock')
    <2>1. Asks(feed', source', clock') /\ Agreed(feed', source')
        BY <1>1, <1>3 DEF Paced, Asks, Agreed
    <2>2. Patient(feed', clock')
        BY <1>1, <1>3 DEF Paced, Patient, Rests
    <2>3. feed'.pc # "off" => Piped(feed', source')
        BY <1>1, <1>3 DEF Paced, Piped, Phased
    <2>. QED
        BY <2>1, <2>2, <2>3 DEF Paced
<1>. QED
    BY <1>1, <1>2, <1>3 DEF Paced

(* Time passes: what was due stays due.                                    *)
LEMMA PassingIsPaced ==
    ASSUME Shaped(feed, source, clock), Paced(feed, source, clock), Passes
    PROVE  Shaped(feed', source', clock') /\ Paced(feed', source', clock')
<1>1. feed' = feed /\ source' = source /\ clock' = clock + 1 /\ clock \in Nat
    BY DEF Passes, Shaped
<1>2. Shaped(feed', source', clock')
    BY <1>1 DEF Shaped
<1>3. ASSUME feed.timer # Nothing PROVE Paced(feed', source', clock')
    <2>1. /\ {feed.timer.next, source.ready} \subseteq Nat /\ feed.config.interval \in Nat
        BY <1>3 DEF Shaped, Conforms
    <2>2. Asks(feed', source', clock')
        BY <1>1, <1>3, <2>1 DEF Paced, Asks
    <2>3. IsDue(feed, clock) => IsDue(feed, clock + 1)
        BY <1>1, <2>1 DEF IsDue
    <2>4. Patient(feed', clock')
        BY <1>1, <1>3, <2>3 DEF Paced, Patient
    <2>. QED
        BY <1>1, <1>3, <2>2, <2>4 DEF Paced
<1>. QED
    BY <1>1, <1>2, <1>3 DEF Paced

(* One measurement more is a whole number of them.                         *)
LEMMA MeasurementIsAdded ==
    ASSUME NEW n \in Nat, NEW batch \in Nat
    PROVE  n * batch + batch = (n + 1) * batch
    OBVIOUS

(* There is room for one more measurement below a limit of whole ones.     *)
LEMMA OneMoreMeasurement ==
    ASSUME NEW n \in Nat, NEW limit \in Nat, NEW batch \in Nat \ {0}, NEW most \in Nat,
           limit = most * batch, n * batch <= limit, n * batch # limit
    PROVE  n * batch + batch <= limit
<1>1. n * batch + batch = (n + 1) * batch
    BY MeasurementIsAdded
<1>2. n < most
    <2>. SUFFICES ASSUME most <= n PROVE FALSE
        OBVIOUS
    <2>1. PICK d \in Nat : n = most + d
        <3>1. n - most \in Nat /\ n = most + (n - most)
            OBVIOUS
        <3>. QED
            BY <3>1
    <2>2. n * batch = most * batch + d * batch /\ d * batch >= 0
        BY <2>1
    <2>. QED
        BY <2>2
<1>3. PICK d \in Nat : most = (n + 1) + d
    <2>1. most - (n + 1) \in Nat /\ most = (n + 1) + (most - (n + 1))
        BY <1>2
    <2>. QED
        BY <2>1
<1>4. most * batch = (n + 1) * batch + d * batch /\ d * batch >= 0
    BY <1>3
<1>. QED
    BY <1>1, <1>4

(* A look at the timer triggers one whole measurement within the limit     *)
(* when it is due, or closes the batch.                                    *)
LEMMA TakeLookIsPaced ==
    ASSUME Shaped(feed, source, clock), Paced(feed, source, clock), TakeLook
    PROVE  Shaped(feed', source', clock') /\ Paced(feed', source', clock')
<1>1. feed.pc = "events" /\ clock' = clock
    BY DEF TakeLook, At
<1>2. ASSUME ~Due(feed), ComesTo([tick(feed) EXCEPT !.pc = "command"])
      PROVE  Shaped(feed', source', clock') /\ Paced(feed', source', clock')
    <2>. DEFINE g == [tick(feed) EXCEPT !.pc = "command"]
    <2>1. /\ Alike(feed, tick(feed)) /\ tick(feed).pc = feed.pc /\ tick(feed).total = feed.total
          /\ tick(feed).stream = feed.stream /\ tick(feed).over = feed.over
          /\ tick(feed).failed \in {feed.failed, "late"}
          /\ feed.timer # Nothing /\ DOMAIN feed.timer = TimerFields =>
                /\ tick(feed).timer.pending = feed.timer.pending /\ tick(feed).timer.next = feed.timer.next
                /\ tick(feed).timer.stopping = feed.timer.stopping
        BY TickOf DEF Shaped
    <2>2. /\ Alike(feed, g) /\ g.pc = "command" /\ g.total = feed.total /\ g.stream = feed.stream
          /\ g.over = feed.over /\ g.failed \in {feed.failed, "late"}
          /\ feed.timer # Nothing =>
                /\ DOMAIN feed.timer = TimerFields
                /\ g.timer.pending = feed.timer.pending /\ g.timer.next = feed.timer.next
                /\ g.timer.stopping = feed.timer.stopping
        BY <2>1 DEF Alike, DispatcherFields, Shaped
    <2>3. CASE g.failed # "no"
        <3>1. feed' = Stopping(g) /\ AskToStop
            BY <1>2, <2>3 DEF ComesTo
        <3>. QED
            BY <1>1, <2>2, <3>1, StopsPaced
    <2>4. CASE g.failed = "no"
        <3>1. feed' = g /\ source' = source
            BY <1>2, <2>4 DEF ComesTo
        <3>. HIDE DEF g
        <3>2. CASE feed.timer = Nothing
            BY <1>1, <2>2, <3>1, <3>2 DEF Shaped, Paced, Alike
        <3>3. CASE feed.timer # Nothing
            <4>1. /\ feed'.timer # Nothing /\ DOMAIN feed'.timer = TimerFields
                  /\ DOMAIN feed' = DispatcherFields
                  /\ feed'.config = feed.config /\ feed'.left = feed.left /\ feed'.waited = feed.waited
                  /\ feed'.called_off = feed.called_off
                BY <2>2, <3>1, <3>3 DEF Alike
            <4>2. /\ Asks(feed, source, clock) /\ Piped(feed, source) /\ Patient(feed, clock)
                  /\ Agreed(feed, source) /\ feed.timer.stopping \in BOOLEAN
                  /\ {feed.left, feed.total, feed.waited, source.left, source.ready} \subseteq Nat
                  /\ {feed.timer.next, feed.timer.pending} \subseteq Nat
                BY <1>1, <3>3 DEF Shaped, Paced
            <4>3. {feed'.left, feed'.total, feed'.waited, feed'.timer.next, feed'.timer.pending} \subseteq Nat
                BY <2>2, <3>1, <3>3, <4>1, <4>2
            <4>4. feed'.timer.stopping \in BOOLEAN
                BY <2>2, <3>1, <3>3, <4>2
            <4>5. Shaped(feed', source', clock')
                BY <1>1, <2>2, <3>1, <3>3, <4>1, <4>3, <4>4 DEF Shaped
            <4>6. Asks(feed', source', clock')
                BY <1>1, <2>2, <3>1, <4>1, <4>2 DEF Asks
            <4>7. Agreed(feed', source')
                BY <1>1, <2>2, <2>4, <3>1, <3>3, <4>2 DEF Agreed
            <4>8. Patient(feed', clock')
                <5>1. feed.waited # 0 => Rests(feed)
                    BY <1>1, <1>2, <3>3, <4>2 DEF Patient, Due, IsDue, Resting, Rests
                <5>2. Rests(feed) => Rests(feed')
                    BY <2>2, <3>1, <3>3, <4>1 DEF Rests
                <5>. QED
                    BY <2>2, <3>1, <4>1, <4>2, <5>1, <5>2 DEF Patient
            <4>9. Piped(feed', source')
                BY <2>2, <3>1, <4>2 DEF Piped, Phased
            <4>. QED
                BY <4>5, <4>6, <4>7, <4>8, <4>9 DEF Paced
        <3>. QED
            BY <3>2, <3>3
    <2>. QED
        BY <2>3, <2>4
<1>3. ASSUME Due(feed), NEW answer \in {"accepted", "lost", "refused"},
             answer # "refused" => source.phase = "active" /\ ~source.stopped,
             feed' = [feed EXCEPT !.pc = "triggering", !.reply = answer, !.waited = 0],
             source' = IF answer = "refused" THEN source
                       ELSE [source EXCEPT !.left = @ + feed.config.batch,
                                           !.hurried = @ \/ clock < source.ready]
      PROVE  Shaped(feed', source', clock') /\ Paced(feed', source', clock')
    <2>1. feed.timer # Nothing /\ ~feed.timer.stopping /\ feed.timer.pending = 0
          /\ feed.timer.next <= clock /\ ~AllTaken(feed)
        <3>1. feed.timer # Nothing /\ ~feed.timer.stopping /\ feed.timer.pending = 0
              /\ clock >= feed.timer.next /\ ~AllTaken(feed)
            BY <1>3 DEF Due, Resting
        <3>2. feed.timer.next \in Nat /\ clock \in Nat
            BY <3>1 DEF Shaped
        <3>. QED
            BY <3>1, <3>2
    <2>2. /\ Asks(feed, source, clock) /\ Piped(feed, source) /\ Patient(feed, clock)
          /\ {feed.left, feed.total, feed.waited, source.left, source.ready} \subseteq Nat
          /\ {feed.timer.next, feed.timer.pending} \subseteq Nat /\ source.made \in Nat /\ clock \in Nat
          /\ {feed.config.limit, feed.config.interval} \subseteq Nat /\ feed.config.batch \in Nat \ {0}
          /\ source.stopped \in BOOLEAN
        BY <1>1, <2>1 DEF Shaped, Paced, Conforms
    <2>3. /\ feed.failed = "no" /\ source.made + source.left = feed.total
          /\ source.ready <= feed.timer.next
        BY <1>1, <2>1, <2>2 DEF Paced, Agreed
    <2>4. /\ DOMAIN feed' = DispatcherFields /\ feed'.pc = "triggering" /\ feed'.left = feed.left
          /\ feed'.config = feed.config /\ feed'.stream = feed.stream /\ feed'.total = feed.total
          /\ feed'.timer = feed.timer /\ feed'.reply = answer
          /\ feed'.failed = feed.failed /\ feed'.waited = 0
        BY <1>3 DEF Shaped, DispatcherFields
    <2>5. /\ DOMAIN source' = SourceFields /\ source'.phase = source.phase /\ source'.queue = source.queue
          /\ source'.left \in {source.left, source.left + feed.config.batch}
          /\ answer = "accepted" => source'.left = source.left + feed.config.batch
          /\ source'.made = source.made /\ source'.ready = source.ready /\ source'.stopped = source.stopped
          /\ ~source'.hurried
        <3>1. ~(clock < source.ready)
            BY <2>1, <2>2, <2>3
        <3>. QED
            BY <1>3, <2>2, <3>1 DEF Shaped, SourceFields, Asks
    <2>6. Shaped(feed', source', clock')
        <3>1. source'.left \in Nat
            BY <2>2, <2>5
        <3>. QED
            BY <1>1, <2>1, <2>2, <2>4, <2>5, <3>1 DEF Shaped
    <2>7. Asks(feed', source', clock')
        <3>1. PICK n \in Nat : source.made + source.left = n * feed.config.batch
            BY <2>2 DEF Asks
        <3>2. source'.made + source'.left \in {n * feed.config.batch, n * feed.config.batch + feed.config.batch}
            BY <2>2, <2>5, <3>1
        <3>3. n * feed.config.batch + feed.config.batch = (n + 1) * feed.config.batch
            <4>1. feed.config.batch \in Nat
                BY <2>2
            <4>. QED
                BY <4>1, MeasurementIsAdded
        <3>4. \E m \in Nat : source'.made + source'.left = m * feed'.config.batch
            BY <2>4, <3>2, <3>3
        <3>5. ASSUME feed.config.limit # 0 PROVE source'.made + source'.left <= feed.config.limit
            <4>1. PICK most \in 0 .. feed.config.limit : feed.config.limit = most * feed.config.batch
                BY <2>1 DEF Shaped, Conforms
            <4>2. n * feed.config.batch <= feed.config.limit /\ n * feed.config.batch # feed.config.limit
                BY <2>1, <2>2, <2>3, <3>1, <3>5 DEF Asks, AllTaken
            <4>3. most \in Nat
                BY <2>2
            <4>4. n * feed.config.batch + feed.config.batch <= feed.config.limit
                BY <2>2, <4>1, <4>2, <4>3, OneMoreMeasurement
            <4>. QED
                BY <3>2, <4>2, <4>4
        <3>. QED
            BY <1>1, <2>2, <2>4, <2>5, <3>4, <3>5 DEF Asks
    <2>8. Agreed(feed', source')
        BY <1>3, <2>1, <2>2, <2>3, <2>4, <2>5 DEF Agreed
    <2>9. Patient(feed', clock')
        BY <2>4, FeedAssumption DEF Patient
    <2>10. Piped(feed', source')
        BY <2>2, <2>4, <2>5 DEF Piped, Phased
    <2>. QED
        BY <2>6, <2>7, <2>8, <2>9, <2>10 DEF Paced
<1>. QED
    BY <1>2, <1>3 DEF TakeLook

(* The answer to a trigger makes the timer wait for what the source was    *)
(* asked for, or ends the run.                                             *)
LEMMA TriggerReturnsIsPaced ==
    ASSUME Shaped(feed, source, clock), Paced(feed, source, clock), TriggerReturns
    PROVE  Shaped(feed', source', clock') /\ Paced(feed', source', clock')
<1>1. feed.pc = "triggering" /\ clock' = clock
    BY DEF TriggerReturns, At
<1>2. ASSUME feed.reply # "accepted", feed' = Stopping([feed EXCEPT !.failed = "trigger"]), AskToStop
      PROVE  Shaped(feed', source', clock') /\ Paced(feed', source', clock')
    <2>. DEFINE g == [feed EXCEPT !.failed = "trigger"]
    <2>1. /\ Alike(feed, g) /\ g.total = feed.total /\ g.stream = feed.stream /\ g.failed = "trigger"
          /\ g.timer = feed.timer
        BY DEF Shaped, Alike, DispatcherFields
    <2>2. feed' = Stopping(g) /\ feed.pc # "off"
        BY <1>1, <1>2
    <2>. HIDE DEF g
    <2>. QED
        BY <1>1, <1>2, <2>1, <2>2, StopsPaced
<1>3. ASSUME feed.reply = "accepted", source' = source,
             feed' = [feed EXCEPT !.pc = "command", !.timer.pending = feed.config.batch,
                                  !.timer.deadline = clock + feed.config.batch * ActionTimeout]
      PROVE  Shaped(feed', source', clock') /\ Paced(feed', source', clock')
    <2>. DEFINE t == [feed.timer EXCEPT !.pending = feed.config.batch,
                                        !.deadline = clock + feed.config.batch * ActionTimeout]
    <2>1. feed' = [feed EXCEPT !.pc = "command", !.timer = t]
        BY <1>3 DEF Shaped, DispatcherFields
    <2>2. /\ DOMAIN feed' = DispatcherFields /\ feed'.pc = "command" /\ feed'.left = feed.left
          /\ feed'.config = feed.config /\ feed'.stream = feed.stream /\ feed'.total = feed.total
          /\ feed'.timer = t /\ feed'.failed = feed.failed /\ feed'.waited = feed.waited
        BY <2>1 DEF Shaped, DispatcherFields
    <2>3. feed.timer # Nothing
        BY <1>1 DEF Shaped
    <2>4. Shaped(feed', source', clock') /\ Paced(feed', source', clock')
        <3>1. /\ DOMAIN t = TimerFields /\ t.pending = feed.config.batch /\ t.next = feed.timer.next
              /\ t.stopping = feed.timer.stopping
            BY <2>3 DEF Shaped, TimerFields
        <3>2. t # Nothing
            BY <3>1, TimerIsSomething
        <3>. HIDE DEF t
        <3>3. /\ Asks(feed, source, clock) /\ Piped(feed, source) /\ Patient(feed, clock)
              /\ Agreed(feed, source) /\ feed.timer.stopping \in BOOLEAN
              /\ {feed.left, feed.total, feed.waited, source.left, source.ready} \subseteq Nat
              /\ {feed.timer.next, feed.timer.pending} \subseteq Nat /\ feed.config.batch \in Nat \ {0}
            BY <1>1, <2>3 DEF Shaped, Paced, Conforms
        <3>4. {feed'.left, feed'.total, feed'.waited, feed'.timer.next, feed'.timer.pending} \subseteq Nat
            BY <2>2, <3>1, <3>3
        <3>5. Shaped(feed', source', clock')
            BY <1>1, <1>3, <2>2, <2>3, <3>1, <3>2, <3>3, <3>4 DEF Shaped
        <3>6. Asks(feed', source', clock')
            BY <1>1, <1>3, <2>2, <3>3 DEF Asks
        <3>7. Agreed(feed', source')
            BY <1>1, <1>3, <2>2, <3>1, <3>3 DEF Agreed
        <3>8. Patient(feed', clock')
            BY <1>1, <2>2, <3>3 DEF Patient
        <3>9. Piped(feed', source')
            BY <1>3, <2>2, <3>3 DEF Piped, Phased
        <3>. QED
            BY <3>5, <3>6, <3>7, <3>8, <3>9 DEF Paced
    <2>. QED
        BY <2>4
<1>. QED
    BY <1>2, <1>3 DEF TriggerReturns

(* What is left after a stop is drained without the timer.                 *)
LEMMA DrainIsPaced ==
    ASSUME Shaped(feed, source, clock), Paced(feed, source, clock), DrainTail
    PROVE  Shaped(feed', source', clock') /\ Paced(feed', source', clock')
<1>1. feed.pc = "stopping" /\ clock' = clock
    BY DEF DrainTail, At
<1>2. Alike(feed, Gone(feed)) /\ Gone(feed).pc = "off" /\ Gone(feed).timer = feed.timer
      /\ Gone(feed).failed = feed.failed /\ Gone(feed).total = feed.total
    BY DEF Gone, Shaped, Alike, DispatcherFields
<1>3. ASSUME Alike(feed, feed'), feed'.pc = "off", feed'.timer = feed.timer, feed'.total = feed.total,
             feed'.failed \in {feed.failed, "shutdown"},
             source' = source \/ (source.queue # <<>> /\ source' = [source EXCEPT !.queue = Tail(@)])
      PROVE  Shaped(feed', source', clock') /\ Paced(feed', source', clock')
    <2>1. /\ DOMAIN source' = SourceFields /\ source'.queue \in {source.queue, Tail(source.queue)}
          /\ source'.phase = source.phase /\ source'.left = source.left /\ source'.made = source.made
          /\ source'.ready = source.ready /\ source'.hurried = source.hurried
          /\ source'.stopped = source.stopped
          /\ source'.queue = source.queue \/ source.queue # <<>>
        BY <1>3 DEF Shaped, SourceFields
    <2>2. Spoken(source'.queue)
        BY <2>1, SpokenOn DEF Shaped
    <2>3. Shaped(feed', source', clock')
        BY <1>1, <1>3, <2>1, <2>2 DEF Shaped, Alike
    <2>4. ASSUME feed.timer # Nothing
          PROVE  Asks(feed', source', clock') /\ Agreed(feed', source') /\ Patient(feed', clock')
        BY <1>1, <1>3, <2>1, <2>4 DEF Alike, Paced, Asks, Agreed, Patient
    <2>. QED
        BY <1>3, <2>3, <2>4 DEF Paced
<1>4. CASE source.queue = <<>> /\ source' = source
           /\ feed' = [Gone(feed) EXCEPT !.failed = IF @ = "no" THEN "shutdown" ELSE @]
    <2>1. /\ Alike(feed, feed') /\ feed'.pc = "off" /\ feed'.timer = feed.timer
          /\ feed'.total = feed.total /\ feed'.failed \in {feed.failed, "shutdown"}
        BY <1>2, <1>4 DEF Alike, DispatcherFields
    <2>. QED
        BY <1>3, <1>4, <2>1
<1>. DEFINE e == Head(source.queue)
            f == event(feed, e)
            g == [f EXCEPT !.failed = IF feed.failed = "no" THEN @ ELSE feed.failed]
<1>5. CASE source.queue # <<>> /\ e.is = "closed" /\ feed' = Gone(feed)
           /\ source' = [source EXCEPT !.queue = Tail(@)]
    BY <1>2, <1>3, <1>5
<1>6. CASE source.queue # <<>> /\ e.is # "closed" /\ feed' = g
           /\ source' = [source EXCEPT !.queue = Tail(@)]
    <2>. HIDE DEF e, f
    <2>1. /\ DOMAIN source' = SourceFields /\ source'.queue = Tail(source.queue)
          /\ source'.phase = source.phase /\ source'.left = source.left /\ source'.made = source.made
          /\ source'.ready = source.ready /\ source'.hurried = source.hurried
          /\ source'.stopped = source.stopped
        BY <1>6 DEF Shaped, SourceFields
    <2>2. Spoken(source'.queue) /\ e.is \in {"status", "sample", "rx", "summary"}
        BY <1>6, <2>1, SpokenOn DEF Shaped, e
    <2>3. Alike(feed, f) => /\ Alike(feed, g) /\ g.pc = f.pc /\ g.total = f.total /\ g.stream = f.stream
                            /\ g.timer = f.timer /\ g.failed \in {f.failed, feed.failed}
        BY DEF Alike, DispatcherFields
    <2>4. CASE feed.timer = Nothing
        <3>1. Alike(feed, f) /\ f.pc = feed.pc
            BY <2>2, <2>4, EventWithoutTimer DEF Shaped, f
        <3>2. DOMAIN feed' = DispatcherFields /\ feed'.config = feed.config /\ feed'.timer = Nothing
              /\ feed'.pc = "stopping"
            BY <1>1, <1>6, <2>3, <2>4, <3>1 DEF Alike
        <3>. QED
            BY <1>1, <2>1, <2>2, <3>2 DEF Shaped, Paced
    <2>5. CASE feed.timer # Nothing
        <3>1. /\ Asks(feed, source, clock) /\ Piped(feed, source) /\ Patient(feed, clock)
              /\ feed.timer.stopping = TRUE /\ DOMAIN feed.timer = TimerFields
              /\ {feed.left, feed.total, feed.waited, source.left, source.ready} \subseteq Nat
              /\ {feed.timer.next, feed.timer.pending} \subseteq Nat /\ source.made \in Nat
              /\ source.stopped \in BOOLEAN /\ feed.config.limit \in Nat /\ Spoken(source.queue)
              /\ DOMAIN feed = DispatcherFields
            BY <1>1, <2>5 DEF Shaped, Paced, Conforms, Agreed
        <3>2. /\ e.is \in {"status", "sample", "summary"}
              /\ e.is = "sample" =>
                    feed.stream = "active" /\ feed.total < source.made /\ e.captured = feed.total + 1
              /\ e.is = "status" => e.stream \in {"active", "ended"} /\ e.stopping \in BOOLEAN
            BY <1>6, <3>1, PipeSays DEF e
        <3>10. feed.timer.stopping \in BOOLEAN /\ (feed.timer.stopping \/ feed.timer.pending # 0)
            BY <3>1
        <3>3. /\ Alike(feed, f) /\ f.pc = "stopping" /\ f.failed = feed.failed
              /\ f.stream = IF e.is = "status" THEN e.stream ELSE feed.stream
              /\ f.total = IF e.is = "sample" THEN feed.total + 1 ELSE feed.total
              /\ f.timer.pending = feed.timer.pending /\ f.timer.next = feed.timer.next
              /\ f.timer.stopping = TRUE
            <4>1. CASE e.is = "status"
                BY <1>1, <2>5, <3>1, <3>2, <3>10, <4>1, EventOfStatus DEF f
            <4>2. CASE e.is = "summary"
                BY <1>1, <2>5, <3>1, <3>2, <4>2, EventOfSummary DEF f
            <4>3. CASE e.is = "sample"
                <5>1. feed.config.limit # 0 => ~(feed.total + 1 > feed.config.limit)
                    BY <3>1, <3>2, <4>3 DEF Asks
                <5>. QED
                    BY <1>1, <2>5, <3>1, <3>2, <3>10, <4>3, <5>1, EventOfSample DEF f
            <4>. QED
                BY <3>2, <4>1, <4>2, <4>3
        <3>4. /\ DOMAIN feed' = DispatcherFields /\ feed'.pc = "stopping" /\ feed'.failed = feed.failed
              /\ feed'.stream = f.stream /\ feed'.total = f.total /\ feed'.config = feed.config
              /\ feed'.left = feed.left /\ feed'.waited = feed.waited
              /\ feed'.timer # Nothing /\ DOMAIN feed'.timer = TimerFields
              /\ feed'.timer.pending = feed.timer.pending /\ feed'.timer.next = feed.timer.next
              /\ feed'.timer.stopping = TRUE
            BY <1>6, <2>3, <2>5, <3>1, <3>3 DEF Alike
        <3>5. {feed'.left, feed'.total, feed'.waited, feed'.timer.next, feed'.timer.pending} \subseteq Nat
            BY <3>1, <3>3, <3>4
        <3>6. Shaped(feed', source', clock')
            BY <1>1, <2>1, <2>2, <2>5, <3>1, <3>4, <3>5 DEF Shaped
        <3>7. Asks(feed', source', clock')
            BY <1>1, <2>1, <3>1, <3>4 DEF Asks
        <3>8. Agreed(feed', source') /\ Patient(feed', clock')
            BY <3>1, <3>4 DEF Agreed, Patient
        <3>9. Piped(feed', source')
            <4>1. /\ feed'.stream = IF e.is = "status" THEN e.stream ELSE feed.stream
                  /\ feed'.total = IF e.is = "sample" THEN feed.total + 1 ELSE feed.total
                BY <3>3, <3>4
            <4>2. source.stopped => source'.stopped
                BY <2>1
            <4>3. feed.total \in Nat
                BY <3>1
            <4>. QED
                BY ZenonT(40), <1>6, <2>1, <3>1, <4>1, <4>2, <4>3, PipeMoves DEF e
        <3>. QED
            BY <3>6, <3>7, <3>8, <3>9 DEF Paced
    <2>. QED
        BY <2>4, <2>5
<1>. QED
    BY <1>4, <1>5, <1>6 DEF DrainTail

(* What can be said of a queue can be said when an event is added to it.   *)
LEMMA SpokenMore ==
    ASSUME NEW queue, Spoken(queue), NEW e,
           e.is \in {"status", "sample", "rx", "summary", "closed"}
    PROVE  Spoken(Append(queue, e))
<1>1. /\ \E S : Append(queue, e) \in Seq(S)
      /\ Len(queue) \in Nat /\ Len(Append(queue, e)) = Len(queue) + 1
      /\ \A i \in 1 .. Len(queue) : Append(queue, e)[i] = queue[i]
      /\ Append(queue, e)[Len(queue) + 1] = e
    BY ZenonT(40), Written DEF Spoken
<1>2. \A i \in 1 .. Len(queue) + 1 : i \in 1 .. Len(queue) \/ i = Len(queue) + 1
    BY <1>1
<1>. QED
    BY <1>1, <1>2 DEF Spoken

(* An event that announces no stop of its own keeps what is announced.     *)
LEMMA AnnouncedMore ==
    ASSUME NEW queue, Spoken(queue), NEW stopped, Announced(queue, stopped), NEW e, e.is # "rx",
           e.is = "status" => /\ e.stream \in {"active", "ended"} /\ e.stopping \in BOOLEAN
                              /\ (e.stopping => stopped)
    PROVE  Announced(Append(queue, e), stopped)
<1>1. /\ Len(queue) \in Nat /\ Len(Append(queue, e)) = Len(queue) + 1
      /\ \A i \in 1 .. Len(queue) : Append(queue, e)[i] = queue[i]
      /\ Append(queue, e)[Len(queue) + 1] = e
    BY Written DEF Spoken
<1>2. \A i \in 1 .. Len(queue) + 1 : i \in 1 .. Len(queue) \/ i = Len(queue) + 1
    BY <1>1
<1>. QED
    BY <1>1, <1>2 DEF Announced

(* A source that has begun goes on with an event that is no end, or ends.  *)
LEMMA PhasedMore ==
    ASSUME NEW f, NEW s, NEW r, Spoken(s.queue), Phased(f, s), NEW e,
           r.queue = Append(s.queue, e), r.phase \in {"active", "ended"},
           \/ s.phase = "idle" /\ r.phase = "active" /\ e.is = "status" /\ e.stream = "active"
           \/ s.phase = "active" /\ r.phase = "active" /\ ~IsEnd(e)
           \/ s.phase # "idle" /\ r.phase = "ended" /\ e.is # "sample"
    PROVE  Phased(f, r)
<1>1. /\ Len(s.queue) \in Nat /\ Len(r.queue) = Len(s.queue) + 1
      /\ \A i \in 1 .. Len(s.queue) : r.queue[i] = s.queue[i]
      /\ r.queue[Len(s.queue) + 1] = e /\ r.queue # <<>>
    BY Written DEF Spoken
<1>2. \A i \in 1 .. Len(r.queue) : i \in 1 .. Len(s.queue) \/ i = Len(s.queue) + 1
    BY <1>1
<1>3. s.queue # <<>> => 1 \in 1 .. Len(s.queue)
    BY <1>1, EmptySeq DEF Spoken
<1>4. CASE s.phase = "idle" /\ r.phase = "active" /\ e.is = "status" /\ e.stream = "active"
    <2>1. Len(s.queue) = 0 /\ f.stream = "none"
        BY <1>4 DEF Phased
    <2>2. ~IsEnd(e)
        BY <1>4 DEF IsEnd
    <2>. QED
        BY <1>1, <1>2, <1>4, <2>1, <2>2 DEF Phased
<1>5. CASE s.phase = "active" /\ r.phase = "active" /\ ~IsEnd(e)
    BY <1>1, <1>2, <1>3, <1>5 DEF Phased
<1>6. CASE s.phase # "idle" /\ r.phase = "ended" /\ e.is # "sample"
    <2>1. Samples(r.queue) \subseteq Samples(s.queue)
        BY <1>1, <1>2, <1>6 DEF Samples
    <2>. QED
        BY <1>1, <1>2, <1>3, <1>6, <2>1 DEF Phased
<1>. QED
    BY <1>4, <1>5, <1>6

(* What the source says on its own concerns the pipe, and what it makes.   *)
LEMMA SourceIsPaced ==
    ASSUME Shaped(feed, source, clock), Paced(feed, source, clock),
           feed' = feed, clock' = clock, DOMAIN source' = SourceFields, Spoken(source'.queue),
           source'.made \in Nat,
           feed.timer # Nothing =>
              /\ source'.hurried = source.hurried /\ source'.made + source'.left = source.made + source.left
              /\ {source'.left, source'.ready} \subseteq Nat
              /\ source'.ready \in {source.ready, clock + feed.config.interval}
              /\ source'.ready = source.ready \/ source.left # 0
              /\ source'.stopped \in BOOLEAN /\ (source.stopped => source'.stopped)
              /\ feed.pc # "off" => Piped(feed, source')
    PROVE  Shaped(feed', source', clock') /\ Paced(feed', source', clock')
<1>1. Shaped(feed', source', clock')
    BY DEF Shaped
<1>2. ASSUME feed.timer # Nothing PROVE Paced(feed', source', clock')
    <2>1. /\ Asks(feed, source, clock) /\ Agreed(feed, source) /\ Patient(feed, clock)
          /\ (feed.pc # "off" => Piped(feed, source))
          /\ {feed.total, feed.timer.pending, source.left, source.ready, source.made} \subseteq Nat
          /\ feed.config.interval \in Nat /\ clock \in Nat
        BY <1>2 DEF Shaped, Paced, Conforms
    <2>2. Asks(feed', source', clock')
        BY <1>2, <2>1 DEF Asks
    <2>3. ASSUME feed.pc \in {"command", "events"}, ~feed.timer.stopping, feed.timer.pending = 0
          PROVE  source'.ready <= feed.timer.next
        <3>1. source.made + source.left = feed.total /\ feed.total <= source.made
            BY <2>1, <2>3 DEF Agreed, Piped
        <3>2. source.left = 0
            BY <2>1, <3>1
        <3>. QED
            BY <1>2, <2>1, <2>3, <3>2 DEF Agreed
    <2>4. Agreed(feed', source')
        BY <1>2, <2>1, <2>3 DEF Agreed
    <2>. QED
        BY <1>2, <2>1, <2>2, <2>4 DEF Paced
<1>. QED
    BY <1>1, <1>2 DEF Paced

(* A source that stops on its own leaves what is on its way.               *)
LEMMA StopOfSourceIsPaced ==
    ASSUME Shaped(feed, source, clock), Paced(feed, source, clock), SourceStops
    PROVE  Shaped(feed', source', clock') /\ Paced(feed', source', clock')
<1>1. /\ feed' = feed /\ clock' = clock /\ DOMAIN source' = SourceFields
      /\ source'.queue = source.queue /\ source'.phase = source.phase
      /\ source'.left = source.left /\ source'.made = source.made /\ source'.ready = source.ready
      /\ source'.hurried = source.hurried /\ source'.stopped = TRUE
    BY DEF SourceStops, Shaped, SourceFields
<1>2. ASSUME feed.timer # Nothing, feed.pc # "off" PROVE Piped(feed, source')
    BY <1>1, <1>2 DEF Paced, Piped, Announced, Phased
<1>3. Spoken(source'.queue) /\ source'.made \in Nat
    BY <1>1 DEF Shaped
<1>4. feed.timer # Nothing => {source'.left, source'.ready} \subseteq Nat
    BY <1>1 DEF Shaped
<1>. QED
    BY <1>1, <1>2, <1>3, <1>4, SourceIsPaced

(* A source reports that it is active.                                     *)
LEMMA ReportIsPaced ==
    ASSUME Shaped(feed, source, clock), Paced(feed, source, clock), SourceReports
    PROVE  Shaped(feed', source', clock') /\ Paced(feed', source', clock')
<1>. DEFINE e == StatusEvent("active", source.stopped)
<1>1. /\ feed' = feed /\ clock' = clock /\ DOMAIN source' = SourceFields
      /\ source'.queue = Append(source.queue, e) /\ source'.phase = "active"
      /\ source'.left = source.left /\ source'.made = source.made /\ source'.ready = source.ready
      /\ source'.hurried = source.hurried /\ source'.stopped = source.stopped
      /\ source.phase # "ended"
    BY DEF SourceReports, Shaped, SourceFields
<1>2. e.is = "status" /\ e.stream = "active" /\ e.stopping = source.stopped
    BY DEF StatusEvent
<1>. HIDE DEF e
<1>3. Spoken(source.queue) /\ Spoken(source'.queue) /\ source'.made \in Nat
    BY <1>1, <1>2, SpokenMore DEF Shaped
<1>4. ASSUME feed.timer # Nothing, feed.pc # "off" PROVE Piped(feed, source')
    <2>1. Piped(feed, source) /\ feed.total \in Nat /\ source.made \in Nat /\ source.stopped \in BOOLEAN
        BY <1>4 DEF Shaped, Paced
    <2>2. Numbered(source'.queue, feed.total, source.made) /\ EndsLast(source'.queue)
        BY <1>1, <1>2, <2>1, NumbersWhenAdded DEF Piped
    <2>3. Announced(source'.queue, source.stopped)
        BY <1>1, <1>2, <1>3, <2>1, AnnouncedMore DEF Piped
    <2>4. Phased(feed, source')
        <3>1. ~IsEnd(e)
            BY <1>2 DEF IsEnd
        <3>2. source.phase \in {"idle", "active"}
            BY <1>1, <2>1 DEF Piped, Phased
        <3>. QED
            BY <1>1, <1>2, <1>3, <2>1, <3>1, <3>2, PhasedMore DEF Piped
    <2>. QED
        BY <1>1, <2>1, <2>2, <2>3, <2>4 DEF Piped
<1>5. feed.timer # Nothing => {source'.left, source'.ready} \subseteq Nat /\ source'.stopped \in BOOLEAN
    BY <1>1 DEF Shaped
<1>. QED
    BY <1>1, <1>3, <1>4, <1>5, SourceIsPaced

(* A source with a timer makes only what it was asked for, one number      *)
(* after the other.                                                        *)
LEMMA MeasureIsPaced ==
    ASSUME Shaped(feed, source, clock), Paced(feed, source, clock), SourceMeasures
    PROVE  Shaped(feed', source', clock') /\ Paced(feed', source', clock')
<1>1. /\ feed' = feed /\ clock' = clock /\ source.phase = "active" /\ source.made < Len(feed.config.tape)
      /\ feed.config.interval = 0 \/ source.left > 0
    BY DEF SourceMeasures
<1>2. PICK e \in feed.config.tape[source.made + 1] :
          source' = [source EXCEPT !.queue = Append(@, e), !.made = @ + 1, !.left = Monus(@, 1),
                                   !.ready = IF source.left = 1 THEN clock + feed.config.interval ELSE @]
    BY DEF SourceMeasures
<1>3. /\ DOMAIN source' = SourceFields /\ source'.queue = Append(source.queue, e)
      /\ source'.phase = "active" /\ source'.made = source.made + 1 /\ source'.left = Monus(source.left, 1)
      /\ source'.ready = IF source.left = 1 THEN clock + feed.config.interval ELSE source.ready
      /\ source'.hurried = source.hurried /\ source'.stopped = source.stopped
    BY <1>1, <1>2 DEF Shaped, SourceFields
<1>4. source.made \in Nat /\ source.made + 1 \in 1 .. Len(feed.config.tape)
    BY <1>1 DEF Shaped, Conforms
<1>5. /\ e.is \in {"sample", "rx"}
      /\ feed.config.interval # 0 => e.is = "sample" /\ e.captured = source.made + 1
    BY <1>2, <1>4 DEF Shaped, Conforms
<1>6. Spoken(source.queue) /\ Spoken(source'.queue) /\ source'.made \in Nat
    BY <1>3, <1>4, <1>5, SpokenMore DEF Shaped
<1>7. ASSUME feed.timer # Nothing
      PROVE  /\ source'.made + source'.left = source.made + source.left
             /\ {source'.left, source'.ready} \subseteq Nat
             /\ source'.ready \in {source.ready, clock + feed.config.interval}
             /\ source'.ready = source.ready \/ source.left # 0
             /\ source'.stopped \in BOOLEAN
    <2>1. /\ source.left \in Nat /\ source.ready \in Nat /\ clock \in Nat /\ feed.config.interval \in Nat
          /\ source.stopped \in BOOLEAN /\ feed.config.interval # 0
        BY <1>7 DEF Shaped, Conforms
    <2>2. source.left > 0 /\ source'.left = source.left - 1
        BY <1>1, <1>3, <2>1 DEF Monus
    <2>3. source'.left \in Nat /\ source'.ready \in Nat
        BY <1>3, <2>1, <2>2
    <2>4. source'.made + source'.left = source.made + source.left
        BY <1>3, <1>4, <2>1, <2>2
    <2>. QED
        BY <1>3, <2>1, <2>3, <2>4
<1>8. ASSUME feed.timer # Nothing, feed.pc # "off" PROVE Piped(feed, source')
    <2>1. /\ Piped(feed, source) /\ feed.total \in Nat /\ source.stopped \in BOOLEAN
          /\ e.is = "sample" /\ e.captured = source.made + 1
        BY <1>5, <1>8 DEF Shaped, Paced
    <2>2. \A i \in 1 .. Len(source.queue) : ~IsEnd(source.queue[i])
        BY <1>1, <2>1 DEF Piped, Phased
    <2>3. Numbered(source'.queue, feed.total, source.made + 1) /\ EndsLast(source'.queue)
        BY <1>3, <1>4, <2>1, <2>2, NumbersWhenAdded DEF Piped
    <2>4. Announced(source'.queue, source.stopped)
        BY <1>3, <1>6, <2>1, AnnouncedMore DEF Piped
    <2>5. Phased(feed, source')
        <3>1. ~IsEnd(e)
            BY <2>1 DEF IsEnd
        <3>. QED
            BY <1>1, <1>3, <1>6, <2>1, <3>1, PhasedMore DEF Piped
    <2>6. feed.total <= source.made + 1
        BY <1>4, <2>1 DEF Piped
    <2>. QED
        BY <1>3, <2>3, <2>4, <2>5, <2>6 DEF Piped
<1>. QED
    BY <1>1, <1>3, <1>6, <1>7, <1>8, SourceIsPaced

(* Three events at once are three events one after the other.              *)
LEMMA ThreeMore ==
    ASSUME NEW queue, \E S : queue \in Seq(S), NEW a, NEW b, NEW d
    PROVE  queue \o <<a, b, d>> = Append(Append(Append(queue, a), b), d)
<1>1. PICK S : queue \in Seq(S)
    OBVIOUS
<1>2. PICK T : queue \in Seq(T) /\ a \in T /\ b \in T /\ d \in T
    <2>1. queue \in Seq(S \cup {a, b, d}) /\ {a, b, d} \subseteq S \cup {a, b, d}
        BY <1>1
    <2>. QED
        BY <2>1
<1>. HIDE <1>1
<1>3. <<a, b, d>> \in Seq(T)
    BY <1>2
<1>. DEFINE left == queue \o <<a, b, d>>
            right == Append(Append(Append(queue, a), b), d)
<1>4. left \in Seq(T) /\ right \in Seq(T)
    BY <1>2, <1>3
<1>5. Len(left) = Len(queue) + 3 /\ Len(right) = Len(queue) + 3 /\ Len(queue) \in Nat
    BY <1>2, <1>3
<1>6. \A i \in 1 .. Len(queue) + 3 : left[i] = right[i]
    BY <1>2, <1>3
<1>. HIDE DEF left, right
<1>7. left = right
    BY <1>4, <1>5, <1>6, SeqEqual
<1>. QED
    BY <1>7 DEF left, right

(* A source ends with a status, a summary and the end of the pipe, and no  *)
(* sample after them.                                                      *)
LEMMA EndIsPaced ==
    ASSUME Shaped(feed, source, clock), Paced(feed, source, clock), SourceEnds
    PROVE  Shaped(feed', source', clock') /\ Paced(feed', source', clock')
<1>. DEFINE a == StatusEvent("ended", source.stopped)
            q1 == Append(source.queue, a)
            q2 == Append(q1, SummaryEvent)
            q3 == Append(q2, EndOfPipe)
<1>1. Spoken(source.queue)
    BY DEF Shaped
<1>2. /\ feed' = feed /\ clock' = clock /\ DOMAIN source' = SourceFields
      /\ source'.queue = q3 /\ source'.phase = "ended"
      /\ source'.left = source.left /\ source'.made = source.made /\ source'.ready = source.ready
      /\ source'.hurried = source.hurried /\ source'.stopped = source.stopped
      /\ source.phase = "active"
    <2>1. source.queue \o <<a, SummaryEvent, EndOfPipe>> = q3
        BY <1>1, ThreeMore DEF Spoken
    <2>. QED
        BY <2>1 DEF SourceEnds, Shaped, SourceFields
<1>3. /\ a.is = "status" /\ a.stream = "ended" /\ a.stopping = source.stopped
      /\ SummaryEvent.is = "summary" /\ EndOfPipe.is = "closed"
    BY DEF StatusEvent, SummaryEvent, EndOfPipe
<1>. HIDE DEF a
<1>4. Spoken(q1)
    BY <1>1, <1>3, SpokenMore
<1>. HIDE DEF q1
<1>5. Spoken(q2)
    BY <1>3, <1>4, SpokenMore
<1>. HIDE DEF q2
<1>6. Spoken(q3)
    BY <1>3, <1>5, SpokenMore
<1>7. ASSUME feed.timer # Nothing, feed.pc # "off" PROVE Piped(feed, source')
    <2>1. /\ Piped(feed, source) /\ feed.total \in Nat /\ source.made \in Nat /\ source.stopped \in BOOLEAN
          /\ feed.total <= source.made
        BY <1>7 DEF Shaped, Paced, Piped
    <2>2. Numbered(q1, feed.total, source.made) /\ EndsLast(q1) /\ Announced(q1, source.stopped)
        BY <1>1, <1>3, <2>1, NumbersWhenAdded, AnnouncedMore DEF Piped, q1
    <2>3. Numbered(q2, feed.total, source.made) /\ EndsLast(q2) /\ Announced(q2, source.stopped)
        BY <1>3, <1>4, <2>1, <2>2, NumbersWhenAdded, AnnouncedMore DEF q2
    <2>4. Numbered(q3, feed.total, source.made) /\ EndsLast(q3) /\ Announced(q3, source.stopped)
        BY <1>3, <1>5, <2>1, <2>3, NumbersWhenAdded, AnnouncedMore
    <2>. HIDE DEF q3
    <2>. DEFINE s1 == [queue |-> q1, phase |-> "ended"]
                s2 == [queue |-> q2, phase |-> "ended"]
    <2>5. s1.queue = q1 /\ s1.phase = "ended" /\ s2.queue = q2 /\ s2.phase = "ended"
        OBVIOUS
    <2>. HIDE DEF s1, s2
    <2>6. Phased(feed, s1)
        BY <1>1, <1>2, <1>3, <2>1, <2>5, PhasedMore DEF Piped, q1
    <2>7. Phased(feed, s2)
        BY <1>3, <1>4, <2>5, <2>6, PhasedMore DEF q2
    <2>8. Phased(feed, source')
        BY <1>2, <1>3, <1>5, <2>5, <2>7, PhasedMore DEF q3
    <2>. QED
        BY <1>2, <2>1, <2>4, <2>8 DEF Piped
<1>8. feed.timer # Nothing => {source'.left, source'.ready} \subseteq Nat /\ source'.stopped \in BOOLEAN
    BY <1>2 DEF Shaped
<1>9. source'.made \in Nat /\ Spoken(source'.queue)
    BY <1>2, <1>6 DEF Shaped
<1>. HIDE DEF q3
<1>. QED
    BY <1>2, <1>7, <1>8, <1>9, SourceIsPaced

(* Every step of the dispatcher, the source, the clock and the queries     *)
(* keeps the pacing.                                                       *)
LEMMA FeedStepIsPaced ==
    ASSUME Shaped(feed, source, clock), Paced(feed, source, clock), FeedStep
    PROVE  Shaped(feed', source', clock') /\ Paced(feed', source', clock')
<1>1. CASE QueryBegins \/ QueryScans \/ QueryPasses
    <2>1. feed' = feed /\ source' = source /\ clock' = clock
        BY <1>1 DEF QueryBegins, QueryScans, QueryPasses
    <2>. QED
        BY <2>1
<1>2. CASE WorkerOn \/ TakeCommand \/ ReleaseWorker \/ Handle
    BY <1>2, WorkerOnIsPaced, TakeCommandIsPaced, ReleaseIsPaced, HandleIsPaced
<1>3. CASE TakeLook \/ TriggerReturns \/ DrainTail \/ CallOff \/ Passes
    BY <1>3, TakeLookIsPaced, TriggerReturnsIsPaced, DrainIsPaced, CallOffIsPaced, PassingIsPaced
<1>4. CASE SourceReports \/ SourceMeasures \/ SourceStops \/ SourceEnds
    BY <1>4, ReportIsPaced, MeasureIsPaced, StopOfSourceIsPaced, EndIsPaced
<1>. QED
    BY <1>1, <1>2, <1>3, <1>4 DEF FeedStep

(* A feed that has not begun is paced.                                     *)
LEMMA PaceStarts == Init => PaceInv
<1>. SUFFICES ASSUME Init PROVE PaceInv
    OBVIOUS
<1>1. scene \in DOMAIN Scenes /\ FeedInit(Scenes[scene].feeds)
    BY DEF Init
<1>2. CASE Scenes[scene].feeds = {}
    BY <1>1, <1>2 DEF FeedInit, PaceInv
<1>3. CASE Scenes[scene].feeds # {}
    <2>1. PICK config \in Scenes[scene].feeds :
              feed = Off(config, config.runs) /\ source = FreshSource /\ clock = 0
        BY <1>1, <1>3 DEF FeedInit
    <2>2. Conforms(config)
        BY <1>1, ScenesAssumption
    <2>3. /\ DOMAIN feed = DispatcherFields /\ feed.config = config /\ feed.pc = "off"
          /\ feed.timer = Nothing
        BY <2>1 DEF Off, DispatcherFields
    <2>4. DOMAIN source = SourceFields /\ source.queue = <<>> /\ source.made = 0
        BY <2>1 DEF FreshSource, SourceFields
    <2>5. <<>> \in Seq({}) /\ Len(<<>>) = 0
        OBVIOUS
    <2>. QED
        BY <1>1, <1>3, <2>1, <2>2, <2>3, <2>4, <2>5 DEF PaceInv, Shaped, Paced, Spoken
<1>. QED
    BY <1>2, <1>3

(* Every step keeps the invariant.                                         *)
LEMMA NextIsPaced ==
    ASSUME PaceInv, [Next]_vars
    PROVE  PaceInv'
<1>1. CASE UNCHANGED <<scene, feed, source, clock>>
    BY <1>1 DEF PaceInv, Shaped, Paced, Asks, Agreed, Patient, Piped, Phased
<1>2. CASE Feeding
    <2>1. scene' = scene /\ FeedStep /\ Scenes[scene].then = "feed"
        BY <1>2 DEF Feeding, Used
    <2>2. Scenes[scene].feeds # {}
        BY <2>1, ScenesAssumption DEF PaceInv
    <2>. QED
        BY <2>1, <2>2, FeedStepIsPaced DEF PaceInv
<1>3. UNCHANGED <<scene, feed, source, clock>> \/ Feeding
    BY DEF Next, Writing, Open, Preparing, Working, Talking, Looking, Used, feeding, vars
<1>. QED
    BY <1>1, <1>2, <1>3

(* A software timer asks for one measurement at a time, no sooner than the *)
(* interval after the last reading of the one before, for no more than the *)
(* limit, and has its turn however much the source has to say; no reading  *)
(* that was asked for is refused.  For any intervals, limits and sizes of  *)
(* a measurement, and any order of the source's steps and the clock's.     *)
THEOREM TimersArePaced == Spec => []TimerIsPaced
<1>1. PaceInv /\ [Next]_vars => PaceInv'
    BY NextIsPaced
<1>2. PaceInv => TimerIsPaced
    <2>. SUFFICES ASSUME PaceInv, feed # Nothing, feed.timer # Nothing PROVE TimerIsPaced
        BY DEF TimerIsPaced
    <2>1. Shaped(feed, source, clock) /\ Paced(feed, source, clock)
        BY DEF PaceInv
    <2>2. /\ Asks(feed, source, clock) /\ Agreed(feed, source) /\ Patient(feed, clock)
          /\ feed.total \in Nat /\ source.made \in Nat /\ source.left \in Nat /\ feed.timer.pending \in Nat
        BY <2>1 DEF Shaped, Paced
    <2>. DEFINE readings == Quantify(DOMAIN source.queue, LAMBDA i : source.queue[i].is = "sample")
    <2>3. ASSUME feed.pc \in {"command", "events"}, ~source.stopped
          PROVE  source.left + readings = feed.timer.pending
        <3>1. Piped(feed, source)
            BY <2>1, <2>3 DEF Paced
        <3>2. readings = source.made - feed.total
            BY <2>2, <3>1, ReadingsOnTheirWay DEF Piped
        <3>3. source.made + source.left = feed.total + feed.timer.pending
            BY <2>2, <2>3 DEF Agreed
        <3>. QED
            BY <2>2, <3>2, <3>3
    <2>. QED
        BY <2>2, <2>3 DEF TimerIsPaced, Asks, Patient
<1>. QED
    BY <1>1, <1>2, PaceStarts, PTL DEF Spec

-----------------------------------------------------------------------------
(***************************************************************************)
(* The panes: the table and the chart of a run that is stored while it is  *)
(* looked at.                                                              *)
(***************************************************************************)
RunFields ==
    {"id", "rows", "numeric", "stamped", "sums", "executions", "ok", "root", "steps", "messages", "total"}

(* The messages that are kept when n were shown: the last ones.            *)
LastMessages(n) == [i \in 1 .. Min({n, MaxRecords}) |-> Monus(n, MaxRecords) + i]

Of(list, step) == {i \in DOMAIN list : list[i].step = step}

(* What is remembered of a step is what its executions say.                *)
Summed(r, step) ==
    LET of == Of(r.executions, step)
        said(status) == \E i \in of : r.executions[i].status = status
    IN /\ \E last \in of : /\ \A i \in of : i <= last
                           /\ r.steps[step].latest = r.executions[last]
       /\ r.steps[step].failed <=> said("failed")
       /\ r.steps[step].ok <=> \A i \in of : r.executions[i].status = "succeeded"

Statuses == {"succeeded", "failed", "cancelled"}

Kept(r) ==
    /\ DOMAIN r = RunFields /\ r.total \in Nat
    /\ \E S : r.rows \in Seq(S)
    /\ \E S : r.executions \in Seq(S)
    /\ r.messages = LastMessages(r.total)
    /\ \A i \in DOMAIN r.executions :
          r.executions[i].step \in DOMAIN r.steps /\ r.executions[i].status \in Statuses
    /\ \A step \in DOMAIN r.steps : Summed(r, step)

(* Each row of a window is what its place in the window says.              *)
WindowFields == {"is", "run", "total", "offset", "rows"}

Windowed(w) ==
    w.is = "rows" =>
        /\ DOMAIN w = WindowFields /\ w.total \in Nat /\ w.offset \in Int
        /\ \E S : w.rows \in Seq(S)
        /\ \A i \in 1 .. Len(w.rows) : w.rows[i] = w.total - (w.offset + i - 1)

(* Points of a run, in their order, from start on.                         *)
InOrder(points, r, start) ==
    /\ \E S : points \in Seq(S)
    /\ \A i \in 1 .. Len(points) : points[i] = <<r, start + i>>

ViewFields ==
    {"pane", "news", "run", "told", "eligible", "top", "table", "asked", "wanted", "chart", "loader"}

Viewed ==
    /\ DOMAIN view = ViewFields /\ view.told \in Nat /\ view.top \in Nat
    /\ view.news # Nothing => view.news.rows \in Nat
    /\ Windowed(view.table) /\ Windowed(view.asked)
    /\ view.asked.is = "asked" => {view.asked.start, view.asked.end} \subseteq Nat
    /\ DOMAIN view.chart = Outputs
    /\ \A n \in Outputs : InOrder(view.chart[n], view.run, 0)
    /\ view.loader.is = "load" => {view.loader.start, view.loader.limit} \subseteq Int
    /\ view.loader.is = "series" =>
          view.loader.start \in Int /\ InOrder(view.loader.tail, view.loader.run, view.loader.start)

-----------------------------------------------------------------------------
(* The smaller of two.                                                     *)
LEMMA MinOfTwo ==
    ASSUME NEW a \in Int, NEW b \in Int
    PROVE  Min({a, b}) = IF a <= b THEN a ELSE b
<1>. DEFINE m == IF a <= b THEN a ELSE b
<1>1. m \in {a, b} /\ \A y \in {a, b} : m <= y
    OBVIOUS
<1>2. \A x \in {a, b} : (\A y \in {a, b} : x <= y) => x = m
    OBVIOUS
<1>. HIDE DEF m
<1>3. Min({a, b}) = m
    BY <1>1, <1>2 DEF Min
<1>. QED
    BY <1>3 DEF m

(* The largest of a set that has one.                                      *)
LEMMA MaxIsLargest ==
    ASSUME NEW S, S \subseteq Int, NEW m \in S, \A i \in S : i <= m
    PROVE  Max(S) = m
<1>1. \A x \in S : (\A y \in S : x >= y) => x = m
    OBVIOUS
<1>2. \A y \in S : m >= y
    OBVIOUS
<1>. QED
    BY <1>1, <1>2 DEF Max

(* Subtraction that ends at zero.                                          *)
LEMMA MonusIs ==
    ASSUME NEW a \in Int, NEW b \in Int, b >= 0 \/ a >= 0
    PROVE  /\ Monus(a, b) \in Int /\ Monus(a, b) >= 0
           /\ Monus(a, b) = IF a > b THEN a - b ELSE 0
    BY DEF Monus

-----------------------------------------------------------------------------
(* Messages.                                                               *)

(* One more message: the last ones again, without the first of them when   *)
(* there is no more room.                                                  *)
LEMMA OneMoreMessage ==
    ASSUME NEW n \in Nat
    PROVE  Append(IF Len(LastMessages(n)) = MaxRecords THEN Tail(LastMessages(n)) ELSE LastMessages(n), n + 1)
               = LastMessages(n + 1)
<1>. DEFINE old == LastMessages(n)
            new == LastMessages(n + 1)
            kept == IF Len(old) = MaxRecords THEN Tail(old) ELSE old
<1>1. MaxRecords \in Nat /\ MaxRecords >= 1
    BY ResultsAssumption
<1>2. Min({n, MaxRecords}) = (IF n <= MaxRecords THEN n ELSE MaxRecords)
    BY <1>1, MinOfTwo
<1>3. Min({n + 1, MaxRecords}) = (IF n + 1 <= MaxRecords THEN n + 1 ELSE MaxRecords)
    BY <1>1, MinOfTwo
<1>4. CASE n < MaxRecords
    <2>1. old = [i \in 1 .. n |-> i] /\ new = [i \in 1 .. n + 1 |-> i]
        BY <1>1, <1>2, <1>3, <1>4 DEF LastMessages, Monus
    <2>2. old \in Seq(Nat) /\ Len(old) = n
        BY <2>1
    <2>3. kept = old
        BY <1>1, <1>4, <2>2
    <2>. HIDE DEF kept, old, new
    <2>. QED
        BY <2>1, <2>2, <2>3 DEF kept, old, new
<1>5. CASE n >= MaxRecords
    <2>. DEFINE m == MaxRecords
    <2>1. old = [i \in 1 .. m |-> n - m + i] /\ new = [i \in 1 .. m |-> n + 1 - m + i]
        <3>1. Min({n, m}) = m /\ Min({n + 1, m}) = m
            BY <1>1, <1>2, <1>3, <1>5
        <3>2. Monus(n, m) = n - m /\ Monus(n + 1, m) = n + 1 - m
            BY <1>1, <1>5 DEF Monus
        <3>. QED
            BY <3>1, <3>2 DEF LastMessages
    <2>2. old \in Seq(Int) /\ Len(old) = m /\ old # <<>>
        BY <1>1, <1>5, <2>1
    <2>3. kept = Tail(old)
        BY <2>2
    <2>4. /\ Tail(old) \in Seq(Int) /\ Len(Tail(old)) = m - 1
          /\ \A i \in 1 .. m - 1 : Tail(old)[i] = old[i + 1]
        BY <1>1, <2>2
    <2>5. Append(Tail(old), n + 1) = new
        <3>. DEFINE a == Append(Tail(old), n + 1)
        <3>1. a \in Seq(Int) /\ Len(a) = m /\ a[m] = n + 1 /\ \A i \in 1 .. m - 1 : a[i] = Tail(old)[i]
            BY <1>1, <2>4
        <3>2. new \in Seq(Int) /\ Len(new) = m
            BY <1>1, <2>1
        <3>3. m \in Nat /\ m >= 1
            BY <1>1
        <3>. HIDE DEF a, old, new, m
        <3>4. ASSUME NEW i \in 1 .. m PROVE a[i] = new[i]
            <4>1. CASE i = m
                BY <3>3, <3>1, <2>1, <4>1
            <4>2. CASE i # m
                <5>1. i \in 1 .. m - 1 /\ i + 1 \in 1 .. m
                    BY <3>3, <4>2
                <5>2. a[i] = old[i + 1]
                    BY <5>1, <3>1, <2>4
                <5>3. old[i + 1] = n - m + (i + 1) /\ new[i] = n + 1 - m + i
                    BY <5>1, <2>1
                <5>. QED
                    BY <3>3, <5>1, <5>2, <5>3
            <4>. QED
                BY <4>1, <4>2
        <3>5. Len(a) = Len(new) /\ \A i \in 1 .. Len(a) : a[i] = new[i]
            BY <3>1, <3>2, <3>4
        <3>6. a = new
            BY <3>1, <3>2, <3>5, SeqEqual
        <3>. QED
            BY <3>6 DEF a
    <2>. QED
        BY <2>3, <2>5
<1>. QED
    BY <1>1, <1>4, <1>5

-----------------------------------------------------------------------------
(* The stored run.                                                         *)

(* A run that begins has nothing yet, and all of it.                       *)
LEMMA NewRunIsKept ==
    ASSUME NEW id
    PROVE  Kept(NewRun(id))
<1>. DEFINE r == NewRun(id)
<1>1. /\ DOMAIN r = RunFields /\ r.total = 0 /\ r.rows = <<>> /\ r.executions = <<>>
      /\ r.messages = <<>> /\ r.steps = NoEntries
    BY DEF NewRun, RunFields
<1>2. DOMAIN NoEntries = {} /\ <<>> \in Seq({}) /\ DOMAIN <<>> = {}
    BY DEF NoEntries
<1>3. LastMessages(0) = <<>>
    <2>1. MaxRecords \in Nat
        BY ResultsAssumption
    <2>2. Min({0, MaxRecords}) = 0
        BY <2>1, MinOfTwo
    <2>. QED
        BY <2>2 DEF LastMessages
<1>. HIDE DEF r
<1>4. Kept(r)
    BY <1>1, <1>2, <1>3 DEF Kept
<1>. QED
    BY <1>4 DEF r

(* A row more.                                                             *)
LEMMA RowIsKept ==
    ASSUME NEW r, Kept(r), NEW row
    PROVE  Kept(append(r, row))
<1>. DEFINE next == append(r, row)
<1>1. /\ DOMAIN next = RunFields /\ next.rows = Append(r.rows, row)
      /\ next.total = r.total /\ next.executions = r.executions
      /\ next.messages = r.messages /\ next.steps = r.steps
    BY DEF append, Kept, RunFields
<1>2. \E S : next.rows \in Seq(S)
    <2>1. PICK S : r.rows \in Seq(S)
        BY DEF Kept
    <2>2. r.rows \in Seq(S \cup {row})
        BY <2>1
    <2>3. Append(r.rows, row) \in Seq(S \cup {row})
        BY <2>2
    <2>. QED
        BY <2>3, <1>1
<1>. HIDE DEF next
<1>3. Kept(next)
    BY <1>1, <1>2 DEF Kept, Summed
<1>. QED
    BY <1>3 DEF next

(* A message more.                                                         *)
LEMMA MessageIsKept ==
    ASSUME NEW r, Kept(r)
    PROVE  Kept(append_message(r))
<1>. DEFINE next == append_message(r)
<1>1. /\ DOMAIN next = RunFields /\ next.rows = r.rows
      /\ next.total = r.total + 1 /\ next.executions = r.executions /\ next.steps = r.steps
      /\ next.messages = Append(IF Len(r.messages) = MaxRecords THEN Tail(r.messages) ELSE r.messages,
                                r.total + 1)
    BY DEF append_message, Kept, RunFields
<1>2. next.messages = LastMessages(r.total + 1)
    BY <1>1, OneMoreMessage DEF Kept
<1>. HIDE DEF next
<1>3. Kept(next)
    BY <1>1, <1>2 DEF Kept, Summed
<1>. QED
    BY <1>3 DEF next

(* An execution more: what is remembered of its step counts it.            *)
LEMMA ExecutionIsKept ==
    ASSUME NEW r, Kept(r), NEW e \in Executions
    PROVE  Kept(append_step(r, e))
<1>. DEFINE next == append_step(r, e)
            new == compact_execution(e)
            list == r.executions
            longer == Append(list, new)
            n == Len(list)
            known == e.step \in DOMAIN r.steps
            before == IF known THEN r.steps[e.step] ELSE [failed |-> FALSE, ok |-> TRUE]
            ok == e.status = "succeeded"
            summary == [failed |-> before.failed \/ e.status = "failed", ok |-> before.ok /\ ok, latest |-> new]
<1>1. /\ DOMAIN next = RunFields /\ next.rows = r.rows
      /\ next.total = r.total /\ next.messages = r.messages
      /\ next.executions = longer
      /\ next.steps = [step \in DOMAIN r.steps \cup {e.step} |->
                          IF step # e.step THEN r.steps[step] ELSE summary]
    BY DEF append_step, Kept, RunFields
<1>2. new.step = e.step /\ new.status = e.status /\ e.status \in Statuses
    BY ExecutionsAssumption DEF compact_execution, Statuses
<1>3. PICK S : list \in Seq(S)
    BY DEF Kept
<1>4. longer \in Seq(S \cup {new}) /\ Len(longer) = n + 1 /\ n \in Nat
    <2>1. list \in Seq(S \cup {new}) /\ new \in S \cup {new}
        BY <1>3
    <2>. HIDE DEF new, list
    <2>. QED
        BY <2>1
<1>5. longer[n + 1] = new /\ \A i \in 1 .. n : longer[i] = list[i]
    <2>. HIDE DEF new, list
    <2>. QED
        BY <1>3
<1>6. DOMAIN list = 1 .. n /\ DOMAIN longer = 1 .. n + 1
    BY <1>3, <1>4
<1>. HIDE DEF new, longer, list, n, next, summary
<1>7. /\ \A i \in 1 .. n : list[i].step \in DOMAIN r.steps /\ list[i].status \in Statuses
      /\ \A step \in DOMAIN r.steps : Summed(r, step)
    BY <1>6 DEF Kept, list
<1>8. \A i \in DOMAIN longer : longer[i].step \in DOMAIN next.steps /\ longer[i].status \in Statuses
    BY <1>1, <1>2, <1>4, <1>5, <1>6, <1>7
<1>9. ASSUME NEW step \in DOMAIN next.steps PROVE Summed(next, step)
    <2>1. CASE step # e.step
        <3>1. Of(longer, step) = Of(list, step) /\ Of(list, step) \subseteq 1 .. n
            BY <1>2, <1>4, <1>5, <1>6, <2>1 DEF Of
        <3>2. next.steps[step] = r.steps[step] /\ Summed(r, step)
            BY <1>1, <1>7, <2>1
        <3>3. \A i \in Of(longer, step) : longer[i] = list[i]
            BY <3>1, <1>5
        <3>. QED
            BY <3>1, <3>2, <3>3, <1>1 DEF Summed, list
    <2>2. CASE step = e.step
        <3>1. Of(longer, step) = Of(list, step) \cup {n + 1} /\ Of(list, step) \subseteq 1 .. n
            BY <1>2, <1>4, <1>5, <1>6, <2>2 DEF Of
        <3>2. next.steps[step] = summary
            BY <1>1, <2>2
        <3>3. \A i \in Of(list, step) : longer[i] = list[i]
            BY <3>1, <1>5
        <3>4. summary.latest = new /\ (summary.failed <=> before.failed \/ e.status = "failed")
                  /\ (summary.ok <=> before.ok /\ ok)
            BY DEF summary
        <3>5. /\ before.failed <=> \E i \in Of(list, step) : list[i].status = "failed"
              /\ before.ok <=> \A i \in Of(list, step) : list[i].status = "succeeded"
            <4>1. CASE known
                BY <4>1, <2>2, <1>7 DEF Summed, list
            <4>2. CASE ~known
                <5>1. Of(list, step) = {}
                    BY <4>2, <1>6, <1>7, <2>2 DEF Of
                <5>. QED
                    BY <5>1, <4>2
            <4>. QED
                BY <4>1, <4>2
        <3>. HIDE DEF before, ok
        <3>6. n + 1 \in Of(longer, step) /\ (\A i \in Of(longer, step) : i <= n + 1) /\ longer[n + 1] = new
            BY <3>1, <1>4, <1>5
        <3>7. /\ summary.failed <=> \E i \in Of(longer, step) : longer[i].status = "failed"
              /\ summary.ok <=> \A i \in Of(longer, step) : longer[i].status = "succeeded"
            BY <3>1, <3>3, <3>4, <3>5, <3>6, <1>2 DEF ok
        <3>8. \E last \in Of(longer, step) : /\ \A i \in Of(longer, step) : i <= last
                                             /\ summary.latest = longer[last]
            BY <3>4, <3>6
        <3>. QED
            BY <3>2, <3>7, <3>8, <1>1 DEF Summed
    <2>. QED
        BY <2>1, <2>2
<1>10. Kept(next)
    BY <1>1, <1>4, <1>8, <1>9 DEF Kept
<1>. QED
    BY <1>10 DEF next

-----------------------------------------------------------------------------
(* What is asked of it.                                                    *)

(* A window of the newest, member by member.                               *)
LEMMA NewestIs ==
    ASSUME NEW S, NEW list \in Seq(S), NEW offset \in Int, offset >= 0, NEW limit \in Int, limit <= MaxWindow
    PROVE  LET end == Monus(Len(list), offset)
               answer == Newest(list, offset, limit)
           IN /\ answer \in Seq(S) /\ end \in Nat /\ end <= Len(list)
              /\ Len(answer) = IF limit < 0 THEN 0 ELSE Min({limit, end})
              /\ \A i \in 1 .. Len(answer) : end - i + 1 \in 1 .. Len(list) /\ answer[i] = list[end - i + 1]
<1>. DEFINE n == Len(list)
            end == Monus(n, offset)
            first == Monus(end, limit) + 1
            part == SubSeq(list, first, end)
            answer == Newest(list, offset, limit)
<1>1. MaxWindow \in Nat /\ n \in Nat
    BY ResultsAssumption
<1>2. end \in Nat /\ end <= n
    BY <1>1 DEF Monus
<1>3. Min({limit, MaxWindow}) = limit
    BY <1>1, MinOfTwo
<1>4. first \in Int /\ first >= 1 /\ first = IF end > limit THEN end - limit + 1 ELSE 1
    BY <1>2 DEF Monus
<1>5. answer = Reverse(part)
    BY <1>3 DEF Newest
<1>6. /\ part \in Seq(S) /\ Len(part) = IF first <= end THEN end - first + 1 ELSE 0
      /\ \A i \in 1 .. Len(part) : part[i] = list[first + i - 1]
    <2>. HIDE DEF first, end
    <2>. QED
        BY <1>1, <1>2, <1>4 DEF n
<1>7. Len(part) \in Nat /\ answer = [i \in 1 .. Len(part) |-> part[Len(part) - i + 1]]
    BY <1>5, <1>6 DEF Reverse
<1>8. Len(part) = IF limit < 0 THEN 0 ELSE IF limit <= end THEN limit ELSE end
    <2>. HIDE DEF part, first, end
    <2>. QED
        BY <1>2, <1>4, <1>6
<1>9. Min({limit, end}) = IF limit <= end THEN limit ELSE end
    <2>. HIDE DEF end
    <2>. QED
        BY <1>2, MinOfTwo
<1>. HIDE DEF answer, part, first, end, n
<1>10. answer \in Seq(S) /\ Len(answer) = Len(part)
    <2>1. \A i \in 1 .. Len(part) : part[Len(part) - i + 1] \in S
        BY <1>6, <1>7
    <2>. QED
        BY <1>7, <2>1
<1>11. ASSUME NEW i \in 1 .. Len(answer)
       PROVE  end - i + 1 \in 1 .. n /\ answer[i] = list[end - i + 1]
    <2>1. i \in 1 .. Len(part) /\ Len(part) - i + 1 \in 1 .. Len(part)
        BY <1>10, <1>7
    <2>2. answer[i] = list[first + (Len(part) - i + 1) - 1]
        BY <1>6, <1>7, <2>1
    <2>3. first <= end /\ Len(part) = end - first + 1
        BY <1>6, <2>1
    <2>4. first + (Len(part) - i + 1) - 1 = end - i + 1
        BY <1>2, <1>4, <2>3
    <2>. QED
        BY <1>1, <1>2, <1>4, <2>1, <2>2, <2>3, <2>4
<1>. QED
    BY <1>2, <1>8, <1>9, <1>10, <1>11 DEF answer, end, n

(* From any place on, the windows are the list from its end.               *)
LEMMA WindowIsReal ==
    ASSUME NEW S, NEW list \in Seq(S), NEW offset \in Nat, NEW limit \in 1 .. MaxWindow
    PROVE  Newest(list, offset, limit)
               = SubSeq(Reverse(list), offset + 1, Min({offset + limit, Len(list)}))
<1>. DEFINE n == Len(list)
            end == Monus(n, offset)
            answer == Newest(list, offset, limit)
            back == Reverse(list)
            last == Min({offset + limit, n})
            part == SubSeq(back, offset + 1, last)
<1>1. MaxWindow \in Nat /\ n \in Nat /\ limit \in Nat /\ limit <= MaxWindow
    BY ResultsAssumption
<1>2. /\ answer \in Seq(S) /\ end \in Nat
      /\ Len(answer) = Min({limit, end})
      /\ \A i \in 1 .. Len(answer) : answer[i] = list[end - i + 1]
    <2>1. offset \in Int /\ offset >= 0 /\ limit \in Int /\ limit <= MaxWindow /\ ~(limit < 0)
        BY <1>1
    <2>2. list \in Seq(S)
        OBVIOUS
    <2>. HIDE DEF n, end, answer, back, last, part
    <2>3. /\ Newest(list, offset, limit) \in Seq(S)
          /\ Monus(Len(list), offset) \in Nat /\ Monus(Len(list), offset) <= Len(list)
          /\ Len(Newest(list, offset, limit)) = IF limit < 0 THEN 0 ELSE Min({limit, Monus(Len(list), offset)})
          /\ \A i \in 1 .. Len(Newest(list, offset, limit)) :
                /\ Monus(Len(list), offset) - i + 1 \in 1 .. Len(list)
                /\ Newest(list, offset, limit)[i] = list[Monus(Len(list), offset) - i + 1]
        BY ONLY ZenonT(30), <2>1, <2>2, NewestIs
    <2>. QED
        BY <2>1, <2>3 DEF n, end, answer
<1>3. end = (IF n > offset THEN n - offset ELSE 0)
    BY DEF Monus
<1>4. Min({limit, end}) = IF limit <= end THEN limit ELSE end
    BY <1>1, <1>2, MinOfTwo
<1>5. last = IF offset + limit <= n THEN offset + limit ELSE n
    BY <1>1, MinOfTwo
<1>6. back \in Seq(S) /\ Len(back) = n /\ \A i \in 1 .. n : back[i] = list[n - i + 1]
    <2>1. back = [i \in 1 .. n |-> list[n - i + 1]]
        BY DEF Reverse
    <2>2. \A i \in 1 .. n : list[n - i + 1] \in S
        BY <1>1
    <2>. QED
        BY <1>1, <2>1, <2>2
<1>. HIDE DEF answer, back, end, last, n
<1>7. /\ part \in Seq(S) /\ Len(part) = IF offset + 1 <= last THEN last - offset ELSE 0
      /\ \A i \in 1 .. Len(part) : part[i] = back[offset + i]
    <2>1. last <= Len(back) /\ last \in Nat
        BY <1>1, <1>5, <1>6
    <2>. QED
        BY <1>1, <1>6, <2>1
<1>. HIDE DEF part
<1>8. Len(answer) = Len(part)
    BY <1>1, <1>2, <1>3, <1>4, <1>5, <1>7
<1>9. ASSUME NEW i \in 1 .. Len(answer) PROVE answer[i] = part[i]
    <2>1. answer[i] = list[end - i + 1] /\ part[i] = back[offset + i]
        BY <1>2, <1>7, <1>8
    <2>2. i <= last - offset /\ offset + i \in 1 .. n /\ n > offset
        <3>1. i \in Nat /\ i >= 1 /\ i <= Len(part)
            BY <1>2, <1>8
        <3>2. last \in Nat /\ last <= n /\ offset \in Nat
            BY <1>1, <1>5
        <3>3. i <= last - offset
            BY ONLY <1>7, <3>1, <3>2
        <3>. QED
            BY ONLY <1>1, <3>1, <3>2, <3>3
    <2>3. n - (offset + i) + 1 = end - i + 1
        BY <1>1, <1>3, <2>2
    <2>. QED
        BY <1>6, <2>1, <2>2, <2>3
<1>10. answer = part
    BY <1>2, <1>7, <1>8, <1>9, SeqEqual
<1>. QED
    BY <1>10 DEF answer, part, back, last, n

(* The pages and messages of a stored run are the parts of it that they    *)
(* should be.                                                              *)
LEMMA RunIsShown ==
    ASSUME NEW r, Kept(r)
    PROVE  /\ Tiles(LAMBDA offset, limit : executions(r, offset, limit), r.executions)
           /\ Tiles(LAMBDA offset, limit : page_rows(r, offset, limit).rows,
                    [i \in DOMAIN r.rows |-> i])
           /\ window(r, 0, MaxRecords) = LastMessages(r.total)
<1>1. \A k \in Int, limit \in Nat : (k - 1) * limit + limit = k * limit
    OBVIOUS
<1>2. \A limit \in 1 .. MaxWindow, k \in Nat : k >= 1 => (k - 1) * limit \in Nat
    OBVIOUS
<1>3. MaxWindow \in Nat /\ MaxRecords \in Nat
    BY ResultsAssumption
<1>4. ASSUME NEW list, NEW S, list \in Seq(S), NEW limit \in 1 .. MaxWindow, NEW k \in 1 .. Len(list)
      PROVE  Newest(list, (k - 1) * limit, limit)
                 = SubSeq(Reverse(list), (k - 1) * limit + 1, Min({k * limit, Len(list)}))
    <2>1. (k - 1) * limit \in Nat /\ (k - 1) * limit + limit = k * limit
        BY <1>1, <1>2, <1>3
    <2>. QED
        BY <1>4, <2>1, WindowIsReal
<1>5. PICK S : r.executions \in Seq(S)
    BY DEF Kept
<1>6. PICK R : r.rows \in Seq(R)
    BY DEF Kept
<1>. DEFINE rows == [i \in DOMAIN r.rows |-> i]
<1>7. rows \in Seq(Nat)
    BY <1>6
<1>8. Tiles(LAMBDA offset, limit : executions(r, offset, limit), r.executions)
    BY <1>4, <1>5 DEF Tiles, executions
<1>9. \A offset, limit : page_rows(r, offset, limit).rows = Newest(rows, offset, limit)
    BY DEF page_rows
<1>. HIDE DEF rows
<1>10. Tiles(LAMBDA offset, limit : page_rows(r, offset, limit).rows, rows)
    BY <1>4, <1>7, <1>9 DEF Tiles
<1>11. window(r, 0, MaxRecords) = LastMessages(r.total)
    <2>. DEFINE list == LastMessages(r.total)
                m == Min({r.total, MaxRecords})
    <2>1. r.total \in Nat /\ r.messages = list
        BY DEF Kept
    <2>2. m \in Nat /\ m <= MaxRecords
        BY <1>3, <2>1, MinOfTwo
    <2>3. Monus(r.total, MaxRecords) \in Nat
        BY <1>3, <2>1 DEF Monus
    <2>4. list \in Seq(Nat) /\ Len(list) = m
        <3>. DEFINE d == Monus(r.total, MaxRecords)
        <3>1. list = [i \in 1 .. m |-> d + i]
            BY DEF LastMessages
        <3>. HIDE DEF d, m, list
        <3>. QED
            BY <2>2, <2>3, <3>1 DEF d
    <2>5. Monus(m, 0) = m /\ Monus(m, MaxRecords) = 0
        BY <1>3, <2>2 DEF Monus
    <2>6. window(r, 0, MaxRecords) = SubSeq(list, 1, Len(list))
        <3>. HIDE DEF list, m
        <3>. QED
            BY <2>1, <2>4, <2>5 DEF window
    <2>. HIDE DEF list
    <2>7. SubSeq(list, 1, Len(list)) = list
        BY <2>4, SubSeqFull
    <2>. QED
        BY <2>6, <2>7 DEF list
<1>. QED
    BY <1>8, <1>10, <1>11 DEF rows

(* A preview says exactly when it is not all of its value.                 *)
LEMMA PreviewsTell ==
    ASSUME NEW e \in Executions
    PROVE  LET kept == bounded_preview(e.value)
           IN kept.omitted <=> kept.preview # e.value
<1>. DEFINE v == e.value
            kept == bounded_preview(v)
            measured == v.is = "object" /\ {"value", "unit"} \subseteq v.fields
            short == [v EXCEPT !.long = FALSE]
            bare == [v EXCEPT !.long = FALSE, !.fields = {"value", "unit"}]
<1>1. v \in [is : STRING, long : BOOLEAN, large : BOOLEAN, fields : SUBSET STRING]
    BY ExecutionsAssumption
<1>2. short # v <=> v.long
    <2>1. short.long = FALSE
        BY <1>1
    <2>2. ~v.long => short = v
        BY <1>1
    <2>. QED
        BY <2>1, <2>2
<1>3. measured => (bare # v <=> v.long \/ v.fields # {"value", "unit"})
    <2>1. bare.long = FALSE /\ bare.fields = {"value", "unit"}
        BY <1>1
    <2>2. measured /\ ~v.long /\ v.fields = {"value", "unit"} => bare = v
        BY <1>1
    <2>. QED
        BY <2>1, <2>2
<1>4. Nothing # v
    <2>1. DOMAIN Nothing = {"is"}
        BY DEF Nothing
    <2>. QED
        BY <1>1, <2>1
<1>5. /\ v.is = "text" => kept = [preview |-> short, omitted |-> v.long]
      /\ measured => kept = [preview |-> bare, omitted |-> v.long \/ v.fields # {"value", "unit"}]
      /\ v.is # "text" /\ ~measured => kept = [preview |-> Nothing, omitted |-> TRUE]
                                       \/ kept = [preview |-> v, omitted |-> FALSE]
    <2>. HIDE DEF v
    <2>. QED
        BY DEF bounded_preview
<1>. HIDE DEF v, short, bare, kept, measured
<1>6. kept.omitted <=> kept.preview # v
    <2>1. CASE v.is = "text"
        <3>1. kept.omitted = v.long /\ kept.preview = short
            BY <1>5, <2>1
        <3>. QED
            BY <1>2, <3>1
    <2>2. CASE measured
        <3>1. kept.omitted = (v.long \/ v.fields # {"value", "unit"}) /\ kept.preview = bare
            BY <1>5, <2>2
        <3>. QED
            BY <1>3, <2>2, <3>1
    <2>3. CASE v.is # "text" /\ ~measured
        <3>1. \/ kept.omitted = TRUE /\ kept.preview = Nothing
              \/ kept.omitted = FALSE /\ kept.preview = v
            BY <1>5, <2>3
        <3>. QED
            BY <1>4, <3>1
    <2>. QED
        BY <2>1, <2>2, <2>3
<1>. QED
    BY <1>6 DEF kept, v

(* The status of a step is that of all its executions.                     *)
LEMMA StepsAreTold ==
    ASSUME stored # Nothing, Kept(stored)
    PROVE  StepsAreSummed
<1>. DEFINE list == stored.executions
<1>1. PICK S : list \in Seq(S)
    BY DEF Kept
<1>2. DOMAIN list \subseteq Int
    BY <1>1
<1>3. ASSUME NEW step \in DOMAIN stored.steps
      PROVE  LET of == {i \in DOMAIN list : list[i].step = step}
                 some(status) == \E i \in of : list[i].status = status
             IN /\ stored.steps[step].latest = list[Max(of)]
                /\ step_status(stored.steps[step]) =
                      IF some("failed") THEN "failed"
                      ELSE IF some("cancelled") THEN "cancelled" ELSE "succeeded"
    <2>. DEFINE of == {i \in DOMAIN list : list[i].step = step}
    <2>1. of = Of(list, step) /\ of \subseteq Int
        BY <1>2 DEF Of
    <2>2. /\ stored.steps[step].failed <=> \E i \in of : list[i].status = "failed"
          /\ stored.steps[step].ok <=> \A i \in of : list[i].status = "succeeded"
        BY <2>1 DEF Kept, Summed
    <2>3. PICK last \in of : (\A i \in of : i <= last) /\ stored.steps[step].latest = list[last]
        BY <2>1 DEF Kept, Summed
    <2>4. \A i \in of : list[i].status \in Statuses
        BY DEF Kept
    <2>. HIDE DEF of
    <2>5. Max(of) = last
        BY <2>1, <2>3, MaxIsLargest
    <2>6. step_status(stored.steps[step]) =
              IF \E i \in of : list[i].status = "failed" THEN "failed"
              ELSE IF \E i \in of : list[i].status = "cancelled" THEN "cancelled" ELSE "succeeded"
        BY <2>2, <2>4 DEF step_status, Statuses
    <2>. QED
        BY <2>3, <2>5, <2>6 DEF of
<1>. QED
    BY <1>3 DEF StepsAreSummed

-----------------------------------------------------------------------------
(* The table.                                                              *)

(* The rows the table needs are numbers of rows.                           *)
LEMMA RangeIsInt ==
    ASSUME NEW total \in Nat, NEW top \in Nat
    PROVE  {virtualRowRange(total, top).start, virtualRowRange(total, top).end} \subseteq Nat
<1>1. Height \in Nat /\ Overscan \in Nat
    BY ResultsAssumption
<1>2. LastTop(total) \in Nat
    BY <1>1 DEF LastTop, Monus
<1>3. Min({top, LastTop(total)}) \in Nat
    BY <1>2, MinOfTwo
<1>. DEFINE seen == Min({top, LastTop(total)})
<1>. HIDE DEF seen
<1>4. Monus(seen, Overscan) \in Nat /\ seen + Height + Overscan \in Nat
    BY <1>1, <1>3 DEF Monus, seen
<1>5. Min({total, seen + Height + Overscan}) \in Nat
    BY <1>4, MinOfTwo
<1>. QED
    BY <1>4, <1>5 DEF virtualRowRange, seen

(* What is not there is no window and no series.                           *)
LEMMA NothingIsShown == /\ Nothing.is \notin {"rows", "asked", "load", "series"}
                        /\ Dropped.is \notin {"rows", "asked", "load", "series"}
    BY DEF Nothing, Dropped

(* What the table is given of a run is what it asked for.                  *)
LEMMA RowsAreReal ==
    ASSUME NEW r, Kept(r), NEW offset \in Nat, NEW limit \in Int
    PROVE  Windowed(page_rows(r, offset, limit))
<1>. DEFINE w == page_rows(r, offset, limit)
            rows == [i \in DOMAIN r.rows |-> i]
            n == Len(r.rows)
<1>1. n \in Nat /\ rows \in Seq(Nat) /\ Len(rows) = n /\ \A i \in 1 .. n : rows[i] = i
    <2>1. PICK S : r.rows \in Seq(S)
        BY DEF Kept
    <2>. QED
        BY <2>1
<1>2. DOMAIN w = WindowFields /\ w.total = n /\ w.offset = offset /\ w.rows = Newest(rows, offset, limit)
    BY DEF page_rows, WindowFields
<1>. DEFINE cut == Min({limit, MaxWindow})
<1>3. MaxWindow \in Nat /\ cut \in Int /\ cut <= MaxWindow
    BY ResultsAssumption, MinOfTwo
<1>4. Min({cut, MaxWindow}) = cut
    BY <1>3, MinOfTwo
<1>. HIDE DEF rows, n, cut
<1>5. Newest(rows, offset, limit) = Newest(rows, offset, cut)
    BY <1>4 DEF Newest, cut
<1>. DEFINE answer == Newest(rows, offset, cut)
            end == Monus(n, offset)
<1>6. /\ answer \in Seq(Nat) /\ \A i \in 1 .. Len(answer) : end - i + 1 \in 1 .. n /\ answer[i] = rows[end - i + 1]
    <2>1. offset \in Int /\ offset >= 0
        OBVIOUS
    <2>2. Len(rows) = n
        BY <1>1
    <2>. HIDE DEF answer, end
    <2>. DEFINE S == Nat
    <2>5. rows \in Seq(S) /\ cut \in Int /\ cut <= MaxWindow
        BY <1>1, <1>3
    <2>. HIDE DEF S
    <2>3. /\ Newest(rows, offset, cut) \in Seq(S)
          /\ Monus(Len(rows), offset) \in Nat /\ Monus(Len(rows), offset) <= Len(rows)
          /\ Len(Newest(rows, offset, cut)) = IF cut < 0 THEN 0 ELSE Min({cut, Monus(Len(rows), offset)})
          /\ \A i \in 1 .. Len(Newest(rows, offset, cut)) :
                /\ Monus(Len(rows), offset) - i + 1 \in 1 .. Len(rows)
                /\ Newest(rows, offset, cut)[i] = rows[Monus(Len(rows), offset) - i + 1]
        BY ONLY ZenonT(30), <2>1, <2>5, NewestIs
    <2>. QED
        BY <2>2, <2>3 DEF answer, end, S
<1>. HIDE DEF answer
<1>7. \A i \in 1 .. Len(answer) : answer[i] = n - (offset + i - 1)
    <2>. TAKE i \in 1 .. Len(answer)
    <2>1. answer[i] = end - i + 1 /\ end - i + 1 \in 1 .. n /\ i >= 1
        BY <1>1, <1>6
    <2>2. end = n - offset
        BY <1>1, <2>1 DEF Monus
    <2>. QED
        BY <1>1, <2>1, <2>2
<1>. HIDE DEF w
<1>8. Windowed(w)
    BY <1>1, <1>2, <1>5, <1>6, <1>7 DEF Windowed, answer
<1>. QED
    BY <1>8 DEF w

(* Rows that arrived since then move a window; each row is still in its    *)
(* place.                                                                  *)
LEMMA RebasedIsReal ==
    ASSUME NEW w, Windowed(w), NEW r, NEW before \in Nat, NEW total \in Nat
    PROVE  Windowed(rebaseNewestFirstWindow(w, r, before, total))
<1>1. CASE w.is = "rows"
    <2>. DEFINE next == Rebased(w, total)
    <2>1. /\ DOMAIN next = WindowFields /\ next.total = total /\ next.rows = w.rows
          /\ next.offset = w.offset + total - w.total
        BY <1>1 DEF Rebased, Windowed, WindowFields
    <2>2. /\ w.total \in Nat /\ w.offset \in Int /\ \E S : w.rows \in Seq(S)
          /\ \A i \in 1 .. Len(w.rows) : w.rows[i] = w.total - (w.offset + i - 1)
        BY <1>1 DEF Windowed
    <2>. HIDE DEF next
    <2>3. \A i \in 1 .. Len(next.rows) : next.rows[i] = next.total - (next.offset + i - 1)
        <3>. TAKE i \in 1 .. Len(next.rows)
        <3>1. i \in Int /\ next.rows[i] = w.total - (w.offset + i - 1)
            BY <2>1, <2>2
        <3>. QED
            BY <2>1, <2>2, <3>1
    <2>4. Windowed(next)
        BY <2>1, <2>2, <2>3 DEF Windowed
    <2>. QED
        BY <2>4 DEF rebaseNewestFirstWindow, next
<1>2. CASE w.is # "rows"
    BY <1>2 DEF rebaseNewestFirstWindow
<1>. QED
    BY <1>1, <1>2

-----------------------------------------------------------------------------
(* The panes, step by step.                                                *)

PaneInv == Kept(stored) /\ Viewed

(* No points are in order.                                                 *)
LEMMA NoneIsInOrder == \A r, start : InOrder(<<>>, r, start)
<1>1. <<>> \in Seq({}) /\ Len(<<>>) = 0 /\ 1 .. 0 = {}
    OBVIOUS
<1>. QED
    BY <1>1 DEF InOrder

(* A new pane shows nothing that is not.                                   *)
LEMMA NewViewIsReal ==
    ASSUME NEW pane, view = NewView(pane)
    PROVE  Viewed
<1>1. /\ DOMAIN view = ViewFields /\ view.told = 0 /\ view.top = 0 /\ view.news = Nothing
      /\ view.table = Nothing /\ view.asked = Nothing /\ view.chart = NoSeries /\ view.loader = Nothing
    BY DEF NewView, ViewFields
<1>2. DOMAIN NoSeries = Outputs /\ \A n \in Outputs : NoSeries[n] = <<>>
    BY DEF NoSeries
<1>. QED
    BY <1>1, <1>2, NoneIsInOrder, NothingIsShown DEF Viewed, Windowed

(* What a step may do to the parts of a view.                              *)
LEMMA ViewedBy ==
    ASSUME Viewed,
           DOMAIN view' = ViewFields, view'.told \in Nat, view'.top \in Nat,
           view'.news = view.news \/ view'.news = Nothing \/ view'.news.rows \in Nat,
           Windowed(view'.table), Windowed(view'.asked),
           view'.asked = view.asked \/ view'.asked.is # "asked" \/ {view'.asked.start, view'.asked.end} \subseteq Nat,
           DOMAIN view'.chart = Outputs,
           \A n \in Outputs : InOrder(view'.chart[n], view'.run, 0),
           view'.loader.is = "load" => {view'.loader.start, view'.loader.limit} \subseteq Int,
           view'.loader.is = "series" =>
               /\ view'.loader.start \in Int
               /\ InOrder(view'.loader.tail, view'.loader.run, view'.loader.start)
    PROVE  Viewed'
    BY DEF Viewed, Windowed, InOrder

(* The back end tells the front end how many rows there are.               *)
LEMMA TellIsReal ==
    ASSUME PaneInv, Tell
    PROVE  Viewed'
<1>1. \E S : stored.rows \in Seq(S)
    BY DEF PaneInv, Kept
<1>2. page_metadata(stored).rows \in Nat
    BY <1>1 DEF page_metadata
<1>3. /\ DOMAIN view' = DOMAIN view /\ view'.news = page_metadata(stored)
      /\ \A f \in ViewFields \ {"news"} : view'[f] = view[f]
    BY DEF PaneInv, Viewed, ViewFields, Tell
<1>4. /\ view'.told = view.told /\ view'.top = view.top /\ view'.table = view.table /\ view'.asked = view.asked
      /\ view'.chart = view.chart /\ view'.run = view.run /\ view'.loader = view.loader
    BY <1>3 DEF ViewFields
<1>5. Viewed
    BY DEF PaneInv
<1>. QED
    BY <1>2, <1>3, <1>4, <1>5, ViewedBy DEF Viewed

(* A window moves along, and what is asked for is given up or kept.        *)
LEMMA HearIsReal ==
    ASSUME PaneInv, Hear
    PROVE  Viewed'
<1>. DEFINE fresh == view.news.run # view.run
            eligible == view.news.eligible
            top == preserveVirtualScrollTop(view.top, view.told, view.news.rows)
            table == IF top # view.top
                     THEN rebaseNewestFirstWindow(view.table, view.news.run, view.told, view.news.rows)
                     ELSE view.table
            chart == [n \in Outputs |-> IF fresh \/ n \notin eligible THEN <<>> ELSE view.chart[n]]
            loader == IF \/ fresh \/ ~(view.wanted \subseteq eligible)
                         \/ view.loader = Dropped /\ view.news.rows # view.told
                      THEN Nothing ELSE view.loader
            next == [view EXCEPT !.news = Nothing, !.run = view.news.run, !.told = view.news.rows,
                                 !.eligible = eligible, !.top = top, !.table = table,
                                 !.wanted = @ \cap eligible, !.chart = chart, !.loader = loader]
<1>1. Viewed /\ DOMAIN view = ViewFields /\ view.news # Nothing /\ view.news.rows \in Nat
          /\ view.told \in Nat /\ view.top \in Nat
    BY DEF PaneInv, Viewed, Hear
<1>2. view' = [next EXCEPT !.asked = Asking(next)]
    BY DEF Hear
<1>3. /\ DOMAIN next = ViewFields /\ next.news = Nothing /\ next.run = view.news.run
      /\ next.told = view.news.rows /\ next.top = top /\ next.table = table /\ next.chart = chart
      /\ next.loader = loader /\ next.asked = view.asked
    BY <1>1 DEF ViewFields
<1>4. Asking(next) \in {view.asked, Nothing}
    <2>. HIDE DEF next
    <2>. QED
        BY <1>3 DEF Asking
<1>. HIDE DEF next
<1>5. /\ DOMAIN view' = ViewFields /\ view'.news = Nothing /\ view'.run = view.news.run
      /\ view'.told = view.news.rows /\ view'.top = top /\ view'.table = table /\ view'.chart = chart
      /\ view'.loader = loader /\ view'.asked \in {view.asked, Nothing}
    BY <1>2, <1>3, <1>4 DEF ViewFields
<1>6. top \in Nat
    <2>1. Height \in Nat
        BY ResultsAssumption
    <2>2. Monus(view.news.rows, view.told) \in Nat /\ LastTop(view.news.rows) \in Nat
        BY <1>1, <2>1 DEF Monus, LastTop
    <2>3. view.top + Monus(view.news.rows, view.told) \in Nat
        BY <1>1, <2>2
    <2>4. Min({view.top + Monus(view.news.rows, view.told), LastTop(view.news.rows)}) \in Nat
        BY <2>2, <2>3, MinOfTwo
    <2>. QED
        BY <2>4 DEF preserveVirtualScrollTop
<1>. HIDE DEF top
<1>7. Windowed(table)
    BY <1>1, RebasedIsReal DEF Viewed
<1>8. DOMAIN chart = Outputs
    OBVIOUS
<1>9. ASSUME NEW n \in Outputs PROVE InOrder(chart[n], view.news.run, 0)
    <2>1. CASE chart[n] = <<>>
        BY <2>1, NoneIsInOrder
    <2>2. CASE chart[n] # <<>>
        <3>1. chart[n] = view.chart[n] /\ view.news.run = view.run
            BY <2>2
        <3>. QED
            BY <3>1, <1>1 DEF Viewed
    <2>. QED
        BY <2>1, <2>2
<1>10. loader \in {Nothing, view.loader}
    OBVIOUS
<1>. HIDE DEF table, chart, loader
<1>11. \A n \in Outputs : InOrder(view'.chart[n], view'.run, 0)
    BY <1>5, <1>9
<1>12. Windowed(view'.asked)
    BY <1>1, <1>5, NothingIsShown DEF Viewed, Windowed
<1>13. /\ view'.loader.is = "load" => {view'.loader.start, view'.loader.limit} \subseteq Int
       /\ view'.loader.is = "series" =>
            /\ view'.loader.start \in Int
            /\ InOrder(view'.loader.tail, view'.loader.run, view'.loader.start)
    BY <1>1, <1>5, <1>10, NothingIsShown DEF Viewed
<1>14. view'.asked = view.asked \/ view'.asked.is # "asked" \/ {view'.asked.start, view'.asked.end} \subseteq Nat
    BY <1>5, NothingIsShown
<1>. QED
    BY <1>1, <1>5, <1>6, <1>7, <1>8, <1>11, <1>12, <1>13, <1>14, ViewedBy

(* The user scrolls.                                                       *)
LEMMA ScrollIsReal ==
    ASSUME PaneInv, Scroll
    PROVE  Viewed'
<1>1. Viewed /\ DOMAIN view = ViewFields /\ view.told \in Nat
    BY DEF PaneInv, Viewed
<1>2. PICK top \in 0 .. LastTop(view.told) :
          view' = [[view EXCEPT !.top = top] EXCEPT !.asked = Asking([view EXCEPT !.top = top])]
    BY DEF Scroll
<1>. DEFINE next == [view EXCEPT !.top = top]
<1>3. DOMAIN next = ViewFields /\ next.top = top /\ next.asked = view.asked /\ next.news = view.news
          /\ next.told = view.told /\ next.run = view.run /\ next.table = view.table /\ next.chart = view.chart
          /\ next.loader = view.loader
    BY <1>1 DEF ViewFields
<1>. HIDE DEF next
<1>4. Asking(next) \in {view.asked, Nothing}
    BY <1>3 DEF Asking
<1>5. DOMAIN view' = ViewFields /\ view'.top = top /\ view'.asked \in {view.asked, Nothing} /\ view'.news = view.news
          /\ view'.told = view.told /\ view'.run = view.run /\ view'.table = view.table /\ view'.chart = view.chart
          /\ view'.loader = view.loader
    BY <1>2, <1>3, <1>4 DEF ViewFields, next
<1>6. top \in Nat
    OBVIOUS
<1>7. Windowed(view'.asked)
    BY <1>1, <1>5, NothingIsShown DEF Viewed, Windowed
<1>8. view'.asked = view.asked \/ view'.asked.is # "asked" \/ {view'.asked.start, view'.asked.end} \subseteq Nat
    BY <1>5, NothingIsShown
<1>9. Windowed(view'.table) /\ DOMAIN view'.chart = Outputs
    BY <1>1, <1>5 DEF Viewed
<1>10. \A n \in Outputs : InOrder(view'.chart[n], view'.run, 0)
    BY <1>1, <1>5 DEF Viewed
<1>11. /\ view'.loader.is = "load" => {view'.loader.start, view'.loader.limit} \subseteq Int
       /\ view'.loader.is = "series" =>
            /\ view'.loader.start \in Int
            /\ InOrder(view'.loader.tail, view'.loader.run, view'.loader.start)
    BY <1>1, <1>5 DEF Viewed
<1>. QED
    BY <1>1, <1>5, <1>6, <1>7, <1>8, <1>9, <1>10, <1>11, ViewedBy

(* Only what is asked for, or the answer to it, changes.                   *)
LEMMA AskedIsReal ==
    ASSUME Viewed, NEW asked, NEW table, view' = [view EXCEPT !.asked = asked, !.table = table],
           Windowed(asked), Windowed(table),
           asked.is = "asked" => {asked.start, asked.end} \subseteq Nat
    PROVE  Viewed'
<1>1. DOMAIN view' = ViewFields /\ view'.asked = asked /\ view'.table = table /\ view'.news = view.news
          /\ view'.top = view.top /\ view'.told = view.told /\ view'.run = view.run /\ view'.chart = view.chart
          /\ view'.loader = view.loader
    BY DEF Viewed, ViewFields
<1>2. view'.told \in Nat /\ view'.top \in Nat /\ DOMAIN view'.chart = Outputs
    BY <1>1 DEF Viewed
<1>3. \A n \in Outputs : InOrder(view'.chart[n], view'.run, 0)
    BY <1>1 DEF Viewed
<1>4. /\ view'.loader.is = "load" => {view'.loader.start, view'.loader.limit} \subseteq Int
      /\ view'.loader.is = "series" =>
            /\ view'.loader.start \in Int
            /\ InOrder(view'.loader.tail, view'.loader.run, view'.loader.start)
    BY <1>1 DEF Viewed
<1>. QED
    BY <1>1, <1>2, <1>3, <1>4, ViewedBy

(* Every step of the table.                                                *)
LEMMA TableIsReal ==
    ASSUME PaneInv, AskRows \/ AnswerRows \/ ReceiveRows
    PROVE  Viewed'
<1>1. Viewed /\ DOMAIN view = ViewFields /\ view.told \in Nat /\ view.top \in Nat
          /\ Windowed(view.table) /\ Windowed(view.asked)
    BY DEF PaneInv, Viewed
<1>2. \A asked : [view EXCEPT !.asked = asked] = [view EXCEPT !.asked = asked, !.table = view.table]
    BY <1>1 DEF ViewFields
<1>3. CASE AskRows
    <2>1. view' = [view EXCEPT !.asked = Needed]
        BY <1>3 DEF AskRows
    <2>2. Needed.is = "asked" /\ {Needed.start, Needed.end} \subseteq Nat
        BY <1>1, RangeIsInt DEF Needed
    <2>3. Windowed(Needed)
        BY <2>2 DEF Windowed
    <2>4. view' = [view EXCEPT !.asked = Needed, !.table = view.table]
        BY <1>2, <2>1
    <2>. QED
        BY <1>1, <2>2, <2>3, <2>4, AskedIsReal
<1>4. CASE AnswerRows
    <2>. DEFINE answer == with_current(view.asked.run,
                              page_rows(stored, view.asked.start, view.asked.end - view.asked.start))
    <2>1. view' = [view EXCEPT !.asked = answer] /\ view.asked.is = "asked"
        BY <1>1, <1>4 DEF AnswerRows, ViewFields
    <2>2. {view.asked.start, view.asked.end} \subseteq Nat
        BY <2>1 DEF PaneInv, Viewed
    <2>3. Windowed(page_rows(stored, view.asked.start, view.asked.end - view.asked.start))
        BY <2>2, RowsAreReal DEF PaneInv
    <2>4. page_rows(stored, view.asked.start, view.asked.end - view.asked.start).is = "rows"
        BY DEF page_rows
    <2>5. Windowed(answer) /\ answer.is # "asked"
        BY <2>3, <2>4, NothingIsShown DEF with_current, Windowed
    <2>. HIDE DEF answer
    <2>6. view' = [view EXCEPT !.asked = answer, !.table = view.table]
        BY <1>2, <2>1
    <2>. QED
        BY <1>1, <2>5, <2>6, AskedIsReal
<1>5. CASE ReceiveRows
    <2>1. Windowed(Nothing) /\ Windowed(Dropped) /\ Nothing.is # "asked" /\ Dropped.is # "asked"
        BY NothingIsShown DEF Windowed
    <2>2. CASE view' = [view EXCEPT !.asked = Dropped]
        <3>1. view' = [view EXCEPT !.asked = Dropped, !.table = view.table]
            BY <1>2, <2>2
        <3>. QED
            BY <1>1, <2>1, <3>1, AskedIsReal
    <2>3. CASE view' = [view EXCEPT !.table = view.asked, !.asked = Nothing]
        <3>1. view' = [view EXCEPT !.asked = Nothing, !.table = view.asked]
            BY <1>1, <2>3 DEF ViewFields
        <3>. QED
            BY <1>1, <2>1, <3>1, AskedIsReal
    <2>. QED
        BY <1>5, <2>2, <2>3 DEF ReceiveRows
<1>. QED
    BY <1>3, <1>4, <1>5

(* Only the series, what is wanted of them and their loader change.        *)
LEMMA ChartedIsReal ==
    ASSUME Viewed, NEW chart, NEW wanted, NEW loader,
           view' = [view EXCEPT !.chart = chart, !.wanted = wanted, !.loader = loader],
           DOMAIN chart = Outputs, \A n \in Outputs : InOrder(chart[n], view.run, 0),
           loader.is = "load" => {loader.start, loader.limit} \subseteq Int,
           loader.is = "series" => loader.start \in Int /\ InOrder(loader.tail, loader.run, loader.start)
    PROVE  Viewed'
<1>1. DOMAIN view' = ViewFields /\ view'.asked = view.asked /\ view'.table = view.table /\ view'.news = view.news
          /\ view'.top = view.top /\ view'.told = view.told /\ view'.run = view.run /\ view'.chart = chart
          /\ view'.loader = loader
    BY DEF Viewed, ViewFields
<1>2. view'.told \in Nat /\ view'.top \in Nat /\ Windowed(view'.table) /\ Windowed(view'.asked)
    BY <1>1 DEF Viewed
<1>3. \A n \in Outputs : InOrder(view'.chart[n], view'.run, 0)
    BY <1>1
<1>. QED
    BY <1>1, <1>2, <1>3, ViewedBy

(* Points in order, and more of them from where they end.                  *)
LEMMA MoreInOrder ==
    ASSUME NEW points, NEW tail, NEW r, InOrder(points, r, 0), InOrder(tail, r, Len(points))
    PROVE  InOrder(points \o tail, r, 0)
<1>1. PICK S : points \in Seq(S)
    BY DEF InOrder
<1>2. PICK T : tail \in Seq(T)
    BY DEF InOrder
<1>. DEFINE both == points \o tail
            n == Len(points)
<1>3. points \in Seq(S \cup T) /\ tail \in Seq(S \cup T)
    BY <1>1, <1>2
<1>4. /\ both \in Seq(S \cup T) /\ Len(both) = n + Len(tail) /\ n \in Nat /\ Len(tail) \in Nat
      /\ \A i \in 1 .. n : both[i] = points[i]
      /\ \A i \in n + 1 .. n + Len(tail) : both[i] = tail[i - n]
    BY <1>3
<1>. HIDE DEF both, n
<1>5. ASSUME NEW i \in 1 .. Len(both) PROVE both[i] = <<r, 0 + i>>
    <2>1. CASE i \in 1 .. n
        BY <1>4, <2>1 DEF InOrder, n
    <2>2. CASE i \notin 1 .. n
        <3>1. i \in n + 1 .. n + Len(tail) /\ i - n \in 1 .. Len(tail) /\ n + (i - n) = 0 + i
            BY <1>4, <2>2
        <3>2. tail[i - n] = <<r, n + (i - n)>>
            BY <3>1 DEF InOrder, n
        <3>. QED
            BY <1>4, <3>1, <3>2
    <2>. QED
        BY <2>1, <2>2
<1>. QED
    BY <1>4, <1>5 DEF InOrder, both

(* Every step of the chart.                                                *)
LEMMA ChartIsReal ==
    ASSUME PaneInv, Choose \/ AskSeries \/ AnswerSeries \/ ReceiveSeries
    PROVE  Viewed'
<1>1. /\ Viewed /\ DOMAIN view = ViewFields /\ view.told \in Nat /\ DOMAIN view.chart = Outputs
      /\ \A n \in Outputs : InOrder(view.chart[n], view.run, 0)
    BY DEF PaneInv, Viewed
<1>2. \A loader : [view EXCEPT !.loader = loader]
                      = [view EXCEPT !.chart = view.chart, !.wanted = view.wanted, !.loader = loader]
    BY <1>1 DEF ViewFields
<1>3. CASE Choose
    <2>1. PICK names : view' = [view EXCEPT !.wanted = names, !.loader = Nothing,
                          !.chart = [n \in Outputs |-> IF n \in names THEN view.chart[n] ELSE <<>>]]
        BY <1>1, <1>3 DEF Choose, ViewFields
    <2>. DEFINE chart == [n \in Outputs |-> IF n \in names THEN view.chart[n] ELSE <<>>]
    <2>2. \A n \in Outputs : InOrder(chart[n], view.run, 0)
        <3>. TAKE n \in Outputs
        <3>1. chart[n] = view.chart[n] \/ chart[n] = <<>>
            OBVIOUS
        <3>. QED
            BY <1>1, <3>1, NoneIsInOrder
    <2>3. DOMAIN chart = Outputs
        OBVIOUS
    <2>. HIDE DEF chart
    <2>4. view' = [view EXCEPT !.chart = chart, !.wanted = names, !.loader = Nothing]
        BY <1>1, <2>1 DEF ViewFields, chart
    <2>. QED
        BY <1>1, <2>2, <2>3, <2>4, NothingIsShown, ChartedIsReal
<1>4. CASE AskSeries
    <2>1. PICK group \in chartLoadGroups : view' = [view EXCEPT !.loader = group]
        BY <1>4 DEF AskSeries
    <2>2. PICK start \in {Len(view.chart[n]) : n \in view.wanted} \cap 0 .. view.told - 1 :
              /\ group.is = "load" /\ group.start = start
              /\ group.limit = Min({Chunk, view.told - start})
        <3>1. PICK start \in {Len(view.chart[n]) : n \in view.wanted} \cap 0 .. view.told - 1 :
                  group = [is |-> "load", run |-> view.run, start |-> start,
                           limit |-> Min({Chunk, view.told - start}),
                           names |-> {n \in view.wanted : Len(view.chart[n]) = start}]
            BY <2>1, Zenon DEF chartLoadGroups
        <3>. QED
            BY <3>1
    <2>3. Chunk \in Nat /\ start \in Int /\ view.told - start \in Int
        BY <1>1, <2>2, ResultsAssumption
    <2>4. Min({Chunk, view.told - start}) \in Int
        BY <2>3, MinOfTwo
    <2>5. view' = [view EXCEPT !.chart = view.chart, !.wanted = view.wanted, !.loader = group]
        BY <1>2, <2>1
    <2>6. group.is # "series" /\ {group.start, group.limit} \subseteq Int
        BY <2>2, <2>3, <2>4
    <2>. QED
        BY <1>1, <2>5, <2>6, ChartedIsReal
<1>5. CASE AnswerSeries
    <2>. DEFINE l == view.loader
                series == chart_series(stored, l.names, l.start, l.limit)
                answer == with_current(l.run, series)
                n == Len(stored.rows)
    <2>1. view' = [view EXCEPT !.loader = answer] /\ l.is = "load"
        BY <1>1, <1>5 DEF AnswerSeries, ViewFields
    <2>2. l.start \in Int /\ l.limit \in Int /\ n \in Nat
        <3>1. \E S : stored.rows \in Seq(S)
            BY DEF PaneInv, Kept
        <3>. QED
            BY <1>1, <2>1, <3>1 DEF Viewed
    <2>3. Min({l.limit, n - l.start}) \in Int
        <3>1. l.limit \in Int /\ n - l.start \in Int
            BY ONLY <2>2
        <3>2. Min({l.limit, n - l.start}) = IF l.limit <= n - l.start THEN l.limit ELSE n - l.start
            BY ONLY <3>1, MinOfTwo
        <3>. QED
            BY ONLY <3>1, <3>2
    <2>. DEFINE m == Min({l.limit, n - l.start})
                tail == [i \in 1 .. m |-> <<stored.id, l.start + i>>]
    <2>4. InOrder(tail, stored.id, l.start)
        <3>. HIDE DEF m
        <3>. DEFINE T == {<<stored.id, x>> : x \in Int}
                    k == IF m < 0 THEN 0 ELSE m
        <3>1. m \in Int /\ k \in Nat /\ 1 .. m = 1 .. k
            BY <2>3 DEF m
        <3>2. tail = [i \in 1 .. k |-> <<stored.id, l.start + i>>]
            BY <3>1
        <3>3. tail \in Seq(T) /\ Len(tail) = k
            <4>1. \A i \in 1 .. k : <<stored.id, l.start + i>> \in T
                BY <2>2, <3>1
            <4>. DEFINE g(i) == <<stored.id, l.start + i>>
            <4>2. tail = [i \in 1 .. k |-> g(i)] /\ \A i \in 1 .. k : g(i) \in T
                BY <3>2, <4>1
            <4>. HIDE DEF T, k, g, tail
            <4>. QED
                BY ONLY <3>1, <4>2
        <3>4. \A i \in 1 .. k : tail[i] = <<stored.id, l.start + i>>
            BY <3>2
        <3>. HIDE DEF tail
        <3>. QED
            BY <3>3, <3>4 DEF InOrder
    <2>5. series = Dropped \/ (/\ series.is = "series" /\ series.run = stored.id /\ series.start = l.start
                               /\ series.tail = tail)
        BY DEF chart_series
    <2>. HIDE DEF tail, series
    <2>6. \/ answer = Dropped
          \/ answer.is = "series" /\ answer.start \in Int /\ InOrder(answer.tail, answer.run, answer.start)
        BY <2>2, <2>4, <2>5 DEF with_current
    <2>. HIDE DEF answer
    <2>7. view' = [view EXCEPT !.chart = view.chart, !.wanted = view.wanted, !.loader = answer]
        BY <1>2, <2>1
    <2>. QED
        BY <1>1, <2>6, <2>7, NothingIsShown, ChartedIsReal
<1>6. CASE ReceiveSeries
    <2>. DEFINE answer == view.loader
                fits == /\ answer.run = view.run /\ answer.tail # <<>>
                        /\ \A n \in answer.names : Len(view.chart[n]) = answer.start
                chart == [n \in Outputs |-> IF n \in answer.names THEN view.chart[n] \o answer.tail ELSE view.chart[n]]
    <2>1. CASE ~fits
        <3>1. view' = [view EXCEPT !.loader = Dropped]
            BY <1>6, <2>1 DEF ReceiveSeries
        <3>2. view' = [view EXCEPT !.chart = view.chart, !.wanted = view.wanted, !.loader = Dropped]
            BY <1>2, <3>1
        <3>. QED
            BY <1>1, <3>2, NothingIsShown, ChartedIsReal
    <2>2. CASE fits
        <3>1. view' = [view EXCEPT !.chart = chart, !.wanted = view.wanted, !.loader = Nothing]
            BY <1>1, <1>6, <2>2 DEF ReceiveSeries, ViewFields
        <3>2. InOrder(answer.tail, answer.run, answer.start)
            BY <1>1, <1>6 DEF ReceiveSeries, Viewed
        <3>3. ASSUME NEW n \in Outputs PROVE InOrder(chart[n], view.run, 0)
            <4>1. CASE n \in answer.names
                <5>1. InOrder(view.chart[n], view.run, 0) /\ InOrder(answer.tail, view.run, Len(view.chart[n]))
                    BY <1>1, <2>2, <3>2, <4>1
                <5>2. InOrder(view.chart[n] \o answer.tail, view.run, 0)
                    BY <5>1, MoreInOrder
                <5>. QED
                    BY <4>1, <5>2
            <4>2. CASE n \notin answer.names
                BY <1>1, <4>2
            <4>. QED
                BY <4>1, <4>2
        <3>4. DOMAIN chart = Outputs
            OBVIOUS
        <3>. HIDE DEF chart
        <3>. QED
            BY <1>1, <3>1, <3>3, <3>4, NothingIsShown, ChartedIsReal
    <2>. QED
        BY <2>1, <2>2
<1>. QED
    BY <1>3, <1>4, <1>5, <1>6

(* What no step touches shows what it showed.                              *)
LEMMA SameView ==
    ASSUME Viewed, view' = view
    PROVE  Viewed'
    BY DEF Viewed, ViewFields, Windowed, InOrder

(* Every step of a run that is looked at keeps all this.                   *)
LEMMA LookKeeps ==
    ASSUME PaneInv, NEW looks, ResultsStep(looks)
    PROVE  PaneInv'
<1>1. Kept(stored) /\ Viewed
    BY DEF PaneInv
<1>2. PICK look \in looks :
          \/ Begin(look)
          \/ Happens(look)
          \/ Panes
    BY DEF ResultsStep
<1>3. CASE Begin(look)
    <2>1. Kept(stored') /\ view' = view
        BY <1>3, NewRunIsKept DEF Begin
    <2>. QED
        BY ONLY <1>1, <2>1, SameView DEF PaneInv, Kept, Summed, Of, LastMessages
<1>4. CASE Happens(look)
    <2>1. view' = view
        BY <1>4 DEF Happens
    <2>2. \/ \E row \in look.rows : stored' = append(stored, row)
          \/ \E e \in Executions : stored' = append_step(stored, e)
          \/ stored' = append_message(stored)
        BY <1>4 DEF Happens
    <2>3. Kept(stored')
        BY <1>1, <2>2, RowIsKept, ExecutionIsKept, MessageIsKept
    <2>. QED
        BY ONLY <1>1, <2>1, <2>3, SameView DEF PaneInv, Kept, Summed, Of, LastMessages
<1>5. CASE Panes
    <2>1. stored' = stored
        BY <1>5 DEF Panes, Tell, Hear, Scroll, AskRows, AnswerRows, ReceiveRows, Choose, AskSeries, AnswerSeries, ReceiveSeries
    <2>2. Viewed'
        BY <1>5, TellIsReal, HearIsReal, ScrollIsReal, TableIsReal, ChartIsReal DEF Panes
    <2>. QED
        BY ONLY <1>1, <2>1, <2>2 DEF PaneInv, Kept, Summed, Of, LastMessages
<1>. QED
    BY <1>2, <1>3, <1>4, <1>5

(* With all this, the panes show what there is, in its place.              *)
LEMMA PanesShowWhatIs ==
    ASSUME stored # Nothing => PaneInv
    PROVE  PanesAreReal
<1>. SUFFICES ASSUME stored # Nothing PROVE PanesAreReal
    BY DEF PanesAreReal
<1>1. PaneInv /\ Kept(stored) /\ Viewed
    BY DEF PaneInv
<1>2. \A i \in DOMAIN Shown : Shown[i].row = Shown[i].iteration
    <2>. DEFINE w == view.table
                seen == [i \in DOMAIN w.rows |-> [row |-> w.rows[i], iteration |-> w.total - (w.offset + i - 1)]]
    <2>1. CASE w.is = "rows"
        <3>1. Windowed(w)
            BY <1>1 DEF Viewed
        <3>2. \A i \in DOMAIN w.rows : w.rows[i] = w.total - (w.offset + i - 1)
            <4>1. PICK S : w.rows \in Seq(S)
                BY ONLY <2>1, <3>1 DEF Windowed
            <4>2. DOMAIN w.rows = 1 .. Len(w.rows)
                BY ONLY <4>1
            <4>. QED
                BY ONLY <2>1, <3>1, <4>2 DEF Windowed
        <3>3. \A i \in DOMAIN seen : seen[i].row = seen[i].iteration
            BY <3>2
        <3>4. Shown = seen \/ Shown = <<>>
            BY DEF Shown
        <3>. HIDE DEF seen
        <3>. QED
            BY <3>3, <3>4
    <2>2. CASE w.is # "rows"
        BY <2>2 DEF Shown
    <2>. QED
        BY <2>1, <2>2
<1>3. \A n \in Outputs : \A i \in DOMAIN view.chart[n] : view.chart[n][i] = <<view.run, i>>
    <2>. TAKE n \in Outputs
    <2>1. InOrder(view.chart[n], view.run, 0)
        BY <1>1 DEF Viewed
    <2>2. DOMAIN view.chart[n] = 1 .. Len(view.chart[n])
        BY <2>1 DEF InOrder
    <2>3. \A i \in Int : 0 + i = i
        OBVIOUS
    <2>. QED
        BY <2>1, <2>2, <2>3 DEF InOrder
<1>4. StepsAreSummed
    BY <1>1, StepsAreTold
<1>. QED
    BY <1>1, <1>2, <1>3, <1>4, RunIsShown, PreviewsTell DEF PanesAreReal, LastMessages

LookInv ==
    /\ scene \in DOMAIN Scenes
    /\ Scenes[scene].looks # {} => PaneInv
    /\ Scenes[scene].looks = {} => stored = Nothing

(* A run begins, or nothing is looked at.                                  *)
LEMMA LooksStart == Init => LookInv
<1>. SUFFICES ASSUME Init PROVE LookInv
    OBVIOUS
<1>1. scene \in DOMAIN Scenes /\ ResultsInit(Scenes[scene].looks)
    BY DEF Init
<1>2. CASE Scenes[scene].looks = {}
    BY <1>1, <1>2 DEF ResultsInit, LookInv
<1>3. CASE Scenes[scene].looks # {}
    <2>1. PICK look \in Scenes[scene].looks : stored = NewRun(1) /\ view = NewView(look.pane)
        BY <1>1, <1>3 DEF ResultsInit
    <2>2. Kept(NewRun(1))
        BY NewRunIsKept
    <2>3. Viewed
        BY <2>1, NewViewIsReal
    <2>. QED
        BY <1>1, <1>3, <2>1, <2>2, <2>3 DEF LookInv, PaneInv
<1>. QED
    BY <1>2, <1>3

(* Every step keeps the invariant.                                         *)
LEMMA NextLooks ==
    ASSUME LookInv, [Next]_vars
    PROVE  LookInv'
<1>1. CASE UNCHANGED <<scene, stored, view>>
    <2>1. ASSUME PaneInv PROVE PaneInv'
        <3>1. Viewed'
            BY ONLY <1>1, <2>1, SameView DEF PaneInv
        <3>. QED
            BY ONLY <1>1, <2>1, <3>1 DEF PaneInv, Kept, Summed, Of, LastMessages
    <2>. QED
        BY <1>1, <2>1 DEF LookInv
<1>2. CASE Looking
    <2>1. scene' = scene /\ ResultsStep(Scenes[scene].looks)
        BY <1>2 DEF Looking, Used
    <2>2. Scenes[scene].looks # {}
        BY <2>1 DEF ResultsStep
    <2>3. PaneInv'
        BY <2>1, <2>2, LookKeeps DEF LookInv
    <2>. QED
        BY <2>1, <2>2, <2>3 DEF LookInv
<1>3. UNCHANGED <<scene, stored, view>> \/ Looking
    BY DEF Next, Writing, Open, Preparing, Working, Talking, Feeding, Used, results, vars
<1>. QED
    BY <1>1, <1>2, <1>3

(* What the panes of a run show is of the run it is shown for and in its   *)
(* place, however long the run gets and whichever replaces it, however the *)
(* user scrolls, however rows, executions and messages arrive between a    *)
(* question and its answer: a row in the table is shown as the iteration   *)
(* it was, a series has no gap and no row twice, the pages of rows and     *)
(* executions are the list from its end, the messages are the last ones, a *)
(* step has the status of its executions, and a preview that is not all of *)
(* its value says so.                                                      *)
THEOREM PanesShowTheirRun == Spec => []PanesAreReal
<1>1. LookInv /\ [Next]_vars => LookInv'
    BY NextLooks
<1>2. LookInv => PanesAreReal
    BY PanesShowWhatIs DEF LookInv
<1>. QED
    BY <1>1, <1>2, LooksStart, PTL DEF Spec

-----------------------------------------------------------------------------
(***************************************************************************)
(* What an author writes is saved and loaded, and runs once it is accepted.*)
(***************************************************************************)
StepsInv ==
    /\ scene \in DOMAIN Scenes /\ template \in Scenes[scene].templates
    /\ \E S : steps \in Seq(S)
    /\ \A i \in 1 .. Len(steps) : IsWritten(steps[i])

(* A step is as it was written but for its id, and marks have no fields    *)
(* that could be left out.                                                 *)
LEMMA StepsAreStructs ==
    ASSUME NEW list, \E S : list \in Seq(S), \A i \in 1 .. Len(list) : IsWritten(list[i]),
           NEW e, \/ \E step, id : IsWritten(step) /\ e = [step EXCEPT !.id = id]
                  \/ e \in {[kind |-> "else", id |-> 0], [kind |-> "end", id |-> 0]}
    PROVE  /\ \E S : Append(list, e) \in Seq(S)
           /\ \A i \in 1 .. Len(Append(list, e)) : IsWritten(Append(list, e)[i])
<1>1. IsWritten(e)
    <2>1. ASSUME NEW step, NEW id, IsWritten(step), e = [step EXCEPT !.id = id] PROVE IsWritten(e)
        <3>1. /\ IsStruct(StepSchema(step), step) /\ "kind" \in DOMAIN step /\ OperandsFit(step)
            BY <2>1 DEF IsWritten, StructuredStep, Has
        <3>2. /\ DOMAIN e = DOMAIN step /\ IsMap(e) /\ e.kind = step.kind
              /\ "operator" \in DOMAIN step => e.operator = step.operator
              /\ e.right = step.right
            BY <2>1, <3>1 DEF IsMap, IsStruct
        <3>3. StepSchema(e) = StepSchema(step)
            BY ONLY <3>2 DEF StepSchema
        <3>4. OperandsFit(e)
            BY ONLY <3>1, <3>2 DEF OperandsFit, Has
        <3>5. ASSUME e.kind = "tool-action" PROVE HasTextsOfBytes(e)
            <4>1. HasTextsOfBytes(step) /\ {"arguments", "bindings"} \subseteq DOMAIN step
                BY <2>1, <3>2, <3>5 DEF IsWritten, HasTextsOfBytes
            <4>2. e.arguments = step.arguments /\ e.bindings = step.bindings
                BY <2>1, <4>1
            <4>. QED
                BY ONLY <3>2, <4>1, <4>2 DEF HasTextsOfBytes
        <3>. QED
            BY ONLY <3>1, <3>2, <3>3, <3>4, <3>5 DEF IsWritten, StructuredStep, IsStruct, Has
    <2>2. ASSUME NEW kind \in {"else", "end"}, e = [kind |-> kind, id |-> 0] PROVE IsWritten(e)
        <3>1. e.kind # "tool-action" /\ StepSchema(e) = kind /\ DOMAIN e = {"kind", "id"} /\ IsMap(e)
            BY <2>2 DEF StepSchema, IsMap
        <3>2. DOMAIN Defaults(kind) = {}
            BY DEF Defaults, NoBindings
        <3>. QED
            BY ONLY <3>1, <3>2 DEF IsWritten, StructuredStep, IsStruct, Has, OperandsFit
    <2>. QED
        BY <2>1, <2>2
<1>2. PICK S : list \in Seq(S)
    OBVIOUS
<1>3. list \in Seq(S \cup {e})
    BY <1>2
<1>4. /\ Append(list, e) \in Seq(S \cup {e}) /\ Len(Append(list, e)) = Len(list) + 1 /\ Len(list) \in Nat
      /\ \A i \in 1 .. Len(list) : Append(list, e)[i] = list[i]
      /\ Append(list, e)[Len(list) + 1] = e
    BY ONLY <1>3
<1>5. \A i \in 1 .. Len(list) + 1 : i \in 1 .. Len(list) \/ i = Len(list) + 1
    BY ONLY <1>4
<1>. QED
    BY <1>1, <1>4, <1>5

(* Every step of the program keeps the steps of the document structs.      *)
LEMMA NextKeepsSteps ==
    ASSUME StepsInv, [Next]_vars
    PROVE  StepsInv'
<1>1. CASE UNCHANGED <<scene, template, steps>>
    BY <1>1 DEF StepsInv
<1>2. CASE Writing
    <2>1. UNCHANGED <<scene, template>>
        BY <1>2 DEF Writing
    <2>2. \A step \in Scenes[scene].alphabet : IsWritten(step)
        BY ScenesAssumption DEF StepsInv, IsWritten
    <2>3. PICK e : /\ steps' = Append(steps, e)
                   /\ \/ \E step, id : IsWritten(step) /\ e = [step EXCEPT !.id = id]
                      \/ e \in {[kind |-> "else", id |-> 0], [kind |-> "end", id |-> 0]}
        <3>1. ASSUME NEW step \in Scenes[scene].alphabet, NEW id, Read([step EXCEPT !.id = id])
              PROVE  /\ steps' = Append(steps, [step EXCEPT !.id = id]) /\ IsWritten(step)
            BY <2>2, <3>1 DEF Read
        <3>2. ReadElse => steps' = Append(steps, [kind |-> "else", id |-> 0])
            BY DEF ReadElse
        <3>3. ReadEnd => steps' = Append(steps, [kind |-> "end", id |-> 0])
            BY DEF ReadEnd
        <3>4. \/ \E step \in Scenes[scene].alphabet, id \in {Len(steps) + 1} \cup Scenes[scene].again :
                    Read([step EXCEPT !.id = id])
              \/ ReadElse \/ ReadEnd
            BY <1>2 DEF Writing
        <3>. QED
            BY <3>1, <3>2, <3>3, <3>4
    <2>4. /\ \E S : Append(steps, e) \in Seq(S)
          /\ \A i \in 1 .. Len(Append(steps, e)) : IsWritten(Append(steps, e)[i])
        BY <2>3, StepsAreStructs DEF StepsInv
    <2>5. /\ \E S : steps' \in Seq(S)
          /\ \A i \in 1 .. Len(steps') : IsWritten(steps'[i])
        BY <2>3, <2>4
    <2>6. StepsInv' <=> /\ scene' \in DOMAIN Scenes /\ template' \in Scenes[scene'].templates
                        /\ \E S : steps' \in Seq(S)
                        /\ \A i \in 1 .. Len(steps') : IsWritten(steps'[i])
        BY DEF StepsInv
    <2>. QED
        BY <2>1, <2>5, <2>6 DEF StepsInv
<1>3. UNCHANGED <<scene, template, steps>> \/ Writing
    BY DEF Next, Open, Preparing, Working, Talking, Looking, Feeding, Used, vars
<1>. QED
    BY <1>1, <1>2, <1>3

(* The steps of the document are always such as their author may write.    *)
LEMMA StepsStayWritten == Spec => []StepsInv
<1>1. Init => StepsInv
    <2>. SUFFICES ASSUME Init PROVE StepsInv
        OBVIOUS
    <2>1. scene \in DOMAIN Scenes /\ template \in Scenes[scene].templates /\ steps = <<>>
        BY DEF Init, WorkflowInit
    <2>2. <<>> \in Seq({}) /\ Len(<<>>) = 0
        OBVIOUS
    <2>. QED
        BY <2>1, <2>2 DEF StepsInv
<1>2. StepsInv /\ [Next]_vars => StepsInv'
    BY NextKeepsSteps
<1>. QED
    BY <1>1, <1>2, PTL DEF Spec

(* What is saved is what is loaded again, for any template and any steps   *)
(* an author may write: every field that is left out of the file has the   *)
(* value a reader takes for it, whatever the tools, setups, backgrounds    *)
(* and charts.                                                             *)
THEOREM FilesKeepTemplates == Spec => []SavedIsLoaded
<1>1. StepsInv => SavedIsLoaded
    <2>. SUFFICES ASSUME StepsInv PROVE from_json_str(from_template(Loaded)) = Loaded
        BY DEF SavedIsLoaded
    <2>1. Structured(template)
        BY ScenesAssumption DEF StepsInv
    <2>2. IsMap(steps) /\ \A i \in DOMAIN steps : StructuredStep(steps[i])
        <3>1. PICK S : steps \in Seq(S)
            BY DEF StepsInv
        <3>2. DOMAIN steps = 1 .. Len(steps) /\ steps = [i \in 1 .. Len(steps) |-> steps[i]]
            BY ONLY <3>1
        <3>. QED
            BY <3>2 DEF StepsInv, IsWritten, IsMap
    <2>. QED
        BY <2>1, <2>2, FileIsRead
<1>. QED
    BY <1>1, StepsStayWritten, PTL

(* What the template accepts of a Serial step is within the limits of the  *)
(* Worker.                                                                 *)
LEMMA SerialCanRun ==
    ASSUME NEW step, HasTextsOfBytes(step), validate_serial(step.action, step.arguments, step.bindings),
           NEW a, a = tool_arguments(step, "serial"), ~Refused(a), Typed(step, a)
    PROVE  SerialIsSendable(step.action, a)
<1>. DEFINE fixed == step.arguments
            bound == step.bindings
            command == serial_command(step.action, a)
<1>1. /\ DOMAIN a = DOMAIN fixed \cup DOMAIN bound
      /\ \A name \in DOMAIN fixed \ DOMAIN bound : a[name] = fixed[name]
      /\ IF IsTruncated(step, "serial", a)
         THEN a.tx_value = Failed \/ \E whole \in 0 .. MaxSafeInteger : a.tx_value = Number(whole)
         ELSE \A name \in DOMAIN a : IsBytes(a[name])
    <2>1. IsDispatched(step, "serial", a)
        BY Dispatched
    <2>. QED
        BY ONLY <2>1 DEF IsDispatched
<1>2. /\ DOMAIN bound \subseteq {"tx_value"}
      /\ step.action \in {"send", "query"} => ValidTx(fixed, bound)
      /\ IsCount(MaxOf(fixed)) /\ MaxOf(fixed).of[1] \in 1 .. MaxBytes
      /\ step.action = "query" => ValidDelimiter(fixed, MaxOf(fixed).of[1])
    BY DEF validate_serial, Only
<1>3. MaxOf(a) = MaxOf(fixed)
    BY <1>1, <1>2 DEF MaxOf, Has
<1>4. /\ command.tx = IF step.action \in {"send", "query"} THEN encode_tx(a.tx_format, a.tx_value) ELSE <<>>
      /\ command.delimiter = IF step.action = "query"
                             THEN delimiter_bytes(a.delimiter_format, a.delimiter_value) ELSE <<>>
      /\ command.max = IF step.action \in {"receive", "query"} THEN MaxOf(a).of[1] ELSE 0
    BY DEF serial_command
<1>. HIDE DEF command
<1>5. command.max <= MaxBytes
    BY <1>2, <1>3, <1>4, SerialAssumption
<1>6. <<>> # Invalid
    BY DEF Invalid
<1>7. command.delimiter # Invalid /\ (step.action = "query" => Len(command.delimiter) \in 1 .. command.max)
    <2>1. CASE step.action = "query"
        <3>1. /\ Has(fixed, "delimiter_format") /\ Has(fixed, "delimiter_value")
              /\ delimiter_bytes(fixed.delimiter_format, fixed.delimiter_value) # Invalid
              /\ Len(delimiter_bytes(fixed.delimiter_format, fixed.delimiter_value)) \in 1 .. MaxOf(fixed).of[1]
            BY <1>2, <2>1 DEF ValidDelimiter
        <3>2. a.delimiter_format = fixed.delimiter_format /\ a.delimiter_value = fixed.delimiter_value
            BY <1>1, <1>2, <3>1 DEF Has
        <3>. QED
            BY <1>3, <1>4, <2>1, <3>1, <3>2
    <2>2. CASE step.action # "query"
        BY <1>4, <1>6, <2>2
    <2>. QED
        BY <2>1, <2>2
<1>8. ASSUME step.action \in {"send", "query"} PROVE Sendable(encode_tx(a.tx_format, a.tx_value))
    <2>1. Has(fixed, "tx_format") /\ (Same(fixed.tx_format, AsText) \/ Same(fixed.tx_format, AsHex))
        BY <1>2, <1>8 DEF ValidTx, Among, TxFormats, AsText, AsHex
    <2>2. Has(a, "tx_format") /\ a.tx_format = fixed.tx_format
        BY <1>1, <1>2, <2>1 DEF Has
    <2>3. CASE "tx_value" \in DOMAIN bound /\ Same(a.tx_format, AsHex)
        <3>1. a.tx_value = Failed \/ \E whole \in 0 .. MaxSafeInteger : a.tx_value = Number(whole)
            BY ONLY <1>1, <1>8, <2>2, <2>3 DEF IsTruncated
        <3>2. a.tx_value # Failed
            BY <1>1, <2>3 DEF Refused, Failed
        <3>3. PICK whole \in 0 .. MaxSafeInteger : a.tx_value = Number(whole)
            BY <3>1, <3>2
        <3>4. a.tx_value.is = "number" /\ a.tx_value.of[1] = whole
            BY <3>3 DEF Number
        <3>. QED
            BY ONLY <2>3, <3>3, <3>4, HexIsSent
    <2>4. CASE "tx_value" \in DOMAIN bound /\ Same(a.tx_format, AsText)
        <3>1. IsText(a.tx_value) /\ a.tx_value.of # <<>>
            BY <2>4 DEF Typed
        <3>2. IsBytes(a.tx_value)
            BY <1>1, <2>4, FormatsDiffer DEF IsTruncated
        <3>. QED
            BY ONLY <2>4, <3>1, <3>2, TextIsSent
    <2>5. CASE "tx_value" \notin DOMAIN bound
        <3>1. Has(fixed, "tx_value") /\ encode_tx(fixed.tx_format, fixed.tx_value) # Invalid
            BY <1>2, <1>8, <2>5 DEF ValidTx, Has
        <3>2. a.tx_value = fixed.tx_value /\ IsBytes(a.tx_value)
            BY <1>1, <2>5, <3>1 DEF Has, IsTruncated
        <3>3. CASE Same(a.tx_format, AsHex)
            <4>1. hex_byte(a.tx_value) # Invalid
                BY <2>2, <3>1, <3>2, <3>3 DEF encode_tx
            <4>2. a.tx_value.is = "number" /\ a.tx_value.of[1] \in 0 .. MaxSafeInteger
                BY <4>1 DEF hex_byte
            <4>. QED
                BY ONLY <3>3, <4>2, HexIsSent
        <3>4. CASE Same(a.tx_format, AsText)
            <4>1. IsText(a.tx_value) /\ a.tx_value.of # <<>>
                BY <2>2, <3>1, <3>2, <3>4, FormatsDiffer DEF encode_tx
            <4>. QED
                BY ONLY <3>2, <3>4, <4>1, TextIsSent
        <3>. QED
            BY <2>1, <2>2, <3>3, <3>4
    <2>. QED
        BY <2>1, <2>2, <2>3, <2>4, <2>5
<1>9. /\ command.tx # Invalid /\ \A i \in DOMAIN command.tx : command.tx[i] \in 0 .. 255
      /\ step.action \in {"send", "query"} => command.tx # <<>>
    <2>1. CASE step.action \in {"send", "query"}
        BY ONLY <1>4, <1>8, <2>1 DEF Sendable
    <2>2. CASE step.action \notin {"send", "query"}
        <3>1. command.tx = <<>> /\ DOMAIN <<>> = {}
            BY <1>4, <2>2
        <3>. QED
            BY ONLY <1>6, <2>2, <3>1
    <2>. QED
        BY <2>1, <2>2
<1>10. SerialIsSendable(step.action, a) <=>
          /\ Invalid \notin {command.tx, command.delimiter}
          /\ step.action \in {"send", "query"} => command.tx # <<>>
          /\ \A i \in DOMAIN command.tx : command.tx[i] \in 0 .. 255
          /\ step.action = "query" => Len(command.delimiter) \in 1 .. command.max
          /\ command.max <= MaxBytes
    BY DEF SerialIsSendable, command
<1>. QED
    BY ONLY <1>5, <1>7, <1>9, <1>10

(* What the template accepts of a powers step is accepted by the adapter,  *)
(* once it is an action of a channel.                                      *)
LEMMA PowersCanRun ==
    ASSUME NEW step, HasTextsOfBytes(step), ValidNumeric("powers", step),
           step.action = "measure" => ValidPowerMeasure(step),
           NEW a, a = tool_arguments(step, "powers"), Typed(step, a), Addressed(step, a)
    PROVE  validate_powers(step.action, a)
<1>. DEFINE fixed == step.arguments
            bound == step.bindings
<1>1. /\ DOMAIN a = DOMAIN fixed \cup DOMAIN bound
      /\ \A name \in DOMAIN fixed \ DOMAIN bound : a[name] = fixed[name]
    <2>1. IsDispatched(step, "powers", a)
        BY Dispatched
    <2>. QED
        BY ONLY <2>1 DEF IsDispatched
<1>2. CASE step.action = "measure"
    <2>1. /\ DOMAIN bound = {} /\ DOMAIN fixed \subseteq {"channel"} /\ "channel" \in DOMAIN fixed
          /\ IsPositive(fixed.channel)
        <3>1. NoBindings = bound /\ Only(fixed, {"channel"}) /\ Has(fixed, "channel") /\ IsPositive(fixed.channel)
            BY <1>2 DEF ValidPowerMeasure
        <3>2. DOMAIN NoBindings = {}
            BY DEF NoBindings
        <3>. QED
            BY ONLY <3>1, <3>2 DEF Only, Has
    <2>2. DOMAIN a = {"channel"} /\ a.channel = fixed.channel
        BY ONLY <1>1, <2>1
    <2>3. Setpoints("measure") = {}
        BY DEF Setpoints
    <2>. QED
        BY ONLY <1>2, <2>1, <2>2, <2>3 DEF validate_powers, PowersActions, Only, Has
<1>3. CASE step.action # "measure"
    <2>1. /\ step.action \in PowersActions /\ Only(a, {"channel"} \cup Setpoints(step.action))
          /\ Has(a, "channel") /\ IsPositive(a.channel)
        BY <1>3 DEF Addressed
    <2>2. /\ \A name \in Setpoints(step.action) :
                IF name \in DOMAIN bound THEN TRUE
                ELSE IF name \in DOMAIN fixed THEN IsNumber(fixed[name])
                ELSE step.action = "set-output"
          /\ step.action = "set-output" => Setpoints(step.action) \cap (DOMAIN fixed \cup DOMAIN bound) # {}
        <3>1. NumericParameters("powers", step.action) = Setpoints(step.action)
            BY DEF NumericParameters
        <3>. QED
            BY <3>1 DEF ValidNumeric, Has
    <2>3. "tx_value" \notin {"channel"} \cup Setpoints(step.action)
        BY DEF Setpoints
    <2>4. \A name \in DOMAIN bound : IsNumber(a[name])
        <3>1. DOMAIN bound \subseteq DOMAIN a /\ DOMAIN a \subseteq {"channel"} \cup Setpoints(step.action)
            BY <1>1, <2>1 DEF Only
        <3>. QED
            BY <2>3, <3>1 DEF Typed
    <2>5. \A field \in Setpoints(step.action) : Has(a, field) => IsNumber(a[field])
        BY ONLY <1>1, <2>2, <2>4 DEF Has
    <2>6. step.action = "set-voltage" => Has(a, "voltage")
        <3>1. Setpoints("set-voltage") = {"voltage"}
            BY DEF Setpoints
        <3>. QED
            BY ONLY <1>1, <2>2, <3>1 DEF Has
    <2>7. step.action = "set-output" => Has(a, "voltage") \/ Has(a, "current")
        <3>1. Setpoints("set-output") = {"voltage", "current"}
            BY DEF Setpoints
        <3>. QED
            BY ONLY <1>1, <2>2, <3>1 DEF Has
    <2>. QED
        BY ONLY <2>1, <2>5, <2>6, <2>7 DEF validate_powers
<1>. QED
    BY <1>2, <1>3

(* An action that the template accepts is not refused by its adapter in    *)
(* the middle of a run, and a setup that is accepted sets nothing twice,   *)
(* for any instances, setups, actions, arguments and bindings.             *)
THEOREM AcceptedActionsRun == Spec => []ActionsCanRun
<1>1. StepsInv => ActionsCanRun
    <2>. SUFFICES ASSUME StepsInv, TemplateAccepts
                  PROVE  /\ \A i \in ToolActions : ActionCanRun(steps[i])
                         /\ \A i \in Indices : SetupCanBeApplied(template.instances[i])
        BY DEF ActionsCanRun, Judged
    <2>1. Structured(template)
        BY ScenesAssumption DEF StepsInv
    <2>2. ASSUME NEW i \in ToolActions PROVE ActionCanRun(steps[i])
        <3>. DEFINE step == steps[i]
                    tool == Instance(step.target).tool
                    a == tool_arguments(step, tool)
        <3>1. validate_tool_action(step)
            BY DEF TemplateAccepts
        <3>2. HasTextsOfBytes(step)
            <4>1. PICK S : steps \in Seq(S)
                BY DEF StepsInv
            <4>2. i \in 1 .. Len(steps) /\ step.kind = "tool-action"
                BY <4>1 DEF ToolActions
            <4>. QED
                BY <4>2 DEF StepsInv, IsWritten
        <3>3. /\ tool = "serial" => validate_serial(step.action, step.arguments, step.bindings)
              /\ ValidNumeric(tool, step)
              /\ tool = "powers" /\ step.action = "measure" => ValidPowerMeasure(step)
            BY <3>1 DEF validate_tool_action
        <3>. HIDE DEF step
        <3>4. ASSUME ~Refused(a), Typed(step, a), tool = "serial" PROVE SerialIsSendable(step.action, a)
            BY <3>2, <3>3, <3>4, SerialCanRun
        <3>5. ASSUME Typed(step, a), tool = "powers", Addressed(step, a) PROVE validate_powers(step.action, a)
            BY <3>2, <3>3, <3>5, PowersCanRun
        <3>6. ActionCanRun(step)
            BY <3>4, <3>5 DEF ActionCanRun, ToolOf
        <3>. QED
            BY ONLY <3>6 DEF step
    <2>3. ASSUME NEW i \in Indices PROVE SetupCanBeApplied(template.instances[i])
        <3>. DEFINE instance == template.instances[i]
        <3>1. setup_is_valid(instance)
            BY DEF TemplateAccepts, ValidInstances
        <3>2. StructuredSetup(instance.tool, instance.setup)
            BY <2>1 DEF Structured, StructuredInstance, Indices
        <3>. HIDE DEF instance
        <3>. DEFINE setup == instance.setup
                    set == [k \in DOMAIN protection_commands(setup) |->
                                protection_commands(setup)[k].channel.of[1]]
        <3>3. ASSUME instance.tool = "meters"
              PROVE  setup_arguments(setup).manual => setup_arguments(setup).range # Absent
            <4>1. meters_setup_is_valid(setup)
                BY <3>1, <3>3 DEF setup_is_valid
            <4>. QED
                BY ONLY <4>1 DEF meters_setup_is_valid, setup_arguments
        <3>4. ASSUME instance.tool = "powers" PROVE IsInjective(set)
            <4>1. powers_setup_is_valid(setup)
                BY <3>1, <3>4 DEF setup_is_valid
            <4>2. StructuredSetup("powers", setup)
                BY <3>2, <3>4
            <4>. QED
                BY ONLY <4>1, <4>2, PowersSetOnce
        <3>5. ASSUME instance.tool = "scopes" PROVE IsInjective(setup_commands(setup))
            <4>1. scopes_setup_is_valid(setup)
                BY <3>1, <3>5 DEF setup_is_valid
            <4>2. StructuredSetup("scopes", setup)
                BY <3>2, <3>5
            <4>. QED
                BY ONLY <4>1, <4>2, ScopesSetOnce
        <3>6. SetupCanBeApplied(instance)
            BY ONLY <3>3, <3>4, <3>5, Zenon DEF SetupCanBeApplied
        <3>. QED
            BY ONLY <3>6 DEF instance
    <2>. QED
        BY <2>2, <2>3
<1>. QED
    BY <1>1, StepsStayWritten, PTL
=============================================================================
