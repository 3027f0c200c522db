--------------------------- MODULE DesktopProofs ---------------------------
(***************************************************************************)
(* Proofs about Desktop, for any number of runs, rows, batches and calls:  *)
(* that Workers belong to one operation, that a workflow stop reaches the  *)
(* run it was asked for and is refused only when that run is over, that an *)
(* export reads a run that does not change, that what is kept and shown of *)
(* a run never contradicts itself, and that the feedback on a loop stop is *)
(* never left standing.                                                    *)
(*                                                                         *)
(* None of these is inductive.  Owner adds when the control knows the run  *)
(* of the command; Talk adds that the requests and batches under way are   *)
(* about that run or an older one, since run ids are not used twice;       *)
(* Latest adds that the run of a command is running until its last status. *)
(* Accounts and Settled tie what is stored, sent and still to come of each *)
(* run together; Quiet says that nothing is under way where nothing is     *)
(* shown, and Asked where a shown request to stop a loop has got to.       *)
(***************************************************************************)
EXTENDS Desktop, TLAPS

(* Where a run command is while it has the slot, and while it has Workers. *)
Working == {"prepare", "run", "finish", "status", "flush", "close", "clear"}
Slot == {"parse", "begin", "publish", "announce"} \cup Working
PCs == {"idle", "register", "refused", "reply"} \cup Slot

(* The records keep their fields.                                          *)
Records ==
    /\ active = [kind |-> active.kind, run |-> active.run, stop |-> active.stop,
                 loop_stop |-> active.loop_stop]
    /\ command = [pc |-> command.pc, mode |-> command.mode, run |-> command.run,
                  path |-> command.path, at |-> command.at, unwind |-> command.unwind,
                  verdict |-> command.verdict]
    /\ ui = [status |-> ui.status, run |-> ui.run, view |-> ui.view,
             loop_stop |-> ui.loop_stop, stop |-> ui.stop]

(* Who holds the slot, and for which run.                                  *)
Owner ==
    /\ active.kind \in {"none", "workflow", "manual"}
    /\ command.pc \in PCs
    /\ active.kind = "workflow" <=> command.pc \in Slot
    /\ command.pc \in {"idle", "register", "refused", "parse", "begin"} => command.run = 0
    /\ active.run = IF command.pc \in {"announce"} \cup Working THEN command.run ELSE 0
    /\ manual = (active.kind = "manual")

(* Every action keeps the fields.                                          *)
LEMMA RecordsStep ==
    ASSUME Records, [Next]_vars
    PROVE  Records'
<1>1. CASE Register
    BY <1>1 DEF Records, Register, register, NoControl, Goto, At
<1>2. CASE Parse
    BY <1>2 DEF Records, Parse, Goto, At
<1>3. CASE begin
    BY <1>3 DEF Records, begin, At
<1>4. CASE Publish
    BY <1>4 DEF Records, Publish, Goto, At
<1>5. CASE Announce
    BY <1>5 DEF Records, Announce, Goto, At
<1>6. CASE Prepare
    BY <1>6 DEF Records, Prepare, Goto, At
<1>7. CASE Enter
    BY <1>7 DEF Records, Enter, Executing, At
<1>8. CASE Leaf
    BY <1>8 DEF Records, Leaf, Executing, At
<1>9. CASE Exhausted
    BY <1>9 DEF Records, Exhausted, Executing, LeaveLoop, At
<1>10. CASE Commit
    BY <1>10 DEF Records, Commit, Executing, At, consume_loop_stop
<1>11. CASE Unwind
    BY <1>11 DEF Records, Unwind, LeaveLoop, At
<1>12. CASE StopHere
    BY <1>12 DEF Records, StopHere, Executing, At
<1>13. CASE RunReturns
    BY <1>13 DEF Records, RunReturns, At
<1>14. CASE Finish
    BY <1>14 DEF Records, Finish, At
<1>15. CASE SetStatus
    BY <1>15 DEF Records, SetStatus, Goto, At
<1>16. CASE FinalFlush
    BY <1>16 DEF Records, FinalFlush, Goto, At
<1>17. CASE Close
    BY <1>17 DEF Records, Close, Goto, At
<1>18. CASE Clear
    BY <1>18 DEF Records, Clear, clear, NoControl, Goto, At
<1>19. CASE ReceiveBatch
    BY <1>19 DEF Records, ReceiveBatch, acceptRun, Shown, sendWorkflowStop
<1>20. CASE Reply
    BY <1>20 DEF Records, Reply, NoCommand
<1>21. CASE DeliverStop
    BY <1>21 DEF Records, DeliverStop, request_global
<1>22. CASE DeliverLoopStop
    BY <1>22 DEF Records, DeliverLoopStop
<1>23. CASE TimerFlush
    BY <1>23 DEF Records, TimerFlush
<1>24. CASE StartRun
    BY <1>24 DEF Records, StartRun, Shown, NoCommand, At
<1>25. CASE requestWorkflowStop
    BY <1>25 DEF Records, requestWorkflowStop, sendWorkflowStop
<1>26. CASE requestStop
    BY <1>26 DEF Records, requestStop
<1>27. CASE ClearLastRun
    BY <1>27 DEF Records, ClearLastRun
<1>28. CASE StartManual
    BY <1>28 DEF Records, StartManual, register_manual, NoControl
<1>29. CASE EndManual
    BY <1>29 DEF Records, EndManual, clear, NoControl
<1>30. CASE BeginExport
    BY <1>30 DEF Records, BeginExport
<1>31. CASE WriteExport
    BY <1>31 DEF Records, WriteExport
<1>32. CASE UNCHANGED vars
    BY <1>32 DEF Records, vars
<1>33. QED
    BY <1>1, <1>2, <1>3, <1>4, <1>5, <1>6, <1>7, <1>8, <1>9, <1>10, <1>11, <1>12,
       <1>13, <1>14, <1>15, <1>16, <1>17, <1>18, <1>19, <1>20, <1>21, <1>22, <1>23,
       <1>24, <1>25, <1>26, <1>27, <1>28, <1>29, <1>30, <1>31, <1>32
    DEF Next, RunCommand, FrontEnd, User

(* Every action keeps the owner.                                           *)
LEMMA OwnerStep ==
    ASSUME Records, Owner, [Next]_vars
    PROVE  Owner'
<1> USE DEF Working, Slot, PCs
<1>1. CASE Register
    BY <1>1 DEF Records, Owner, Register, register, NoControl, Goto, At
<1>2. CASE Parse
    BY <1>2 DEF Records, Owner, Parse, Goto, At
<1>3. CASE begin
    BY <1>3 DEF Records, Owner, begin, At
<1>4. CASE Publish
    BY <1>4 DEF Records, Owner, Publish, Goto, At
<1>5. CASE Announce
    BY <1>5 DEF Records, Owner, Announce, Goto, At
<1>6. CASE Prepare
    BY <1>6 DEF Records, Owner, Prepare, Goto, At
<1>7. CASE Enter
    BY <1>7 DEF Records, Owner, Enter, Executing, At
<1>8. CASE Leaf
    BY <1>8 DEF Records, Owner, Leaf, Executing, At
<1>9. CASE Exhausted
    BY <1>9 DEF Records, Owner, Exhausted, Executing, LeaveLoop, At
<1>10. CASE Commit
    BY <1>10 DEF Records, Owner, Commit, Executing, At, consume_loop_stop
<1>11. CASE Unwind
    BY <1>11 DEF Records, Owner, Unwind, LeaveLoop, At
<1>12. CASE StopHere
    BY <1>12 DEF Records, Owner, StopHere, Executing, At
<1>13. CASE RunReturns
    BY <1>13 DEF Records, Owner, RunReturns, At
<1>14. CASE Finish
    BY <1>14 DEF Records, Owner, Finish, At
<1>15. CASE SetStatus
    BY <1>15 DEF Records, Owner, SetStatus, Goto, At
<1>16. CASE FinalFlush
    BY <1>16 DEF Records, Owner, FinalFlush, Goto, At
<1>17. CASE Close
    BY <1>17 DEF Records, Owner, Close, Goto, At
<1>18. CASE Clear
    BY <1>18 DEF Records, Owner, Clear, clear, NoControl, Goto, At
<1>19. CASE ReceiveBatch
    BY <1>19 DEF Records, Owner, ReceiveBatch, acceptRun, Shown, sendWorkflowStop
<1>20. CASE Reply
    BY <1>20 DEF Records, Owner, Reply, NoCommand
<1>21. CASE DeliverStop
    BY <1>21 DEF Records, Owner, DeliverStop, request_global
<1>22. CASE DeliverLoopStop
    BY <1>22 DEF Records, Owner, DeliverLoopStop
<1>23. CASE TimerFlush
    BY <1>23 DEF Records, Owner, TimerFlush
<1>24. CASE StartRun
    BY <1>24 DEF Records, Owner, StartRun, Shown, NoCommand, At
<1>25. CASE requestWorkflowStop
    BY <1>25 DEF Records, Owner, requestWorkflowStop, sendWorkflowStop
<1>26. CASE requestStop
    BY <1>26 DEF Records, Owner, requestStop
<1>27. CASE ClearLastRun
    BY <1>27 DEF Records, Owner, ClearLastRun
<1>28. CASE StartManual
    BY <1>28 DEF Records, Owner, StartManual, register_manual, NoControl
<1>29. CASE EndManual
    BY <1>29 DEF Records, Owner, EndManual, clear, NoControl
<1>30. CASE BeginExport
    BY <1>30 DEF Records, Owner, BeginExport
<1>31. CASE WriteExport
    BY <1>31 DEF Records, Owner, WriteExport
<1>32. CASE UNCHANGED vars
    BY <1>32 DEF Records, Owner, vars
<1>33. QED
    BY <1>1, <1>2, <1>3, <1>4, <1>5, <1>6, <1>7, <1>8, <1>9, <1>10, <1>11, <1>12,
       <1>13, <1>14, <1>15, <1>16, <1>17, <1>18, <1>19, <1>20, <1>21, <1>22, <1>23,
       <1>24, <1>25, <1>26, <1>27, <1>28, <1>29, <1>30, <1>31, <1>32
    DEF Next, RunCommand, FrontEnd, User

-----------------------------------------------------------------------------
(* The queues are finite sequences, of whatever they hold.                 *)
Queues ==
    /\ \E S : ipc \in Seq(S)
    /\ \E S : channel \in Seq(S)
    /\ \E S : runs \in Seq(S)

(* A message sent goes to the end of its queue.                            *)
LEMMA QueueGrows ==
    ASSUME NEW S, NEW q \in Seq(S), NEW m
    PROVE  /\ Append(q, m) \in Seq(S \cup {m})
           /\ ToSet(Append(q, m)) = ToSet(q) \cup {m}
           /\ Len(Append(q, m)) = Len(q) + 1
<1> DEFINE r == Append(q, m)
<1>1. r \in Seq(S \cup {m}) /\ Len(r) = Len(q) + 1
    <2>. q \in Seq(S \cup {m}) /\ m \in S \cup {m}
        OBVIOUS
    <2>. QED
        OBVIOUS
<1>2. /\ DOMAIN r = DOMAIN q \cup {Len(q) + 1}
      /\ \A i \in DOMAIN q : r[i] = q[i]
      /\ r[Len(q) + 1] = m
    OBVIOUS
<1> HIDE DEF r
<1>3. ToSet(r) = ToSet(q) \cup {m}
    BY <1>2 DEF ToSet
<1>. QED
    BY <1>1, <1>3 DEF r

(* A message received leaves the front of its queue.                       *)
LEMMA QueueShrinks ==
    ASSUME NEW S, NEW q \in Seq(S), q # <<>>
    PROVE  /\ Tail(q) \in Seq(S)
           /\ ToSet(Tail(q)) \subseteq ToSet(q)
           /\ Head(q) \in ToSet(q)
<1>1. Tail(q) \in Seq(S) /\ Head(q) = q[1] /\ 1 \in DOMAIN q
    OBVIOUS
<1>2. \A i \in DOMAIN Tail(q) : i + 1 \in DOMAIN q /\ Tail(q)[i] = q[i + 1]
    OBVIOUS
<1>. QED
    BY <1>1, <1>2 DEF ToSet

(* A run is stored again under its id (StoredRun, under its lock).         *)
LEMMA QueueUpdated ==
    ASSUME NEW S, NEW q \in Seq(S), NEW i, NEW m
    PROVE  /\ [q EXCEPT ![i] = m] \in Seq(S \cup {m})
           /\ Len([q EXCEPT ![i] = m]) = Len(q)
<1>1. q \in [1 .. Len(q) -> S \cup {m}] /\ Len(q) \in Nat
    OBVIOUS
<1>2. [q EXCEPT ![i] = m] \in [1 .. Len(q) -> S \cup {m}]
    BY <1>1
<1>. QED
    BY <1>1, <1>2

(* Beginning a run drops the runs before it.                               *)
LEMMA Forgotten ==
    ASSUME NEW S, NEW q \in Seq(S), NEW m
    PROVE  /\ [id \in DOMAIN q |-> m] \in Seq({m})
           /\ Len([id \in DOMAIN q |-> m]) = Len(q)
<1>1. DOMAIN q = 1 .. Len(q) /\ Len(q) \in Nat
    OBVIOUS
<1>2. [id \in DOMAIN q |-> m] \in [1 .. Len(q) -> {m}]
    BY <1>1
<1>. QED
    BY <1>1, <1>2

(* How the queues move.                                                    *)
LEMMA IpcMoves ==
    ASSUME [Next]_vars
    PROVE  \/ UNCHANGED ipc
           \/ \E m : ipc' = Append(ipc, m)
           \/ ipc # <<>> /\ ipc' = Tail(ipc)
<1>1. CASE RunCommand
    BY <1>1 DEF RunCommand, Register, Parse, begin, Publish, Announce, Prepare, Enter, Leaf,
                Exhausted, Commit, Unwind, StopHere, RunReturns, Finish, SetStatus, FinalFlush,
                Close, Clear
<1>2. CASE FrontEnd
    BY <1>2 DEF FrontEnd, ReceiveBatch, sendWorkflowStop, Reply, DeliverStop, DeliverLoopStop
<1>3. CASE TimerFlush
    BY <1>3 DEF TimerFlush
<1>4. CASE User
    BY <1>4 DEF User, StartRun, requestWorkflowStop, sendWorkflowStop, requestStop,
                ClearLastRun, StartManual, EndManual, BeginExport, WriteExport
<1>5. CASE UNCHANGED vars
    BY <1>5 DEF vars
<1>. QED
    BY <1>1, <1>2, <1>3, <1>4, <1>5 DEF Next

(* A batch is sent, received, or the channel of an ended run is let go.    *)
LEMMA ChannelMoves ==
    ASSUME [Next]_vars
    PROVE  \/ UNCHANGED channel
           \/ \E m : channel' = Append(channel, m)
           \/ channel # <<>> /\ channel' = Tail(channel)
           \/ channel' = <<>>
<1>1. CASE RunCommand
    BY <1>1 DEF RunCommand, Register, Parse, begin, Publish, Announce, Prepare, Enter, Leaf,
                Exhausted, Commit, Unwind, StopHere, RunReturns, Finish, SetStatus, FinalFlush,
                flush, Close, Clear
<1>2. CASE FrontEnd
    BY <1>2 DEF FrontEnd, ReceiveBatch, Reply, DeliverStop, DeliverLoopStop
<1>3. CASE TimerFlush
    BY <1>3 DEF TimerFlush, flush
<1>4. CASE User
    BY <1>4 DEF User, StartRun, requestWorkflowStop, requestStop, ClearLastRun, StartManual,
                EndManual, BeginExport, WriteExport
<1>5. CASE UNCHANGED vars
    BY <1>5 DEF vars
<1>. QED
    BY <1>1, <1>2, <1>3, <1>4, <1>5 DEF Next

(* Only the run command stores runs: it begins one or updates its own.     *)
LEMMA RunsMove ==
    ASSUME [Next]_vars
    PROVE  \/ UNCHANGED runs
           \/ begin
           \/ /\ command.pc \in {"run", "status"} /\ UNCHANGED <<current, export>>
              /\ \E run : runs' = [runs EXCEPT ![command.run] = run]
<1>1. CASE RunCommand
    <2>1. CASE Leaf \/ Exhausted \/ Commit \/ Unwind \/ StopHere
        BY <2>1 DEF Leaf, Exhausted, Commit, Unwind, StopHere, LeaveLoop, Push, Executing, At
    <2>2. CASE SetStatus
        BY <2>2 DEF SetStatus, At
    <2>3. CASE /\ ~(Leaf \/ Exhausted \/ Commit \/ Unwind \/ StopHere)
               /\ ~SetStatus
        BY <1>1, <2>3 DEF RunCommand, Register, Parse, Publish, Announce, Prepare, Enter,
                RunReturns, Finish, FinalFlush, Close, Clear
    <2>. QED
        BY <2>1, <2>2, <2>3
<1>2. CASE FrontEnd
    BY <1>2 DEF FrontEnd, ReceiveBatch, Reply, DeliverStop, DeliverLoopStop
<1>3. CASE TimerFlush
    BY <1>3 DEF TimerFlush
<1>4. CASE User
    BY <1>4 DEF User, StartRun, requestWorkflowStop, requestStop, ClearLastRun, StartManual,
                EndManual, BeginExport, WriteExport
<1>5. CASE UNCHANGED vars
    BY <1>5 DEF vars
<1>. QED
    BY <1>1, <1>2, <1>3, <1>4, <1>5 DEF Next

(* The queues stay finite.                                                 *)
LEMMA QueuesStep ==
    ASSUME Queues, [Next]_vars
    PROVE  Queues'
<1>1. \E S : ipc' \in Seq(S)
    <2>. PICK S : ipc \in Seq(S)
        BY DEF Queues
    <2>1. CASE \E m : ipc' = Append(ipc, m)
        <3>. PICK m : ipc' = Append(ipc, m)
            BY <2>1
        <3>1. ipc' \in Seq(S \cup {m})
            BY QueueGrows
        <3>. QED
            BY <3>1
    <2>2. CASE ipc # <<>> /\ ipc' = Tail(ipc)
        BY <2>2, QueueShrinks
    <2>. QED
        BY <2>1, <2>2, IpcMoves
<1>2. \E S : channel' \in Seq(S)
    <2>. PICK S : channel \in Seq(S)
        BY DEF Queues
    <2>1. CASE \E m : channel' = Append(channel, m)
        <3>. PICK m : channel' = Append(channel, m)
            BY <2>1
        <3>1. channel' \in Seq(S \cup {m})
            BY QueueGrows
        <3>. QED
            BY <3>1
    <2>2. CASE channel # <<>> /\ channel' = Tail(channel)
        BY <2>2, QueueShrinks
    <2>3. CASE channel' = <<>>
        BY <2>3
    <2>. QED
        BY <2>1, <2>2, <2>3, ChannelMoves
<1>3. \E S : runs' \in Seq(S)
    <2>. PICK S : runs \in Seq(S)
        BY DEF Queues
    <2>1. CASE begin
        <3>1. [id \in DOMAIN runs |-> Dropped] \in Seq({Dropped})
            BY Forgotten
        <3>2. Append([id \in DOMAIN runs |-> Dropped], NewRun) \in Seq({Dropped} \cup {NewRun})
            BY <3>1, QueueGrows
        <3>. QED
            BY <2>1, <3>2 DEF begin
    <2>2. CASE \E run : runs' = [runs EXCEPT ![command.run] = run]
        <3>. PICK run : runs' = [runs EXCEPT ![command.run] = run]
            BY <2>2
        <3>1. runs' \in Seq(S \cup {run})
            BY QueueUpdated
        <3>. QED
            BY <3>1
    <2>. QED
        BY <2>1, <2>2, RunsMove
<1>. QED
    BY <1>1, <1>2, <1>3 DEF Queues

-----------------------------------------------------------------------------
(* The run of a command is the latest one, and it is running until the     *)
(* command sets its last status; a run that is exported is not.            *)
Shape(run) == DOMAIN run = {"status", "rows", "active", "ok", "root"}

Busy == {"publish", "announce", "prepare", "run", "finish", "status"}

Latest ==
    /\ command.run \in {0, Len(runs)}
    /\ command.pc \in Busy =>
           command.run # 0 /\ Shape(runs[command.run]) /\ runs[command.run].status = "running"
    /\ current \in 0 .. Len(runs) /\ export \in 0 .. Len(runs)
    /\ export # 0 /\ export = current => runs[export].status # "running"

(* An event changes neither the status of the run nor the run's fields.    *)
LEMMA EventsKeepStatus ==
    ASSUME NEW run, Shape(run), NEW path, NEW succeeded
    PROVE  /\ Shape(append_execution(run, path, succeeded))
           /\ append_execution(run, path, succeeded).status = run.status
           /\ Shape(append_row(run)) /\ append_row(run).status = run.status
BY DEF Shape, append_execution, append_row

(* What the run command does with an event.                                *)
LEMMA PushesRunning ==
    ASSUME Records, Latest,
           Leaf \/ Exhausted \/ Commit \/ Unwind \/ StopHere
    PROVE  /\ command.pc = "run" /\ command'.pc = "run" /\ command'.run = command.run
           /\ UNCHANGED <<current, export>>
           /\ \/ UNCHANGED runs
              \/ \E run : /\ runs' = [runs EXCEPT ![command.run] = run]
                         /\ Shape(run) /\ run.status = "running"
<1>1. command.pc = "run"
    BY DEF Leaf, Exhausted, Commit, Unwind, StopHere, Executing, At
<1>2. command'.pc = "run" /\ command'.run = command.run
    BY <1>1 DEF Records, Leaf, Exhausted, Commit, Unwind, StopHere, LeaveLoop
<1>3. UNCHANGED <<current, export>>
    BY DEF Leaf, Exhausted, Commit, Unwind, StopHere
<1>4. Shape(Stored) /\ Stored.status = "running"
    BY <1>1 DEF Latest, Busy, Stored
<1>5. \/ UNCHANGED runs
      \/ \E path, succeeded :
             \/ runs' = [runs EXCEPT ![command.run] = append_execution(Stored, path, succeeded)]
             \/ runs' = [runs EXCEPT ![command.run] = append_row(Stored)]
             \/ runs' = [runs EXCEPT ![command.run] =
                             append_execution(append_row(Stored), path, succeeded)]
    BY DEF Leaf, Exhausted, Commit, Unwind, StopHere, LeaveLoop, Push
<1>. QED
    BY <1>1, <1>2, <1>3, <1>4, <1>5, EventsKeepStatus

(* A command works on the latest run only, until its last status.          *)
LEMMA LatestStep ==
    ASSUME Records, Queues, Latest, [Next]_vars
    PROVE  Latest'
<1>. PICK S : runs \in Seq(S)
    BY DEF Queues
<1>1. CASE Leaf \/ Exhausted \/ Commit \/ Unwind \/ StopHere
    <2>1. Len(runs') = Len(runs) /\ command'.run \in {0, Len(runs')}
        BY <1>1, PushesRunning, QueueUpdated DEF Latest
    <2>2. /\ command'.run # 0
          /\ Shape(runs'[command'.run]) /\ runs'[command'.run].status = "running"
        BY <1>1, PushesRunning DEF Latest, Busy
    <2>3. export # 0 /\ export = current => runs'[export].status # "running"
        BY <1>1, PushesRunning DEF Latest, Busy
    <2>. QED
        BY <1>1, <2>1, <2>2, <2>3, PushesRunning DEF Latest
<1>2. CASE begin
    <2>1. Len(runs') = Len(runs) + 1 /\ runs'[Len(runs) + 1] = NewRun
        <3>1. [id \in DOMAIN runs |-> Dropped] \in Seq({Dropped})
            BY Forgotten
        <3>2. Len([id \in DOMAIN runs |-> Dropped]) = Len(runs)
            BY Forgotten
        <3>. QED
            BY <1>2, <3>1, <3>2 DEF begin
    <2>2. Shape(NewRun) /\ NewRun.status = "running"
        BY DEF Shape, NewRun
    <2>3. /\ command'.run = Len(runs) + 1 /\ current' = Len(runs) + 1
          /\ UNCHANGED export
        BY <1>2 DEF begin, Records
    <2>4. Len(runs) \in Nat
        OBVIOUS
    <2>. QED
        BY <2>1, <2>2, <2>3, <2>4 DEF Latest
<1>3. CASE SetStatus
    <2>1. /\ command.pc = "status" /\ command'.pc = "flush" /\ command'.run = command.run
          /\ UNCHANGED <<current, export>>
        BY <1>3 DEF SetStatus, Records, At, Goto
    <2>2. PICK run : runs' = [runs EXCEPT ![command.run] = run]
        BY <1>3 DEF SetStatus
    <2>3. Len(runs') = Len(runs)
        BY <2>2, QueueUpdated
    <2>4. export # 0 /\ export = current => runs'[export].status # "running"
        BY <2>1, <2>2 DEF Latest, Busy
    <2>. QED
        BY <2>1, <2>3, <2>4 DEF Latest, Busy
<1>4. CASE BeginExport
    BY <1>4 DEF BeginExport, Latest
<1>5. CASE /\ ~(Leaf \/ Exhausted \/ Commit \/ Unwind \/ StopHere)
           /\ ~begin /\ ~SetStatus /\ ~BeginExport
    <2>1. UNCHANGED runs
        BY <1>5 DEF Next, RunCommand, FrontEnd, User, vars, Register, Parse, Publish, Announce,
                    Prepare, Enter, RunReturns, Finish, FinalFlush, Close, Clear, ReceiveBatch,
                    Reply, DeliverStop, DeliverLoopStop, TimerFlush, StartRun,
                    requestWorkflowStop, requestStop, ClearLastRun, StartManual, EndManual,
                    WriteExport
    <2>2. current' \in {0, current} /\ export' \in {0, export}
        BY <1>5 DEF Next, RunCommand, FrontEnd, User, vars, Register, Parse, Publish, Announce,
                    Prepare, Enter, RunReturns, Finish, FinalFlush, Close, Clear, ReceiveBatch,
                    Reply, DeliverStop, DeliverLoopStop, TimerFlush, StartRun,
                    requestWorkflowStop, requestStop, ClearLastRun, StartManual, EndManual,
                    WriteExport
    <2>3. /\ command'.run \in {0, command.run}
          /\ command'.pc \in Busy => command.pc \in Busy /\ command'.run = command.run
        <3>1. CASE UNCHANGED command
            BY <3>1
        <3>2. CASE Reply \/ StartRun
            <4>1. NoCommand.run = 0 /\ NoCommand.pc = "idle"
                BY DEF NoCommand
            <4>2. ASSUME NEW mode
                  PROVE  LET c == [NoCommand EXCEPT !.pc = "register", !.mode = mode]
                         IN c.run = 0 /\ c.pc = "register"
                BY DEF NoCommand
            <4>3. command'.run = 0 /\ command'.pc \in {"idle", "register"}
                BY <3>2, <4>1, <4>2 DEF Reply, StartRun
            <4>. QED
                BY <4>3 DEF Busy
        <3>3. CASE Register \/ Parse \/ FinalFlush \/ Close \/ Clear
            BY <3>3 DEF Records, Busy, Register, Parse, FinalFlush, Close, Clear, Goto, At
        <3>4. CASE Publish \/ Announce \/ Enter
            BY <3>4 DEF Records, Busy, Publish, Announce, Enter, Executing, Goto, At
        <3>5. CASE Prepare \/ RunReturns \/ Finish
            BY <3>5 DEF Records, Busy, Prepare, RunReturns, Finish, Goto, At
        <3>. QED
            BY <1>5, <3>1, <3>2, <3>3, <3>4, <3>5 DEF Next, RunCommand, FrontEnd, User, vars,
                ReceiveBatch, DeliverStop, DeliverLoopStop, TimerFlush, requestWorkflowStop,
                requestStop, ClearLastRun, StartManual, EndManual, WriteExport
    <2>. QED
        BY <2>1, <2>2, <2>3 DEF Latest
<1>. QED
    BY <1>1, <1>2, <1>3, <1>4, <1>5

(* An export reads a run that does not change.                             *)
LEMMA ExportStable ==
    ASSUME Queues, Latest, [Next]_vars, export # 0, export = current'
    PROVE  runs'[export] = runs[export]
<1>. PICK S : runs \in Seq(S)
    BY DEF Queues
<1>1. CASE begin
    <2>1. current' = Len(runs) + 1
        BY <1>1 DEF begin
    <2>. QED
        BY <2>1 DEF Latest
<1>2. CASE command.pc \in {"run", "status"} /\ UNCHANGED current
    <2>1. export # command.run
        BY <1>2 DEF Latest, Busy
    <2>2. export \in DOMAIN runs
        BY DEF Latest
    <2>3. CASE \E run : runs' = [runs EXCEPT ![command.run] = run]
        BY <2>1, <2>2, <2>3
    <2>. QED
        BY <1>1, <2>3, RunsMove
<1>. QED
    BY <1>1, <1>2, RunsMove

-----------------------------------------------------------------------------
(* What the front end and the control know of each other.  A batch under   *)
(* way is about the run of the command.  A request under way is about that *)
(* run or an older one, and about that run only while the front end shows  *)
(* it as stopping.                                                         *)
Told == Working \cup {"reply"}

Requests ==
    \A m \in ToSet(ipc) : m.kind = "workflow" =>
        /\ m.run \in 1 .. Len(runs)
        /\ m.run = command.run => ui.stop \in {"sent", "error"} /\ ui.run = m.run

Batches ==
    \A m \in ToSet(channel) :
        m.metadata.run = command.run /\ command.run # 0 /\ command.pc \in Told

(* The batcher sends only while the command has a run to tell of.          *)
Telling == {"prepare", "run", "finish", "status", "flush", "close"}

Batcher ==
    /\ DOMAIN batcher = {"open", "dirty", "completed"}
    /\ batcher.open => command.pc \in Telling
    /\ command.pc \in Telling => command.run # 0

Talk ==
    /\ ui.stop \in {None, "asked", "sent", "error"}
    /\ ui.status # "running" => ui.stop = None
    /\ ui.status = "running" /\ ui.run # 0 => ui.run = command.run /\ command.pc \in Told
    /\ ui.stop \in {"sent", "error"} => ui.run # 0
    /\ ui.stop = "error" => command.pc = "reply"
    /\ active.stop \in BOOLEAN /\ (active.stop => ui.stop = "sent" /\ ui.run = active.run)

(* What a batch makes of the front end.                                    *)
LEMMA Receives ==
    ASSUME Records, Queues, Batches, ReceiveBatch
    PROVE  /\ UNCHANGED <<command, active, runs>>
           /\ command.run # 0 /\ command.pc \in Told
           /\ ui'.run = command.run
           /\ ui'.status = IF ui.status = "starting" THEN "running" ELSE ui.status
           /\ LET stop == IF ui.status = "starting" THEN None ELSE ui.stop
              IN \/ ui'.stop = stop /\ UNCHANGED ipc
                 \/ /\ stop = "asked" /\ ui'.stop = "sent"
                    /\ ipc' = Append(ipc, [kind |-> "workflow", run |-> command.run, loop |-> None])
<1> DEFINE batch == Head(channel)
           seen == [acceptRun(ui) EXCEPT
                      !.run = batch.metadata.run,
                      !.view = batch.metadata,
                      !.loop_stop = IF @ \in batch.completed THEN None ELSE @]
           sent == [seen EXCEPT !.stop = "sent"]
<1>1. batch.metadata.run = command.run /\ command.run # 0 /\ command.pc \in Told
    <2>. PICK S : channel \in Seq(S)
        BY DEF Queues
    <2>. QED
        BY QueueShrinks DEF ReceiveBatch, Batches
<1>2. /\ seen.run = batch.metadata.run
      /\ seen.stop = IF ui.status = "starting" THEN None ELSE ui.stop
      /\ seen.status = IF ui.status = "starting" THEN "running" ELSE ui.status
      /\ sent.run = seen.run /\ sent.stop = "sent" /\ sent.status = seen.status
    BY DEF Records, acceptRun, Shown
<1>3. \/ ui' = seen /\ UNCHANGED ipc
      \/ /\ seen.stop = "asked" /\ ui' = sent
         /\ ipc' = Append(ipc, [kind |-> "workflow", run |-> seen.run, loop |-> None])
    BY DEF ReceiveBatch, sendWorkflowStop
<1>4. UNCHANGED <<command, active, runs>>
    BY DEF ReceiveBatch
<1> HIDE DEF batch, seen, sent
<1>. QED
    BY <1>1, <1>2, <1>3, <1>4

(* What the front end shows of a stop stays true of the run.               *)
LEMMA TalkStep ==
    ASSUME Records, Owner, Queues, Latest, Requests, Batches, Talk, [Next]_vars
    PROVE  Talk'
<1> USE DesktopAssumption DEF Working, Slot, Told, PCs
<1>1. CASE Register
    BY <1>1 DEF Records, Owner, Talk, Register, register, NoControl, Goto, At
<1>2. CASE Parse
    BY <1>2 DEF Records, Owner, Talk, Parse, Goto, At
<1>3. CASE begin
    BY <1>3 DEF Records, Owner, Talk, begin, At
<1>4. CASE Publish
    BY <1>4 DEF Records, Owner, Talk, Publish, Goto, At
<1>5. CASE Announce
    BY <1>5 DEF Records, Owner, Talk, Announce, Goto, At
<1>6. CASE Prepare
    BY <1>6 DEF Records, Owner, Talk, Prepare, Goto, At
<1>7. CASE Enter
    BY <1>7 DEF Records, Owner, Talk, Enter, Executing, At
<1>8. CASE Leaf
    BY <1>8 DEF Records, Owner, Talk, Leaf, Executing, At
<1>9. CASE Exhausted
    BY <1>9 DEF Records, Owner, Talk, Exhausted, Executing, LeaveLoop, At
<1>10. CASE Commit
    BY <1>10 DEF Records, Owner, Talk, Commit, Executing, At, consume_loop_stop
<1>11. CASE Unwind
    BY <1>11 DEF Records, Owner, Talk, Unwind, LeaveLoop, At
<1>12. CASE StopHere
    BY <1>12 DEF Records, Owner, Talk, StopHere, Executing, At
<1>13. CASE RunReturns
    BY <1>13 DEF Records, Owner, Talk, RunReturns, At
<1>14. CASE Finish
    BY <1>14 DEF Records, Owner, Talk, Finish, At
<1>15. CASE SetStatus
    BY <1>15 DEF Records, Owner, Talk, SetStatus, Goto, At
<1>16. CASE FinalFlush
    BY <1>16 DEF Records, Owner, Talk, FinalFlush, Goto, At
<1>17. CASE Close
    BY <1>17 DEF Records, Owner, Talk, Close, Goto, At
<1>18. CASE Clear
    BY <1>18 DEF Records, Owner, Talk, Clear, clear, NoControl, Goto, At
<1>19. CASE ReceiveBatch
    BY <1>19, Receives DEF Talk, Owner
<1>20. CASE Reply
    BY <1>20 DEF Records, Owner, Talk, Reply, NoCommand
<1>21. CASE DeliverStop
    <2> DEFINE m == Head(ipc)
    <2>1. m \in ToSet(ipc) /\ m.kind = "workflow"
        <3>. PICK S : ipc \in Seq(S)
            BY DEF Queues
        <3>. QED
            BY <1>21, QueueShrinks DEF DeliverStop
    <2>2. /\ m.run \in Nat \ {0}
          /\ m.run = command.run => ui.stop \in {"sent", "error"} /\ ui.run = m.run
        <3>. PICK S : runs \in Seq(S)
            BY DEF Queues
        <3>. QED
            BY <2>1 DEF Requests
    <2>3. CASE request_global(m.run)
        <3>1. active' = [active EXCEPT !.stop = TRUE] /\ UNCHANGED <<ui, command>>
            BY <1>21, <2>3 DEF DeliverStop
        <3>2. active.run = m.run /\ active.run = command.run
            BY <2>2, <2>3 DEF request_global, Owner
        <3>3. command.pc # "reply"
            BY <2>3 DEF request_global, Owner
        <3>. QED
            BY <2>2, <3>1, <3>2, <3>3 DEF Talk, Records
    <2>4. CASE ~request_global(m.run)
        <3>1. /\ UNCHANGED <<active, command>>
              /\ ui' = IF ui.stop = "sent" /\ ui.run = m.run
                       THEN [ui EXCEPT !.stop = "error"] ELSE ui
            BY <1>21, <2>4 DEF DeliverStop
        <3>2. ASSUME ui.stop = "sent", ui.run = m.run
              PROVE  command.pc = "reply"
            <4>1. ui.run = command.run /\ command.pc \in Told
                BY <2>2, <3>2 DEF Talk
            <4>. QED
                BY <2>4, <3>2, <4>1 DEF request_global, Owner
        <3>3. ASSUME active.stop
              PROVE  ~(ui.stop = "sent" /\ ui.run = m.run)
            BY <2>4, <3>2, <3>3, <2>2 DEF Talk, Owner, request_global
        <3>. QED
            BY <2>2, <3>1, <3>2, <3>3 DEF Talk, Records
    <2> HIDE DEF m
    <2>. QED
        BY <2>3, <2>4
<1>22. CASE DeliverLoopStop
    BY <1>22 DEF Records, Owner, Talk, DeliverLoopStop
<1>23. CASE TimerFlush
    BY <1>23 DEF Records, Owner, Talk, TimerFlush
<1>24. CASE StartRun
    BY <1>24 DEF Records, Owner, Talk, StartRun, Shown, NoCommand, At
<1>25. CASE requestWorkflowStop
    BY <1>25 DEF Records, Owner, Talk, requestWorkflowStop, sendWorkflowStop
<1>26. CASE requestStop
    BY <1>26 DEF Records, Owner, Talk, requestStop
<1>27. CASE ClearLastRun
    BY <1>27 DEF Records, Owner, Talk, ClearLastRun
<1>28. CASE StartManual
    BY <1>28 DEF Records, Owner, Talk, StartManual, register_manual, NoControl
<1>29. CASE EndManual
    BY <1>29 DEF Records, Owner, Talk, EndManual, clear, NoControl
<1>30. CASE BeginExport
    BY <1>30 DEF Records, Owner, Talk, BeginExport
<1>31. CASE WriteExport
    BY <1>31 DEF Records, Owner, Talk, WriteExport
<1>32. CASE UNCHANGED vars
    BY <1>32 DEF Records, Owner, Talk, vars
<1>33. QED
    BY <1>1, <1>2, <1>3, <1>4, <1>5, <1>6, <1>7, <1>8, <1>9, <1>10, <1>11, <1>12,
       <1>13, <1>14, <1>15, <1>16, <1>17, <1>18, <1>19, <1>20, <1>21, <1>22, <1>23,
       <1>24, <1>25, <1>26, <1>27, <1>28, <1>29, <1>30, <1>31, <1>32
    DEF Next, RunCommand, FrontEnd, User

(* The batcher is open only while the command tells of its run.            *)
LEMMA BatcherStep ==
    ASSUME Records, Owner, Latest, Batcher, [Next]_vars
    PROVE  Batcher'
<1> USE DEF Telling
<1>1. CASE Register
    BY <1>1 DEF Records, Batcher, Register, register, NoControl, Goto, At
<1>2. CASE Parse
    BY <1>2 DEF Records, Batcher, Parse, Goto, At
<1>3. CASE begin
    BY <1>3 DEF Records, Batcher, begin, At
<1>4. CASE Publish
    BY <1>4 DEF Records, Batcher, Publish, Goto, At
<1>5. CASE Announce
    BY <1>5 DEF Records, Batcher, Announce, Goto, At, Latest, Busy, NoBatcher
<1>6. CASE Prepare
    BY <1>6 DEF Records, Batcher, Prepare, Goto, At
<1>7. CASE Enter
    BY <1>7 DEF Records, Batcher, Enter, Executing, At
<1>8. CASE Leaf
    BY <1>8 DEF Records, Batcher, Leaf, Executing, At, Push
<1>9. CASE Exhausted
    BY <1>9 DEF Records, Batcher, Exhausted, Executing, LeaveLoop, At, Push
<1>10. CASE Commit
    BY <1>10 DEF Records, Batcher, Commit, Executing, At, consume_loop_stop, Push
<1>11. CASE Unwind
    BY <1>11 DEF Records, Batcher, Unwind, LeaveLoop, At, Push
<1>12. CASE StopHere
    BY <1>12 DEF Records, Batcher, StopHere, Executing, At, Push
<1>13. CASE RunReturns
    BY <1>13 DEF Records, Batcher, RunReturns, At
<1>14. CASE Finish
    BY <1>14 DEF Records, Batcher, Finish, At
<1>15. CASE SetStatus
    BY <1>15 DEF Records, Batcher, SetStatus, Goto, At
<1>16. CASE FinalFlush
    BY <1>16 DEF Records, Batcher, FinalFlush, Goto, At, flush
<1>17. CASE Close
    BY <1>17 DEF Records, Batcher, Close, Goto, At, NoBatcher
<1>18. CASE Clear
    BY <1>18 DEF Records, Batcher, Clear, clear, NoControl, Goto, At
<1>19. CASE ReceiveBatch
    BY <1>19 DEF Records, Batcher, ReceiveBatch, acceptRun, Shown, sendWorkflowStop
<1>20. CASE Reply
    BY <1>20 DEF Records, Batcher, Reply, NoCommand
<1>21. CASE DeliverStop
    BY <1>21 DEF Records, Batcher, DeliverStop, request_global
<1>22. CASE DeliverLoopStop
    BY <1>22 DEF Records, Batcher, DeliverLoopStop
<1>23. CASE TimerFlush
    BY <1>23 DEF Records, Batcher, TimerFlush, flush
<1>24. CASE StartRun
    BY <1>24 DEF Records, Batcher, StartRun, Shown, NoCommand, At
<1>25. CASE requestWorkflowStop
    BY <1>25 DEF Records, Batcher, requestWorkflowStop, sendWorkflowStop
<1>26. CASE requestStop
    BY <1>26 DEF Records, Batcher, requestStop
<1>27. CASE ClearLastRun
    BY <1>27 DEF Records, Batcher, ClearLastRun
<1>28. CASE StartManual
    BY <1>28 DEF Records, Batcher, StartManual, register_manual, NoControl
<1>29. CASE EndManual
    BY <1>29 DEF Records, Batcher, EndManual, clear, NoControl
<1>30. CASE BeginExport
    BY <1>30 DEF Records, Batcher, BeginExport
<1>31. CASE WriteExport
    BY <1>31 DEF Records, Batcher, WriteExport
<1>32. CASE UNCHANGED vars
    BY <1>32 DEF Records, Batcher, vars
<1>33. QED
    BY <1>1, <1>2, <1>3, <1>4, <1>5, <1>6, <1>7, <1>8, <1>9, <1>10, <1>11, <1>12,
       <1>13, <1>14, <1>15, <1>16, <1>17, <1>18, <1>19, <1>20, <1>21, <1>22, <1>23,
       <1>24, <1>25, <1>26, <1>27, <1>28, <1>29, <1>30, <1>31, <1>32
    DEF Next, RunCommand, FrontEnd, User

(* Every batch under way is about the run of the command.                  *)
LEMMA BatchesStep ==
    ASSUME Records, Owner, Queues, Latest, Batcher, Batches, [Next]_vars
    PROVE  Batches'
<1>. PICK S : channel \in Seq(S)
    BY DEF Queues
<1>1. CASE Announce
    <2> DEFINE m == [metadata |-> metadata(command.run), completed |-> {}]
    <2>1. channel' = Append(channel, m) /\ m.metadata.run = command.run
        BY <1>1 DEF Announce, metadata
    <2>2. command.run # 0 /\ command'.run = command.run /\ command'.pc \in Told
        BY <1>1 DEF Announce, At, Goto, Latest, Busy, Records, Told, Working
    <2> HIDE DEF m
    <2>3. ToSet(channel') = ToSet(channel) \cup {m}
        BY <2>1, QueueGrows
    <2>. QED
        BY <2>1, <2>2, <2>3 DEF Batches
<1>2. CASE FinalFlush \/ TimerFlush
    <2>1. channel' = channel \/ channel' = Append(channel, Batch)
        BY <1>2 DEF FinalFlush, TimerFlush, flush
    <2>2. ToSet(channel') \subseteq ToSet(channel) \cup {Batch}
        BY <2>1, QueueGrows
    <2>3. Batch.metadata.run = command.run
        BY DEF Batch, metadata
    <2>4. command.run # 0 /\ command'.run = command.run /\ command'.pc \in Told
        BY <1>2 DEF FinalFlush, TimerFlush, At, Goto, Batcher, Telling, Records, Told, Working
    <2>. QED
        BY <2>2, <2>3, <2>4 DEF Batches
<1>3. CASE ReceiveBatch
    <2>1. ToSet(channel') \subseteq ToSet(channel)
        BY <1>3, QueueShrinks DEF ReceiveBatch
    <2>2. UNCHANGED command
        BY <1>3 DEF ReceiveBatch
    <2>. QED
        BY <2>1, <2>2 DEF Batches
<1>4. CASE Reply
    BY <1>4 DEF Reply, Batches, ToSet
<1>5. CASE ~Announce /\ ~FinalFlush /\ ~TimerFlush /\ ~ReceiveBatch /\ ~Reply
    <2>1. UNCHANGED channel
        BY <1>5 DEF Next, RunCommand, FrontEnd, User, vars, Register, Parse, begin, Publish,
                    Prepare, Enter, Leaf, Exhausted, Commit, Unwind, StopHere, RunReturns,
                    Finish, SetStatus, Close, Clear, DeliverStop, DeliverLoopStop, StartRun,
                    requestWorkflowStop, requestStop, ClearLastRun, StartManual, EndManual,
                    BeginExport, WriteExport
    <2>2. command.pc \in Told =>
              command'.run = command.run /\ command'.pc \in Told
        <3>1. CASE UNCHANGED command
            BY <3>1
        <3>2. CASE Leaf \/ Exhausted \/ Commit \/ Unwind \/ StopHere
            BY <3>2, PushesRunning DEF Told, Working
        <3>3. CASE Enter
            BY <3>3 DEF Records, Enter, Executing, At, Told, Working
        <3>4. CASE Prepare \/ RunReturns \/ Finish
            BY <3>4 DEF Records, Prepare, RunReturns, Finish, Goto, At, Told, Working
        <3>5. CASE SetStatus \/ Close \/ Clear
            BY <3>5 DEF Records, SetStatus, Close, Clear, Goto, At, Told, Working
        <3>6. CASE Register \/ Parse \/ begin \/ Publish \/ StartRun
            BY <3>6 DEF Register, Parse, begin, Publish, StartRun, At, Told, Working
        <3>. QED
            BY <1>5, <3>1, <3>2, <3>3, <3>4, <3>5, <3>6 DEF Next, RunCommand, FrontEnd, User,
                vars, DeliverStop, DeliverLoopStop, requestWorkflowStop, requestStop,
                ClearLastRun, StartManual, EndManual, BeginExport, WriteExport
    <2>. QED
        BY <2>1, <2>2 DEF Batches
<1>. QED
    BY <1>1, <1>2, <1>3, <1>4, <1>5


(* A request under way is never about a run still to come.                 *)
LEMMA RequestsStep ==
    ASSUME Records, Owner, Queues, Latest, Batches, Requests, Talk, [Next]_vars
    PROVE  Requests'
<1>. PICK S : ipc \in Seq(S)
    BY DEF Queues
<1>. PICK R : runs \in Seq(R)
    BY DEF Queues
<1> DEFINE Mine(m) == ui.stop \in {"sent", "error"} /\ ui.run = m.run
<1>1. 1 .. Len(runs) \subseteq 1 .. Len(runs')
    <2>1. CASE begin
        <3>1. [id \in DOMAIN runs |-> Dropped] \in Seq({Dropped})
              /\ Len([id \in DOMAIN runs |-> Dropped]) = Len(runs)
            BY Forgotten
        <3>. QED
            BY <2>1, <3>1, QueueGrows DEF begin
    <2>2. CASE \E run : runs' = [runs EXCEPT ![command.run] = run]
        BY <2>2, QueueUpdated
    <2>. QED
        BY <2>1, <2>2, RunsMove
<1>2. ASSUME NEW m \in ToSet(ipc), m.kind = "workflow"
      PROVE  m.run \in 1 .. Len(runs) /\ (m.run = command.run => Mine(m))
    BY <1>2 DEF Requests
<1> DEFINE Ask(run) == [kind |-> "workflow", run |-> run, loop |-> None]
<1>3. CASE ReceiveBatch
    <2>1. command.run \in 1 .. Len(runs)
        BY <1>3, Receives DEF Latest
    <2>2. CASE UNCHANGED ipc
        BY <1>2, <1>3, <2>2, Receives DEF Requests, Talk
    <2>3. CASE ipc' = Append(ipc, Ask(command.run)) /\ ui'.stop = "sent"
        <3>1. ToSet(ipc') = ToSet(ipc) \cup {Ask(command.run)}
            BY <2>3, QueueGrows
        <3>. QED
            BY <1>2, <1>3, <2>1, <2>3, <3>1, Receives DEF Requests
    <2>. QED
        BY <1>3, <2>2, <2>3, Receives
<1>7. CASE requestWorkflowStop
    <2>1. UNCHANGED <<command, runs>>
        BY <1>7 DEF requestWorkflowStop
    <2>2. CASE ui.run # 0
        <3>1. /\ ui' = [[ui EXCEPT !.stop = "asked"] EXCEPT !.stop = "sent"]
              /\ ipc' = Append(ipc, Ask(ui.run))
            BY <1>7, <2>2 DEF requestWorkflowStop, sendWorkflowStop, Records
        <3>2. ui'.stop = "sent" /\ ui'.run = ui.run
            BY <3>1 DEF Records
        <3>3. ui.run \in 1 .. Len(runs)
            BY <1>7, <2>2 DEF requestWorkflowStop, Talk, Latest
        <3>4. ToSet(ipc') = ToSet(ipc) \cup {Ask(ui.run)}
            BY <3>1, QueueGrows
        <3>. QED
            BY <1>2, <2>1, <3>2, <3>3, <3>4 DEF Requests
    <2>3. CASE ui.run = 0
        <3>1. UNCHANGED ipc
            BY <1>7, <2>3 DEF requestWorkflowStop, sendWorkflowStop, Records
        <3>. QED
            BY <1>2, <2>1, <2>3, <3>1 DEF Requests
    <2>. QED
        BY <2>2, <2>3
<1>4. CASE requestStop
    <2> DEFINE Call(loop) == [kind |-> "loop", run |-> 0, loop |-> loop]
    <2>1. PICK loop : /\ ipc' = Append(ipc, Call(loop))
                      /\ ui' = [ui EXCEPT !.loop_stop = loop]
        BY <1>4 DEF requestStop
    <2>2. ToSet(ipc') = ToSet(ipc) \cup {Call(loop)}
        BY <2>1, QueueGrows
    <2>3. UNCHANGED <<command, runs, ui.stop, ui.run>>
        BY <1>4, <2>1 DEF requestStop, Records
    <2>. QED
        BY <2>2, <2>3 DEF Requests
<1>5. CASE DeliverStop \/ DeliverLoopStop
    <2>1. ToSet(ipc') \subseteq ToSet(ipc)
        BY <1>5, QueueShrinks DEF DeliverStop, DeliverLoopStop
    <2>2. UNCHANGED <<command, runs, ui.run>>
        BY <1>5 DEF DeliverStop, DeliverLoopStop, Records
    <2>3. ui.stop \in {"sent", "error"} => ui'.stop \in {"sent", "error"}
        BY <1>5 DEF DeliverStop, DeliverLoopStop, Records
    <2>. QED
        BY <2>1, <2>2, <2>3 DEF Requests
<1>6. CASE /\ ~ReceiveBatch /\ ~requestWorkflowStop /\ ~requestStop
           /\ ~DeliverStop /\ ~DeliverLoopStop
    <2>1. UNCHANGED ipc
        BY <1>6 DEF Next, RunCommand, FrontEnd, User, vars, Register, Parse, begin, Publish,
                    Announce, Prepare, Enter, Leaf, Exhausted, Commit, Unwind, StopHere,
                    RunReturns, Finish, SetStatus, FinalFlush, Close, Clear, Reply, TimerFlush,
                    StartRun, ClearLastRun, StartManual, EndManual, BeginExport, WriteExport
    <2>2. CASE Reply \/ StartRun
        <3>1. command'.run = 0
            <4>1. /\ NoCommand.run = 0
                  /\ \A mode : [NoCommand EXCEPT !.pc = "register", !.mode = mode].run = 0
                BY DEF NoCommand
            <4>. QED
                BY <2>2, <4>1 DEF Reply, StartRun
        <3>. QED
            BY <1>1, <1>2, <2>1, <3>1 DEF Requests
    <2>3. CASE ClearLastRun
        <3>1. ui.stop = None /\ UNCHANGED <<command, runs>>
            BY <2>3 DEF ClearLastRun, Talk
        <3>. QED
            BY <1>2, <2>1, <3>1, DesktopAssumption DEF Requests
    <2>4. CASE begin
        <3>1. command'.run = Len(runs) + 1
            BY <2>4 DEF begin, Records
        <3>. QED
            BY <1>1, <1>2, <2>1, <3>1 DEF Requests
    <2>5. CASE UNCHANGED ui /\ command'.run = command.run
        BY <1>1, <1>2, <2>1, <2>5 DEF Requests
    <2>6. CASE ~Reply /\ ~StartRun /\ ~ClearLastRun /\ ~begin
        <3>1. UNCHANGED ui
            BY <1>6, <2>6 DEF Next, RunCommand, FrontEnd, User, vars, Register, Parse, Publish,
                Announce, Prepare, Enter, Leaf, Exhausted, Commit, Unwind, StopHere, RunReturns,
                Finish, SetStatus, FinalFlush, Close, Clear, TimerFlush, StartManual, EndManual,
                BeginExport, WriteExport
        <3>2. command'.run = command.run
            <4>1. CASE Leaf \/ Exhausted \/ Commit \/ Unwind \/ StopHere
                BY <4>1, PushesRunning
            <4>2. CASE Register \/ Parse \/ Publish \/ Announce
                BY <4>2 DEF Records, Register, Parse, Publish, Announce, Goto
            <4>3. CASE Prepare \/ Enter \/ RunReturns \/ Finish
                BY <4>3 DEF Records, Prepare, Enter, RunReturns, Finish, Goto
            <4>4. CASE SetStatus \/ FinalFlush \/ Close \/ Clear
                BY <4>4 DEF Records, SetStatus, FinalFlush, Close, Clear, Goto
            <4>5. CASE UNCHANGED command
                BY <4>5
            <4>. QED
                BY <1>6, <2>6, <4>1, <4>2, <4>3, <4>4, <4>5 DEF Next, RunCommand, FrontEnd,
                    User, vars, TimerFlush, StartManual, EndManual, BeginExport, WriteExport
        <3>. QED
            BY <2>5, <3>1, <3>2
    <2>. QED
        BY <2>2, <2>3, <2>4, <2>6
<1>. QED
    BY <1>3, <1>4, <1>5, <1>6, <1>7

-----------------------------------------------------------------------------
(* How a run went and what is said of it.  Until it is given a verdict its *)
(* executions all succeeded; a verdict of success also has the root step;  *)
(* and the status of the CSV, computed before the status of the run, comes *)
(* from the same verdict.                                                  *)
Begun == {"publish", "announce", "prepare", "run"}
Over == {"flush", "close", "clear", "reply"}

Accounts ==
    /\ DOMAIN csv = {"on", "failed", "finished", "succeeded"}
    /\ csv.on \in BOOLEAN /\ csv.failed \in BOOLEAN
    /\ command.pc \in {"register", "parse", "begin", "publish", "announce", "prepare"} =>
           command.verdict = None
    /\ command.pc = "run" => command.verdict \in {None, "failed", "stopped"}
    /\ command.pc \in Begun /\ command.verdict = None => Stored.ok
    /\ command.pc \in {"finish", "status"} /\ command.verdict = "succeeded" =>
           Stored.ok /\ Stored.root
    /\ command.pc = "status" /\ csv.finished =>
           (csv.succeeded <=> command.verdict = "succeeded")
    /\ command.pc \in Over /\ command.run # 0 =>
        /\ Stored.status \in {"succeeded", "stopped", "failed"}
        /\ Stored.status = "succeeded" => Stored.ok /\ Stored.root
        /\ csv.finished => (csv.succeeded <=> Stored.status = "succeeded")

(* The front end is idle when there is no run command, and then, or until  *)
(* a Live run is accepted, it shows the last run as it ended.              *)
Settled ==
    /\ ui.status \in {"idle", "starting", "running"}
    /\ ui.status = "idle" <=> command.pc = "idle"
    /\ ui.status # "running" /\ command.run = 0 /\ ui.run # 0 =>
           ui.view = metadata(ui.run) /\ runs[ui.run].status # "running"

(* Before a run executes its first step there is no loop to stop.          *)
Unstarted == {"register", "refused", "parse", "begin", "publish", "announce", "prepare"}

Quiet ==
    /\ ui.status # "running" => ui.loop_stop = None
    /\ command.pc \in Unstarted =>
        /\ ui.loop_stop = None
        /\ ui.status = "running" => ui.view.active = {}
        /\ \A m \in ToSet(channel) : m.metadata.active = {}
        /\ command.run # 0 => Stored.active = {}

(* The last request for a loop under way is the one the front end shows.   *)
Asked ==
    /\ \A i \in DOMAIN ipc : ipc[i].kind = "workflow" => ipc[i].loop = None
    /\ ui.loop_stop # None =>
        \A i \in DOMAIN ipc : ipc[i].kind = "loop" =>
            \E j \in DOMAIN ipc : i <= j /\ ipc[j].loop = ui.loop_stop

(* What is stored under a run's id is what is read there.                  *)
LEMMA StoredAgain ==
    ASSUME Queues, Latest, command.run # 0, NEW run,
           runs' = [runs EXCEPT ![command.run] = run]
    PROVE  runs'[command.run] = run
<1>. PICK S : runs \in Seq(S)
    BY DEF Queues
<1>. command.run \in DOMAIN runs
    BY DEF Latest
<1>. QED
    OBVIOUS

(* What an event makes of a run's success.                                 *)
LEMMA EventsAccount ==
    ASSUME NEW run, Shape(run), NEW path, NEW succeeded \in BOOLEAN
    PROVE  /\ append_execution(run, path, succeeded).ok <=> (run.ok /\ succeeded)
           /\ append_execution(run, path, succeeded).active = ToSet(path)
           /\ append_row(run).ok = run.ok /\ append_row(run).root = run.root
           /\ append_row(run).active = run.active
BY DEF Shape, append_execution, append_row

(* An executor that goes on without a verdict has had no failure.          *)
LEMMA EventsAgree ==
    ASSUME Records, Queues, Latest, Accounts,
           Leaf \/ Exhausted \/ Commit \/ Unwind \/ StopHere
    PROVE  /\ command.pc = "run" /\ command'.pc = "run" /\ command'.run = command.run
           /\ command'.verdict \in {None, "failed", "stopped"}
           /\ command'.verdict = None => runs'[command.run].ok
           /\ DOMAIN csv' = {"on", "failed", "finished", "succeeded"}
           /\ csv'.on \in BOOLEAN /\ csv'.failed \in BOOLEAN
<1>1. command.pc = "run" /\ command.run # 0 /\ Shape(Stored)
    BY PushesRunning DEF Latest, Busy, Stored
<1>2. command'.pc = "run" /\ command'.run = command.run
    BY PushesRunning
<1>3. /\ DOMAIN csv' = {"on", "failed", "finished", "succeeded"}
      /\ csv'.on \in BOOLEAN /\ csv'.failed \in BOOLEAN
    BY DEF Accounts, Leaf, Exhausted, Commit, Unwind, StopHere
<1>4. command.verdict \in {None, "failed", "stopped"} /\ (command.verdict = None => Stored.ok)
    BY <1>1 DEF Accounts, Begun
<1>5. ASSUME NEW run, Push(run, ToSet(command.path)) \/ \E done : Push(run, done)
      PROVE  runs'[command.run] = run
    BY <1>1, <1>5, StoredAgain DEF Push
<1>6. CASE Leaf
    <2>1. CASE /\ Push(append_execution(Stored, command.path, TRUE), {})
               /\ command' = [command EXCEPT !.at = "commit"]
        <3>1. append_execution(Stored, command.path, TRUE).ok <=> Stored.ok
            BY <1>1, EventsAccount
        <3>2. runs'[command.run] = append_execution(Stored, command.path, TRUE)
            BY <1>5, <2>1
        <3>3. command'.verdict = command.verdict
            BY <2>1 DEF Records
        <3>. QED
            BY <1>1, <1>2, <1>3, <1>4, <3>1, <3>2, <3>3
    <2>2. CASE command' = [command EXCEPT !.path = <<>>, !.verdict = "failed"]
        BY <1>1, <1>2, <1>3, <2>2, DesktopAssumption DEF Records
    <2>. QED
        BY <1>6, <2>1, <2>2 DEF Leaf
<1>7. CASE Exhausted \/ Unwind
    <2>1. \E unwind : LeaveLoop(unwind)
        BY <1>7 DEF Exhausted, Unwind
    <2>2. PICK done : Push(append_execution(Stored, Front(command.path), TRUE), done)
        BY <2>1 DEF LeaveLoop
    <2>3. command'.verdict = command.verdict
        BY <2>1 DEF LeaveLoop, Records
    <2>4. append_execution(Stored, Front(command.path), TRUE).ok <=> Stored.ok
        BY <1>1, EventsAccount
    <2>5. runs'[command.run] = append_execution(Stored, Front(command.path), TRUE)
        BY <1>5, <2>2
    <2>. QED
        BY <1>1, <1>2, <1>3, <1>4, <2>3, <2>4, <2>5
<1>8. CASE Commit
    <2>1. CASE Push(append_row(Stored), {}) /\ command'.verdict = command.verdict
        BY <1>1, <1>2, <1>3, <1>4, <1>5, <2>1, EventsAccount
    <2>2. CASE command' = [command EXCEPT !.path = <<>>, !.at = "step", !.verdict = "failed"]
        BY <1>1, <1>2, <1>3, <2>2, DesktopAssumption DEF Records
    <2>. QED
        BY <1>8, <2>1, <2>2 DEF Commit, Records
<1>9. CASE StopHere
    <2>1. command' = [command EXCEPT !.path = <<>>, !.verdict = "stopped"]
        BY <1>9 DEF StopHere
    <2>. QED
        BY <1>1, <1>2, <1>3, <2>1, DesktopAssumption DEF Records
<1>. QED
    BY <1>6, <1>7, <1>8, <1>9

(* The verdict on a run and what the run did agree at every step.          *)
LEMMA AccountsStep ==
    ASSUME Records, Owner, Queues, Latest, Accounts, [Next]_vars
    PROVE  Accounts'
<1> USE DEF Begun, Over, Stored
<1>1. CASE Leaf \/ Exhausted \/ Commit \/ Unwind \/ StopHere
    BY <1>1, EventsAgree DEF Accounts
<1>2. CASE Register \/ Parse
    BY <1>2 DEF Records, Owner, Accounts, Register, Parse, Goto, At
<1>3. CASE begin
    <2>1. command'.pc = "publish" /\ command'.verdict = command.verdict /\ command.pc = "begin"
          /\ command'.run = Len(runs) + 1 /\ UNCHANGED csv
        BY <1>3 DEF begin, Records, At
    <2>2. runs'[Len(runs) + 1] = NewRun
        <3>. PICK S : runs \in Seq(S)
            BY DEF Queues
        <3>1. [id \in DOMAIN runs |-> Dropped] \in Seq({Dropped})
              /\ Len([id \in DOMAIN runs |-> Dropped]) = Len(runs)
            BY Forgotten
        <3>. QED
            BY <1>3, <3>1 DEF begin
    <2>3. NewRun.ok
        BY DEF NewRun
    <2>. QED
        BY <2>1, <2>2, <2>3 DEF Accounts
<1>4. CASE Publish \/ Announce
    BY <1>4 DEF Records, Accounts, Publish, Announce, Goto, At
<1>5. CASE Prepare
    <2>1. DOMAIN csv' = {"on", "failed", "finished", "succeeded"} /\ csv'.on \in BOOLEAN
          /\ csv'.failed = FALSE /\ csv'.finished = FALSE
        <3>1. ASSUME NEW on \in BOOLEAN
              PROVE  LET c == [NoCsv EXCEPT !.on = on]
                     IN /\ DOMAIN c = {"on", "failed", "finished", "succeeded"}
                        /\ c.on = on /\ c.failed = FALSE /\ c.finished = FALSE
            BY DEF NoCsv
        <3>2. /\ DOMAIN NoCsv = {"on", "failed", "finished", "succeeded"} /\ NoCsv.on = FALSE
              /\ NoCsv.failed = FALSE /\ NoCsv.finished = FALSE
            BY DEF NoCsv
        <3>3. csv' = NoCsv \/ \E on \in BOOLEAN : csv' = [NoCsv EXCEPT !.on = on]
            BY <1>5 DEF Prepare
        <3>. QED
            BY <3>1, <3>2, <3>3
    <2>2. UNCHANGED runs /\ command'.run = command.run
          /\ \/ command'.pc = "run" /\ command'.verdict = command.verdict
             \/ command'.pc = "status" /\ command'.verdict = "error"
        BY <1>5 DEF Prepare, Records, Goto
    <2>. QED
        BY <1>5, <2>1, <2>2 DEF Accounts, Prepare, At
<1>6. CASE Enter
    <2>1. UNCHANGED <<runs, csv>> /\ command'.run = command.run /\ command'.pc = command.pc
          /\ command'.verdict = command.verdict
        BY <1>6 DEF Enter, Records
    <2>. QED
        BY <2>1 DEF Accounts
<1>7. CASE RunReturns
    <2>1. UNCHANGED <<runs, csv>> /\ command'.run = command.run /\ command'.pc = "finish"
          /\ command.pc = "run"
        BY <1>7 DEF RunReturns, Records, At
    <2>2. command'.verdict = "succeeded" => command.verdict = None /\ Stored.root
        BY <1>7, <2>1, DesktopAssumption DEF RunReturns, Records, Accounts
    <2>. QED
        BY <2>1, <2>2 DEF Accounts
<1>8. CASE Finish
    <2>1. PICK flush_error \in {FALSE, csv.on} :
              /\ csv' = [csv EXCEPT !.failed = csv.failed \/ flush_error, !.finished = csv.on,
                            !.succeeded = csv.on /\ ~(csv.failed \/ flush_error)
                                          /\ command.verdict = "succeeded"
                                          /\ completed_successfully(Stored)]
              /\ command' = [command EXCEPT !.pc = "status",
                                !.verdict = IF csv.failed \/ flush_error THEN "error" ELSE @]
        BY <1>8 DEF Finish
    <2>2. /\ UNCHANGED runs /\ command.pc = "finish" /\ Stored.status = "running"
        BY <1>8 DEF Finish, At, Latest, Busy
    <2>3. /\ command'.pc = "status" /\ command'.run = command.run
          /\ command'.verdict = IF csv.failed \/ flush_error THEN "error" ELSE command.verdict
        BY <2>1 DEF Records
    <2>4. /\ DOMAIN csv' = {"on", "failed", "finished", "succeeded"}
          /\ csv'.on = csv.on /\ csv'.failed = (csv.failed \/ flush_error)
          /\ csv'.finished = csv.on
          /\ csv'.succeeded = (csv.on /\ ~(csv.failed \/ flush_error)
                               /\ command.verdict = "succeeded" /\ completed_successfully(Stored))
        BY <2>1 DEF Accounts
    <2>5. command.verdict = "succeeded" => completed_successfully(Stored)
        BY <2>2 DEF Accounts, completed_successfully
    <2>6. csv'.on \in BOOLEAN /\ csv'.failed \in BOOLEAN
        BY <2>4 DEF Accounts
    <2>7. command'.verdict = "succeeded" => Stored.ok /\ Stored.root
        BY <2>2, <2>3 DEF Accounts
    <2>8. csv'.finished => (csv'.succeeded <=> command'.verdict = "succeeded")
        BY <2>3, <2>4, <2>5
    <2>. QED
        BY <2>2, <2>3, <2>4, <2>6, <2>7, <2>8 DEF Accounts
<1>9. CASE SetStatus
    <2> DEFINE status == IF command.verdict \in {"succeeded", "stopped"} THEN command.verdict
                         ELSE "failed"
               run == [Stored EXCEPT !.status = status]
    <2>1. /\ runs' = [runs EXCEPT ![command.run] = run] /\ UNCHANGED csv
          /\ command.pc = "status" /\ command'.pc = "flush" /\ command'.run = command.run
        BY <1>9 DEF SetStatus, Goto, At, Records
    <2>2. command.run # 0 /\ Shape(Stored)
        BY <2>1 DEF Latest, Busy
    <2>3. runs'[command.run] = run
        BY <2>1, <2>2, StoredAgain
    <2>4. run.status = status /\ run.ok = Stored.ok /\ run.root = Stored.root
        BY <2>2 DEF Shape
    <2>5. /\ status \in {"succeeded", "stopped", "failed"}
          /\ status = "succeeded" <=> command.verdict = "succeeded"
        OBVIOUS
    <2> HIDE DEF status, run
    <2>6. command.verdict = "succeeded" => Stored.ok /\ Stored.root
        BY <2>1 DEF Accounts
    <2>7. csv.finished => (csv.succeeded <=> command.verdict = "succeeded")
        BY <2>1 DEF Accounts
    <2>8. /\ Stored'.status \in {"succeeded", "stopped", "failed"}
          /\ Stored'.status = "succeeded" => Stored'.ok /\ Stored'.root
          /\ csv'.finished => (csv'.succeeded <=> Stored'.status = "succeeded")
        BY <2>1, <2>3, <2>4, <2>5, <2>6, <2>7
    <2>. QED
        BY <2>1, <2>8 DEF Accounts
<1>10. CASE FinalFlush \/ Close \/ Clear
    BY <1>10 DEF Records, Accounts, FinalFlush, Close, Clear, Goto, At
<1>11. CASE Reply \/ StartRun
    <2>1. \A mode : /\ [NoCommand EXCEPT !.pc = "register", !.mode = mode].pc = "register"
                    /\ [NoCommand EXCEPT !.pc = "register", !.mode = mode].run = 0
                    /\ [NoCommand EXCEPT !.pc = "register", !.mode = mode].verdict = None
        BY DEF NoCommand
    <2>2. /\ NoCommand.pc = "idle" /\ NoCommand.run = 0 /\ NoCommand.verdict = None
          /\ DOMAIN NoCsv = {"on", "failed", "finished", "succeeded"}
          /\ NoCsv.on = FALSE /\ NoCsv.failed = FALSE
        BY DEF NoCommand, NoCsv
    <2>3. command'.pc \in {"idle", "register"} /\ command'.verdict = None
        <3>1. CASE Reply
            BY <2>2, <3>1 DEF Reply
        <3>2. CASE StartRun
            <4>. PICK mode : command' = [NoCommand EXCEPT !.pc = "register", !.mode = mode]
                BY <3>2 DEF StartRun
            <4>. QED
                BY <2>1
        <3>. QED
            BY <1>11, <3>1, <3>2
    <2>4. csv' = csv \/ csv' = NoCsv
        BY <1>11 DEF Reply, StartRun
    <2>. QED
        BY <2>2, <2>3, <2>4 DEF Accounts
<1>12. CASE UNCHANGED <<command, runs, csv>>
    BY <1>12 DEF Accounts
<1>. QED
    BY <1>1, <1>2, <1>3, <1>4, <1>5, <1>6, <1>7, <1>8, <1>9, <1>10, <1>11, <1>12
    DEF Next, RunCommand, FrontEnd, User, vars, ReceiveBatch, DeliverStop, DeliverLoopStop,
        TimerFlush, requestWorkflowStop, requestStop, ClearLastRun, StartManual, EndManual,
        BeginExport, WriteExport

(* The steps of a run before and after its executor.                       *)
LEMMA SettledStep ==
    ASSUME Records, Owner, Queues, Latest, Batches, Accounts, Talk, Settled, [Next]_vars
    PROVE  Settled'
<1>1. CASE RunCommand
    <2>1. /\ UNCHANGED ui
          /\ command.pc # "idle"
        BY <1>1 DEF RunCommand, Register, Parse, begin, Publish, Announce, Prepare, Enter, Leaf,
                Exhausted, Commit, Unwind, StopHere, RunReturns, Finish, SetStatus, FinalFlush,
                Close, Clear, At, Executing
    <2>2. command'.pc # "idle" /\ (command'.run = 0 => command.run = 0 /\ ~begin)
        <3>1. CASE Leaf \/ Exhausted \/ Commit \/ Unwind \/ StopHere
            BY <3>1, PushesRunning DEF begin, At
        <3>2. CASE Register \/ Parse \/ Publish \/ Announce \/ Prepare
            BY <3>2 DEF Records, Register, Parse, Publish, Announce, Prepare, Goto, At, begin
        <3>3. CASE Enter \/ RunReturns
            BY <3>3 DEF Records, Enter, Executing, RunReturns, At, begin
        <3>4. CASE Finish \/ SetStatus \/ FinalFlush \/ Close \/ Clear
            BY <3>4 DEF Records, Finish, SetStatus, FinalFlush, Close, Clear, Goto, At, begin
        <3>5. CASE begin
            <4>. PICK S : runs \in Seq(S)
                BY DEF Queues
            <4>. QED
                BY <3>5 DEF Records, begin
        <3>. QED
            BY <1>1, <3>1, <3>2, <3>3, <3>4, <3>5 DEF RunCommand
    <2>3. command'.run = 0 => UNCHANGED runs
        BY <2>2, RunsMove DEF Latest, Busy
    <2>. QED
        BY <2>1, <2>2, <2>3 DEF Settled, metadata
<1>2. CASE Reply
    <2>1. /\ UNCHANGED runs /\ command' = NoCommand /\ NoCommand.pc = "idle" /\ NoCommand.run = 0
          /\ ui'.status = "idle"
          /\ ui'.run = IF command.run # 0 THEN command.run ELSE ui.run
          /\ ui'.view = IF command.run # 0 THEN metadata(command.run) ELSE ui.view
        BY <1>2 DEF Reply, Records, NoCommand
    <2>2. CASE command.run # 0
        <3>1. command.pc = "reply"
            BY <1>2, <2>2 DEF Reply, Owner
        <3>2. runs[command.run].status # "running"
            BY <2>2, <3>1 DEF Accounts, Over, Stored
        <3>. QED
            BY <2>1, <2>2, <3>2 DEF Settled, metadata
    <2>3. CASE command.run = 0
        <3>1. ui.run = 0 \/ ui.status # "running"
            BY <2>3, <1>2 DEF Talk, Settled, Reply
        <3>. QED
            BY <2>1, <2>3, <3>1 DEF Settled, metadata
    <2>. QED
        BY <2>2, <2>3
<1>3. CASE StartRun
    <2>1. /\ UNCHANGED runs /\ ui.status = "idle" /\ command.pc = "idle"
        BY <1>3 DEF StartRun, At
    <2>2. PICK mode \in {"simulate", "live"} :
              /\ command' = [NoCommand EXCEPT !.pc = "register", !.mode = mode]
              /\ ui' = IF mode = "simulate" THEN Shown(ui) ELSE [ui EXCEPT !.status = "starting"]
        BY <1>3 DEF StartRun
    <2>3. command'.pc = "register" /\ command'.run = 0
        BY <2>2 DEF NoCommand
    <2>4. \/ ui'.status = "running"
          \/ ui'.status = "starting" /\ ui'.run = ui.run /\ ui'.view = ui.view
        BY <2>2 DEF Records, Shown
    <2>5. command.run = 0
        BY <2>1 DEF Owner
    <2>. QED
        BY <2>1, <2>3, <2>4, <2>5 DEF Settled, metadata
<1>4. CASE ReceiveBatch
    <2>1. ui.status # "idle"
        BY <1>4 DEF ReceiveBatch
    <2>2. ui'.status = "running" /\ UNCHANGED command
        BY <1>4, <2>1, Receives DEF Settled
    <2>. QED
        BY <2>1, <2>2 DEF Settled
<1>5. CASE requestWorkflowStop \/ requestStop
    <2>1. UNCHANGED <<command, runs>> /\ ui.status = "running" /\ ui'.status = "running"
        BY <1>5 DEF requestWorkflowStop, requestStop, sendWorkflowStop, Records
    <2>. QED
        BY <2>1 DEF Settled
<1>6. CASE DeliverStop \/ DeliverLoopStop
    <2>1. UNCHANGED <<command, runs>> /\ ui'.status = ui.status /\ ui'.run = ui.run
          /\ ui'.view = ui.view
        BY <1>6 DEF DeliverStop, DeliverLoopStop, Records
    <2>. QED
        BY <2>1 DEF Settled, metadata
<1>7. CASE ClearLastRun
    <2>1. UNCHANGED <<command, runs>> /\ ui'.status = ui.status /\ ui'.run = 0
        BY <1>7 DEF ClearLastRun, Records
    <2>. QED
        BY <2>1 DEF Settled
<1>8. CASE UNCHANGED <<ui, command, runs>>
    BY <1>8 DEF Settled, metadata
<1>. QED
    BY <1>1, <1>2, <1>3, <1>4, <1>5, <1>6, <1>7, <1>8
    DEF Next, FrontEnd, User, vars, TimerFlush, StartManual, EndManual, BeginExport, WriteExport

(* What a batch makes of the loop that the front end shows as stopping.    *)
LEMMA ReceivesLoops ==
    ASSUME Records, Queues, Quiet, ReceiveBatch
    PROVE  /\ Head(channel) \in ToSet(channel)
           /\ ui'.view = Head(channel).metadata
           /\ ui'.loop_stop = IF ui.loop_stop \in Head(channel).completed THEN None
                              ELSE ui.loop_stop
<1> DEFINE batch == Head(channel)
           seen == [acceptRun(ui) EXCEPT
                      !.run = batch.metadata.run,
                      !.view = batch.metadata,
                      !.loop_stop = IF @ \in batch.completed THEN None ELSE @]
<1>1. batch \in ToSet(channel)
    <2>. PICK S : channel \in Seq(S)
        BY DEF Queues
    <2>. QED
        BY QueueShrinks DEF ReceiveBatch
<1>2. acceptRun(ui).loop_stop = ui.loop_stop
    BY DEF Records, acceptRun, Shown, Quiet
<1>3. /\ seen.view = batch.metadata
      /\ seen.loop_stop = IF ui.loop_stop \in batch.completed THEN None ELSE ui.loop_stop
      /\ [seen EXCEPT !.stop = "sent"].view = seen.view
      /\ [seen EXCEPT !.stop = "sent"].loop_stop = seen.loop_stop
    BY <1>2 DEF Records, acceptRun, Shown
<1>4. ui' = seen \/ ui' = [seen EXCEPT !.stop = "sent"]
    BY DEF ReceiveBatch, sendWorkflowStop
<1> HIDE DEF seen
<1>. QED
    BY <1>1, <1>3, <1>4

(* Before its executor a command stores no event of its run.               *)
LEMMA Unheard ==
    ASSUME Records, Queues, Latest, [Next]_vars, command'.pc \in Unstarted
    PROVE  \/ command.pc = "idle" /\ StartRun
           \/ begin
           \/ UNCHANGED runs /\ command.pc \in Unstarted /\ command'.run = command.run
<1>1. ~Leaf /\ ~Exhausted /\ ~Commit /\ ~Unwind /\ ~StopHere
    BY PushesRunning DEF Unstarted
<1>2. ~Enter /\ ~RunReturns /\ ~Finish
    BY DEF Enter, Executing, At, RunReturns, Finish, Records, Unstarted
<1>3. ~SetStatus /\ ~FinalFlush /\ ~Close /\ ~Clear
    BY DEF SetStatus, FinalFlush, Close, Clear, At, Goto, Records, Unstarted
<1>4. ~Reply
    BY DEF Reply, NoCommand, Unstarted
<1>5. CASE StartRun
    BY <1>5 DEF StartRun, At
<1>6. CASE Register \/ Parse \/ Publish \/ Announce \/ Prepare
    <2>1. command.pc \in Unstarted /\ command'.run = command.run
        BY <1>6 DEF Register, Parse, Publish, Announce, Prepare, At, Goto, Records, Unstarted
    <2>2. UNCHANGED runs
        BY <1>6 DEF Register, Parse, Publish, Announce, Prepare
    <2>. QED
        BY <2>1, <2>2
<1>7. CASE UNCHANGED <<command, runs>>
    BY <1>7
<1>. QED
    BY <1>1, <1>2, <1>3, <1>4, <1>5, <1>6, <1>7 DEF Next, RunCommand, FrontEnd, User, vars,
        ReceiveBatch, DeliverStop, DeliverLoopStop, TimerFlush, requestWorkflowStop, requestStop,
        ClearLastRun, StartManual, EndManual, BeginExport, WriteExport

(* Before a run executes its first step there is no loop to stop.          *)
LEMMA QuietStep ==
    ASSUME Records, Owner, Queues, Latest, Batches, Batcher, Settled, Quiet, [Next]_vars
    PROVE  Quiet'
<1> USE DEF Unstarted
<1>. PICK S : channel \in Seq(S)
    BY DEF Queues
<1>1. ui'.status # "running" => ui'.loop_stop = None
    <2>1. CASE ReceiveBatch
        BY <2>1, Receives DEF Settled, ReceiveBatch
    <2>2. CASE Reply \/ StartRun
        <3>1. ui'.loop_stop = None \/ (ui'.status = "starting" /\ ui'.loop_stop = ui.loop_stop)
            BY <2>2 DEF Reply, StartRun, Shown, Records
        <3>2. CASE StartRun
            BY <3>1, <3>2 DEF StartRun, Quiet
        <3>. QED
            BY <2>2, <3>1, <3>2 DEF Reply, Records
    <2>3. CASE requestWorkflowStop \/ requestStop
        BY <2>3 DEF requestWorkflowStop, requestStop, sendWorkflowStop, Records
    <2>4. CASE DeliverStop \/ DeliverLoopStop
        <3>1. ui'.status = ui.status /\ ui'.loop_stop \in {None, ui.loop_stop}
            BY <2>4 DEF DeliverStop, DeliverLoopStop, Records
        <3>. QED
            BY <3>1 DEF Quiet
    <2>5. CASE ClearLastRun
        BY <2>5 DEF ClearLastRun, Records, Quiet
    <2>6. CASE UNCHANGED ui
        BY <2>6 DEF Quiet
    <2>. QED
        BY <2>1, <2>2, <2>3, <2>4, <2>5, <2>6 DEF Next, RunCommand, FrontEnd, User, vars,
            Register, Parse, begin, Publish, Announce, Prepare, Enter, Leaf, Exhausted, Commit,
            Unwind, StopHere, RunReturns, Finish, SetStatus, FinalFlush, Close, Clear,
            TimerFlush, StartManual, EndManual, BeginExport, WriteExport
<1>2. ASSUME command'.pc \in Unstarted
      PROVE  /\ ui'.loop_stop = None
             /\ ui'.status = "running" => ui'.view.active = {}
             /\ \A m \in ToSet(channel') : m.metadata.active = {}
             /\ command'.run # 0 => Stored'.active = {}
    <2>1. CASE StartRun
        <3>1. UNCHANGED channel /\ ui.status = "idle"
            BY <2>1 DEF StartRun
        <3>2. command.pc = "idle"
            BY <3>1 DEF Settled
        <3>3. PICK mode \in {"simulate", "live"} :
                  /\ command' = [NoCommand EXCEPT !.pc = "register", !.mode = mode]
                  /\ ui' = IF mode = "simulate" THEN Shown(ui)
                           ELSE [ui EXCEPT !.status = "starting"]
            BY <2>1 DEF StartRun
        <3>4. command'.run = 0
            BY <3>3 DEF NoCommand
        <3>5. ui'.loop_stop = None /\ (ui'.status = "running" => ui'.view.active = {})
            BY <3>1, <3>3 DEF Records, Shown, NoView, Quiet
        <3>6. ToSet(channel) = {}
            BY <3>2 DEF Batches, Told, Working
        <3>. QED
            BY <3>1, <3>4, <3>5, <3>6
    <2>2. CASE begin
        <3>1. command.pc = "begin" /\ UNCHANGED <<ui, channel>> /\ command'.run = Len(runs) + 1
            BY <2>2 DEF begin, At, Records
        <3>2. runs'[Len(runs) + 1] = NewRun
            <4>. PICK R : runs \in Seq(R)
                BY DEF Queues
            <4>1. [id \in DOMAIN runs |-> Dropped] \in Seq({Dropped})
                  /\ Len([id \in DOMAIN runs |-> Dropped]) = Len(runs)
                BY Forgotten
            <4>. QED
                BY <2>2, <4>1 DEF begin
        <3>3. NewRun.active = {}
            BY DEF NewRun
        <3>. QED
            BY <3>1, <3>2, <3>3 DEF Quiet, Stored
    <2>3. CASE UNCHANGED runs /\ command.pc \in Unstarted /\ command'.run = command.run
        <3>1. command.run # 0 => Stored.active = {} /\ Stored'.active = {}
            BY <2>3 DEF Quiet, Stored
        <3>2. \A m \in ToSet(channel') : m.metadata.active = {}
            <4>1. CASE channel # <<>> /\ channel' = Tail(channel)
                BY <2>3, <4>1, QueueShrinks DEF Quiet
            <4>2. CASE channel' = <<>>
                BY <4>2 DEF ToSet
            <4>3. CASE UNCHANGED channel
                BY <2>3, <4>3 DEF Quiet
            <4>4. CASE \E m : channel' = Append(channel, m) /\ command.run # 0
                              /\ m.metadata = metadata(command.run)
                <5>. PICK m : /\ channel' = Append(channel, m) /\ command.run # 0
                              /\ m.metadata = metadata(command.run)
                    BY <4>4
                <5>1. ToSet(channel') = ToSet(channel) \cup {m}
                    BY QueueGrows
                <5>2. m.metadata.active = {}
                    BY <3>1 DEF metadata, Stored
                <5>. QED
                    BY <2>3, <5>1, <5>2 DEF Quiet
            <4>5. CASE FinalFlush \/ TimerFlush \/ Announce
                <5>1. \/ UNCHANGED channel
                      \/ \E m : channel' = Append(channel, m)
                                /\ m.metadata = metadata(command.run)
                    BY <4>5 DEF FinalFlush, TimerFlush, Announce, flush, Batch
                <5>2. UNCHANGED channel \/ command.run # 0
                    <6>1. CASE Announce
                        BY <6>1 DEF Announce, At, Latest, Busy
                    <6>2. CASE FinalFlush
                        BY <2>3, <6>2 DEF FinalFlush, At
                    <6>3. CASE TimerFlush
                        BY <6>3 DEF TimerFlush, Batcher
                    <6>. QED
                        BY <4>5, <6>1, <6>2, <6>3
                <5>. QED
                    BY <4>3, <4>4, <5>1, <5>2
            <4>. QED
                BY <4>1, <4>2, <4>3, <4>5 DEF Next, RunCommand, FrontEnd, User, vars, Register,
                    Parse, begin, Publish, Prepare, Enter, Leaf, Exhausted, Commit, Unwind,
                    StopHere, RunReturns, Finish, SetStatus, Close, Clear, ReceiveBatch, Reply,
                    DeliverStop, DeliverLoopStop, StartRun, requestWorkflowStop, requestStop,
                    ClearLastRun, StartManual, EndManual, BeginExport, WriteExport
        <3>3. ui'.loop_stop = None /\ (ui'.status = "running" => ui'.view.active = {})
            <4>1. CASE ReceiveBatch
                BY <2>3, <4>1, ReceivesLoops DEF Quiet
            <4>2. CASE Reply
                BY <1>2, <4>2 DEF Reply, NoCommand
            <4>3. CASE StartRun
                BY <2>3, <4>3 DEF StartRun, At
            <4>4. CASE requestStop
                <5>1. ui.view.active = {}
                    BY <2>3, <4>4 DEF requestStop, Quiet
                <5>. QED
                    BY <4>4, <5>1 DEF requestStop
            <4>5. CASE requestWorkflowStop \/ DeliverStop \/ DeliverLoopStop
                <5>1. ui'.loop_stop \in {None, ui.loop_stop} /\ ui'.status = ui.status
                      /\ ui'.view = ui.view
                    BY <4>5 DEF requestWorkflowStop, sendWorkflowStop, DeliverStop,
                                DeliverLoopStop, Records
                <5>. QED
                    BY <2>3, <5>1 DEF Quiet
            <4>6. CASE ClearLastRun
                BY <2>3, <4>6 DEF ClearLastRun, Settled
            <4>7. CASE UNCHANGED ui
                BY <2>3, <4>7 DEF Quiet
            <4>. QED
                BY <4>1, <4>2, <4>3, <4>4, <4>5, <4>6, <4>7 DEF Next, RunCommand, FrontEnd,
                    User, vars, Register, Parse, begin, Publish, Announce, Prepare, Enter, Leaf,
                    Exhausted, Commit, Unwind, StopHere, RunReturns, Finish, SetStatus,
                    FinalFlush, Close, Clear, TimerFlush, StartManual, EndManual, BeginExport,
                    WriteExport
        <3>. QED
            BY <2>3, <3>1, <3>2, <3>3
    <2>. QED
        BY <1>2, <2>1, <2>2, <2>3, Unheard
<1>. QED
    BY <1>1, <1>2 DEF Quiet

(* A message at some place of a queue is still at some place, when another *)
(* one is sent or the first one is received.                               *)
LEMMA PlacesGrow ==
    ASSUME NEW S, NEW q \in Seq(S), NEW m
    PROVE  /\ DOMAIN Append(q, m) = DOMAIN q \cup {Len(q) + 1} /\ Len(q) \in Nat
           /\ \A i \in DOMAIN q : i <= Len(q) /\ Append(q, m)[i] = q[i]
           /\ Append(q, m)[Len(q) + 1] = m
OBVIOUS

(* Receiving moves each message but the first one place to the front.      *)
LEMMA PlacesShrink ==
    ASSUME NEW S, NEW q \in Seq(S), q # <<>>
    PROVE  /\ \A i \in DOMAIN q : i \in Nat \ {0}
           /\ \A i \in DOMAIN Tail(q) : i \in Nat /\ i + 1 \in DOMAIN q /\ Tail(q)[i] = q[i + 1]
           /\ \A i \in DOMAIN q : i = 1 \/ (i - 1 \in DOMAIN Tail(q) /\ Tail(q)[i - 1] = q[i])
           /\ Head(q) = q[1] /\ 1 \in DOMAIN q
OBVIOUS

(* How the front end's loop request changes.                               *)
LEMMA LoopRequest ==
    ASSUME Records, Queues, Quiet, [Next]_vars
    PROVE  \/ ui'.loop_stop = None
           \/ requestStop
           \/ ui'.loop_stop = ui.loop_stop
<1>1. CASE ReceiveBatch
    BY <1>1, ReceivesLoops
<1>2. CASE Reply \/ StartRun \/ requestWorkflowStop \/ DeliverStop \/ DeliverLoopStop \/ ClearLastRun
    BY <1>2 DEF Reply, StartRun, Shown, requestWorkflowStop, sendWorkflowStop, DeliverStop,
                DeliverLoopStop, ClearLastRun, Records
<1>3. CASE UNCHANGED ui
    BY <1>3
<1>. QED
    BY <1>1, <1>2, <1>3 DEF Next, RunCommand, FrontEnd, User, vars, Register, Parse, begin,
        Publish, Announce, Prepare, Enter, Leaf, Exhausted, Commit, Unwind, StopHere,
        RunReturns, Finish, SetStatus, FinalFlush, Close, Clear, TimerFlush, StartManual,
        EndManual, BeginExport, WriteExport

(* What is sent and received of requests for loops.                        *)
LEMMA LoopCalls ==
    ASSUME [Next]_vars
    PROVE  \/ UNCHANGED ipc
           \/ requestStop
           \/ \E run : ipc' = Append(ipc, [kind |-> "workflow", run |-> run, loop |-> None])
           \/ /\ ipc # <<>> /\ ipc' = Tail(ipc)
              /\ Head(ipc).kind = "workflow" \/ DeliverLoopStop
<1>1. CASE ReceiveBatch \/ requestWorkflowStop
    BY <1>1 DEF ReceiveBatch, requestWorkflowStop, sendWorkflowStop
<1>2. CASE DeliverStop \/ DeliverLoopStop
    BY <1>2 DEF DeliverStop, DeliverLoopStop
<1>3. CASE UNCHANGED ipc
    BY <1>3
<1>. QED
    BY <1>1, <1>2, <1>3 DEF Next, RunCommand, FrontEnd, User, vars, Register, Parse, begin,
        Publish, Announce, Prepare, Enter, Leaf, Exhausted, Commit, Unwind, StopHere,
        RunReturns, Finish, SetStatus, FinalFlush, Close, Clear, Reply, TimerFlush, StartRun,
        ClearLastRun, StartManual, EndManual, BeginExport, WriteExport

(* The request under way that was made last is the one that is shown.      *)
LEMMA AskedStep ==
    ASSUME Records, Queues, Quiet, Asked, [Next]_vars
    PROVE  Asked'
<1>. PICK S : ipc \in Seq(S)
    BY DEF Queues
<1>4. \A i \in DOMAIN ipc' : ipc'[i].kind = "workflow" => ipc'[i].loop = None
    <2>1. CASE UNCHANGED ipc
        BY <2>1 DEF Asked
    <2>2. CASE \E m : ipc' = Append(ipc, m) /\ (m.kind = "workflow" => m.loop = None)
        <3>1. PICK m : ipc' = Append(ipc, m) /\ (m.kind = "workflow" => m.loop = None)
            BY <2>2
        <3>. QED
            BY <3>1, PlacesGrow DEF Asked
    <2>3. CASE ipc # <<>> /\ ipc' = Tail(ipc)
        BY <2>3, PlacesShrink DEF Asked
    <2>4. CASE requestStop
        BY <2>2, <2>4 DEF requestStop
    <2>5. CASE \E run : ipc' = Append(ipc, [kind |-> "workflow", run |-> run, loop |-> None])
        BY <2>2, <2>5
    <2>. QED
        BY <2>1, <2>3, <2>4, <2>5, LoopCalls
<1>1. CASE ui'.loop_stop = None
    BY <1>1, <1>4 DEF Asked
<1>2. CASE requestStop
    <2>1. PICK loop : /\ ui' = [ui EXCEPT !.loop_stop = loop]
                      /\ ipc' = Append(ipc, [kind |-> "loop", run |-> 0, loop |-> loop])
        BY <1>2 DEF requestStop
    <2>2. ui'.loop_stop = loop
        BY <2>1 DEF Records
    <2>3. /\ DOMAIN ipc' = DOMAIN ipc \cup {Len(ipc) + 1} /\ Len(ipc) \in Nat
          /\ \A i \in DOMAIN ipc : i <= Len(ipc) /\ i \in Nat
          /\ ipc'[Len(ipc) + 1].loop = loop
        BY <2>1, PlacesGrow
    <2>4. \A i \in DOMAIN ipc' : i <= Len(ipc) + 1
        BY <2>3
    <2>. QED
        BY <1>4, <2>2, <2>3, <2>4 DEF Asked
<1>3. CASE ui'.loop_stop = ui.loop_stop /\ ~requestStop /\ ui.loop_stop # None
    <2>1. CASE UNCHANGED ipc
        BY <1>3, <1>4, <2>1 DEF Asked
    <2>2. CASE \E run : ipc' = Append(ipc, [kind |-> "workflow", run |-> run, loop |-> None])
        <3>1. PICK run : ipc' = Append(ipc, [kind |-> "workflow", run |-> run, loop |-> None])
            BY <2>2
        <3>2. /\ DOMAIN ipc' = DOMAIN ipc \cup {Len(ipc) + 1}
              /\ \A i \in DOMAIN ipc : ipc'[i] = ipc[i]
              /\ ipc'[Len(ipc) + 1].kind = "workflow"
            BY <3>1, PlacesGrow
        <3>. QED
            BY <1>3, <1>4, <3>2 DEF Asked
    <2>3. CASE ipc # <<>> /\ ipc' = Tail(ipc)
        <3>1. ASSUME NEW i \in DOMAIN ipc', ipc'[i].kind = "loop"
              PROVE  \E j \in DOMAIN ipc' : i <= j /\ ipc'[j].loop = ui.loop_stop
            <4>1. i \in Nat /\ i + 1 \in DOMAIN ipc /\ ipc'[i] = ipc[i + 1]
                BY <2>3, <3>1, PlacesShrink
            <4>2. PICK j \in DOMAIN ipc : i + 1 <= j /\ ipc[j].loop = ui.loop_stop
                BY <1>3, <3>1, <4>1 DEF Asked
            <4>3. i <= j - 1 /\ j \in Nat /\ j # 1
                <5>. j \in Nat \ {0}
                    BY <2>3, PlacesShrink
                <5>1. i # 0
                    <6>. Tail(ipc) \in Seq(S)
                        BY <2>3, QueueShrinks
                    <6>. QED
                        BY <2>3, <3>1
                <5>. QED
                    BY <4>1, <4>2, <5>1
            <4>4. j - 1 \in DOMAIN ipc' /\ ipc'[j - 1] = ipc[j]
                BY <2>3, <4>3, PlacesShrink
            <4>. QED
                BY <4>2, <4>3, <4>4
        <3>. QED
            BY <1>3, <1>4, <3>1 DEF Asked
    <2>. QED
        BY <1>3, <2>1, <2>2, <2>3, LoopCalls
<1>. QED
    BY <1>1, <1>2, <1>3, LoopRequest

(* A run that executes was executing before, or has just been prepared.    *)
LEMMA Goes ==
    ASSUME Records, [Next]_vars, command'.pc = "run", command'.verdict = None
    PROVE  command.pc = "prepare" \/ (command.pc = "run" /\ command.verdict = None)
<1>1. CASE Enter \/ Leaf \/ Exhausted \/ Commit \/ StopHere
    BY <1>1 DEF Enter, Leaf, Exhausted, Commit, StopHere, Executing, At
<1>2. CASE Unwind
    BY <1>2 DEF Unwind, LeaveLoop, At, Records
<1>3. CASE Register \/ Parse \/ begin \/ Publish \/ Announce \/ Prepare
    BY <1>3 DEF Register, Parse, begin, Publish, Announce, Prepare, Goto, At, Records
<1>4. ~RunReturns /\ ~Finish /\ ~SetStatus /\ ~FinalFlush /\ ~Close /\ ~Clear
    BY DEF RunReturns, Finish, SetStatus, FinalFlush, Close, Clear, Goto, Records
<1>5. ~Reply /\ ~StartRun
    <2>1. \A mode : [NoCommand EXCEPT !.pc = "register", !.mode = mode].pc = "register"
        BY DEF NoCommand
    <2>2. ~StartRun
        BY <2>1 DEF StartRun
    <2>3. NoCommand.pc = "idle"
        BY DEF NoCommand
    <2>. QED
        BY <2>2, <2>3 DEF Reply
<1>6. CASE UNCHANGED command
    BY <1>6
<1>. QED
    BY <1>1, <1>2, <1>3, <1>4, <1>5, <1>6 DEF Next, RunCommand, FrontEnd, User, vars,
        ReceiveBatch, DeliverStop, DeliverLoopStop, TimerFlush, requestWorkflowStop, requestStop,
        ClearLastRun, StartManual, EndManual, BeginExport, WriteExport

(* What becomes of a loop stop, step by step, while the run executes.      *)
LEMMA Obeyed ==
    ASSUME Records, Owner, Batcher, [Next]_vars, command.pc = "run", command'.pc = "run",
           command'.verdict = None
    PROVE  /\ \/ active'.loop_stop = active.loop_stop
              \/ DeliverLoopStop
              \/ command'.unwind = active.loop_stop
           /\ \/ command.unwind = None
              \/ command'.unwind = command.unwind
              \/ command.unwind \in batcher'.completed
           /\ \/ batcher.completed \subseteq batcher'.completed
              \/ \E m : channel' = Append(channel, m) /\ m.completed = batcher.completed
           /\ \/ UNCHANGED channel
              \/ \E m : channel' = Append(channel, m)
              \/ ReceiveBatch
<1>1. CASE Leaf \/ Exhausted \/ StopHere
    BY ZenonT(40), <1>1 DEF Leaf, Exhausted, StopHere, LeaveLoop, Push, Executing, Batcher
<1>2. CASE Commit
    <2>1. UNCHANGED channel /\ command.unwind = None
        BY <1>2 DEF Commit, Executing
    <2>2. batcher.completed \subseteq batcher'.completed
        BY ZenonT(40), <1>2 DEF Commit, Push, Batcher
    <2>3. active'.loop_stop = active.loop_stop \/ command'.unwind = active.loop_stop
        BY <1>2 DEF Commit, consume_loop_stop, Records
    <2>. QED
        BY <2>1, <2>2, <2>3
<1>3. CASE Unwind
    <2>1. UNCHANGED <<channel, active>>
        BY <1>3 DEF Unwind
    <2>2. /\ batcher' = [batcher EXCEPT !.dirty = TRUE, !.completed = @ \cup {Last(command.path)}]
          /\ command'.unwind = IF Last(command.path) = command.unwind THEN None
                               ELSE command.unwind
        BY <1>3 DEF Unwind, LeaveLoop, Push, Records
    <2>3. batcher'.completed = batcher.completed \cup {Last(command.path)}
        BY <2>2 DEF Batcher
    <2>. QED
        BY <2>1, <2>2, <2>3
<1>4. CASE TimerFlush
    <2>1. UNCHANGED <<active, command>>
        BY <1>4 DEF TimerFlush
    <2>2. channel' = Append(channel, Batch) /\ Batch.completed = batcher.completed
        BY <1>4 DEF TimerFlush, flush, Batch
    <2>. QED
        BY <2>1, <2>2
<1>5. CASE Enter
    BY <1>5 DEF Enter, Executing
<1>6. CASE ReceiveBatch
    BY <1>6 DEF ReceiveBatch
<1>7. CASE DeliverStop
    BY <1>7 DEF DeliverStop, Records
<1>8. CASE DeliverLoopStop
    BY <1>8 DEF DeliverLoopStop
<1>9. ~StartManual /\ ~EndManual
    BY DEF StartManual, EndManual, register_manual, Owner, Slot, Working
<1>10. CASE UNCHANGED <<active, command, batcher, channel>>
    BY <1>10
<1>11. /\ ~Register /\ ~Parse /\ ~begin /\ ~Publish /\ ~Announce /\ ~Prepare
       /\ ~Finish /\ ~SetStatus /\ ~FinalFlush /\ ~Close /\ ~Clear /\ ~Reply
       /\ ~StartRun /\ ~RunReturns
    <2>1. /\ ~Register /\ ~Parse /\ ~begin /\ ~Publish /\ ~Announce /\ ~Prepare
          /\ ~Finish /\ ~SetStatus /\ ~FinalFlush /\ ~Close /\ ~Clear /\ ~Reply
        BY DEF Register, Parse, begin, Publish, Announce, Prepare, Finish, SetStatus,
               FinalFlush, Close, Clear, Reply, At
    <2>2. ~StartRun /\ ~RunReturns
        BY DEF StartRun, RunReturns, At, Records
    <2>. QED
        BY <2>1, <2>2
<1>. QED
    BY <1>1, <1>2, <1>3, <1>4, <1>5, <1>6, <1>7, <1>8, <1>9, <1>10, <1>11
    DEF Next, RunCommand, FrontEnd, User, vars, requestWorkflowStop, requestStop,
        ClearLastRun, BeginExport, WriteExport

(* A loop stop that is shown is never lost on its way.                     *)
LEMMA FeedbackStep ==
    ASSUME Records, Owner, Queues, Batcher, Quiet, Asked, FeedbackIsHonest, [Next]_vars
    PROVE  FeedbackIsHonest'
<1>. PICK S : ipc \in Seq(S)
    BY DEF Queues
<1>. PICK C : channel \in Seq(C)
    BY DEF Queues
<1> DEFINE loop == ui.loop_stop
<1>1. CASE ui'.loop_stop = None
    BY <1>1 DEF FeedbackIsHonest
<1>2. CASE requestStop
    <2>1. PICK l : /\ ui' = [ui EXCEPT !.loop_stop = l]
                   /\ ipc' = Append(ipc, [kind |-> "loop", run |-> 0, loop |-> l])
        BY <1>2 DEF requestStop
    <2>2. ui'.loop_stop = l
        BY <2>1 DEF Records
    <2>3. Len(ipc) + 1 \in DOMAIN ipc' /\ ipc'[Len(ipc) + 1].loop = l
        BY <2>1, PlacesGrow
    <2>. QED
        BY <2>2, <2>3 DEF FeedbackIsHonest
<1>3. ASSUME ui'.loop_stop = loop, loop # None, ~requestStop, command'.pc = "run",
             command'.verdict = None
      PROVE  FeedbackIsHonest'
    <2>1. command.pc = "run" /\ command.verdict = None
        BY <1>3, Goes DEF Quiet, Unstarted
    <2>2. active.kind = "workflow"
        BY <2>1 DEF Owner, Slot, Working
    <2>3. ASSUME NEW i \in DOMAIN ipc, ipc[i].loop = loop, ~DeliverLoopStop
          PROVE  \E j \in DOMAIN ipc' : ipc'[j].loop = loop
        <3>1. CASE UNCHANGED ipc
            BY <2>3, <3>1
        <3>2. CASE \E m : ipc' = Append(ipc, m)
            BY <2>3, <3>2, PlacesGrow
        <3>3. CASE ipc # <<>> /\ ipc' = Tail(ipc) /\ Head(ipc).kind = "workflow"
            <4>1. i # 1
                BY <1>3, <2>3, <3>3, PlacesShrink DEF Asked
            <4>2. i - 1 \in DOMAIN ipc' /\ ipc'[i - 1] = ipc[i]
                BY <3>3, <4>1, PlacesShrink
            <4>. QED
                BY <2>3, <4>2
        <3>. QED
            BY <1>3, <2>3, <3>1, <3>2, <3>3, LoopCalls
    <2>4. CASE DeliverLoopStop
        <3>1. /\ ipc # <<>> /\ ipc' = Tail(ipc) /\ Head(ipc).kind = "loop"
              /\ active'.loop_stop = Head(ipc).loop
            BY <2>2, <2>4 DEF DeliverLoopStop, Records
        <3>2. PICK j \in DOMAIN ipc : ipc[j].loop = loop
            BY <1>3, <3>1, PlacesShrink DEF Asked
        <3>3. CASE j = 1
            BY <1>3, <3>1, <3>2, <3>3, PlacesShrink DEF FeedbackIsHonest
        <3>4. CASE j # 1
            <4>1. j - 1 \in DOMAIN ipc' /\ ipc'[j - 1] = ipc[j]
                BY <3>1, <3>4, PlacesShrink
            <4>. QED
                BY <1>3, <3>2, <4>1 DEF FeedbackIsHonest
        <3>. QED
            BY <3>3, <3>4
    <2>5. CASE ~DeliverLoopStop
        <3>1. \/ \E i \in DOMAIN ipc : ipc[i].loop = loop
              \/ active.loop_stop = loop
              \/ command.unwind = loop
              \/ loop \in batcher.completed
              \/ \E i \in DOMAIN channel : loop \in channel[i].completed
            BY <1>3, <2>1 DEF FeedbackIsHonest
        <3>2. CASE \E i \in DOMAIN ipc : ipc[i].loop = loop
            BY <1>3, <2>3, <2>5, <3>2 DEF FeedbackIsHonest
        <3>3. CASE active.loop_stop = loop
            BY <1>3, <2>1, <2>5, <3>3, Obeyed DEF FeedbackIsHonest
        <3>4. CASE command.unwind = loop
            BY <1>3, <2>1, <3>4, Obeyed DEF FeedbackIsHonest
        <3>5. CASE loop \in batcher.completed
            <4>1. CASE batcher.completed \subseteq batcher'.completed
                BY <1>3, <3>5, <4>1 DEF FeedbackIsHonest
            <4>2. CASE \E m : channel' = Append(channel, m) /\ m.completed = batcher.completed
                <5>1. \E i \in DOMAIN channel' : channel'[i].completed = batcher.completed
                    BY <4>2, PlacesGrow
                <5>. QED
                    BY <1>3, <3>5, <5>1 DEF FeedbackIsHonest
            <4>. QED
                BY <1>3, <2>1, <4>1, <4>2, Obeyed
        <3>6. ASSUME NEW i \in DOMAIN channel, loop \in channel[i].completed
              PROVE  \E j \in DOMAIN channel' : loop \in channel'[j].completed
            <4>1. CASE UNCHANGED channel
                BY <3>6, <4>1
            <4>2. CASE \E m : channel' = Append(channel, m)
                BY <3>6, <4>2, PlacesGrow
            <4>3. CASE ReceiveBatch
                <5>1. channel # <<>> /\ channel' = Tail(channel)
                    BY <4>3 DEF ReceiveBatch
                <5>2. i # 1
                    BY <1>3, <3>6, <4>3, <5>1, ReceivesLoops, PlacesShrink
                <5>. QED
                    BY ZenonT(40), <3>6, <5>1, <5>2, PlacesShrink
            <4>. QED
                BY <1>3, <2>1, <4>1, <4>2, <4>3, Obeyed
        <3>. QED
            BY <1>3, <3>1, <3>2, <3>3, <3>4, <3>5, <3>6 DEF FeedbackIsHonest
    <2>. QED
        BY <2>4, <2>5
<1>4. CASE command'.pc # "run" \/ command'.verdict # None
    BY <1>4 DEF FeedbackIsHonest
<1>. QED
    BY <1>1, <1>2, <1>3, <1>4, LoopRequest
-----------------------------------------------------------------------------
(* The inductive invariant.                                                *)
IInv ==
    /\ Records /\ Owner /\ Queues /\ Latest
    /\ Requests /\ Batches /\ Batcher /\ Talk
    /\ Accounts /\ Settled /\ Quiet /\ Asked /\ FeedbackIsHonest

(* Nothing is under way before the first run.                              *)
LEMMA Initially ==
    ASSUME Init
    PROVE  IInv
<1>1. Records
    BY DEF Init, Records, NoControl, NoCommand, NoView
<1>2. Owner
    BY DEF Init, Owner, NoControl, NoCommand, PCs, Slot, Working
<1>3. Queues
    <2>1. \A S : <<>> \in Seq(S)
        OBVIOUS
    <2>. QED
        BY <2>1 DEF Init, Queues
<1>4. Latest
    <2>1. command.run = 0 /\ command.pc = "idle"
        BY DEF Init, NoCommand
    <2>2. runs = <<>> /\ current = 0 /\ export = 0 /\ Len(runs) = 0
        BY DEF Init
    <2>. QED
        BY <2>1, <2>2 DEF Latest, Busy
<1>5. Requests /\ Batches
    BY DEF Init, Requests, Batches, ToSet
<1>6. Batcher
    BY DEF Init, Batcher, NoBatcher, NoCommand, Telling
<1>7. Talk
    BY DesktopAssumption DEF Init, Talk, NoControl
<1>8. Accounts
    <2>1. command.pc = "idle"
        BY DEF Init, NoCommand
    <2>2. DOMAIN csv = {"on", "failed", "finished", "succeeded"} /\ csv.on = FALSE /\ csv.failed = FALSE
        BY DEF Init, NoCsv
    <2>. QED
        BY <2>1, <2>2 DEF Accounts, Begun, Over
<1>9. Settled /\ Quiet
    BY DEF Init, NoCommand, Settled, Quiet, Unstarted
<1>10. Asked /\ FeedbackIsHonest
    BY DEF Init, Asked, FeedbackIsHonest
<1>. QED
    BY <1>1, <1>2, <1>3, <1>4, <1>5, <1>6, <1>7, <1>8, <1>9, <1>10 DEF IInv

(* The control, the command, the batches and the front end keep to what    *)
(* IInv says of them, whatever step is taken.                              *)
THEOREM Invariance == Spec => []IInv
<1>1. IInv /\ [Next]_vars => IInv'
    BY RecordsStep, OwnerStep, QueuesStep, LatestStep, RequestsStep, BatchesStep, BatcherStep,
       TalkStep, AccountsStep, SettledStep, QuietStep, AskedStep, FeedbackStep DEF IInv
<1>. QED
    BY Initially, <1>1, PTL DEF Spec

(* Workers belong to one operation: ActiveRun (main.rs:66-85) keeps manual *)
(* power operations and run commands apart.                                *)
THEOREM WorkersAreExclusive == Spec => []ExclusiveWorkers
<1>1. IInv => ExclusiveWorkers
    BY DEF IInv, Owner, ExclusiveWorkers, HoldsWorkers, Slot, Working, PCs
<1>. QED
    BY Invariance, <1>1, PTL

(* A workflow stop reaches the run it was asked for, and is refused only   *)
(* when that run is over (main.rs:98-114, 570).                            *)
THEOREM StopsAreAimed == Spec => []StopHitsItsRun
<1>1. IInv => StopHitsItsRun
    BY DEF IInv, Talk, StopHitsItsRun
<1>. QED
    BY Invariance, <1>1, PTL

(* An export reads one run from start to end, whatever the run commands do *)
(* meanwhile (stored_run.rs:215, main.rs:1218, 1321).                      *)
THEOREM ExportsReadOneRun == Spec => ExportsAreStable
<1>1. IInv /\ [Next]_vars =>
          [export # 0 /\ export = current' => runs'[export] = runs[export]]_vars
    BY ExportStable DEF IInv
<1>. QED
    BY Invariance, <1>1, PTL DEF Spec, ExportsAreStable

(* The status of a run, its completed_successfully, the last status of its *)
(* CSV and what the idle front end shows of it agree (stream_csv.rs:231,   *)
(* stored_run.rs:487, main.rs:618, 625).                                   *)
THEOREM VerdictsDoAgree == Spec => []VerdictsAgree
<1>1. ASSUME IInv
      PROVE  VerdictsAgree
    <2>1. ASSUME command.pc \in {"flush", "close", "clear", "reply"}, command.run # 0
          PROVE  /\ Stored.status = "succeeded" <=> completed_successfully(Stored)
                 /\ csv.finished => (csv.succeeded <=> Stored.status = "succeeded")
        BY <1>1, <2>1 DEF IInv, Accounts, Over, completed_successfully
    <2>2. ASSUME ui.status = "idle", ui.run # 0
          PROVE  ui.view = metadata(ui.run) /\ ui.view.status # "running"
        <3>1. command.run = 0
            BY <1>1, <2>2 DEF IInv, Settled, Owner
        <3>. QED
            BY <1>1, <2>2, <3>1 DEF IInv, Settled, metadata
    <2>. QED
        BY <2>1, <2>2 DEF VerdictsAgree
<1>. QED
    BY Invariance, <1>1, PTL

(* While the front end shows a loop as stopping the request for it is on   *)
(* its way, pending, being carried out, or its completion is on its way    *)
(* back (main.rs:89, 116).                                                 *)
THEOREM FeedbackStaysHonest == Spec => []FeedbackIsHonest
BY Invariance, PTL DEF IInv
=============================================================================
