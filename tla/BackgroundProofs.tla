-------------------------- MODULE BackgroundProofs --------------------------
(***************************************************************************)
(* Proofs about Background, for any backgrounds, kinds of source, counts   *)
(* and bounds: that no failed Dataset is the only trace of its failure,    *)
(* that an unfinished Dataset is the one its own dispatcher fills, that    *)
(* cleanup leaves no thread, no Worker and no open Dataset behind, and     *)
(* (second part) that every Dataset is honest.                             *)
(*                                                                         *)
(* Every step of a dispatcher does one of four things to the store: it     *)
(* leaves what is open as it is, ends what it has open, opens a Dataset,   *)
(* or adds one that failed at once.  The lemmas say so of each action;     *)
(* what the store must then look like is proved once.                      *)
(***************************************************************************)
EXTENDS Background, TLAPS, Integers, FiniteSetTheorems

(* A Dataset and a dispatcher keep their fields.                           *)
Shape(set) ==
    DOMAIN set = {"background_id", "run", "status", "quality", "samples", "finished"}

Thread(d) ==
    DOMAIN d = {"pc", "kind", "cmd", "run", "session", "current", "writer", "auto_closed",
                "ended", "stream_state", "summary", "total", "event_error"}

Shelf(sets) ==
    /\ \E S : sets \in Seq(S)
    /\ \A i \in 1 .. Len(sets) : Shape(sets[i])

Clean(sets) == \A i \in 1 .. Len(sets) : sets[i].status # "failed"

(* The store new is the store old with Dataset c ended, or none if c is 0. *)
Ends(new, old, c) ==
    /\ Shelf(new)
    /\ Len(new) = Len(old)
    /\ \A i \in 1 .. Len(old) :
          /\ new[i].background_id = old[i].background_id
          /\ i = c => new[i].finished = TRUE
          /\ i # c => new[i].finished = old[i].finished

(* The store new has one more, of background b.                            *)
Grows(new, old, b, finished) ==
    /\ Shelf(new)
    /\ Len(new) = Len(old) + 1
    /\ \A i \in 1 .. Len(old) :
          /\ new[i].background_id = old[i].background_id
          /\ new[i].finished = old[i].finished
    /\ new[Len(new)].background_id = b
    /\ new[Len(new)].finished = finished

-----------------------------------------------------------------------------
(* The store: sequences, and what each helper does to one.                 *)

LEMMA LenIsNat ==
    ASSUME NEW sets, Shelf(sets)
    PROVE  Len(sets) \in Nat /\ DOMAIN sets = 1 .. Len(sets)
<1>. PICK S : sets \in Seq(S)
    BY DEF Shelf
<1>. QED
    OBVIOUS

(* One Dataset is written.                                                 *)
LEMMA Written ==
    ASSUME NEW sets, Shelf(sets), NEW i, NEW set, Shape(set)
    PROVE  /\ Shelf([sets EXCEPT ![i] = set])
           /\ Len([sets EXCEPT ![i] = set]) = Len(sets)
           /\ \A k \in 1 .. Len(sets) :
                 [sets EXCEPT ![i] = set][k] = IF k = i THEN set ELSE sets[k]
<1>. PICK S : sets \in Seq(S)
    BY DEF Shelf
<1>. DEFINE new == [sets EXCEPT ![i] = set]
<1>1. sets \in [1 .. Len(sets) -> S \cup {set}] /\ Len(sets) \in Nat
    OBVIOUS
<1>2. new \in [1 .. Len(sets) -> S \cup {set}]
    BY <1>1
<1>3. new \in Seq(S \cup {set}) /\ Len(new) = Len(sets)
    BY <1>1, <1>2
<1>4. \A k \in 1 .. Len(sets) : new[k] = IF k = i THEN set ELSE sets[k]
    BY <1>1
<1>. QED
    BY <1>3, <1>4 DEF Shelf

(* One Dataset is pushed.                                                  *)
LEMMA Pushed ==
    ASSUME NEW sets, Shelf(sets), NEW b, NEW run
    PROVE  /\ Grows(Append(sets, NewDataset(b, run)), sets, b, FALSE)
           /\ Clean(sets) => Clean(Append(sets, NewDataset(b, run)))
<1>. PICK S : sets \in Seq(S)
    BY DEF Shelf
<1>. DEFINE set == NewDataset(b, run)
            new == Append(sets, set)
<1>1. Shape(set) /\ set.background_id = b /\ set.finished = FALSE /\ set.status # "failed"
    BY DEF Shape, NewDataset
<1>. HIDE DEF set
<1>2. new \in Seq(S \cup {set}) /\ Len(new) = Len(sets) + 1 /\ Len(sets) \in Nat
    <2>. sets \in Seq(S \cup {set}) /\ set \in S \cup {set}
        OBVIOUS
    <2>. QED
        OBVIOUS
<1>3. new[Len(sets) + 1] = set /\ \A i \in 1 .. Len(sets) : new[i] = sets[i]
    OBVIOUS
<1>. HIDE DEF new
<1>4. \A i \in 1 .. Len(new) : i \in 1 .. Len(sets) \/ i = Len(sets) + 1
    BY <1>2
<1>5. Shelf(new)
    BY <1>1, <1>2, <1>3, <1>4 DEF Shelf
<1>6. Grows(new, sets, b, FALSE)
    BY <1>1, <1>2, <1>3, <1>5 DEF Grows
<1>7. Clean(sets) => Clean(new)
    BY <1>1, <1>3, <1>4 DEF Clean
<1>. QED
    BY <1>6, <1>7 DEF new, set

(* A Dataset is written in place: it is ended, or it ends no more.         *)
LEMMA Replaced ==
    ASSUME NEW sets, Shelf(sets), NEW i \in 1 .. Len(sets), NEW set, Shape(set),
           set.background_id = sets[i].background_id
    PROVE  LET new == [sets EXCEPT ![i] = set]
           IN /\ set.finished = sets[i].finished => Ends(new, sets, 0)
              /\ set.finished = TRUE => Ends(new, sets, i)
              /\ Clean(sets) /\ set.status # "failed" => Clean(new)
<1>. DEFINE new == [sets EXCEPT ![i] = set]
<1>1. /\ Shelf(new)
      /\ Len(new) = Len(sets)
      /\ \A k \in 1 .. Len(sets) : new[k] = IF k = i THEN set ELSE sets[k]
    BY Written
<1>. HIDE DEF new
<1>2. \A k \in 1 .. Len(sets) : k # 0
    BY LenIsNat
<1>3. set.finished = sets[i].finished => Ends(new, sets, 0)
    BY <1>1, <1>2 DEF Ends
<1>4. set.finished = TRUE => Ends(new, sets, i)
    BY <1>1 DEF Ends
<1>5. Clean(sets) /\ set.status # "failed" => Clean(new)
    BY <1>1 DEF Clean
<1>. QED
    BY <1>3, <1>4, <1>5 DEF new

(* A Dataset is failed in place, or fails as soon as it is pushed.         *)
LEMMA Failed ==
    ASSUME NEW sets, Shelf(sets), NEW i \in 0 .. Len(sets)
    PROVE  Ends(FailCurrent(sets, i), sets, 0)
<1>. DEFINE set == [sets[i] EXCEPT !.status = "failed", !.quality = "incomplete"]
            new == FailCurrent(sets, i)
<1>1. CASE i = 0
    BY <1>1 DEF FailCurrent, Ends
<1>2. CASE i # 0
    <2>1. i \in 1 .. Len(sets)
        BY <1>2, LenIsNat
    <2>2. Shape(sets[i])
        BY <2>1 DEF Shelf
    <2>3. Shape(set)
        BY <2>2 DEF Shape
    <2>4. set.background_id = sets[i].background_id /\ set.finished = sets[i].finished
        BY <2>2 DEF Shape
    <2>5. new = [sets EXCEPT ![i] = set]
        BY <1>2 DEF FailCurrent
    <2>. HIDE DEF set, new
    <2>6. Ends(new, sets, 0)
        BY <2>1, <2>3, <2>4, <2>5, Replaced
    <2>. QED
        BY <2>6 DEF new
<1>. QED
    BY <1>1, <1>2

(* finish ends the Dataset the dispatcher has open, and fails it only when *)
(* it is told to or cannot write it.                                       *)
LEMMA Finished ==
    ASSUME NEW d, NEW sets, Shelf(sets), d.current \in 0 .. Len(sets),
           NEW status, NEW quality, NEW flush_error \in BOOLEAN
    PROVE  LET new == finish(d, sets, status, quality, flush_error)
           IN /\ Ends(new, sets, d.current)
              /\ Clean(sets) /\ status # "failed" /\ ~flush_error => Clean(new)
<1>. DEFINE i == d.current
            set == Closed(sets[i], status, FinishQuality(d, quality), flush_error)
            new == finish(d, sets, status, quality, flush_error)
<1>1. CASE i = 0
    <2>1. \A k \in 1 .. Len(sets) : k # 0
        BY LenIsNat
    <2>. QED
        BY <1>1, <2>1 DEF finish, Ends
<1>2. CASE i # 0
    <2>1. i \in 1 .. Len(sets)
        BY <1>2, LenIsNat
    <2>2. Shape(sets[i])
        BY <2>1 DEF Shelf
    <2>3. /\ Shape(set)
          /\ set.background_id = sets[i].background_id /\ set.finished = TRUE
        BY <2>2 DEF Shape, Closed
    <2>4. Clean(sets) => sets[i].status # "failed"
        BY <2>1 DEF Clean
    <2>5. sets[i].status # "failed" /\ status # "failed" /\ ~flush_error => set.status # "failed"
        BY <2>2 DEF Shape, Closed
    <2>6. new = [sets EXCEPT ![i] = set]
        BY <1>2 DEF finish
    <2>. HIDE DEF set, new
    <2>7. Ends(new, sets, i)
        BY <2>1, <2>3, <2>6, Replaced
    <2>8. Clean(sets) /\ status # "failed" /\ ~flush_error => Clean(new)
        BY <2>1, <2>3, <2>4, <2>5, <2>6, Replaced
    <2>. QED
        BY <2>7, <2>8 DEF new
<1>. QED
    BY <1>1, <1>2

(* A verdict settles qualities and nothing else.                           *)
LEMMA Settled ==
    ASSUME Shelf(datasets), NEW b, NEW d, NEW verdict
    PROVE  /\ Ends(Judged(b, d, verdict), datasets, 0)
           /\ Clean(datasets) => Clean(Judged(b, d, verdict))
<1>. DEFINE new == Judged(b, d, verdict)
            S == {new[i] : i \in 1 .. Len(datasets)}
<1>1. /\ DOMAIN new = 1 .. Len(datasets)
      /\ \A i \in 1 .. Len(datasets) :
            new[i] \in {datasets[i], [datasets[i] EXCEPT !.quality = FinalQuality(d)]}
    BY DEF Judged
<1>2. \A i \in 1 .. Len(datasets) :
          /\ Shape(new[i])
          /\ new[i].background_id = datasets[i].background_id
          /\ new[i].finished = datasets[i].finished
          /\ new[i].status = datasets[i].status
    BY <1>1 DEF Shelf, Shape
<1>3. new \in [1 .. Len(datasets) -> S]
    BY DEF Judged
<1>. HIDE DEF new
<1>4. Len(datasets) \in Nat
    BY LenIsNat
<1>5. new \in Seq(S) /\ Len(new) = Len(datasets)
    BY <1>3, <1>4
<1>6. Ends(new, datasets, 0)
    <2>1. \A k \in 1 .. Len(datasets) : k # 0
        BY LenIsNat
    <2>2. Shelf(new)
        BY <1>2, <1>5 DEF Shelf
    <2>. QED
        BY <1>2, <1>5, <2>1, <2>2 DEF Ends
<1>7. Clean(datasets) => Clean(new)
    BY <1>2, <1>5 DEF Clean
<1>. QED
    BY <1>6, <1>7 DEF new

(* A sample is filed.                                                      *)
LEMMA SampleFiled ==
    ASSUME Shelf(datasets), NEW d, NEW e, d.current \in 0 .. Len(datasets)
    PROVE  /\ Ends(File(d, e), datasets, 0)
           /\ Clean(datasets) => Clean(File(d, e))
<1>. DEFINE i == d.current
            set == [datasets[i] EXCEPT !.samples = Append(@, Number(d, e))]
            new == File(d, e)
<1>1. CASE new = datasets
    BY <1>1 DEF Ends
<1>2. CASE i # 0 /\ new = [datasets EXCEPT ![i] = set]
    <2>1. i \in 1 .. Len(datasets)
        BY <1>2, LenIsNat
    <2>2. Shape(datasets[i])
        BY <2>1 DEF Shelf
    <2>3. /\ Shape(set) /\ set.status = datasets[i].status
          /\ set.background_id = datasets[i].background_id /\ set.finished = datasets[i].finished
        BY <2>2 DEF Shape
    <2>4. Clean(datasets) => set.status # "failed"
        BY <2>1, <2>3 DEF Clean
    <2>. HIDE DEF set, new
    <2>5. Ends(new, datasets, 0) /\ (Clean(datasets) => Clean(new))
        BY <1>2, <2>1, <2>3, <2>4, Replaced
    <2>. QED
        BY <2>5 DEF new
<1>. QED
    BY <1>1, <1>2 DEF File

(* Changes that end nothing go before one that may.                        *)
LEMMA EndsAfter ==
    ASSUME NEW new, NEW sets, NEW old, NEW c, Ends(new, sets, c), Ends(sets, old, 0), Shelf(old)
    PROVE  Ends(new, old, c)
<1>1. \A k \in 1 .. Len(old) : k # 0
    BY LenIsNat
<1>. QED
    BY <1>1 DEF Ends

-----------------------------------------------------------------------------
(* What a step of dispatcher b does: Acts(b).                              *)

ManagerShape ==
    DOMAIN manager = {"config", "pc", "bg", "action", "reply", "over", "stopped", "acts"}

(* Only what the manager hears, and not what it does, is a dispatcher's.   *)
Hears ==
    /\ ManagerShape'
    /\ manager'.pc = manager.pc /\ manager'.bg = manager.bg /\ manager'.action = manager.action
    /\ manager'.stopped = manager.stopped

Threads ==
    /\ DOMAIN dispatcher = Backgrounds
    /\ \A b \in Backgrounds :
          /\ Thread(dispatcher[b])
          /\ dispatcher[b].current \in 0 .. Len(datasets)
          /\ dispatcher[b].pc \in {"none", "starting", "exited"} =>
                dispatcher[b].current = 0 /\ dispatcher[b].session = FALSE

(* The first failure is kept, and no Dataset fails without one.            *)
Signals(new, old) == failure' = None => failure = None /\ (Clean(old) => Clean(new))

Stores(b, was, now) ==
    \/ Ends(datasets', datasets, 0) /\ now = was
    \/ Ends(datasets', datasets, was) /\ now = 0
    \/ was = 0 /\ Grows(datasets', datasets, b, FALSE) /\ now = Len(datasets')
    \/ was = 0 /\ Grows(datasets', datasets, b, TRUE) /\ now = 0

Acts(b) ==
    LET d == dispatcher[b]
        n == dispatcher'[b]
    IN /\ DOMAIN dispatcher' = Backgrounds
       /\ \A c \in Backgrounds \ {b} : dispatcher'[c] = dispatcher[c]
       /\ Thread(n)
       /\ d.pc \in {"starting", "loop", "stopping"}
       /\ n.pc \in {"loop", "stopping", "exited"}
       /\ n.pc = "exited" => n.current = 0 /\ n.session = FALSE
       /\ Stores(b, d.current, n.current)
       /\ Signals(datasets', datasets)
       /\ Hears
       /\ runtimes' = runtimes

(* What each lemma on an action starts from. *)
Base == Shelf(datasets) /\ ManagerShape /\ Threads

(* An answer changes only what the manager has heard.                      *)
LEMMA Answered ==
    ASSUME NEW cmd, NEW ok, NEW dropped, ManagerShape, Answer(cmd, ok, dropped)
    PROVE  Hears
BY DEF Answer, ManagerShape, Hears

(* A manager that is not told anything hears nothing.                      *)
LEMMA Silent ==
    ASSUME ManagerShape, UNCHANGED manager
    PROVE  Hears
BY DEF ManagerShape, Hears

(* A background's signal is never lost.                                    *)
LEMMA Signalled ==
    ASSUME NEW b \in Backgrounds
    PROVE  /\ Signal(b) # None
           /\ \A flush_error \in BOOLEAN :
                 FlushSignal(b, flush_error) = None => failure = None /\ flush_error = FALSE
BY ConstantsAssumption DEF Signal, FlushSignal

(* A store left alone.                                                     *)
LEMMA Kept ==
    ASSUME NEW sets, Shelf(sets)
    PROVE  Ends(sets, sets, 0)
BY LenIsNat DEF Ends

(* The thread writes its own state and no other's.                         *)
LEMMA OneThread ==
    ASSUME Threads, NEW b \in Backgrounds, NEW d, Unchanged(b, d)
    PROVE  /\ DOMAIN dispatcher' = Backgrounds
           /\ dispatcher'[b] = d
           /\ \A c \in Backgrounds \ {b} : dispatcher'[c] = dispatcher[c]
BY DEF Threads, Unchanged

(* Launch: the Worker starts, with what it is to record into, or does not.  *)
LEMMA LaunchActs ==
    ASSUME Base, NEW b \in Backgrounds, Launch(b)
    PROVE  Acts(b)
<1>. DEFINE d == dispatcher[b]
            n == dispatcher'[b]
            set == NewDataset(b, d.run)
            sets == IF d.cmd.flag THEN Append(datasets, set) ELSE datasets
            open == IF d.cmd.flag THEN Len(sets) ELSE 0
            failed(index) ==
                [sets EXCEPT ![index] =
                    [@ EXCEPT !.run = 0, !.status = "failed", !.quality = "incomplete",
                              !.finished = TRUE]]
<1>. USE DEF Base
<1>1. /\ Thread(d) /\ d.pc = "starting" /\ d.current = 0 /\ d.session = FALSE
      /\ runtimes' = runtimes
    BY DEF Launch, Threads
<1>2. CASE /\ datasets' = sets
           /\ Unchanged(b, [d EXCEPT !.pc = "loop", !.cmd = None, !.session = TRUE,
                                     !.current = open, !.writer = Csv /\ open # 0])
           /\ Answer(d.cmd, TRUE, None)
           /\ UNCHANGED failure
    <2>1. Hears
        BY <1>2, Answered
    <2>2. /\ DOMAIN dispatcher' = Backgrounds
          /\ \A c \in Backgrounds \ {b} : dispatcher'[c] = dispatcher[c]
          /\ n = [d EXCEPT !.pc = "loop", !.cmd = None, !.session = TRUE,
                           !.current = open, !.writer = Csv /\ open # 0]
        BY <1>2, OneThread
    <2>3. Thread(n) /\ n.pc = "loop" /\ n.current = open
        BY <1>1, <2>2 DEF Thread
    <2>4. Stores(b, d.current, n.current) /\ (Clean(datasets) => Clean(datasets'))
        <3>1. CASE d.cmd.flag
            BY <1>1, <1>2, <2>3, <3>1, Pushed DEF Stores
        <3>2. CASE ~d.cmd.flag
            BY <1>1, <1>2, <2>3, <3>2, Kept DEF Stores
        <3>. QED
            BY <3>1, <3>2
    <2>. HIDE DEF d, n, sets, open
    <2>. QED
        BY <1>1, <1>2, <2>1, <2>2, <2>3, <2>4 DEF Acts, Signals, d, n
<1>3. ASSUME NEW index \in {0, open},
             failure' = Signal(b),
             datasets' = IF index = 0 THEN datasets ELSE failed(index),
             Unchanged(b, [d EXCEPT !.pc = "exited", !.cmd = None]),
             Answer(d.cmd, FALSE, inbox[b])
      PROVE  Acts(b)
    <2>1. Hears
        BY <1>3, Answered
    <2>2. /\ DOMAIN dispatcher' = Backgrounds
          /\ \A c \in Backgrounds \ {b} : dispatcher'[c] = dispatcher[c]
          /\ n = [d EXCEPT !.pc = "exited", !.cmd = None]
        BY <1>3, OneThread
    <2>3. Thread(n) /\ n.pc = "exited" /\ n.current = 0 /\ n.session = FALSE
        BY <1>1, <2>2 DEF Thread
    <2>4. failure' # None
        BY <1>3, Signalled
    <2>5. Stores(b, d.current, n.current)
        <3>1. CASE index = 0
            BY <1>1, <1>3, <2>3, <3>1, Kept DEF Stores
        <3>2. CASE index # 0
            <4>1. d.cmd.flag /\ index = Len(sets) /\ sets = Append(datasets, set)
                BY <1>3, <3>2
            <4>2. Grows(sets, datasets, b, FALSE)
                BY <4>1, Pushed
            <4>. DEFINE new == [sets[index] EXCEPT !.run = 0, !.status = "failed",
                                    !.quality = "incomplete", !.finished = TRUE]
            <4>3. Shape(sets[index])
                BY <4>1, <4>2, LenIsNat DEF Grows, Shelf
            <4>4. Shape(new) /\ new.background_id = sets[index].background_id /\ new.finished = TRUE
                BY <4>3 DEF Shape
            <4>5. datasets' = [sets EXCEPT ![index] = new]
                BY <1>3, <3>2
            <4>. HIDE DEF new, sets
            <4>6. Len(datasets) \in Nat /\ Shelf(sets) /\ index \in 1 .. Len(sets)
                BY <4>1, <4>2, LenIsNat DEF Grows
            <4>7. Ends(datasets', sets, index)
                BY <4>4, <4>5, <4>6, Replaced
            <4>8. Grows(datasets', datasets, b, TRUE)
                BY <4>1, <4>2, <4>6, <4>7 DEF Grows, Ends
            <4>. QED
                BY <1>1, <2>3, <4>8 DEF Stores
        <3>. QED
            BY <3>1, <3>2
    <2>. HIDE DEF d, n, sets, open
    <2>. QED
        BY <1>1, <2>1, <2>2, <2>3, <2>4, <2>5 DEF Acts, Signals, d, n
<1>. QED
    BY <1>2, <1>3 DEF Launch, NewIndex

(* A step that leaves the store, the thread's place and the failure alone.  *)
LEMMA StandsActs ==
    ASSUME Base, NEW b \in Backgrounds, Hears, runtimes' = runtimes,
           UNCHANGED <<datasets, failure>>,
           dispatcher[b].pc \in {"loop", "stopping"},
           NEW n, dispatcher' = [dispatcher EXCEPT ![b] = n],
           Thread(n), n.current = dispatcher[b].current, n.pc \in {"loop", "stopping"}
    PROVE  Acts(b)
<1>. USE DEF Base
<1>1. /\ DOMAIN dispatcher' = Backgrounds /\ dispatcher'[b] = n
      /\ \A c \in Backgrounds \ {b} : dispatcher'[c] = dispatcher[c]
    BY DEF Threads
<1>2. Stores(b, dispatcher[b].current, n.current)
    BY Kept DEF Stores
<1>. QED
    BY <1>1, <1>2 DEF Acts, Signals

(* A refused command changes nothing but what the manager hears.            *)
LEMMA RefusedActs ==
    ASSUME Base, NEW b \in Backgrounds, Hears, runtimes' = runtimes,
           UNCHANGED <<datasets, failure, dispatcher>>, dispatcher[b].pc \in {"loop", "stopping"}
    PROVE  Acts(b)
<1>. USE DEF Base
<1>1. Stores(b, dispatcher[b].current, dispatcher[b].current)
    BY Kept DEF Stores
<1>. QED
    BY <1>1 DEF Acts, Signals, Threads

(* A step that ends what is open, if anything is.                           *)
LEMMA EndingActs ==
    ASSUME Base, NEW b \in Backgrounds, Hears, runtimes' = runtimes,
           dispatcher[b].pc \in {"loop", "stopping"},
           NEW n, dispatcher' = [dispatcher EXCEPT ![b] = n],
           Thread(n), n.current = 0, n.pc \in {"loop", "exited"},
           n.pc = "exited" => n.session = FALSE,
           Ends(datasets', datasets, dispatcher[b].current),
           Signals(datasets', datasets)
    PROVE  Acts(b)
<1>. USE DEF Base
<1>1. /\ DOMAIN dispatcher' = Backgrounds /\ dispatcher'[b] = n
      /\ \A c \in Backgrounds \ {b} : dispatcher'[c] = dispatcher[c]
    BY DEF Threads
<1>. QED
    BY <1>1 DEF Acts, Stores

(* capture_on opens a Dataset when none is open.                            *)
LEMMA CaptureOnActs ==
    ASSUME Base, NEW b \in Backgrounds, capture_on(b)
    PROVE  Acts(b)
<1>. DEFINE d == dispatcher[b]
            run == IF d.session THEN d.run ELSE 0
            n == [d EXCEPT !.current = NewIndex(datasets'), !.auto_closed = FALSE, !.writer = Csv]
<1>. USE DEF Base
<1>1. d.pc = "loop" /\ Thread(d) /\ runtimes' = runtimes /\ failure' = failure
    BY DEF capture_on, Takes, Threads
<1>2. CASE /\ ~capture_on_refused(d)
           /\ datasets' = Append(datasets, NewDataset(b, run))
           /\ Unchanged(b, n)
           /\ Answer(inbox[b], TRUE, None)
    <2>1. Hears
        BY <1>2, Answered
    <2>2. /\ DOMAIN dispatcher' = Backgrounds /\ dispatcher'[b] = n
          /\ \A c \in Backgrounds \ {b} : dispatcher'[c] = dispatcher[c]
        BY <1>2, OneThread
    <2>3. Thread(n) /\ n.current = Len(datasets') /\ n.pc = "loop" /\ d.current = 0
        BY <1>1, <1>2 DEF Thread, NewIndex, capture_on_refused
    <2>4. Stores(b, d.current, n.current) /\ (Clean(datasets) => Clean(datasets'))
        BY <1>2, <2>3, Pushed DEF Stores
    <2>. HIDE DEF n, run
    <2>. QED
        BY <1>1, <2>1, <2>2, <2>3, <2>4 DEF Acts, Signals
<1>3. CASE Answer(inbox[b], FALSE, None) /\ UNCHANGED <<datasets, dispatcher>>
    BY <1>1, <1>3, Answered, RefusedActs
<1>. QED
    BY <1>2, <1>3 DEF capture_on

(* Closing what is open with a flush that may fail.                         *)
LEMMA Flushed ==
    ASSUME Shelf(datasets), NEW b \in Backgrounds, NEW d, d.current \in 0 .. Len(datasets),
           NEW sets, Ends(sets, datasets, 0), Clean(datasets) => Clean(sets),
           NEW status, status # "failed", NEW quality,
           NEW flush_error \in BOOLEAN,
           datasets' = finish(d, sets, status, quality, flush_error),
           failure' = FlushSignal(b, flush_error)
    PROVE  Ends(datasets', datasets, d.current) /\ Signals(datasets', datasets)
<1>1. Shelf(sets) /\ d.current \in 0 .. Len(sets)
    BY DEF Ends
<1>2. /\ Ends(datasets', sets, d.current)
      /\ Clean(sets) /\ ~flush_error => Clean(datasets')
    BY <1>1, Finished
<1>3. Ends(datasets', datasets, d.current)
    BY <1>2, EndsAfter
<1>4. Signals(datasets', datasets)
    BY <1>2, Signalled DEF Signals
<1>. QED
    BY <1>3, <1>4

(* capture_off closes what is open, and says so when the flush failed.      *)
LEMMA CaptureOffActs ==
    ASSUME Base, NEW b \in Backgrounds, capture_off(b)
    PROVE  Acts(b)
<1>. DEFINE d == dispatcher[b]
<1>. USE DEF Base
<1>1. d.pc = "loop" /\ Thread(d) /\ runtimes' = runtimes /\ d.current \in 0 .. Len(datasets)
    BY DEF capture_off, Takes, Threads
<1>2. CASE /\ Unchanged(b, [d EXCEPT !.auto_closed = FALSE])
           /\ Answer(inbox[b], TRUE, None)
           /\ UNCHANGED <<datasets, failure>>
    <2>. DEFINE n == [d EXCEPT !.auto_closed = FALSE]
    <2>1. Thread(n) /\ n.current = d.current /\ n.pc = "loop"
        BY <1>1 DEF Thread
    <2>2. dispatcher' = [dispatcher EXCEPT ![b] = n]
        BY <1>2 DEF Unchanged
    <2>. HIDE DEF n
    <2>. QED
        BY <1>1, <1>2, <2>1, <2>2, Answered, StandsActs
<1>3. CASE Answer(inbox[b], FALSE, None) /\ UNCHANGED <<datasets, dispatcher, failure>>
    BY <1>1, <1>3, Answered, RefusedActs
<1>4. ASSUME NEW flush_error \in FlushErrors(d),
             datasets' = finish(d, datasets, "completed", "unknown", flush_error),
             failure' = FlushSignal(b, flush_error),
             Unchanged(b, Idle(d)),
             Answer(inbox[b], failure' = None, None)
      PROVE  Acts(b)
    <2>. DEFINE n == Idle(d)
    <2>1. Thread(n) /\ n.current = 0 /\ n.pc = "loop"
        BY <1>1 DEF Thread, Idle
    <2>2. dispatcher' = [dispatcher EXCEPT ![b] = n]
        BY <1>4 DEF Unchanged
    <2>3. flush_error \in BOOLEAN
        BY <1>4 DEF FlushErrors
    <2>4. Ends(datasets', datasets, d.current) /\ Signals(datasets', datasets)
        BY <1>1, <1>4, <2>3, Kept, Flushed
    <2>5. Hears
        BY <1>4, Answered
    <2>. HIDE DEF n
    <2>. QED
        BY <1>1, <2>1, <2>2, <2>4, <2>5, EndingActs
<1>. QED
    BY <1>2, <1>3, <1>4 DEF capture_off

(* Closing what is open as failed.                                          *)
LEMMA Aborted ==
    ASSUME Shelf(datasets), NEW b \in Backgrounds, NEW d, d.current \in 0 .. Len(datasets),
           NEW sets, Ends(sets, datasets, 0),
           datasets' = finish(d, FailCurrent(sets, d.current), "failed", "incomplete", FALSE),
           failure' = Signal(b)
    PROVE  Ends(datasets', datasets, d.current) /\ Signals(datasets', datasets)
<1>. DEFINE bad == FailCurrent(sets, d.current)
<1>1. Shelf(sets) /\ d.current \in 0 .. Len(sets)
    BY DEF Ends
<1>2. Ends(bad, sets, 0)
    BY <1>1, Failed
<1>3. Ends(bad, datasets, 0)
    BY <1>2, EndsAfter
<1>. HIDE DEF bad
<1>4. Shelf(bad) /\ d.current \in 0 .. Len(bad)
    BY <1>3 DEF Ends
<1>5. Ends(finish(d, bad, "failed", "incomplete", FALSE), bad, d.current)
    BY <1>4, Finished
<1>6. Ends(datasets', bad, d.current)
    BY <1>5 DEF bad
<1>7. Ends(datasets', datasets, d.current)
    BY <1>3, <1>6, EndsAfter
<1>. QED
    BY <1>7, Signalled DEF Signals

(* Release closes what is open; the thread exits unless the run has failed. *)
LEMMA ReleaseActs ==
    ASSUME Base, NEW b \in Backgrounds, runtimes' = runtimes,
           dispatcher[b].pc \in {"loop", "stopping"},
           NEW d, Thread(d), d.current = dispatcher[b].current,
           NEW sets, Ends(sets, datasets, 0), Clean(datasets) => Clean(sets),
           NEW flush_error \in BOOLEAN, NEW cmd, NEW dropped,
           Release(b, d, cmd, sets, dropped, flush_error)
    PROVE  Acts(b)
<1>. DEFINE done == FlushSignal(b, flush_error) = None
            n == [Idle(d) EXCEPT !.auto_closed = FALSE, !.session = FALSE,
                                 !.cmd = None, !.event_error = FALSE,
                                 !.pc = IF done THEN "exited" ELSE "loop"]
<1>. USE DEF Base
<1>1. /\ datasets' = finish(d, sets, "completed", "no_loss_detected", flush_error)
      /\ failure' = FlushSignal(b, flush_error)
      /\ dispatcher' = [dispatcher EXCEPT ![b] = n]
    BY DEF Release, Unchanged
<1>2. Hears
    BY Answered DEF Release
<1>3. Thread(n) /\ n.current = 0 /\ n.session = FALSE /\ n.pc \in {"loop", "exited"}
    BY DEF Thread, Idle
<1>4. d.current \in 0 .. Len(datasets)
    BY DEF Threads
<1>5. Ends(datasets', datasets, dispatcher[b].current) /\ Signals(datasets', datasets)
    BY <1>1, <1>4, Flushed
<1>. HIDE DEF n
<1>. QED
    BY <1>1, <1>2, <1>3, <1>5, EndingActs

(* CleanedUp closes what is open, and the thread exits.                     *)
LEMMA CleanedUpActs ==
    ASSUME Base, NEW b \in Backgrounds, runtimes' = runtimes,
           dispatcher[b].pc \in {"loop", "stopping"},
           NEW d, Thread(d), d.current = dispatcher[b].current,
           NEW sets, Ends(sets, datasets, 0), Clean(datasets) => Clean(sets),
           NEW flush_error \in BOOLEAN, NEW cmd, NEW dropped, NEW verdict,
           CleanedUp(b, d, cmd, sets, dropped, verdict, flush_error)
    PROVE  Acts(b)
<1>. DEFINE n == [Idle(d) EXCEPT !.session = FALSE, !.cmd = None,
                                 !.event_error = FALSE, !.pc = "exited"]
            status == IF verdict = "shortfall" THEN "incomplete" ELSE "completed"
<1>. USE DEF Base
<1>1. dispatcher' = [dispatcher EXCEPT ![b] = n]
    BY DEF CleanedUp, Unchanged
<1>2. Hears
    BY Answered DEF CleanedUp
<1>3. Thread(n) /\ n.current = 0 /\ n.session = FALSE /\ n.pc = "exited"
    BY DEF Thread, Idle
<1>4. d.current \in 0 .. Len(datasets)
    BY DEF Threads
<1>5. Ends(datasets', datasets, d.current) /\ Signals(datasets', datasets)
    <2>1. CASE verdict = "error"
        BY <1>4, <2>1, Aborted DEF CleanedUp
    <2>2. CASE verdict # "error"
        <3>1. /\ datasets' = finish(d, sets, status, "no_loss_detected", flush_error)
              /\ failure' = FlushSignal(b, flush_error)
              /\ status # "failed"
            BY <2>2 DEF CleanedUp
        <3>. HIDE DEF status
        <3>. QED
            BY <1>4, <3>1, Flushed
    <2>. QED
        BY <2>1, <2>2
<1>. HIDE DEF n
<1>. QED
    BY <1>1, <1>2, <1>3, <1>5, EndingActs

(* The session is to be stopped: nothing else happens yet.                  *)
LEMMA StoppingActs ==
    ASSUME Base, NEW b \in Backgrounds, runtimes' = runtimes,
           dispatcher[b].pc = "loop", NEW cmd,
           Unchanged(b, [dispatcher[b] EXCEPT !.pc = "stopping", !.cmd = cmd]),
           UNCHANGED <<manager, datasets, failure>>
    PROVE  Acts(b)
<1>. DEFINE n == [dispatcher[b] EXCEPT !.pc = "stopping", !.cmd = cmd]
<1>. USE DEF Base
<1>1. Thread(n) /\ n.current = dispatcher[b].current /\ n.pc = "stopping"
    BY DEF Threads, Thread
<1>2. dispatcher' = [dispatcher EXCEPT ![b] = n]
    BY DEF Unchanged
<1>. HIDE DEF n
<1>. QED
    BY <1>1, <1>2, Silent, StandsActs

(* Worker OFF is refused, stops the session, or has none to stop.           *)
LEMMA WorkerOffActs ==
    ASSUME Base, NEW b \in Backgrounds, WorkerOff(b)
    PROVE  Acts(b)
<1>. DEFINE d == dispatcher[b]
<1>. USE DEF Base
<1>1. d.pc = "loop" /\ Thread(d) /\ runtimes' = runtimes
    BY DEF WorkerOff, Takes, Threads
<1>2. CASE Answer(inbox[b], FALSE, None) /\ UNCHANGED <<dispatcher, datasets, failure>>
    BY <1>1, <1>2, Answered, RefusedActs
<1>3. CASE /\ Unchanged(b, [d EXCEPT !.pc = "stopping", !.cmd = inbox[b]])
           /\ UNCHANGED <<manager, datasets, failure>>
    BY <1>1, <1>3, StoppingActs
<1>4. ASSUME NEW flush_error \in FlushErrors(d),
             Release(b, d, inbox[b], datasets, None, flush_error)
      PROVE  Acts(b)
    <2>1. flush_error \in BOOLEAN
        BY <1>4 DEF FlushErrors
    <2>2. Ends(datasets, datasets, 0)
        BY Kept
    <2>. QED
        BY <1>1, <1>4, <2>1, <2>2, ReleaseActs
<1>. QED
    BY <1>2, <1>3, <1>4 DEF WorkerOff

(* Cleanup stops the session, or ends the thread that has none.             *)
LEMMA CleanupActs ==
    ASSUME Base, NEW b \in Backgrounds, Cleanup(b)
    PROVE  Acts(b)
<1>. DEFINE d == dispatcher[b]
<1>. USE DEF Base
<1>1. d.pc = "loop" /\ Thread(d) /\ runtimes' = runtimes
    BY DEF Cleanup, Takes, Threads
<1>2. CASE /\ Unchanged(b, [d EXCEPT !.pc = "stopping", !.cmd = inbox[b]])
           /\ UNCHANGED <<manager, datasets, failure>>
    BY <1>1, <1>2, StoppingActs
<1>3. ASSUME NEW flush_error \in FlushErrors(d),
             CleanedUp(b, d, inbox[b], datasets, None, "whole", flush_error)
      PROVE  Acts(b)
    <2>1. flush_error \in BOOLEAN
        BY <1>3 DEF FlushErrors
    <2>2. Ends(datasets, datasets, 0)
        BY Kept
    <2>. QED
        BY <1>1, <1>3, <2>1, <2>2, CleanedUpActs
<1>. QED
    BY <1>2, <1>3 DEF Cleanup

(* An event is absorbed without moving the thread or closing anything.      *)
LEMMA AbsorbKeeps ==
    ASSUME NEW d, Thread(d), NEW e
    PROVE  /\ Thread(Absorb(d, e))
           /\ Absorb(d, e).pc = d.pc /\ Absorb(d, e).current = d.current
           /\ Absorb(d, e).session = d.session
BY DEF Thread, Absorb

(* The stream goes wrong: the open Dataset is failed but stays open for its *)
(* tail, and the Worker is stopped.                                         *)
LEMMA FailingActs ==
    ASSUME Base, NEW b \in Backgrounds, runtimes' = runtimes, UNCHANGED manager,
           dispatcher[b].pc = "loop", NEW n,
           dispatcher' = [dispatcher EXCEPT ![b] = n],
           Thread(n), n.pc = "stopping", n.current = dispatcher[b].current,
           NEW sets, Ends(sets, datasets, 0),
           datasets' = FailCurrent(sets, n.current), failure' = Signal(b)
    PROVE  Acts(b)
<1>. USE DEF Base
<1>1. /\ DOMAIN dispatcher' = Backgrounds /\ dispatcher'[b] = n
      /\ \A c \in Backgrounds \ {b} : dispatcher'[c] = dispatcher[c]
    BY DEF Threads
<1>2. Shelf(sets) /\ n.current \in 0 .. Len(sets)
    BY DEF Threads, Ends
<1>3. Ends(datasets', sets, 0)
    BY <1>2, Failed
<1>4. Ends(datasets', datasets, 0)
    BY <1>3, EndsAfter
<1>5. failure' # None
    BY Signalled
<1>. QED
    BY <1>1, <1>4, <1>5, Silent DEF Acts, Stores, Signals

(* An event in the loop is filed, or fails the run.                         *)
LEMMA LoopEventActs ==
    ASSUME Base, NEW b \in Backgrounds, NEW e, LoopEvent(b, e)
    PROVE  Acts(b)
<1>. DEFINE d == dispatcher[b]
            sets == File(d, e)
            n == [Absorb(d, e) EXCEPT !.pc = "stopping", !.writer = FALSE]
<1>. USE DEF Base
<1>1. d.pc = "loop" /\ Thread(d) /\ runtimes' = runtimes /\ UNCHANGED manager
    BY DEF LoopEvent, Threads
<1>2. Ends(sets, datasets, 0) /\ (Clean(datasets) => Clean(sets))
    BY SampleFiled DEF Threads
<1>3. CASE failure' = Signal(b) /\ datasets' = FailCurrent(sets, d.current) /\ Unchanged(b, n)
    <2>1. Thread(n) /\ n.pc = "stopping" /\ n.current = d.current
        BY <1>1, AbsorbKeeps DEF Thread
    <2>2. dispatcher' = [dispatcher EXCEPT ![b] = n]
        BY <1>3 DEF Unchanged
    <2>. HIDE DEF n, sets
    <2>. QED
        BY <1>1, <1>2, <1>3, <2>1, <2>2, FailingActs
<1>4. CASE datasets' = sets /\ Unchanged(b, Absorb(d, e)) /\ UNCHANGED failure
    <2>1. /\ DOMAIN dispatcher' = Backgrounds /\ dispatcher'[b] = Absorb(d, e)
          /\ \A c \in Backgrounds \ {b} : dispatcher'[c] = dispatcher[c]
        BY <1>4, OneThread
    <2>2. LET m == Absorb(d, e) IN Thread(m) /\ m.pc = "loop" /\ m.current = d.current
        BY <1>1, AbsorbKeeps
    <2>3. Hears
        BY <1>1, Silent
    <2>. HIDE DEF sets
    <2>. QED
        BY <1>1, <1>2, <1>4, <2>1, <2>2, <2>3 DEF Acts, Stores, Signals
<1>. QED
    BY <1>3, <1>4 DEF LoopEvent

(* The process died or the queue overflowed.                                *)
LEMMA LoopErrorActs ==
    ASSUME Base, NEW b \in Backgrounds, LoopError(b)
    PROVE  Acts(b)
<1>. DEFINE d == dispatcher[b]
            n == [d EXCEPT !.pc = "stopping", !.writer = FALSE]
<1>. USE DEF Base
<1>1. /\ d.pc = "loop" /\ Thread(d) /\ runtimes' = runtimes /\ UNCHANGED manager
      /\ dispatcher' = [dispatcher EXCEPT ![b] = n]
      /\ datasets' = FailCurrent(datasets, d.current) /\ failure' = Signal(b)
    BY DEF LoopError, Threads, Unchanged
<1>2. Thread(n) /\ n.pc = "stopping" /\ n.current = d.current
    BY <1>1 DEF Thread
<1>3. Ends(datasets, datasets, 0)
    BY Kept
<1>. HIDE DEF n
<1>. QED
    BY <1>1, <1>2, <1>3, FailingActs

(* The stream ends.                                                         *)
LEMMA LoopDisconnectedActs ==
    ASSUME Base, NEW b \in Backgrounds, LoopDisconnected(b)
    PROVE  Acts(b)
<1>. DEFINE d == dispatcher[b]
            n == [d EXCEPT !.pc = "stopping", !.ended = TRUE]
<1>. USE DEF Base
<1>1. /\ d.pc = "loop" /\ Thread(d) /\ runtimes' = runtimes /\ UNCHANGED manager
      /\ dispatcher' = [dispatcher EXCEPT ![b] = n]
      /\ UNCHANGED <<datasets, failure>>
    BY DEF LoopDisconnected, Threads, Unchanged
<1>2. Thread(n) /\ n.pc = "stopping" /\ n.current = d.current
    BY <1>1 DEF Thread
<1>. HIDE DEF n
<1>. QED
    BY <1>1, <1>2, Silent, StandsActs

(* The tail is filed; the first error in it is remembered.                  *)
LEMMA StopEventActs ==
    ASSUME Base, NEW b \in Backgrounds, NEW e, StopEvent(b, e)
    PROVE  Acts(b)
<1>. DEFINE d == dispatcher[b]
<1>. USE DEF Base
<1>1. /\ d.pc = "stopping" /\ Thread(d) /\ runtimes' = runtimes
      /\ UNCHANGED <<manager, failure>> /\ datasets' = File(d, e)
    BY DEF StopEvent, Threads
<1>2. PICK csv_error \in WriteErrors(d, e) :
          Unchanged(b, [Absorb(d, e) EXCEPT !.event_error = @ \/ EventFails(d, e, csv_error)])
    BY DEF StopEvent
<1>. DEFINE n == [Absorb(d, e) EXCEPT !.event_error = @ \/ EventFails(d, e, csv_error)]
<1>3. Thread(n) /\ n.pc = "stopping" /\ n.current = d.current
    BY <1>1, AbsorbKeeps DEF Thread
<1>4. /\ DOMAIN dispatcher' = Backgrounds /\ dispatcher'[b] = n
      /\ \A c \in Backgrounds \ {b} : dispatcher'[c] = dispatcher[c]
    BY <1>2, OneThread
<1>5. Ends(datasets', datasets, 0) /\ (Clean(datasets) => Clean(datasets'))
    BY <1>1, SampleFiled DEF Threads
<1>. HIDE DEF n
<1>. QED
    BY <1>1, <1>3, <1>4, <1>5, Silent DEF Acts, Stores, Signals

(* stop() returns, and what was asked for, or the end, is dealt with.       *)
LEMMA AfterStopActs ==
    ASSUME Base, NEW b \in Backgrounds, runtimes' = runtimes, dispatcher[b].pc = "stopping",
           NEW verdict, NEW flush_error \in BOOLEAN,
           AfterStop(b, dispatcher[b], verdict, flush_error)
    PROVE  Acts(b)
<1>. DEFINE d == dispatcher[b]
            sets == Judged(b, d, verdict)
            open == [d EXCEPT !.session = FALSE, !.event_error = FALSE]
<1>. USE DEF Base
<1>1. Thread(d) /\ d.current \in 0 .. Len(datasets)
    BY DEF Threads
<1>2. Ends(sets, datasets, 0) /\ (Clean(datasets) => Clean(sets))
    BY Settled
<1>3. Thread(open) /\ open.current = d.current /\ open.session = FALSE /\ open.pc = "stopping"
    BY <1>1 DEF Thread
<1>4. CASE CleanedUp(b, open, d.cmd, sets, inbox[b], verdict, flush_error)
    <2>. HIDE DEF open, sets
    <2>. QED
        BY <1>2, <1>3, <1>4, CleanedUpActs
<1>5. CASE Release(b, open, d.cmd, sets, inbox[b], flush_error)
    <2>. HIDE DEF open, sets
    <2>. QED
        BY <1>2, <1>3, <1>5, ReleaseActs
<1>6. CASE /\ datasets' = finish(d, sets, "completed", "no_loss_detected", flush_error)
           /\ failure' = FlushSignal(b, flush_error)
           /\ Unchanged(b, [Idle(open) EXCEPT !.pc = "loop", !.auto_closed = d.current # 0])
           /\ UNCHANGED manager
    <2>. DEFINE n == [Idle(open) EXCEPT !.pc = "loop", !.auto_closed = d.current # 0]
    <2>1. Thread(n) /\ n.current = 0 /\ n.pc = "loop"
        BY <1>3 DEF Thread, Idle
    <2>2. dispatcher' = [dispatcher EXCEPT ![b] = n]
        BY <1>6 DEF Unchanged
    <2>. HIDE DEF n, sets
    <2>3. Ends(datasets', datasets, d.current) /\ Signals(datasets', datasets)
        BY <1>1, <1>2, <1>6, Flushed
    <2>. QED
        BY <1>6, <2>1, <2>2, <2>3, Silent, EndingActs
<1>7. CASE /\ datasets' = finish(d, FailCurrent(sets, d.current), "failed", "incomplete", FALSE)
           /\ failure' = Signal(b)
           /\ Unchanged(b, [Idle(open) EXCEPT !.cmd = None,
                                !.pc = IF d.cmd = None THEN "loop" ELSE "exited"])
           /\ Answer(d.cmd, FALSE, IF d.cmd = None THEN None ELSE inbox[b])
    <2>. DEFINE n == [Idle(open) EXCEPT !.cmd = None,
                                !.pc = IF d.cmd = None THEN "loop" ELSE "exited"]
    <2>1. Thread(n) /\ n.current = 0 /\ n.session = FALSE /\ n.pc \in {"loop", "exited"}
        BY <1>3 DEF Thread, Idle
    <2>2. dispatcher' = [dispatcher EXCEPT ![b] = n]
        BY <1>7 DEF Unchanged
    <2>3. Hears
        BY <1>7, Answered
    <2>. HIDE DEF n, sets
    <2>4. Ends(datasets', datasets, d.current) /\ Signals(datasets', datasets)
        BY <1>1, <1>2, <1>7, Aborted
    <2>. QED
        BY <2>1, <2>2, <2>3, <2>4, EndingActs
<1>. QED
    BY <1>4, <1>5, <1>6, <1>7 DEF AfterStop

(* Every step of a dispatcher.                                              *)
LEMMA DispatcherActs ==
    ASSUME Base, NEW b \in Backgrounds, Serves(b) \/ Streams(b)
    PROVE  Acts(b)
<1>1. CASE Launch(b) \/ capture_on(b) \/ capture_off(b)
    BY <1>1, LaunchActs, CaptureOnActs, CaptureOffActs
<1>2. CASE WorkerOff(b) \/ Cleanup(b)
    BY <1>2, WorkerOffActs, CleanupActs
<1>3. CASE StopReturns(b)
    <2>. DEFINE d == dispatcher[b]
    <2>1. PICK clean \in BOOLEAN, success \in BOOLEAN, accepted \in BOOLEAN,
               flush_error \in FlushErrors(d) :
              AfterStop(b, d, IF clean
                              THEN Verdict(d, success, accepted,
                                           d.cmd # None /\ d.cmd.action = "cleanup" /\ d.cmd.flag)
                              ELSE "error", flush_error)
        BY <1>3 DEF StopReturns
    <2>2. flush_error \in BOOLEAN
        BY DEF FlushErrors
    <2>3. d.pc = "stopping" /\ runtimes' = runtimes
        BY <1>3 DEF StopReturns
    <2>. QED
        BY <2>1, <2>2, <2>3, AfterStopActs
<1>4. CASE LoopError(b) \/ LoopDisconnected(b)
    BY <1>4, LoopErrorActs, LoopDisconnectedActs
<1>5. ASSUME NEW e \in Events(b), LoopEvent(b, e) \/ StopEvent(b, e)
      PROVE  Acts(b)
    BY <1>5, LoopEventActs, StopEventActs
<1>. QED
    BY <1>1, <1>2, <1>3, <1>4, <1>5 DEF Serves, Streams

-----------------------------------------------------------------------------
(* The inductive invariant.                                                *)

(* What is open belongs to the dispatcher that fills it.                   *)
Owned ==
    /\ \A b \in Backgrounds :
          LET i == dispatcher[b].current
          IN i # 0 => datasets[i].background_id = b /\ datasets[i].finished = FALSE
    /\ \A i \in 1 .. Len(datasets) :
          datasets[i].finished = TRUE \/ \E b \in Backgrounds : dispatcher[b].current = i

(* A thread that the manager no longer lists has exited, or is the one the *)
(* manager is about to join.                                               *)
Joined ==
    /\ \A b \in Backgrounds \ runtimes :
          \/ dispatcher[b].pc \in {"none", "exited"}
          \/ manager.pc \in {"send", "wait", "join"} /\ manager.bg = b
    /\ manager.pc = "wait" /\ manager.action # "cleanup" => manager.bg \in runtimes
    /\ manager.pc \in {"drain", "send"} => manager.action = "cleanup"
    /\ manager.pc = "done" => runtimes = {}

IInv == Base /\ Owned /\ Joined /\ FailureIsSignalled

(* What a dispatcher has done leaves the store to its owners.              *)
LEMMA ActsOwn ==
    ASSUME Base, Owned, NEW b \in Backgrounds, Acts(b)
    PROVE  Shelf(datasets)' /\ Threads' /\ Owned'
<1>. DEFINE was == dispatcher[b].current
            now == dispatcher'[b].current
<1>1. /\ Shelf(datasets) /\ Len(datasets) \in Nat
      /\ \A c \in Backgrounds : dispatcher[c].current \in 0 .. Len(datasets)
    BY LenIsNat DEF Base, Threads
<1>2. Shelf(datasets') /\ Len(datasets') \in Nat
    BY LenIsNat DEF Acts, Stores, Ends, Grows
<1>3. now \in 0 .. Len(datasets') /\ Len(datasets) <= Len(datasets')
    BY <1>1, <1>2 DEF Acts, Stores, Ends, Grows
<1>4. Threads'
    BY <1>1, <1>2, <1>3 DEF Acts, Base, Threads
<1>5. ASSUME NEW c \in Backgrounds, dispatcher'[c].current # 0
      PROVE  LET i == dispatcher'[c].current
             IN datasets'[i].background_id = c /\ datasets'[i].finished = FALSE
    <2>1. CASE c # b
        <3>. DEFINE i == dispatcher[c].current
        <3>1. dispatcher'[c].current = i
            BY <2>1 DEF Acts
        <3>2. /\ i \in 1 .. Len(datasets)
              /\ datasets[i].background_id = c /\ datasets[i].finished = FALSE
            BY <1>1, <1>5, <3>1 DEF Owned
        <3>3. i # was
            BY <1>5, <2>1, <3>1, <3>2 DEF Owned
        <3>. HIDE DEF i
        <3>. QED
            BY <1>1, <3>1, <3>2, <3>3 DEF Acts, Stores, Ends, Grows
    <2>2. CASE c = b
        <3>1. CASE Ends(datasets', datasets, 0) /\ now = was
            <4>1. was \in 1 .. Len(datasets)
                BY <1>1, <1>5, <2>2, <3>1
            <4>2. datasets[was].background_id = b /\ datasets[was].finished = FALSE
                BY <4>1 DEF Owned
            <4>. HIDE DEF was, now
            <4>. QED
                BY <1>1, <1>5, <2>2, <3>1, <4>1, <4>2 DEF Ends, now
        <3>2. CASE Grows(datasets', datasets, b, FALSE) /\ now = Len(datasets')
            BY <2>2, <3>2 DEF Grows
        <3>. QED
            BY <1>5, <2>2, <3>1, <3>2 DEF Acts, Stores
    <2>. QED
        BY <2>1, <2>2
<1>6. ASSUME NEW i \in 1 .. Len(datasets')
      PROVE  datasets'[i].finished = TRUE \/ \E c \in Backgrounds : dispatcher'[c].current = i
    <2>1. CASE i \in 1 .. Len(datasets) /\ datasets[i].finished = TRUE
        BY <2>1 DEF Acts, Stores, Ends, Grows
    <2>2. ASSUME i \in 1 .. Len(datasets), NEW c \in Backgrounds, dispatcher[c].current = i
          PROVE  datasets'[i].finished = TRUE \/ \E e \in Backgrounds : dispatcher'[e].current = i
        <3>1. CASE c # b
            BY <2>2, <3>1 DEF Acts
        <3>2. CASE c = b
            <4>1. was = i /\ i # 0
                BY <1>1, <2>2, <3>2
            <4>. QED
                BY <2>2, <3>2, <4>1 DEF Acts, Stores, Ends
        <3>. QED
            BY <3>1, <3>2
    <2>3. CASE i \notin 1 .. Len(datasets)
        <3>1. i = Len(datasets')
            BY <1>1, <1>2, <1>6, <2>3 DEF Acts, Stores, Ends, Grows
        <3>. QED
            BY <1>6, <2>3, <3>1 DEF Acts, Stores, Ends, Grows
    <2>. QED
        BY <2>1, <2>2, <2>3 DEF Owned
<1>. QED
    BY <1>2, <1>4, <1>5, <1>6 DEF Owned

(* A dispatcher's step preserves the invariant.                            *)
LEMMA ActsKeep ==
    ASSUME IInv, NEW b \in Backgrounds, Acts(b)
    PROVE  IInv'
<1>1. Base' /\ Owned'
    <2>1. ManagerShape'
        BY DEF Acts, Hears
    <2>. QED
        BY <2>1, ActsOwn DEF IInv, Base
<1>2. Joined'
    <2>1. ASSUME NEW c \in Backgrounds \ runtimes'
          PROVE  \/ dispatcher'[c].pc \in {"none", "exited"}
                 \/ manager'.pc \in {"send", "wait", "join"} /\ manager'.bg = c
        <3>1. CASE c = b
            BY <2>1, <3>1 DEF IInv, Joined, Acts, Hears
        <3>2. CASE c # b
            BY <2>1, <3>2 DEF IInv, Joined, Acts, Hears
        <3>. QED
            BY <3>1, <3>2
    <2>. QED
        BY <2>1 DEF IInv, Joined, Acts, Hears
<1>3. FailureIsSignalled'
    BY DEF IInv, FailureIsSignalled, Acts, Signals, Clean
<1>. QED
    BY <1>1, <1>2, <1>3 DEF IInv

(* The initial states.                                                     *)
LEMMA InitInv ==
    ASSUME Init
    PROVE  IInv
<1>1. Shelf(datasets) /\ Len(datasets) = 0
    <2>1. datasets \in Seq({}) /\ Len(datasets) = 0
        BY DEF Init
    <2>. QED
        BY <2>1 DEF Shelf
<1>2. ManagerShape /\ manager.pc = "idle"
    BY DEF Init, ManagerShape
<1>3. /\ DOMAIN dispatcher = Backgrounds
      /\ \A b \in Backgrounds :
            /\ Thread(dispatcher[b]) /\ dispatcher[b].pc = "none"
            /\ dispatcher[b].current = 0 /\ dispatcher[b].session = FALSE
    BY DEF Init, NoDispatcher, Thread
<1>4. Threads
    BY <1>1, <1>3 DEF Threads
<1>5. Owned
    BY <1>1, <1>3 DEF Owned
<1>6. Joined
    BY <1>2, <1>3 DEF Joined
<1>7. FailureIsSignalled
    BY <1>1 DEF FailureIsSignalled
<1>. QED
    BY <1>1, <1>2, <1>4, <1>5, <1>6, <1>7 DEF IInv, Base

(* What the manager does leaves the store, the threads' places and the     *)
(* failure as they are.                                                    *)
LEMMA ManagerKeeps ==
    ASSUME IInv, UNCHANGED <<datasets, failure>>, ManagerShape', Joined',
           DOMAIN dispatcher' = Backgrounds,
           \A b \in Backgrounds :
              /\ Thread(dispatcher'[b])
              /\ dispatcher'[b].current = dispatcher[b].current
              /\ dispatcher'[b].pc \in {"none", "starting", "exited"} =>
                    dispatcher'[b].current = 0 /\ dispatcher'[b].session = FALSE
    PROVE  IInv'
<1>1. Base'
    BY DEF IInv, Base, Threads
<1>2. Owned'
    BY DEF IInv, Owned
<1>3. FailureIsSignalled'
    BY DEF IInv, FailureIsSignalled
<1>. QED
    BY <1>1, <1>2, <1>3 DEF IInv

(* A step that leaves the dispatchers alone.                               *)
LEMMA ManagerAloneKeeps ==
    ASSUME IInv, UNCHANGED <<dispatcher, datasets, failure>>, ManagerShape', Joined'
    PROVE  IInv'
BY ManagerKeeps DEF IInv, Base, Threads

(* Worker ON makes a thread of a background that has none.                 *)
LEMMA WorkerOnKeeps ==
    ASSUME IInv, NEW b \in Backgrounds, NEW capture \in BOOLEAN, WorkerOn(b, capture)
    PROVE  IInv'
<1>. DEFINE n == [NoDispatcher EXCEPT !.pc = "starting", !.kind = Kind(b), !.run = manager.acts + 1,
                     !.cmd = [action |-> "worker-on", flag |-> capture, heard |-> TRUE]]
<1>1. /\ ManagerShape /\ manager.pc = "idle" /\ b \notin runtimes /\ runtimes' = runtimes \cup {b}
      /\ dispatcher' = [dispatcher EXCEPT ![b] = n]
      /\ UNCHANGED <<datasets, failure>>
    BY DEF IInv, Base, WorkerOn, Idling
<1>2. ManagerShape' /\ manager'.pc = "wait" /\ manager'.bg = b /\ manager'.action = "worker-on"
    BY <1>1 DEF WorkerOn, Begin, ManagerShape
<1>3. Thread(n) /\ n.pc = "starting" /\ n.current = 0 /\ n.session = FALSE
    BY DEF NoDispatcher, Thread
<1>. HIDE DEF n
<1>4. dispatcher[b].pc \in {"none", "exited"} /\ dispatcher[b].current = 0
    BY <1>1 DEF IInv, Joined, Base, Threads
<1>5. /\ DOMAIN dispatcher' = Backgrounds /\ dispatcher'[b] = n
      /\ \A c \in Backgrounds \ {b} : dispatcher'[c] = dispatcher[c]
    BY <1>1 DEF IInv, Base, Threads
<1>6. \A c \in Backgrounds :
          /\ Thread(dispatcher'[c])
          /\ dispatcher'[c].current = dispatcher[c].current
          /\ dispatcher'[c].pc \in {"none", "starting", "exited"} =>
                dispatcher'[c].current = 0 /\ dispatcher'[c].session = FALSE
    BY <1>3, <1>4, <1>5 DEF IInv, Base, Threads
<1>7. Joined'
    BY <1>1, <1>2, <1>5 DEF IInv, Joined
<1>. QED
    BY <1>1, <1>2, <1>5, <1>6, <1>7, ManagerKeeps

(* A timeout only makes a command unheard.                                 *)
LEMMA ReplyTimeoutKeeps ==
    ASSUME IInv, ReplyTimeout
    PROVE  IInv'
<1>1. /\ ManagerShape /\ manager.pc = "wait" /\ UNCHANGED <<runtimes, datasets, failure>>
      /\ DOMAIN dispatcher = Backgrounds
    BY DEF IInv, Base, Threads, ReplyTimeout
<1>2. /\ ManagerShape' /\ manager'.bg = manager.bg /\ manager'.action = manager.action
      /\ manager'.pc = IF manager.action = "cleanup" THEN "join" ELSE "idle"
    BY <1>1 DEF ReplyTimeout, ManagerShape
<1>3. \/ dispatcher' = dispatcher
      \/ dispatcher' = [dispatcher EXCEPT ![manager.bg].cmd.heard = FALSE]
    BY DEF ReplyTimeout
<1>4. /\ DOMAIN dispatcher' = Backgrounds
      /\ \A c \in Backgrounds :
            \/ dispatcher'[c] = dispatcher[c]
            \/ \E cmd : dispatcher'[c] = [dispatcher[c] EXCEPT !.cmd = cmd]
    BY <1>1, <1>3
<1>5. \A c \in Backgrounds :
          /\ Thread(dispatcher'[c])
          /\ dispatcher'[c].current = dispatcher[c].current
          /\ dispatcher'[c].pc = dispatcher[c].pc /\ dispatcher'[c].session = dispatcher[c].session
    BY <1>4 DEF IInv, Base, Threads, Thread
<1>6. Joined'
    BY <1>1, <1>2, <1>5 DEF IInv, Joined
<1>. QED
    BY <1>1, <1>2, <1>4, <1>5, <1>6, ManagerKeeps DEF IInv, Base, Threads

(* The manager asks, hears, waits for a thread, and cleans up.             *)
LEMMA ManagerActs ==
    ASSUME IInv, Manager
    PROVE  IInv'
<1>. USE DEF ManagerShape
<1>1. ASSUME NEW b \in Backgrounds, NEW action \in Actions, NEW flag \in BOOLEAN,
             Ask(b, action, flag)
      PROVE  IInv'
    <2>1. ManagerShape' /\ manager'.pc = "wait" /\ manager'.bg = b
        BY <1>1 DEF Ask, Begin, IInv, Base
    <2>2. Joined'
        BY <1>1, <2>1 DEF Ask, Idling, IInv, Joined
    <2>. QED
        BY <1>1, <2>1, <2>2, ManagerAloneKeeps DEF Ask
<1>2. CASE Receive
    <2>. DEFINE released == manager.action = "worker-off" /\ manager.reply = "ok"
    <2>1. /\ ManagerShape' /\ manager'.bg = manager.bg /\ manager'.action = manager.action
          /\ manager'.pc = IF released THEN "join" ELSE "idle"
        BY <1>2 DEF Receive, IInv, Base
    <2>2. runtimes' = IF released THEN runtimes \ {manager.bg} ELSE runtimes
        BY <1>2 DEF Receive
    <2>3. manager.pc = "wait" /\ manager.bg \in runtimes
        BY <1>2 DEF Receive, IInv, Joined
    <2>4. dispatcher' = dispatcher
        BY <1>2 DEF Receive
    <2>5. Joined'
        BY <2>1, <2>2, <2>3, <2>4 DEF IInv, Joined
    <2>. QED
        BY <1>2, <2>1, <2>5, ManagerAloneKeeps DEF Receive
<1>3. ASSUME NEW stopped \in BOOLEAN, BeginCleanup(stopped)
      PROVE  IInv'
    <2>1. ManagerShape' /\ manager'.pc = "drain" /\ manager'.action = "cleanup"
        BY <1>3 DEF BeginCleanup, IInv, Base
    <2>2. Joined'
        BY <1>3, <2>1 DEF BeginCleanup, IInv, Joined
    <2>. QED
        BY <1>3, <2>1, <2>2, ManagerAloneKeeps DEF BeginCleanup
<1>4. ASSUME NEW b \in Backgrounds, Drain(b)
      PROVE  IInv'
    <2>1. /\ ManagerShape' /\ manager'.pc = "send" /\ manager'.bg = b
          /\ manager'.action = manager.action
        BY <1>4 DEF Drain, IInv, Base
    <2>2. Joined'
        BY <1>4, <2>1 DEF Drain, IInv, Joined
    <2>. QED
        BY <1>4, <2>1, <2>2, ManagerAloneKeeps DEF Drain
<1>5. CASE SendCleanup \/ CleanupAnswered
    <2>1. /\ ManagerShape' /\ manager'.bg = manager.bg /\ manager'.action = manager.action
          /\ manager.action = "cleanup" /\ manager.pc \in {"send", "wait"}
          /\ manager'.pc \in {"join", "wait"}
        BY <1>5 DEF SendCleanup, CleanupAnswered, IInv, Base, Joined
    <2>2. UNCHANGED <<runtimes, dispatcher, datasets, failure>>
        BY <1>5 DEF SendCleanup, CleanupAnswered
    <2>3. Joined'
        BY <2>1, <2>2 DEF IInv, Joined
    <2>. QED
        BY <2>1, <2>2, <2>3, ManagerAloneKeeps
<1>6. CASE Join
    <2>1. /\ ManagerShape' /\ manager'.action = manager.action
          /\ manager'.pc = IF manager.action = "cleanup" THEN "drain" ELSE "idle"
        BY <1>6 DEF Join, IInv, Base
    <2>2. /\ manager.pc = "join" /\ dispatcher[manager.bg].pc = "exited"
          /\ UNCHANGED <<runtimes, dispatcher, datasets, failure>>
        BY <1>6 DEF Join
    <2>3. Joined'
        BY <2>1, <2>2 DEF IInv, Joined
    <2>. QED
        BY <2>1, <2>2, <2>3, ManagerAloneKeeps
<1>7. CASE CleanupReturns
    <2>1. ManagerShape' /\ manager'.pc = "done"
        BY <1>7 DEF CleanupReturns, IInv, Base
    <2>2. Joined'
        BY <1>7, <2>1 DEF CleanupReturns, IInv, Joined
    <2>. QED
        BY <1>7, <2>1, <2>2, ManagerAloneKeeps DEF CleanupReturns
<1>. QED
    BY <1>1, <1>2, <1>3, <1>4, <1>5, <1>6, <1>7, WorkerOnKeeps, ReplyTimeoutKeeps DEF Manager

(* Every step preserves the invariant.                                     *)
LEMMA NextInv ==
    ASSUME IInv, [Next]_vars
    PROVE  IInv'
<1>1. CASE Manager
    BY <1>1, ManagerActs
<1>2. CASE FailsOutside
    <2>1. failure' # None
        BY <1>2, ConstantsAssumption DEF FailsOutside
    <2>2. UNCHANGED <<manager, runtimes, dispatcher, datasets>>
        BY <1>2 DEF FailsOutside
    <2>. QED
        BY <2>1, <2>2 DEF IInv, Base, ManagerShape, Threads, Owned, Joined, FailureIsSignalled
<1>3. ASSUME NEW b \in Backgrounds, Serves(b) \/ Streams(b)
      PROVE  IInv'
    BY <1>3, DispatcherActs, ActsKeep DEF IInv
<1>4. CASE UNCHANGED vars
    BY <1>4 DEF vars, IInv, Base, ManagerShape, Threads, Owned, Joined, FailureIsSignalled
<1>. QED
    BY <1>1, <1>2, <1>3, <1>4 DEF Next, Over

(* IInv is an invariant of every run.                                      *)
LEMMA Inductive == Spec => []IInv
<1>1. Init => IInv
    BY InitInv
<1>2. IInv /\ [Next]_vars => IInv'
    BY NextInv
<1>. QED
    BY <1>1, <1>2, PTL DEF Spec

-----------------------------------------------------------------------------
(* The first failure reaches the workflow: whenever a Dataset has failed,  *)
(* whatever failed it (an event, a flush, a start, a stop, cleanup), the   *)
(* shared RunFailure holds a cause.                                        *)
THEOREM FailureReachesTheWorkflow == Spec => []FailureIsSignalled
<1>1. IInv => FailureIsSignalled
    BY DEF IInv
<1>. QED
    BY <1>1, Inductive, PTL

(* A Dataset is unfinished exactly while the dispatcher of its background  *)
(* fills it: none is orphaned by a step, an error or an exit.              *)
THEOREM UnfinishedIsFilled == Spec => []OpenIsOwned
<1>1. IInv => OpenIsOwned
    <2>. SUFFICES ASSUME IInv, NEW i \in 1 .. Len(datasets)
                  PROVE  ~datasets[i].finished
                            <=> \E b \in Backgrounds : /\ dispatcher[b].current = i
                                                       /\ datasets[i].background_id = b
        BY DEF OpenIsOwned
    <2>1. i # 0
        BY LenIsNat DEF IInv, Base
    <2>. QED
        BY <2>1 DEF IInv, Owned
<1>. QED
    BY <1>1, Inductive, PTL

(* When cleanup_after_workflow has returned, no dispatcher runs, no Worker *)
(* session is left and every Dataset is finished, however many steps timed *)
(* out or failed before.                                                   *)
THEOREM CleanupLeavesNothing == Spec => []CleanEnd
<1>1. IInv => CleanEnd
    <2>. SUFFICES ASSUME IInv, manager.pc = "done"
                  PROVE  /\ \A b \in Backgrounds :
                               dispatcher[b].pc \in {"none", "exited"} /\ ~dispatcher[b].session
                         /\ \A i \in 1 .. Len(datasets) : datasets[i].finished
        BY DEF CleanEnd
    <2>1. \A b \in Backgrounds :
              /\ dispatcher[b].pc \in {"none", "exited"}
              /\ dispatcher[b].current = 0 /\ dispatcher[b].session = FALSE
        BY DEF IInv, Joined, Base, Threads
    <2>2. \A i \in 1 .. Len(datasets) : i # 0
        BY LenIsNat DEF IInv, Base
    <2>. QED
        BY <2>1, <2>2 DEF IInv, Owned
<1>. QED
    BY <1>1, Inductive, PTL

-----------------------------------------------------------------------------
(***************************************************************************)
(* The Datasets: what a Dataset says of itself is true at every moment,    *)
(* and a finished one is not written again.                                *)
(*                                                                         *)
(* A Dataset is honest because of the run of the Worker that filled it, so *)
(* the invariant says, background by background, how a Dataset, the        *)
(* dispatcher that fills it and the Worker behind it keep in step (Ledger),*)
(* and that the manager waits for a command that is still somewhere        *)
(* (Awaited).  A dispatcher's step touches one background: each lemma on   *)
(* an action re-establishes that ledger, and ElsewhereKeeps says once why  *)
(* the others are as they were.                                            *)
(***************************************************************************)

(* The samples are those that the Worker's run ended with at total.        *)
Trails(samples, total) ==
    \A k \in 1 .. Len(samples) : samples[k] = (total - Len(samples)) + k

(* A Dataset that its dispatcher fills.                                    *)
Filling(set, d) ==
    /\ set.status \in {"recording", "failed"}
    /\ set.status = "failed" \/ d.event_error \/ Trails(set.samples, d.total)
    /\ \/ d.session /\ set.run = d.run
       \/ ~d.session /\ d.summary = None

(* One that it fills no more: what the run of a live Worker closed is      *)
(* failed, or completed and not yet judged.                                *)
Filled(set, d) ==
    /\ set.status \in {"completed", "incomplete", "failed"}
    /\ set.status # "failed" => Consecutive(set.samples)
    /\ d.pc = "starting" => set.run # d.run
    /\ d.session /\ set.run = d.run /\ set.status # "failed"
          => set.status = "completed" /\ set.quality = "unknown"

(* A Dataset of background b: acts bounds the runs, checked are those whose *)
(* termination checks passed.                                              *)
Entry(set, checked, acts) ==
    /\ set.samples \in Seq(Nat)
    /\ set.run \in 0 .. acts
    /\ set.quality = "no_loss_detected" => <<set.background_id, set.run>> \in checked

(* The Datasets of background b.  What is open was filled under d, what is *)
(* not is closed for n: in every state both are b's dispatcher.            *)
Books(sets, b, d, n, checked, acts) ==
    \A i \in 1 .. Len(sets) : sets[i].background_id = b =>
        /\ Entry(sets[i], checked, acts)
        /\ d.current = i => Filling(sets[i], d)
        /\ d.current # i => Filled(sets[i], n)

(* What a command may look like.                                           *)
Commanded(c) == c = None \/ DOMAIN c = {"action", "flag", "heard"}

(* A dispatcher and its Worker, by the thread's place.                     *)
Placed(d, s, kind, acts) ==
    /\ d.pc # "none" => d.kind = kind /\ d.run \in 1 .. acts
    /\ d.pc = "starting" =>
          /\ d.total = 0 /\ s = NewSource /\ d.summary = None
          /\ ~d.event_error /\ ~d.auto_closed
    /\ d.pc = "loop" => d.cmd = None
    /\ d.pc = "stopping" => d.session
    /\ d.event_error => d.pc = "stopping"
    /\ d.current # 0 => ~d.auto_closed
    /\ d.pc = "stopping" /\ d.cmd # None /\ d.cmd.action # "cleanup" /\ d.cmd.flag
          => d.current # 0 \/ d.auto_closed

(* A Worker's stream and what its dispatcher has made of it.  A numbered   *)
(* source that is being stopped by a command, or not at all, has lost      *)
(* nothing that its dispatcher does not know of.                           *)
InStep(d, s, limit) ==
    /\ d.total \in Nat /\ s.index \in Nat
    /\ d.summary # None => d.stream_state = "ended" /\ s.phase \in {"summed", "closed"}
    /\ s.phase \in {"ended", "summed"} => d.stream_state = "ended"
    /\ d.session /\ d.kind # "serial" /\ ~d.event_error /\ ~(d.pc = "stopping" /\ d.cmd = None)
          => s.index = d.total /\ ~s.lost
    /\ d.session /\ d.kind = "scopes" /\ d.summary # None =>
          /\ d.summary.captured = s.index
          /\ d.summary.data_integrity = "incomplete" /\ limit > 0 => s.lost \/ s.index < limit

(* Something of b's that is to be acknowledged yet.                        *)
Due(d) == d.current # 0 \/ d.auto_closed

Acknowledged(b) ==
    /\ acks[b] \in Nat
    /\ acks[b] + (IF Due(dispatcher[b]) THEN 1 ELSE 0) <= Cardinality(Captures(b))

(* The ledger of one background.                                           *)
Ledger(b) ==
    /\ Books(datasets, b, dispatcher[b], dispatcher[b], verified, manager.acts)
    /\ Placed(dispatcher[b], source[b], Kind(b), manager.acts)
    /\ InStep(dispatcher[b], source[b], Limit)
    /\ Commanded(inbox[b]) /\ Commanded(dispatcher[b].cmd)
    /\ Acknowledged(b)

(* The command the manager waits for is still queued or in hand.           *)
Pending(c) == c # None /\ c.heard

Awaited ==
    /\ manager.pc \in {"send", "wait", "join"} => manager.bg \in Backgrounds
    /\ manager.pc = "wait" /\ manager.reply = None
          => Pending(inbox[manager.bg]) \/ Pending(dispatcher[manager.bg].cmd)

(* What the state is made of, as far as the ledgers need it.               *)
Sorts ==
    /\ manager.config \in Configs /\ manager.acts \in Nat /\ manager.stopped \in BOOLEAN
    /\ DOMAIN inbox = Backgrounds /\ DOMAIN source = Backgrounds /\ DOMAIN acks = Backgrounds
    /\ \A b \in Backgrounds : DOMAIN source[b] = {"phase", "index", "lost"}
    /\ \A i \in 1 .. Len(datasets) : datasets[i].background_id \in Backgrounds

DInv == IInv /\ Sorts /\ Awaited /\ \A b \in Backgrounds : Ledger(b)
-----------------------------------------------------------------------------
(* Samples.                                                                *)

(* The next sample in turn leaves the samples in step.                     *)
LEMMA TrailsOn ==
    ASSUME NEW s \in Seq(Nat), NEW t \in Nat, Trails(s, t)
    PROVE  Trails(Append(s, t + 1), t + 1)
<1>. DEFINE new == Append(s, t + 1)
<1>1. /\ Len(new) = Len(s) + 1 /\ Len(s) \in Nat
      /\ new[Len(s) + 1] = t + 1 /\ \A k \in 1 .. Len(s) : new[k] = s[k]
    OBVIOUS
<1>. HIDE DEF new
<1>2. ASSUME NEW k \in 1 .. Len(new)
      PROVE  new[k] = ((t + 1) - Len(new)) + k
    <2>1. CASE k \in 1 .. Len(s)
        <3>1. new[k] = (t - Len(s)) + k
            BY <1>1, <2>1 DEF Trails
        <3>. QED
            BY <1>1, <3>1
    <2>2. CASE k = Len(s) + 1
        BY <1>1, <2>2
    <2>. QED
        BY <1>1, <1>2, <2>1, <2>2
<1>3. Trails(new, t + 1)
    BY <1>2 DEF Trails
<1>. QED
    BY <1>3 DEF new

(* Samples in step have no gap.                                            *)
LEMMA TrailsWhole ==
    ASSUME NEW s \in Seq(Nat), NEW t \in Nat, Trails(s, t)
    PROVE  Consecutive(s)
<1>1. Len(s) \in Nat
    OBVIOUS
<1>2. ASSUME NEW k \in 1 .. Len(s)
      PROVE  s[k] = s[1] + k - 1
    <2>1. s[k] = (t - Len(s)) + k /\ s[1] = (t - Len(s)) + 1
        BY <1>1, <1>2 DEF Trails
    <2>. QED
        BY <1>1, <2>1
<1>. QED
    BY <1>2 DEF Consecutive

(* Nothing yet.                                                            *)
LEMMA TrailsNothing ==
    ASSUME NEW t
    PROVE  Trails(<<>>, t)
BY DEF Trails

-----------------------------------------------------------------------------
(* The books of one background.                                            *)

(* A dispatcher that goes on with its run.                                 *)
GoesOnAs(n, d) == n.run = d.run /\ (n.session => d.session) /\ n.pc # "starting"

(* What is closed stays closed.                                            *)
LEMMA StillFilled ==
    ASSUME NEW set, NEW d, NEW n, Filled(set, d), GoesOnAs(n, d)
    PROVE  Filled(set, n)
BY DEF Filled, GoesOnAs

(* What is closed stays closed for a thread that goes on.                  *)
LEMMA BooksFor ==
    ASSUME NEW sets, NEW b, NEW d, NEW n, NEW checked, NEW acts,
           Books(sets, b, d, d, checked, acts), GoesOnAs(n, d)
    PROVE  Books(sets, b, d, n, checked, acts)
BY StillFilled DEF Books

(* The fields that what is open depends on.                                *)
FillsAs(n, d) ==
    /\ n.current = d.current /\ n.session = d.session /\ n.summary = d.summary
    /\ n.event_error = d.event_error /\ n.total = d.total

(* A step of the thread that the books do not see.                         *)
LEMMA BooksSame ==
    ASSUME NEW sets, NEW b, NEW d, NEW n, NEW checked, NEW acts,
           Books(sets, b, d, d, checked, acts), GoesOnAs(n, d), FillsAs(n, d)
    PROVE  Books(sets, b, n, n, checked, acts)
<1>1. Books(sets, b, d, n, checked, acts)
    BY BooksFor
<1>2. \A set : Filling(set, d) => Filling(set, n)
    BY DEF Filling, GoesOnAs, FillsAs
<1>. QED
    BY <1>1, <1>2 DEF Books, FillsAs

(* More runs have passed their checks, or have been begun.                 *)
LEMMA BooksGrow ==
    ASSUME NEW sets, NEW b, NEW d, NEW n, NEW checked, NEW more, checked \subseteq more,
           NEW acts \in Nat, NEW later \in Nat, acts <= later,
           Books(sets, b, d, n, checked, acts)
    PROVE  Books(sets, b, d, n, more, later)
BY DEF Books, Entry

(* One Dataset of b is written, and others are not.                        *)
LEMMA BooksWrite ==
    ASSUME NEW sets, Shelf(sets), NEW b, NEW d, NEW n, NEW checked, NEW acts,
           Books(sets, b, d, n, checked, acts),
           NEW c \in 1 .. Len(sets), c = d.current, NEW set, Shape(set),
           set.background_id = sets[c].background_id,
           NEW m, m.current \in {0, c},
           set.background_id = b => /\ Entry(set, checked, acts)
                                    /\ m.current = c => Filling(set, m)
                                    /\ m.current = 0 => Filled(set, n)
    PROVE  Books([sets EXCEPT ![c] = set], b, m, n, checked, acts)
<1>. DEFINE new == [sets EXCEPT ![c] = set]
<1>1. /\ Len(new) = Len(sets)
      /\ \A k \in 1 .. Len(sets) : new[k] = IF k = c THEN set ELSE sets[k]
    BY Written
<1>. HIDE DEF new
<1>2. Len(sets) \in Nat
    BY LenIsNat
<1>3. ASSUME NEW i \in 1 .. Len(new), new[i].background_id = b
      PROVE  /\ Entry(new[i], checked, acts)
             /\ m.current = i => Filling(new[i], m)
             /\ m.current # i => Filled(new[i], n)
    <2>1. CASE i = c
        <3>1. new[i] = set
            BY <1>1, <1>3, <2>1
        <3>2. m.current # i => m.current = 0
            BY <2>1
        <3>. QED
            BY <1>3, <2>1, <3>1, <3>2
    <2>2. CASE i # c
        <3>1. new[i] = sets[i] /\ i \in 1 .. Len(sets)
            BY <1>1, <1>3, <2>2
        <3>2. m.current # i
            BY <1>2, <2>2, <3>1
        <3>. QED
            BY <1>3, <2>2, <3>1, <3>2 DEF Books
    <2>. QED
        BY <2>1, <2>2
<1>4. Books(new, b, m, n, checked, acts)
    BY <1>3 DEF Books
<1>. QED
    BY <1>4 DEF new

(* new is the store sets and one more Dataset.                             *)
Adds(new, sets, set) ==
    /\ Len(sets) \in Nat /\ Len(new) = Len(sets) + 1
    /\ new[Len(new)] = set /\ \A i \in 1 .. Len(sets) : new[i] = sets[i]

(* Dataset::new pushed on the store: one Dataset more, the others as before.*)
LEMMA AppendAdds ==
    ASSUME NEW sets, Shelf(sets), NEW set
    PROVE  Adds(Append(sets, set), sets, set)
<1>. PICK S : sets \in Seq(S)
    BY DEF Shelf
<1>. DEFINE new == Append(sets, set)
<1>1. /\ Len(new) = Len(sets) + 1 /\ Len(sets) \in Nat
      /\ new[Len(sets) + 1] = set /\ \A i \in 1 .. Len(sets) : new[i] = sets[i]
    OBVIOUS
<1>. QED
    BY <1>1 DEF Adds

(* One Dataset of b is pushed.                                             *)
LEMMA BooksPush ==
    ASSUME NEW sets, NEW b, NEW d, NEW n, NEW checked, NEW acts,
           Books(sets, b, d, n, checked, acts), d.current = 0,
           NEW set, Entry(set, checked, acts), NEW new, Adds(new, sets, set),
           NEW m, m.current \in {0, Len(new)},
           m.current # 0 => Filling(set, m),
           m.current = 0 => Filled(set, n)
    PROVE  Books(new, b, m, n, checked, acts)
<1>2. ASSUME NEW i \in 1 .. Len(new), new[i].background_id = b
      PROVE  /\ Entry(new[i], checked, acts)
             /\ m.current = i => Filling(new[i], m)
             /\ m.current # i => Filled(new[i], n)
    <2>1. CASE i = Len(new)
        <3>1. new[i] = set
            BY <2>1 DEF Adds
        <3>2. (m.current = i => m.current # 0) /\ (m.current # i => m.current = 0)
            BY <2>1 DEF Adds
        <3>. QED
            BY <3>1, <3>2
    <2>2. CASE i # Len(new)
        <3>1. i \in 1 .. Len(sets) /\ new[i] = sets[i] /\ d.current # i /\ m.current # i
            BY <1>2, <2>2 DEF Adds
        <3>. QED
            BY <1>2, <3>1 DEF Books
    <2>. QED
        BY <2>1, <2>2
<1>. QED
    BY <1>2 DEF Books

(* Nothing is open, before or after.                                       *)
LEMMA BooksRest ==
    ASSUME NEW sets, NEW b, NEW d, NEW n, NEW checked, NEW acts,
           Books(sets, b, d, n, checked, acts), d.current = 0, n.current = 0,
           Len(sets) \in Nat
    PROVE  Books(sets, b, n, n, checked, acts)
<1>1. \A i \in 1 .. Len(sets) : d.current # i /\ n.current # i
    OBVIOUS
<1>. QED
    BY <1>1 DEF Books

(* finish makes what is open one of the closed, whatever its flush does:   *)
(* what was filled in step is whole, and a claim of no loss rests on the   *)
(* checks of the run that filled it.  e is the dispatcher as finish sees   *)
(* it, n the one it leaves.                                                *)
LEMMA BooksClose ==
    ASSUME NEW sets, Shelf(sets), NEW b, NEW d, NEW e, NEW n, NEW checked, NEW acts,
           Books(sets, b, d, n, checked, acts),
           d.current \in 0 .. Len(sets), d.total \in Nat,
           e.current = d.current, e.summary = d.summary, e.kind = d.kind,
           NEW status \in {"completed", "incomplete", "failed"},
           NEW quality, NEW flush_error \in BOOLEAN,
           d.current # 0 /\ sets[d.current].status # "failed" =>
              sets[d.current].background_id = b /\ ~d.event_error,
           quality = "no_loss_detected" /\ d.session => <<b, d.run>> \in checked,
           n.current = 0, GoesOnAs(n, d),
           n.session => status = "completed" /\ quality = "unknown"
    PROVE  Books(finish(e, sets, status, quality, flush_error), b, n, n, checked, acts)
<1>. DEFINE c == d.current
            old == sets[c]
            set == Closed(old, status, FinishQuality(e, quality), flush_error)
            new == finish(e, sets, status, quality, flush_error)
<1>1. CASE c = 0
    <2>1. new = sets
        BY <1>1 DEF finish
    <2>2. \A i \in 1 .. Len(sets) : n.current # i /\ d.current # i
        BY <1>1, LenIsNat
    <2>. QED
        BY <2>1, <2>2 DEF Books
<1>2. CASE c # 0
    <2>1. c \in 1 .. Len(sets)
        BY <1>2, LenIsNat
    <2>2. Shape(old)
        BY <2>1 DEF Shelf
    <2>3. /\ Shape(set) /\ set.background_id = old.background_id
          /\ set.samples = old.samples /\ set.run = old.run
        BY <2>2 DEF Shape, Closed
    <2>4. new = [sets EXCEPT ![c] = set]
        BY <1>2 DEF finish
    <2>5. ASSUME set.background_id = b
          PROVE  Entry(set, checked, acts) /\ Filled(set, n)
        <3>1. Entry(old, checked, acts) /\ Filling(old, d)
            BY <2>1, <2>3, <2>5 DEF Books
        <3>2. CASE old.status = "failed"
            <4>1. set.status = "failed" /\ set.quality = old.quality
                BY <2>2, <3>2 DEF Shape, Closed
            <4>2. Entry(set, checked, acts)
                BY <2>3, <3>1, <4>1 DEF Entry
            <4>3. Filled(set, n)
                BY <4>1 DEF Filled, GoesOnAs
            <4>. QED
                BY <4>2, <4>3
        <3>3. CASE old.status # "failed"
            <4>1. /\ set.quality = FinishQuality(e, quality)
                  /\ set.status \in {status, "failed"}
                BY <2>2, <3>3 DEF Shape, Closed
            <4>2. set.quality = "no_loss_detected" =>
                      quality = "no_loss_detected" /\ d.summary # None
                BY <4>1 DEF FinishQuality
            <4>3. d.summary # None => d.session /\ old.run = d.run
                BY <3>1 DEF Filling
            <4>4. Entry(set, checked, acts)
                BY <2>3, <2>5, <3>1, <4>2, <4>3 DEF Entry
            <4>5. Consecutive(set.samples)
                BY <1>2, <2>3, <3>1, <3>3, TrailsWhole DEF Filling, Entry
            <4>6. quality = "unknown" => set.quality = "unknown"
                BY <4>1 DEF FinishQuality
            <4>7. Filled(set, n)
                BY <4>1, <4>5, <4>6 DEF Filled, GoesOnAs
            <4>. QED
                BY <4>4, <4>7
        <3>. QED
            BY <3>2, <3>3
    <2>6. \A i \in {0, c} : i = n.current => i = 0
        OBVIOUS
    <2>7. c \in 1 .. Len(sets) /\ c = d.current
        BY <2>1
    <2>8. c # 0
        BY <1>2
    <2>. HIDE DEF set, new, c
    <2>9. Books([sets EXCEPT ![c] = set], b, n, n, checked, acts)
        BY <2>3, <2>5, <2>7, <2>8, BooksWrite DEF old
    <2>. QED
        BY <2>4, <2>9 DEF new
<1>. QED
    BY <1>1, <1>2

(* What is open is failed in place, for a dispatcher of the same run.      *)
LEMMA BooksFail ==
    ASSUME NEW sets, Shelf(sets), NEW b, NEW d, NEW m, NEW n, NEW checked, NEW acts,
           Books(sets, b, d, n, checked, acts), d.current \in 0 .. Len(sets),
           m.current = d.current, m.run = d.run, m.session = d.session,
           m.session \/ m.summary = d.summary
    PROVE  LET new == FailCurrent(sets, d.current)
           IN /\ Books(new, b, m, n, checked, acts)
              /\ d.current # 0 => new[d.current].status = "failed"
<1>. DEFINE c == d.current
            set == [sets[c] EXCEPT !.status = "failed", !.quality = "incomplete"]
            new == FailCurrent(sets, c)
<1>1. CASE c = 0
    <2>1. new = sets
        BY <1>1 DEF FailCurrent
    <2>2. \A i \in 1 .. Len(sets) : m.current # i /\ d.current # i
        BY <1>1, LenIsNat
    <2>. QED
        BY <1>1, <2>1, <2>2 DEF Books
<1>2. CASE c # 0
    <2>1. c \in 1 .. Len(sets)
        BY <1>2, LenIsNat
    <2>2. Shape(sets[c])
        BY <2>1 DEF Shelf
    <2>3. /\ Shape(set) /\ set.background_id = sets[c].background_id
          /\ set.samples = sets[c].samples /\ set.run = sets[c].run
          /\ set.status = "failed" /\ set.quality = "incomplete"
        BY <2>2 DEF Shape
    <2>4. new = [sets EXCEPT ![c] = set]
        BY <1>2 DEF FailCurrent
    <2>5. ASSUME set.background_id = b
          PROVE  Entry(set, checked, acts) /\ Filling(set, m)
        <3>1. Entry(sets[c], checked, acts) /\ Filling(sets[c], d)
            BY <2>1, <2>3, <2>5 DEF Books
        <3>. QED
            BY <2>3, <3>1 DEF Entry, Filling
    <2>6. c = d.current /\ m.current = c
        OBVIOUS
    <2>7. new[c].status = "failed"
        BY <2>1, <2>3, <2>4, Written
    <2>. HIDE DEF set, new, c
    <2>8. Books([sets EXCEPT ![c] = set], b, m, n, checked, acts)
        BY <1>2, <2>1, <2>3, <2>5, <2>6, BooksWrite
    <2>. QED
        BY <2>4, <2>6, <2>7, <2>8 DEF new
<1>. QED
    BY <1>1, <1>2

(* A sample is filed: in turn, or the error is remembered.                 *)
LEMMA BooksFile ==
    ASSUME Shelf(datasets), NEW b, NEW d, NEW m, NEW n, NEW e, NEW checked, NEW acts,
           Books(datasets, b, d, n, checked, acts), d.current \in 0 .. Len(datasets),
           m.current = d.current, m.run = d.run, m.session, d.session,
           d.total \in Nat,
           Filed(d, e) => Number(d, e) \in Nat /\ m.total = d.total + 1,
           ~Filed(d, e) => m.total = d.total,
           ~m.event_error => ~d.event_error /\ (Filed(d, e) => Number(d, e) = d.total + 1)
    PROVE  Books(File(d, e), b, m, n, checked, acts)
<1>. DEFINE c == d.current
            set == [datasets[c] EXCEPT !.samples = Append(@, Number(d, e))]
            new == File(d, e)
<1>1. CASE ~(Filed(d, e) /\ c # 0)
    <2>1. new = datasets
        BY <1>1 DEF File
    <2>2. ASSUME NEW i \in 1 .. Len(datasets), datasets[i].background_id = b, m.current = i
          PROVE  Filling(datasets[i], m)
        <3>1. Filling(datasets[i], d) /\ ~Filed(d, e)
            BY <1>1, <2>2, LenIsNat DEF Books
        <3>. QED
            BY <3>1 DEF Filling
    <2>. QED
        BY <2>1, <2>2 DEF Books
<1>2. CASE Filed(d, e) /\ c # 0
    <2>1. c \in 1 .. Len(datasets)
        BY <1>2, LenIsNat
    <2>2. Shape(datasets[c])
        BY <2>1 DEF Shelf
    <2>3. /\ Shape(set) /\ set.background_id = datasets[c].background_id
          /\ set.run = datasets[c].run /\ set.status = datasets[c].status
          /\ set.quality = datasets[c].quality
          /\ set.samples = Append(datasets[c].samples, Number(d, e))
        BY <2>2 DEF Shape
    <2>4. new = [datasets EXCEPT ![c] = set]
        BY <1>2 DEF File
    <2>5. ASSUME set.background_id = b
          PROVE  Entry(set, checked, acts) /\ Filling(set, m)
        <3>1. Entry(datasets[c], checked, acts) /\ Filling(datasets[c], d)
            BY <2>1, <2>3, <2>5 DEF Books
        <3>2. Entry(set, checked, acts)
            <4>1. set.samples \in Seq(Nat)
                BY <1>2, <2>3, <3>1 DEF Entry
            <4>. QED
                BY <2>3, <3>1, <4>1 DEF Entry
        <3>3. set.status = "failed" \/ m.event_error \/ Trails(set.samples, m.total)
            <4>. SUFFICES ASSUME set.status # "failed", ~m.event_error
                          PROVE  Trails(set.samples, m.total)
                OBVIOUS
            <4>1. Trails(datasets[c].samples, d.total) /\ datasets[c].samples \in Seq(Nat)
                BY <2>3, <3>1 DEF Filling, Entry
            <4>2. set.samples = Append(datasets[c].samples, d.total + 1) /\ m.total = d.total + 1
                BY <1>2, <2>3
            <4>3. Trails(Append(datasets[c].samples, d.total + 1), d.total + 1)
                BY <4>1, TrailsOn
            <4>. QED
                BY <4>2, <4>3
        <3>. QED
            BY <2>3, <3>1, <3>2, <3>3 DEF Filling
    <2>6. c = d.current /\ m.current = c /\ c # 0
        BY <1>2
    <2>. HIDE DEF set, new, c
    <2>7. Books([datasets EXCEPT ![c] = set], b, m, n, checked, acts)
        BY <2>1, <2>3, <2>5, <2>6, BooksWrite
    <2>. QED
        BY <2>4, <2>7 DEF new
<1>. QED
    BY <1>1, <1>2

(* A verdict settles the qualities of its own run, which has passed its    *)
(* checks, and of no failed Dataset.                                       *)
LEMMA BooksJudge ==
    ASSUME Shelf(datasets), NEW b, NEW d, NEW n, NEW verdict, NEW acts \in Nat,
           NEW checked, NEW more, checked \subseteq more,
           Books(datasets, b, d, d, checked, acts), GoesOnAs(n, d), ~n.session,
           verdict # "error" => <<b, d.run>> \in more
    PROVE  LET new == Judged(b, d, verdict)
           IN /\ Books(new, b, d, n, more, acts)
              /\ \A i \in 1 .. Len(datasets) : /\ new[i].status = datasets[i].status
                                               /\ datasets[i].background_id # b
                                                     => new[i] = datasets[i]
<1>. DEFINE new == Judged(b, d, verdict)
<1>1. \A i \in 1 .. Len(datasets) :
         \/ new[i] = datasets[i]
         \/ /\ verdict # "error"
            /\ datasets[i].background_id = b /\ datasets[i].run = d.run
            /\ datasets[i].status # "failed"
            /\ new[i] = [datasets[i] EXCEPT !.quality = FinalQuality(d)]
    BY DEF Judged
<1>2. Len(new) = Len(datasets)
    BY Settled DEF Ends
<1>. HIDE DEF new
<1>3. \A i \in 1 .. Len(datasets) : Shape(datasets[i])
    BY DEF Shelf
<1>4. ASSUME NEW i \in 1 .. Len(datasets)
      PROVE  /\ new[i].status = datasets[i].status
             /\ new[i].background_id = datasets[i].background_id
             /\ new[i].run = datasets[i].run /\ new[i].samples = datasets[i].samples
             /\ \/ new[i].quality = datasets[i].quality
                \/ verdict # "error" /\ datasets[i].background_id = b /\ datasets[i].run = d.run
    <2>. DEFINE old == datasets[i]
                set == [old EXCEPT !.quality = FinalQuality(d)]
    <2>1. Shape(old)
        BY <1>3
    <2>2. /\ set.status = old.status /\ set.background_id = old.background_id
          /\ set.run = old.run /\ set.samples = old.samples
        BY <2>1 DEF Shape
    <2>3. CASE new[i] = old
        BY <2>3
    <2>4. CASE /\ verdict # "error"
               /\ old.background_id = b /\ old.run = d.run
               /\ new[i] = set
        <3>. HIDE DEF set, old
        <3>1. /\ new[i].status = old.status /\ new[i].background_id = old.background_id
              /\ new[i].run = old.run /\ new[i].samples = old.samples
            BY <2>2, <2>4
        <3>. QED
            BY <2>4, <3>1 DEF old
    <2>. QED
        BY <1>1, <2>3, <2>4
<1>5. ASSUME NEW i \in 1 .. Len(datasets), datasets[i].background_id = b
      PROVE  /\ Entry(new[i], more, acts)
             /\ d.current = i => Filling(new[i], d)
             /\ d.current # i => Filled(new[i], n)
    <2>1. /\ Entry(datasets[i], checked, acts)
          /\ d.current = i => Filling(datasets[i], d)
          /\ d.current # i => Filled(datasets[i], d)
        BY <1>5 DEF Books
    <2>2. Entry(new[i], more, acts)
        BY <1>4, <1>5, <2>1 DEF Entry
    <2>3. d.current = i => Filling(new[i], d)
        BY <1>4, <2>1 DEF Filling
    <2>4. d.current # i => Filled(new[i], n)
        BY <1>4, <2>1 DEF Filled, GoesOnAs
    <2>. QED
        BY <2>2, <2>3, <2>4
<1>6. Books(new, b, d, n, more, acts)
    BY <1>2, <1>4, <1>5 DEF Books
<1>. QED
    BY <1>1, <1>4, <1>6 DEF new
-----------------------------------------------------------------------------
(* What a step of dispatcher b does to its ledger.                         *)

(* Only the Dataset at c is written.                                       *)
Touches(new, old, c) == \A i \in 1 .. Len(old) : i # c => new[i] = old[i]

(* The others' ledgers are left alone.                                     *)
Spares(b) ==
    /\ manager'.config = manager.config /\ manager'.acts = manager.acts
    /\ DOMAIN inbox' = Backgrounds /\ DOMAIN source' = Backgrounds /\ DOMAIN acks' = Backgrounds
    /\ \A c \in Backgrounds \ {b} :
          inbox'[c] = inbox[c] /\ source'[c] = source[c] /\ acks'[c] = acks[c]
    /\ DOMAIN source'[b] = {"phase", "index", "lost"}
    /\ verified \subseteq verified'

(* Nothing becomes due but by opening a Dataset; an acknowledgement pays.  *)
Tally(b) ==
    \/ /\ acks'[b] = acks[b]
       /\ Due(dispatcher'[b]) => Due(dispatcher[b]) \/ Len(datasets') # Len(datasets)
    \/ acks'[b] = acks[b] + 1 /\ Due(dispatcher[b]) /\ ~Due(dispatcher'[b])

(* A command is answered when it is no longer queued or in hand.           *)
Pays(b) ==
    /\ manager'.reply = None => manager.reply = None
    /\ Pending(inbox[b]) \/ Pending(dispatcher[b].cmd) =>
          manager'.reply # None \/ Pending(inbox'[b]) \/ Pending(dispatcher'[b].cmd)

(* A Dataset that is not open is settled, not written: new is what old may *)
(* become.                                                                 *)
MaySettle(new, old, b) ==
    \/ new = old
    \/ /\ old.background_id = b
       /\ old.status = "completed" /\ old.quality = "unknown"
       /\ new.quality = "incomplete" => Kind(b) = "scopes" /\ Limit = 0
       /\ new = [old EXCEPT !.quality = new.quality]

Settles(b) ==
    \A i \in 1 .. Len(datasets) :
        i # dispatcher[b].current => MaySettle(datasets'[i], datasets[i], b)

(* The thread and its Worker after the step.                               *)
Stands(b) ==
    LET n == dispatcher'[b]
    IN /\ Placed(n, source'[b], Kind(b), manager.acts)
       /\ InStep(n, source'[b], Limit)
       /\ Commanded(inbox'[b]) /\ Commanded(n.cmd)

Does(b) ==
    /\ Spares(b) /\ Stands(b) /\ Tally(b) /\ Pays(b) /\ Settles(b)
    /\ Books(datasets', b, dispatcher'[b], dispatcher'[b], verified', manager.acts)

(* What a step starts from.                                                *)
LEMMA Starts ==
    ASSUME DInv, NEW b \in Backgrounds
    PROVE  LET d == dispatcher[b]
           IN /\ Base /\ Shelf(datasets) /\ Len(datasets) \in Nat
              /\ Thread(d) /\ d.current \in 0 .. Len(datasets)
              /\ d.current # 0 => datasets[d.current].background_id = b
              /\ d.pc \in {"none", "starting", "exited"} => d.current = 0 /\ d.session = FALSE
              /\ Books(datasets, b, d, d, verified, manager.acts)
              /\ Placed(d, source[b], Kind(b), manager.acts)
              /\ InStep(d, source[b], Limit)
              /\ Commanded(inbox[b]) /\ Commanded(d.cmd)
              /\ manager.acts \in Nat /\ Limit \in Nat /\ Kind(b) \in Kinds
              /\ DOMAIN inbox = Backgrounds /\ DOMAIN source = Backgrounds
              /\ DOMAIN acks = Backgrounds
              /\ DOMAIN source[b] = {"phase", "index", "lost"}
<1>1. manager.config \in Configs /\ ConfigOK(manager.config)
    BY ConstantsAssumption DEF DInv, Sorts
<1>2. Limit \in Nat /\ Kind(b) \in Kinds
    BY <1>1 DEF ConfigOK, Limit, Kind
<1>3. Base /\ Owned /\ Sorts /\ Ledger(b)
    BY DEF DInv, IInv
<1>4. Shelf(datasets) /\ Len(datasets) \in Nat
    BY <1>3, LenIsNat DEF Base
<1>. QED
    BY <1>2, <1>3, <1>4 DEF Base, Threads, Owned, Sorts, Ledger

(* An answer tells the manager something, and only its reply changes.      *)
LEMMA AnswerPays ==
    ASSUME NEW cmd, NEW ok, NEW dropped, ManagerShape, Answer(cmd, ok, dropped)
    PROVE  /\ manager'.config = manager.config /\ manager'.acts = manager.acts
           /\ manager'.reply = None => manager.reply = None
           /\ Pending(cmd) \/ Pending(dropped) => manager'.reply # None
<1>1. None # "ok" /\ None # "err"
    BY NoneIsFresh
<1>. QED
    BY <1>1 DEF Answer, ManagerShape, Pending

(* Nothing is pending where there is no command.                           *)
LEMMA NoneIsNotPending == ~Pending(None)
BY DEF Pending

(* What touches only the open Dataset settles nothing else.                *)
LEMMA TouchesSettle ==
    ASSUME NEW b, Touches(datasets', datasets, dispatcher[b].current)
    PROVE  Settles(b)
BY DEF Touches, Settles, MaySettle

(* finish, FailCurrent and File write at most what is open.                *)
LEMMA HelpersTouch ==
    ASSUME NEW sets, Shelf(sets), NEW d, NEW status, NEW quality, NEW flush_error, NEW e
    PROVE  /\ Touches(finish(d, sets, status, quality, flush_error), sets, d.current)
           /\ Touches(FailCurrent(sets, d.current), sets, d.current)
           /\ Touches(sets, sets, d.current)
           /\ Shelf(datasets) => Touches(File(d, e), datasets, d.current)
<1>. PICK S : sets \in Seq(S)
    BY DEF Shelf
<1>1. \A c, set : \A k \in 1 .. Len(sets) : k # c => [sets EXCEPT ![c] = set][k] = sets[k]
    OBVIOUS
<1>2. Touches(finish(d, sets, status, quality, flush_error), sets, d.current)
    BY <1>1 DEF Touches, finish
<1>3. Touches(FailCurrent(sets, d.current), sets, d.current)
    BY <1>1 DEF Touches, FailCurrent
<1>4. ASSUME Shelf(datasets)
      PROVE  Touches(File(d, e), datasets, d.current)
    <2>. PICK T : datasets \in Seq(T)
        BY <1>4 DEF Shelf
    <2>1. \A c, set : \A k \in 1 .. Len(datasets) :
              k # c => [datasets EXCEPT ![c] = set][k] = datasets[k]
        OBVIOUS
    <2>2. \/ File(d, e) = datasets
          \/ File(d, e) = [datasets EXCEPT ![d.current] =
                              [datasets[d.current] EXCEPT
                                  !.samples = Append(datasets[d.current].samples, Number(d, e))]]
        BY DEF File
    <2>. QED
        BY <2>1, <2>2 DEF Touches
<1>. QED
    BY <1>2, <1>3, <1>4 DEF Touches

(* The Captures of a background are counted.                               *)
LEMMA CapturesCount ==
    ASSUME NEW b \in Backgrounds, NEW c \in Backgrounds,
           Shelf(datasets), Stores(b, dispatcher[b].current, dispatcher'[b].current)
    PROVE  /\ Cardinality(Captures(c)) \in Nat
           /\ Cardinality(Captures(c)') \in Nat
           /\ Cardinality(Captures(c)) <= Cardinality(Captures(c)')
           /\ c = b /\ Len(datasets') # Len(datasets)
                 => Cardinality(Captures(c)') = Cardinality(Captures(c)) + 1
<1>1. Len(datasets) \in Nat
    BY LenIsNat
<1>2. IsFiniteSet(Captures(c)) /\ Cardinality(Captures(c)) \in Nat
    <2>1. IsFiniteSet(1 .. Len(datasets))
        BY <1>1, FS_Interval
    <2>2. Captures(c) \in SUBSET (1 .. Len(datasets))
        BY DEF Captures
    <2>3. IsFiniteSet(Captures(c))
        BY <2>1, <2>2, FS_Subset
    <2>. QED
        BY <2>3, FS_CardinalityType
<1>3. CASE Len(datasets') = Len(datasets)
    <2>1. \A i \in 1 .. Len(datasets) : datasets'[i].background_id = datasets[i].background_id
        BY <1>1, <1>3 DEF Stores, Ends, Grows
    <2>2. Captures(c)' = Captures(c)
        BY <1>3, <2>1 DEF Captures
    <2>. QED
        BY <1>2, <1>3, <2>2
<1>4. CASE Len(datasets') # Len(datasets)
    <2>. DEFINE l == Len(datasets')
    <2>1. /\ l = Len(datasets) + 1
          /\ datasets'[l].background_id = b
          /\ \A i \in 1 .. Len(datasets) : datasets'[i].background_id = datasets[i].background_id
        BY <1>4 DEF Stores, Ends, Grows
    <2>2. l \notin Captures(c) /\ 1 .. l = (1 .. Len(datasets)) \cup {l}
        BY <1>1, <2>1 DEF Captures
    <2>3. CASE c = b
        <3>1. Captures(c)' = Captures(c) \cup {l}
            BY <1>1, <2>1, <2>2, <2>3 DEF Captures
        <3>. HIDE DEF l
        <3>2. Cardinality(Captures(c) \cup {l}) = Cardinality(Captures(c)) + 1
            BY <1>2, <2>2, FS_AddElement
        <3>. QED
            BY <1>2, <3>1, <3>2
    <2>4. CASE c # b
        <3>1. Captures(c)' = Captures(c)
            BY <1>1, <2>1, <2>2, <2>4 DEF Captures
        <3>. QED
            BY <1>2, <2>4, <3>1
    <2>. QED
        BY <2>3, <2>4
<1>. QED
    BY <1>3, <1>4

(* Every Capture is acknowledged once, after the step too.                 *)
LEMMA TallyKeeps ==
    ASSUME DInv, NEW b \in Backgrounds, Acts(b), Spares(b), Tally(b), NEW c \in Backgrounds
    PROVE  Acknowledged(c)'
<1>1. Acknowledged(c) /\ Shelf(datasets)
    BY Starts DEF DInv, Ledger
<1>2. /\ Cardinality(Captures(c)) \in Nat
      /\ Cardinality(Captures(c)') \in Nat
      /\ Cardinality(Captures(c)) <= Cardinality(Captures(c)')
      /\ c = b /\ Len(datasets') # Len(datasets)
            => Cardinality(Captures(c)') = Cardinality(Captures(c)) + 1
    BY <1>1, CapturesCount DEF Acts
<1>. DEFINE was == Cardinality(Captures(c))
            now == Cardinality(Captures(c)')
<1>3. acks[c] \in Nat /\ acks[c] + (IF Due(dispatcher[c]) THEN 1 ELSE 0) <= was
    BY <1>1 DEF Acknowledged
<1>. HIDE DEF was, now
<1>4. acks'[c] \in Nat /\ acks'[c] + (IF Due(dispatcher'[c]) THEN 1 ELSE 0) <= now
    <2>1. CASE c = b
        <3>1. CASE /\ acks'[b] = acks[b]
                   /\ Due(dispatcher'[b]) => Due(dispatcher[b])
            BY <1>2, <1>3, <2>1, <3>1 DEF was, now
        <3>2. CASE /\ acks'[b] = acks[b]
                   /\ Len(datasets') # Len(datasets)
            BY <1>2, <1>3, <2>1, <3>2 DEF was, now
        <3>3. CASE acks'[b] = acks[b] + 1 /\ Due(dispatcher[b]) /\ ~Due(dispatcher'[b])
            BY <1>2, <1>3, <2>1, <3>3 DEF was, now
        <3>. QED
            BY <3>1, <3>2, <3>3 DEF Tally
    <2>2. CASE c # b
        BY <1>2, <1>3, <2>2 DEF was, now, Spares, Acts
    <2>. QED
        BY <2>1, <2>2
<1>. QED
    BY <1>4 DEF Acknowledged, now

(* The other backgrounds' Datasets are as they were.                       *)
LEMMA ElsewhereKeeps ==
    ASSUME DInv, NEW b \in Backgrounds, Acts(b), Does(b), NEW c \in Backgrounds, c # b
    PROVE  /\ Books(datasets, c, dispatcher[c], dispatcher[c], verified, manager.acts)'
           /\ Placed(dispatcher[c], source[c], Kind(c), manager.acts)'
           /\ InStep(dispatcher[c], source[c], Limit)'
           /\ Commanded(inbox[c])' /\ Commanded(dispatcher[c].cmd)'
<1>1. /\ dispatcher'[c] = dispatcher[c] /\ source'[c] = source[c] /\ inbox'[c] = inbox[c]
      /\ manager'.config = manager.config /\ manager'.acts = manager.acts
    BY DEF Acts, Does, Spares
<1>2. Kind(c)' = Kind(c) /\ Limit' = Limit
    BY <1>1 DEF Kind, Limit
<1>. DEFINE d == dispatcher[c]
            acts == manager.acts
<1>3. /\ Books(datasets, c, d, d, verified, acts)
      /\ Placed(d, source[c], Kind(c), acts) /\ InStep(d, source[c], Limit)
      /\ Commanded(inbox[c]) /\ Commanded(d.cmd)
      /\ Len(datasets) \in Nat
      /\ dispatcher[b].current # 0 => datasets[dispatcher[b].current].background_id = b
    BY Starts
<1>4. ASSUME NEW i \in 1 .. Len(datasets'), datasets'[i].background_id = c
      PROVE  i \in 1 .. Len(datasets) /\ datasets'[i] = datasets[i]
    <2>1. i \in 1 .. Len(datasets) /\ datasets[i].background_id = c
        BY <1>3, <1>4 DEF Acts, Stores, Ends, Grows
    <2>2. i # dispatcher[b].current
        BY <1>3, <2>1
    <2>. QED
        BY <2>1, <2>2 DEF Does, Settles, MaySettle
<1>5. Books(datasets', c, d, d, verified', acts)
    <2>1. verified \subseteq verified'
        BY DEF Does, Spares
    <2>2. ASSUME NEW i \in 1 .. Len(datasets'), datasets'[i].background_id = c
          PROVE  /\ Entry(datasets'[i], verified', acts)
                 /\ d.current = i => Filling(datasets'[i], d)
                 /\ d.current # i => Filled(datasets'[i], d)
        <3>. DEFINE set == datasets[i]
        <3>1. i \in 1 .. Len(datasets) /\ datasets'[i] = set /\ set.background_id = c
            BY <1>4, <2>2
        <3>2. /\ Entry(set, verified, acts)
              /\ d.current = i => Filling(set, d)
              /\ d.current # i => Filled(set, d)
            BY <1>3, <3>1 DEF Books
        <3>3. Entry(set, verified', acts)
            BY <2>1, <3>2 DEF Entry
        <3>. QED
            BY <3>1, <3>2, <3>3
    <2>. QED
        BY <2>2 DEF Books
<1>. QED
    BY <1>1, <1>2, <1>3, <1>5

(* A step that does right by its background keeps the invariant.           *)
LEMMA DoesKeep ==
    ASSUME DInv, NEW b \in Backgrounds, Acts(b), Does(b)
    PROVE  DInv'
<1>1. IInv'
    BY ActsKeep DEF DInv
<1>2. Sorts'
    <2>1. ASSUME NEW i \in 1 .. Len(datasets')
          PROVE  datasets'[i].background_id \in Backgrounds
        <3>1. Len(datasets) \in Nat
            BY Starts
        <3>. QED
            BY <2>1, <3>1 DEF DInv, Sorts, Acts, Stores, Ends, Grows
    <2>2. \A c \in Backgrounds : DOMAIN source'[c] = {"phase", "index", "lost"}
        BY DEF DInv, Sorts, Does, Spares
    <2>. QED
        BY <2>1, <2>2 DEF DInv, Sorts, Does, Spares, Acts, Hears
<1>3. Awaited'
    <2>1. manager'.pc = manager.pc /\ manager'.bg = manager.bg
        BY DEF Acts, Hears
    <2>2. ASSUME manager.pc = "wait", manager'.reply = None
          PROVE  Pending(inbox'[manager.bg]) \/ Pending(dispatcher'[manager.bg].cmd)
        <3>1. /\ manager.bg \in Backgrounds
              /\ Pending(inbox[manager.bg]) \/ Pending(dispatcher[manager.bg].cmd)
            BY <2>2 DEF DInv, Awaited, Does, Pays
        <3>2. CASE manager.bg = b
            BY <2>2, <3>1, <3>2 DEF Does, Pays
        <3>3. CASE manager.bg # b
            BY <3>1, <3>3 DEF Does, Spares, Acts
        <3>. QED
            BY <3>2, <3>3
    <2>. QED
        BY <2>1, <2>2 DEF DInv, Awaited
<1>4. ASSUME NEW c \in Backgrounds
      PROVE  Ledger(c)'
    <2>1. Acknowledged(c)'
        BY TallyKeeps DEF Does
    <2>2. CASE c = b
        <3>1. Kind(b)' = Kind(b) /\ Limit' = Limit /\ manager'.acts = manager.acts
            BY DEF Kind, Limit, Does, Spares
        <3>. QED
            BY <2>1, <2>2, <3>1 DEF Does, Stands, Ledger
    <2>3. CASE c # b
        BY <2>1, <2>3, ElsewhereKeeps DEF Ledger
    <2>. QED
        BY <2>2, <2>3
<1>. QED
    BY <1>1, <1>2, <1>3, <1>4 DEF DInv
-----------------------------------------------------------------------------
(* The actions: each does right by its background.                         *)

(* A command that is taken and answered leaves the others' be.             *)
LEMMA TakenSpares ==
    ASSUME DInv, NEW b \in Backgrounds, NEW action, Takes(b, action),
           NEW ok, NEW dropped, Answer(inbox[b], ok, dropped),
           UNCHANGED <<source, verified>>,
           acks' \in {acks, [acks EXCEPT ![b] = @ + 1]}
    PROVE  /\ Spares(b) /\ Pays(b) /\ Commanded(inbox'[b]) /\ inbox'[b] = None
           /\ dispatcher[b].pc = "loop" /\ dispatcher[b].cmd = None
<1>1. ManagerShape /\ Placed(dispatcher[b], source[b], Kind(b), manager.acts)
    BY Starts DEF Base
<1>2. dispatcher[b].pc = "loop" /\ dispatcher[b].cmd = None
    BY <1>1 DEF Takes, Placed
<1>3. /\ manager'.config = manager.config /\ manager'.acts = manager.acts
      /\ manager'.reply = None => manager.reply = None
      /\ Pending(inbox[b]) => manager'.reply # None
    BY <1>1, AnswerPays
<1>4. /\ DOMAIN inbox' = Backgrounds /\ inbox'[b] = None
      /\ \A c \in Backgrounds \ {b} : inbox'[c] = inbox[c]
    BY Starts DEF Takes
<1>5. DOMAIN acks' = Backgrounds /\ \A c \in Backgrounds \ {b} : acks'[c] = acks[c]
    BY Starts
<1>6. Spares(b)
    BY <1>3, <1>4, <1>5, Starts DEF Spares
<1>7. Pays(b)
    BY <1>2, <1>3, NoneIsNotPending DEF Pays
<1>. QED
    BY <1>2, <1>4, <1>6, <1>7 DEF Commanded

(* A refused command.                                                      *)
LEMMA RefusedDoes ==
    ASSUME DInv, NEW b \in Backgrounds, NEW action, Takes(b, action),
           NEW ok, Answer(inbox[b], ok, None),
           UNCHANGED <<source, dispatcher, datasets, verified, acks>>
    PROVE  Does(b)
<1>1. Spares(b) /\ Pays(b) /\ Commanded(inbox'[b])
    BY TakenSpares
<1>2. Stands(b)
    BY <1>1, Starts DEF Stands
<1>3. Tally(b) /\ Settles(b)
    BY DEF Tally, Settles, MaySettle
<1>4. Books(datasets', b, dispatcher'[b], dispatcher'[b], verified', manager.acts)
    BY Starts
<1>. QED
    BY <1>1, <1>2, <1>3, <1>4 DEF Does

(* A Dataset that has just been opened.                                    *)
LEMMA NewIsFilling ==
    ASSUME NEW b, NEW d, NEW run, NEW checked, NEW acts \in Nat, run \in 0 .. acts,
           (d.session /\ run = d.run) \/ (~d.session /\ d.summary = None)
    PROVE  Entry(NewDataset(b, run), checked, acts) /\ Filling(NewDataset(b, run), d)
<1>. DEFINE set == NewDataset(b, run)
<1>1. /\ set.samples = <<>> /\ set.run = run /\ set.status = "recording"
      /\ set.quality = "unknown"
    BY DEF NewDataset
<1>. HIDE DEF set
<1>2. Trails(set.samples, d.total)
    BY <1>1, TrailsNothing
<1>3. set.samples \in Seq(Nat)
    BY <1>1
<1>4. Entry(set, checked, acts)
    BY <1>1, <1>3 DEF Entry
<1>5. Filling(set, d)
    BY <1>1, <1>2 DEF Filling
<1>. QED
    BY <1>4, <1>5 DEF set

(* capture_on opens a Dataset of the live run, or of none.                 *)
LEMMA CaptureOnDoes ==
    ASSUME DInv, NEW b \in Backgrounds, capture_on(b)
    PROVE  Does(b)
<1>. DEFINE d == dispatcher[b]
            run == IF d.session THEN d.run ELSE 0
            n == [d EXCEPT !.current = NewIndex(datasets'), !.auto_closed = FALSE, !.writer = Csv]
            set == NewDataset(b, run)
<1>1. Takes(b, "capture-on") /\ UNCHANGED <<runtimes, source, failure, verified, acks>>
    BY DEF capture_on
<1>2. CASE /\ ~capture_on_refused(d)
           /\ datasets' = Append(datasets, set)
           /\ Unchanged(b, n)
           /\ Answer(inbox[b], TRUE, None)
    <2>1. /\ Spares(b) /\ Pays(b) /\ Commanded(inbox'[b])
          /\ d.pc = "loop" /\ d.cmd = None
        BY <1>1, <1>2, TakenSpares
    <2>2. dispatcher'[b] = n
        BY <1>2, Starts, OneThread DEF Base
    <2>3. Thread(d) /\ d.current = 0 /\ d.stream_state # "ended"
        BY <1>2, Starts DEF capture_on_refused
    <2>4. /\ n.pc = d.pc /\ n.current = Len(datasets') /\ ~n.auto_closed /\ n.run = d.run
          /\ n.session = d.session /\ n.summary = d.summary /\ n.total = d.total
          /\ n.kind = d.kind /\ n.cmd = d.cmd /\ n.event_error = d.event_error
          /\ n.stream_state = d.stream_state
        BY <2>3 DEF Thread, NewIndex
    <2>5. /\ Placed(d, source[b], Kind(b), manager.acts)
          /\ InStep(d, source[b], Limit) /\ manager.acts \in Nat
          /\ Books(datasets, b, d, d, verified, manager.acts)
        BY Starts
    <2>6. Adds(datasets', datasets, set)
        BY <1>2, Starts, AppendAdds
    <2>. HIDE DEF n
    <2>7. Stands(b)
        <3>1. Placed(n, source'[b], Kind(b), manager.acts)
            BY <1>1, <2>1, <2>4, <2>5 DEF Placed
        <3>2. InStep(n, source'[b], Limit)
            BY <1>1, <2>4, <2>5 DEF InStep
        <3>3. Commanded(n.cmd)
            BY <2>1, <2>4 DEF Commanded
        <3>. QED
            BY <2>1, <2>2, <3>1, <3>2, <3>3 DEF Stands
    <2>8. Tally(b)
        BY <1>1, <2>6 DEF Tally, Adds
    <2>9. Settles(b)
        BY <2>6 DEF Settles, MaySettle, Adds
    <2>10. Books(datasets', b, n, n, verified, manager.acts)
        <3>1. /\ run \in 0 .. manager.acts
              /\ (n.session /\ run = n.run) \/ (~n.session /\ n.summary = None)
            BY <2>1, <2>3, <2>4, <2>5 DEF Placed, InStep
        <3>2. Entry(set, verified, manager.acts) /\ Filling(set, n)
            BY <2>5, <3>1, NewIsFilling
        <3>3. Books(datasets, b, d, n, verified, manager.acts)
            <4>1. GoesOnAs(n, d)
                BY <2>1, <2>4 DEF GoesOnAs
            <4>. QED
                BY <2>5, <4>1, BooksFor
        <3>4. n.current = Len(datasets') /\ n.current # 0
            BY <2>4, <2>6 DEF Adds
        <3>. HIDE DEF set, d
        <3>. QED
            BY <2>3, <2>6, <3>2, <3>3, <3>4, BooksPush
    <2>. QED
        BY <1>1, <2>1, <2>2, <2>7, <2>8, <2>9, <2>10 DEF Does
<1>3. CASE Answer(inbox[b], FALSE, None) /\ UNCHANGED <<datasets, dispatcher>>
    BY <1>1, <1>3, RefusedDoes
<1>. QED
    BY <1>2, <1>3 DEF capture_on

(* What is open is closed by a thread that is not stopping: it was filled  *)
(* in step.                                                                *)
LEMMA OpenIsWhole ==
    ASSUME DInv, NEW b \in Backgrounds, dispatcher[b].pc = "loop"
    PROVE  /\ ~dispatcher[b].event_error
           /\ dispatcher[b].current # 0 => ~dispatcher[b].auto_closed
BY Starts DEF Placed

(* capture_off acknowledges an automatic close once, or closes what is     *)
(* open, and then has nothing left to acknowledge.                         *)
LEMMA CaptureOffDoes ==
    ASSUME DInv, NEW b \in Backgrounds, capture_off(b)
    PROVE  Does(b)
<1>. DEFINE d == dispatcher[b]
<1>1. Takes(b, "capture-off") /\ UNCHANGED <<runtimes, source, verified>>
    BY DEF capture_off
<1>2. /\ Thread(d) /\ d.current \in 0 .. Len(datasets) /\ Shelf(datasets) /\ Base
      /\ Placed(d, source[b], Kind(b), manager.acts)
      /\ InStep(d, source[b], Limit) /\ manager.acts \in Nat
      /\ Books(datasets, b, d, d, verified, manager.acts) /\ DOMAIN acks = Backgrounds
    BY Starts
<1>3. CASE /\ acknowledges(d)
           /\ Unchanged(b, [d EXCEPT !.auto_closed = FALSE])
           /\ Answer(inbox[b], TRUE, None)
           /\ acks' = [acks EXCEPT ![b] = @ + 1]
           /\ UNCHANGED <<datasets, failure>>
    <2>. DEFINE n == [d EXCEPT !.auto_closed = FALSE]
    <2>1. /\ Spares(b) /\ Pays(b) /\ Commanded(inbox'[b])
          /\ d.pc = "loop" /\ d.cmd = None
        BY <1>1, <1>3, TakenSpares
    <2>2. dispatcher'[b] = n
        BY <1>2, <1>3, OneThread DEF Base
    <2>3. /\ n.pc = d.pc /\ n.current = d.current /\ ~n.auto_closed /\ n.run = d.run
          /\ n.session = d.session /\ n.summary = d.summary /\ n.total = d.total
          /\ n.kind = d.kind /\ n.cmd = d.cmd /\ n.event_error = d.event_error
          /\ n.stream_state = d.stream_state
        BY <1>2 DEF Thread
    <2>. HIDE DEF n
    <2>4. Stands(b)
        <3>1. Placed(n, source'[b], Kind(b), manager.acts)
            BY <1>1, <1>2, <2>1, <2>3 DEF Placed
        <3>2. InStep(n, source'[b], Limit)
            BY <1>1, <1>2, <2>3 DEF InStep
        <3>. QED
            BY <2>1, <2>2, <2>3, <3>1, <3>2 DEF Stands, Commanded
    <2>5. Due(d) /\ ~Due(n)
        BY <1>3, <2>3 DEF acknowledges, Due
    <2>6. Tally(b)
        BY <1>2, <1>3, <2>2, <2>5 DEF Tally
    <2>7. Books(datasets, b, n, n, verified, manager.acts)
        BY <1>2, <2>1, <2>3, BooksSame DEF GoesOnAs, FillsAs
    <2>. QED
        BY <1>1, <1>3, <2>1, <2>2, <2>4, <2>6, <2>7 DEF Does, Settles, MaySettle
<1>4. CASE Answer(inbox[b], FALSE, None) /\ UNCHANGED <<datasets, dispatcher, failure, acks>>
    BY <1>1, <1>4, RefusedDoes
<1>5. ASSUME NEW flush_error \in FlushErrors(d),
             d.current # 0,
             datasets' = finish(d, datasets, "completed", "unknown", flush_error),
             Unchanged(b, Idle(d)),
             Answer(inbox[b], failure' = None, None),
             acks' = IF failure' = None THEN [acks EXCEPT ![b] = @ + 1] ELSE acks
      PROVE  Does(b)
    <2>. DEFINE n == Idle(d)
    <2>1. /\ Spares(b) /\ Pays(b) /\ Commanded(inbox'[b])
          /\ d.pc = "loop" /\ d.cmd = None
        BY <1>1, <1>5, TakenSpares
    <2>2. dispatcher'[b] = n
        BY <1>2, <1>5, OneThread DEF Base
    <2>3. /\ n.pc = d.pc /\ n.current = 0 /\ n.auto_closed = d.auto_closed /\ n.run = d.run
          /\ n.session = d.session /\ n.summary = d.summary /\ n.total = d.total
          /\ n.kind = d.kind /\ n.cmd = d.cmd /\ n.event_error = d.event_error
          /\ n.stream_state = d.stream_state
        BY <1>2 DEF Thread, Idle
    <2>. HIDE DEF n
    <2>4. Stands(b)
        <3>1. Placed(n, source'[b], Kind(b), manager.acts)
            BY <1>1, <1>2, <2>1, <2>3 DEF Placed
        <3>2. InStep(n, source'[b], Limit)
            BY <1>1, <1>2, <2>3 DEF InStep
        <3>. QED
            BY <2>1, <2>2, <2>3, <3>1, <3>2 DEF Stands, Commanded
    <2>5. Due(d) /\ ~Due(n)
        BY <1>5, <2>1, <2>3, OpenIsWhole DEF Due
    <2>6. Tally(b)
        BY <1>2, <1>5, <2>2, <2>5 DEF Tally
    <2>7. flush_error \in BOOLEAN
        BY DEF FlushErrors
    <2>8. Books(datasets, b, d, n, verified, manager.acts) /\ GoesOnAs(n, d)
        <3>1. GoesOnAs(n, d)
            BY <2>1, <2>3 DEF GoesOnAs
        <3>. QED
            BY <1>2, <3>1, BooksFor
    <2>9. Books(datasets', b, n, n, verified, manager.acts)
        <3>1. datasets[d.current].background_id = b /\ ~d.event_error /\ d.total \in Nat
            BY <1>2, <1>5, <2>1, Starts, OpenIsWhole DEF InStep
        <3>. HIDE DEF d
        <3>. QED
            BY <1>2, <1>5, <2>3, <2>7, <2>8, <3>1, BooksClose
    <2>10. Settles(b)
        BY <1>2, <1>5, HelpersTouch, TouchesSettle
    <2>. QED
        BY <1>1, <2>1, <2>2, <2>4, <2>6, <2>9, <2>10 DEF Does
<1>. QED
    BY <1>3, <1>4, <1>5 DEF capture_off

(* Launch: the Worker starts with the Dataset it is to record into, if     *)
(* any; one that does not start leaves at most a failed Dataset.           *)
LEMMA LaunchDoes ==
    ASSUME DInv, NEW b \in Backgrounds, Launch(b)
    PROVE  Does(b)
<1>. DEFINE d == dispatcher[b]
            n == dispatcher'[b]
            acts == manager.acts
            fresh == NewDataset(b, d.run)
            sets == IF d.cmd.flag THEN Append(datasets, fresh) ELSE datasets
            open == IF d.cmd.flag THEN Len(sets) ELSE 0
            lost == [sets[open] EXCEPT !.run = 0, !.status = "failed",
                        !.quality = "incomplete", !.finished = TRUE]
<1>1. /\ Thread(d) /\ d.pc = "starting" /\ d.current = 0 /\ d.session = FALSE
      /\ UNCHANGED <<runtimes, source, verified, acks>>
      /\ Shelf(datasets) /\ Base /\ Len(datasets) \in Nat
      /\ Placed(d, source[b], Kind(b), acts) /\ InStep(d, source[b], Limit)
      /\ acts \in Nat /\ Books(datasets, b, d, d, verified, acts)
      /\ DOMAIN inbox = Backgrounds /\ DOMAIN source = Backgrounds /\ DOMAIN acks = Backgrounds
      /\ DOMAIN source[b] = {"phase", "index", "lost"}
      /\ Commanded(inbox[b])
    BY Starts DEF Launch
<1>2. /\ d.total = 0 /\ source[b] = NewSource /\ d.summary = None
      /\ ~d.event_error /\ ~d.auto_closed /\ d.run \in 1 .. acts /\ d.kind = Kind(b)
    BY <1>1 DEF Placed
<1>3. Adds(Append(datasets, fresh), datasets, fresh)
    BY <1>1, AppendAdds
<1>4. inbox' = IF dispatcher'[b].pc = "exited" THEN [inbox EXCEPT ![b] = None] ELSE inbox
    BY DEF Launch
<1>5. CASE /\ datasets' = sets
           /\ Unchanged(b, [d EXCEPT !.pc = "loop", !.cmd = None, !.session = TRUE,
                                     !.current = open, !.writer = Csv /\ open # 0])
           /\ Answer(d.cmd, TRUE, None)
    <2>1. n = [d EXCEPT !.pc = "loop", !.cmd = None, !.session = TRUE,
                        !.current = open, !.writer = Csv /\ open # 0]
        BY <1>1, <1>5, OneThread DEF Base
    <2>2. /\ n.pc = "loop" /\ n.cmd = None /\ n.session /\ n.current = open
          /\ n.auto_closed = d.auto_closed /\ n.run = d.run /\ n.summary = d.summary
          /\ n.total = d.total /\ n.kind = d.kind /\ n.event_error = d.event_error
        BY <1>1, <2>1 DEF Thread
    <2>3. inbox' = inbox
        BY <1>4, <2>2
    <2>4. /\ manager'.config = manager.config /\ manager'.acts = manager.acts
          /\ manager'.reply = None => manager.reply = None
          /\ Pending(d.cmd) => manager'.reply # None
        BY <1>1, <1>5, AnswerPays DEF Base
    <2>5. Spares(b) /\ Pays(b)
        BY <1>1, <2>3, <2>4 DEF Spares, Pays
    <2>6. Stands(b)
        <3>1. Placed(n, source'[b], Kind(b), acts)
            BY <1>1, <1>2, <2>2 DEF Placed
        <3>2. InStep(n, source'[b], Limit)
            BY <1>1, <1>2, <2>2 DEF InStep, NewSource
        <3>. QED
            BY <1>1, <2>2, <2>3, <3>1, <3>2 DEF Stands, Commanded
    <2>7. /\ \A set : Filled(set, d) => Filled(set, n)
          /\ Books(datasets, b, d, n, verified, acts)
        <3>1. \A set : Filled(set, d) => Filled(set, n)
            BY <1>1, <2>2 DEF Filled
        <3>. QED
            BY <1>1, <3>1 DEF Books
    <2>8. CASE d.cmd.flag
        <3>1. /\ Adds(datasets', datasets, fresh)
              /\ n.current = Len(datasets') /\ n.current # 0
            BY <1>3, <1>5, <2>2, <2>8 DEF Adds
        <3>2. Entry(fresh, verified, acts) /\ Filling(fresh, n)
            <4>1. d.run \in 0 .. acts /\ n.session /\ d.run = n.run
                BY <1>2, <2>2
            <4>. QED
                BY <1>1, <4>1, NewIsFilling
        <3>. HIDE DEF n, d, fresh, sets, open
        <3>3. Books(datasets', b, n, n, verified, acts)
            BY <1>1, <2>7, <3>1, <3>2, BooksPush
        <3>4. Tally(b) /\ Settles(b)
            BY <1>1, <3>1 DEF Tally, Settles, MaySettle, Adds
        <3>. QED
            BY <1>1, <2>5, <2>6, <3>3, <3>4 DEF Does, n
    <2>9. CASE ~d.cmd.flag
        <3>1. datasets' = datasets /\ n.current = 0
            BY <1>5, <2>2, <2>9
        <3>2. Books(datasets', b, n, n, verified, acts)
            BY <1>1, <2>7, <3>1, BooksRest
        <3>3. Tally(b) /\ Settles(b)
            BY <1>1, <2>2, <3>1 DEF Tally, Settles, MaySettle, Due
        <3>. QED
            BY <1>1, <2>5, <2>6, <3>2, <3>3 DEF Does
    <2>. QED
        BY <2>8, <2>9
<1>6. ASSUME NEW index \in {0, open},
             datasets' = IF index = 0 THEN datasets ELSE [sets EXCEPT ![index] =
                          [@ EXCEPT !.run = 0, !.status = "failed",
                                    !.quality = "incomplete", !.finished = TRUE]],
             Unchanged(b, [d EXCEPT !.pc = "exited", !.cmd = None]),
             Answer(d.cmd, FALSE, inbox[b])
      PROVE  Does(b)
    <2>1. n = [d EXCEPT !.pc = "exited", !.cmd = None]
        BY <1>1, <1>6, OneThread DEF Base
    <2>2. /\ n.pc = "exited" /\ n.cmd = None /\ n.session = FALSE /\ n.current = 0
          /\ n.auto_closed = d.auto_closed /\ n.run = d.run /\ n.summary = d.summary
          /\ n.total = d.total /\ n.kind = d.kind /\ n.event_error = d.event_error
        BY <1>1, <2>1 DEF Thread
    <2>3. /\ DOMAIN inbox' = Backgrounds /\ inbox'[b] = None
          /\ \A c \in Backgrounds \ {b} : inbox'[c] = inbox[c]
        BY <1>1, <1>4, <2>2
    <2>4. /\ manager'.config = manager.config /\ manager'.acts = manager.acts
          /\ manager'.reply = None => manager.reply = None
          /\ Pending(d.cmd) \/ Pending(inbox[b]) => manager'.reply # None
        BY <1>1, <1>6, AnswerPays DEF Base
    <2>5. Spares(b) /\ Pays(b)
        BY <1>1, <2>3, <2>4 DEF Spares, Pays
    <2>6. Stands(b)
        <3>1. Placed(n, source'[b], Kind(b), acts)
            BY <1>1, <1>2, <2>2 DEF Placed
        <3>2. InStep(n, source'[b], Limit)
            BY <1>1, <1>2, <2>2 DEF InStep, NewSource
        <3>. QED
            BY <2>2, <2>3, <3>1, <3>2 DEF Stands, Commanded
    <2>7. Tally(b)
        BY <1>1, <2>2 DEF Tally, Due
    <2>8. Books(datasets, b, d, n, verified, acts)
        BY <1>1, <2>2, BooksFor DEF GoesOnAs
    <2>9. CASE index = 0
        <3>1. datasets' = datasets
            BY <1>6, <2>9
        <3>2. Books(datasets', b, n, n, verified, acts)
            BY <1>1, <2>2, <2>8, <3>1, BooksRest
        <3>. QED
            BY <1>1, <2>5, <2>6, <2>7, <3>1, <3>2 DEF Does, Settles, MaySettle
    <2>10. CASE index # 0
        <3>1. d.cmd.flag /\ index = open /\ open = Len(sets) /\ sets = Append(datasets, fresh)
            BY <1>6, <2>10
        <3>2. datasets' = [sets EXCEPT ![open] = lost]
            BY <1>6, <2>10, <3>1
        <3>3. /\ Shape(lost) /\ lost.status = "failed" /\ lost.samples = <<>>
              /\ lost.run = 0 /\ lost.quality = "incomplete"
            <4>1. sets[open] = fresh
                BY <1>3, <3>1 DEF Adds
            <4>2. Shape(fresh) /\ fresh.samples = <<>>
                BY DEF NewDataset, Shape
            <4>. HIDE DEF fresh, sets, open
            <4>. QED
                BY <4>1, <4>2 DEF Shape
        <3>4. Shelf(sets) /\ Len(sets) = Len(datasets) + 1
            <4>1. Grows(Append(datasets, fresh), datasets, b, FALSE)
                BY <1>1, Pushed
            <4>. HIDE DEF sets, fresh
            <4>. QED
                BY <3>1, <4>1 DEF Grows
        <3>5. Adds(sets, datasets, fresh)
            BY <1>3, <3>1
        <3>. HIDE DEF lost, sets, open, fresh
        <3>6. /\ Len(datasets') = Len(sets)
              /\ \A k \in 1 .. Len(sets) : datasets'[k] = IF k = open THEN lost ELSE sets[k]
            BY <3>2, <3>3, <3>4, Written
        <3>7. Adds(datasets', datasets, lost)
            BY <1>1, <3>1, <3>4, <3>5, <3>6 DEF Adds
        <3>8. Entry(lost, verified, acts) /\ Filled(lost, n)
            <4>1. lost.samples \in Seq(Nat)
                BY <3>3
            <4>2. n.pc # "starting" /\ n.session = FALSE
                BY <2>2
            <4>. QED
                BY <1>1, <3>3, <4>1, <4>2 DEF Entry, Filled
        <3>9. Books(datasets', b, n, n, verified, acts)
            BY <1>1, <2>2, <2>8, <3>7, <3>8, BooksPush
        <3>. QED
            BY <1>1, <2>5, <2>6, <2>7, <3>7, <3>9 DEF Does, Settles, MaySettle, Adds
    <2>. QED
        BY <2>9, <2>10
<1>. QED
    BY <1>5, <1>6 DEF Launch, NewIndex

(* The thread when its Worker's run is over.                               *)
Ended(n, d) ==
    /\ n.pc \in {"loop", "exited"} /\ n.cmd = None /\ ~n.session /\ ~n.event_error
    /\ n.current = 0 /\ n.run = d.run /\ n.kind = d.kind /\ n.total = d.total
    /\ n.summary = d.summary /\ n.stream_state = d.stream_state

(* A run that is over stands, and what it closed is in the books.          *)
LEMMA EndDoes ==
    ASSUME DInv, NEW b \in Backgrounds, dispatcher[b].pc \in {"loop", "stopping"},
           NEW e, e.current = dispatcher[b].current, e.summary = dispatcher[b].summary,
           e.kind = dispatcher[b].kind,
           NEW n, Ended(n, dispatcher[b]), dispatcher'[b] = n,
           NEW sets, Shelf(sets), Len(sets) = Len(datasets),
           Books(sets, b, dispatcher[b], n, verified', manager.acts),
           NEW status \in {"completed", "incomplete", "failed"}, NEW quality,
           NEW flush_error \in BOOLEAN,
           datasets' = finish(e, sets, status, quality, flush_error),
           dispatcher[b].current # 0 /\ sets[dispatcher[b].current].status # "failed" =>
              sets[dispatcher[b].current].background_id = b /\ ~dispatcher[b].event_error,
           quality = "no_loss_detected" /\ dispatcher[b].session =>
              <<b, dispatcher[b].run>> \in verified',
           source'[b] \in {source[b], [source[b] EXCEPT !.phase = "closed"]},
           Commanded(inbox'[b])
    PROVE  Stands(b) /\ Books(datasets', b, n, n, verified', manager.acts)
<1>. DEFINE d == dispatcher[b]
            s == source'[b]
<1>1. /\ Placed(d, source[b], Kind(b), manager.acts) /\ InStep(d, source[b], Limit)
      /\ d.current \in 0 .. Len(datasets) /\ DOMAIN source[b] = {"phase", "index", "lost"}
    BY Starts
<1>2. Placed(n, s, Kind(b), manager.acts)
    BY <1>1 DEF Placed, Ended
<1>3. InStep(n, s, Limit)
    <2>1. s.index = source[b].index /\ (s.phase = source[b].phase \/ s.phase = "closed")
        BY <1>1
    <2>. QED
        BY <1>1, <2>1 DEF InStep, Ended
<1>4. Stands(b)
    BY <1>2, <1>3 DEF Stands, Ended, Commanded
<1>5. /\ n.current = 0 /\ GoesOnAs(n, d) /\ d.total \in Nat /\ ~n.session
    BY <1>1 DEF Ended, GoesOnAs, InStep
<1>6. Books(datasets', b, n, n, verified', manager.acts)
    <2>. HIDE DEF d
    <2>1. /\ Books(sets, b, d, n, verified', manager.acts)
          /\ e.current = d.current /\ e.summary = d.summary /\ e.kind = d.kind
          /\ d.current # 0 /\ sets[d.current].status # "failed" =>
                sets[d.current].background_id = b /\ ~d.event_error
          /\ quality = "no_loss_detected" /\ d.session => <<b, d.run>> \in verified'
        BY DEF d
    <2>. QED
        BY <1>1, <1>5, <2>1, BooksClose
<1>. QED
    BY <1>4, <1>6

(* Worker OFF or cleanup asks the session to stop.                         *)
LEMMA StoppingDoes ==
    ASSUME DInv, NEW b \in Backgrounds, NEW action, Takes(b, action),
           dispatcher[b].session,
           action # "cleanup" /\ inbox[b].flag => Due(dispatcher[b]),
           Unchanged(b, [dispatcher[b] EXCEPT !.pc = "stopping", !.cmd = inbox[b]]),
           UNCHANGED <<manager, source, datasets, verified, acks>>
    PROVE  Does(b)
<1>. DEFINE d == dispatcher[b]
            n == [d EXCEPT !.pc = "stopping", !.cmd = inbox[b]]
<1>1. /\ Thread(d) /\ Base /\ DOMAIN inbox = Backgrounds
      /\ Placed(d, source[b], Kind(b), manager.acts) /\ InStep(d, source[b], Limit)
      /\ Books(datasets, b, d, d, verified, manager.acts) /\ Commanded(inbox[b])
    BY Starts
<1>2. /\ d.pc = "loop" /\ inbox[b] # None /\ inbox[b].action = action
      /\ inbox' = [inbox EXCEPT ![b] = None]
    BY DEF Takes
<1>3. dispatcher'[b] = n
    BY <1>1, OneThread DEF Base
<1>4. /\ n.pc = "stopping" /\ n.cmd = inbox[b] /\ n.current = d.current
      /\ n.auto_closed = d.auto_closed /\ n.run = d.run /\ n.session = d.session
      /\ n.summary = d.summary /\ n.total = d.total /\ n.kind = d.kind
      /\ n.event_error = d.event_error /\ n.stream_state = d.stream_state
    BY <1>1 DEF Thread
<1>. HIDE DEF n
<1>5. inbox'[b] = None /\ DOMAIN inbox' = Backgrounds
      /\ \A c \in Backgrounds \ {b} : inbox'[c] = inbox[c]
    BY <1>1, <1>2
<1>6. Stands(b)
    <2>1. Placed(n, source'[b], Kind(b), manager.acts)
        BY <1>1, <1>2, <1>4 DEF Placed, Due
    <2>2. InStep(n, source'[b], Limit)
        BY <1>1, <1>2, <1>4 DEF InStep
    <2>. QED
        BY <1>1, <1>3, <1>4, <1>5, <2>1, <2>2 DEF Stands, Commanded
<1>7. Spares(b)
    BY <1>5, Starts DEF Spares
<1>8. Pays(b)
    <2>1. ~Pending(d.cmd)
        BY <1>1, <1>2, NoneIsNotPending DEF Placed
    <2>. QED
        BY <1>3, <1>4, <2>1 DEF Pays
<1>9. Tally(b) /\ Settles(b)
    BY <1>3, <1>4 DEF Tally, Settles, MaySettle, Due
<1>10. Books(datasets, b, n, n, verified, manager.acts)
    BY <1>1, <1>4, BooksSame DEF GoesOnAs, FillsAs
<1>. QED
    BY <1>3, <1>6, <1>7, <1>8, <1>9, <1>10 DEF Does

(* A Release with no session left to stop.                                 *)
LEMMA WorkerOffDoes ==
    ASSUME DInv, NEW b \in Backgrounds, WorkerOff(b)
    PROVE  Does(b)
<1>. DEFINE d == dispatcher[b]
<1>1. Takes(b, "worker-off") /\ UNCHANGED <<runtimes, source, verified>>
    BY DEF WorkerOff
<1>2. CASE Answer(inbox[b], FALSE, None) /\ UNCHANGED <<dispatcher, datasets, failure, acks>>
    BY <1>1, <1>2, RefusedDoes
<1>3. CASE /\ ~worker_off_refused(d, inbox[b].flag) /\ d.session
           /\ Unchanged(b, [d EXCEPT !.pc = "stopping", !.cmd = inbox[b]])
           /\ UNCHANGED <<manager, datasets, failure, acks>>
    <2>1. inbox[b].flag => Due(d)
        BY <1>3 DEF worker_off_refused, Due
    <2>. QED
        BY <1>1, <1>3, <2>1, StoppingDoes
<1>4. ASSUME NEW flush_error \in FlushErrors(d),
             ~worker_off_refused(d, inbox[b].flag), ~d.session,
             Release(b, d, inbox[b], datasets, None, flush_error)
      PROVE  Does(b)
    <2>. DEFINE done == FlushSignal(b, flush_error) = None
                n == [Idle(d) EXCEPT !.auto_closed = FALSE, !.session = FALSE,
                            !.cmd = None, !.event_error = FALSE,
                            !.pc = IF done THEN "exited" ELSE "loop"]
    <2>1. /\ datasets' = finish(d, datasets, "completed", "no_loss_detected", flush_error)
          /\ Unchanged(b, n)
          /\ Answer(inbox[b], done, IF done THEN None ELSE None)
          /\ acks' = IF done /\ inbox[b].flag THEN [acks EXCEPT ![b] = @ + 1] ELSE acks
        BY <1>4 DEF Release
    <2>2. /\ Thread(d) /\ Base /\ d.current \in 0 .. Len(datasets) /\ Shelf(datasets)
          /\ Books(datasets, b, d, d, verified, manager.acts)
          /\ d.current # 0 => datasets[d.current].background_id = b
          /\ DOMAIN acks = Backgrounds
        BY Starts
    <2>3. acks' \in {acks, [acks EXCEPT ![b] = @ + 1]}
        BY <2>1
    <2>4. /\ Spares(b) /\ Pays(b) /\ Commanded(inbox'[b])
          /\ d.pc = "loop" /\ d.cmd = None
        BY <1>1, <2>1, <2>3, TakenSpares
    <2>5. dispatcher'[b] = n
        BY <2>1, <2>2, OneThread DEF Base
    <2>6. /\ Ended(n, d) /\ ~n.auto_closed
        BY <2>2 DEF Thread, Idle, Ended
    <2>. HIDE DEF n
    <2>7. Books(datasets, b, d, n, verified', manager.acts)
        <3>1. GoesOnAs(n, d)
            BY <2>6 DEF GoesOnAs, Ended
        <3>. QED
            BY <1>1, <2>2, <3>1, BooksFor
    <2>8. flush_error \in BOOLEAN /\ ~d.event_error
        BY <2>4, OpenIsWhole DEF FlushErrors
    <2>9. Stands(b) /\ Books(datasets', b, n, n, verified', manager.acts)
        BY <1>1, <1>4, <2>1, <2>2, <2>4, <2>5, <2>6, <2>7, <2>8, EndDoes
    <2>10. Tally(b)
        <3>1. inbox[b].flag => Due(d)
            BY <1>4 DEF worker_off_refused, Due
        <3>2. ~Due(n)
            BY <2>6 DEF Ended, Due
        <3>. HIDE DEF done, d
        <3>. QED
            BY <2>1, <2>2, <2>5, <3>1, <3>2 DEF Tally, d
    <2>11. Settles(b)
        BY <2>1, <2>2, HelpersTouch, TouchesSettle
    <2>. QED
        BY <2>4, <2>5, <2>9, <2>10, <2>11 DEF Does
<1>. QED
    BY <1>2, <1>3, <1>4 DEF WorkerOff

(* Cleanup with no session left to stop.                                   *)
LEMMA CleanupDoes ==
    ASSUME DInv, NEW b \in Backgrounds, Cleanup(b)
    PROVE  Does(b)
<1>. DEFINE d == dispatcher[b]
<1>1. Takes(b, "cleanup") /\ UNCHANGED <<runtimes, source, verified>>
    BY DEF Cleanup
<1>2. CASE /\ d.session
           /\ Unchanged(b, [d EXCEPT !.pc = "stopping", !.cmd = inbox[b]])
           /\ UNCHANGED <<manager, datasets, failure, acks>>
    BY <1>1, <1>2, StoppingDoes
<1>3. ASSUME NEW flush_error \in FlushErrors(d), ~d.session,
             CleanedUp(b, d, inbox[b], datasets, None, "whole", flush_error)
      PROVE  Does(b)
    <2>. DEFINE n == [Idle(d) EXCEPT !.session = FALSE, !.cmd = None,
                                     !.event_error = FALSE, !.pc = "exited"]
    <2>1. /\ datasets' = finish(d, datasets, "completed", "no_loss_detected", flush_error)
          /\ Unchanged(b, n)
          /\ \E ok \in BOOLEAN : Answer(inbox[b], ok, None)
          /\ acks' = acks
        BY <1>3 DEF CleanedUp
    <2>2. /\ Thread(d) /\ Base /\ d.current \in 0 .. Len(datasets) /\ Shelf(datasets)
          /\ Books(datasets, b, d, d, verified, manager.acts)
          /\ d.current # 0 => datasets[d.current].background_id = b
        BY Starts
    <2>3. /\ Spares(b) /\ Pays(b) /\ Commanded(inbox'[b])
          /\ d.pc = "loop" /\ d.cmd = None
        BY <1>1, <2>1, TakenSpares
    <2>4. dispatcher'[b] = n
        BY <2>1, <2>2, OneThread DEF Base
    <2>5. Ended(n, d) /\ n.auto_closed = d.auto_closed
        BY <2>2 DEF Thread, Idle, Ended
    <2>. HIDE DEF n
    <2>6. Books(datasets, b, d, n, verified', manager.acts)
        <3>1. GoesOnAs(n, d)
            BY <2>5 DEF GoesOnAs, Ended
        <3>. QED
            BY <1>1, <2>2, <3>1, BooksFor
    <2>7. flush_error \in BOOLEAN /\ ~d.event_error
        BY <2>3, OpenIsWhole DEF FlushErrors
    <2>8. Stands(b) /\ Books(datasets', b, n, n, verified', manager.acts)
        BY <1>1, <1>3, <2>1, <2>2, <2>3, <2>4, <2>5, <2>6, <2>7, EndDoes
    <2>9. Tally(b)
        BY <2>1, <2>4, <2>5 DEF Tally, Due, Ended
    <2>10. Settles(b)
        BY <2>1, <2>2, HelpersTouch, TouchesSettle
    <2>. QED
        BY <2>3, <2>4, <2>8, <2>9, <2>10 DEF Does
<1>. QED
    BY <1>2, <1>3 DEF Cleanup

-----------------------------------------------------------------------------
(* stop() returns.                                                         *)

(* The Worker is being stopped by cleanup, after the operator's stop.      *)
StoppedHere(d) == d.cmd # None /\ d.cmd.action = "cleanup" /\ d.cmd.flag

(* No verdict but "error" is without evidence.                             *)
LEMMA VerdictNeedsEvidence ==
    ASSUME NEW d, NEW success, NEW accepted, NEW stopped,
           Verdict(d, success, accepted, stopped) # "error"
    PROVE  Evidence(d)
BY DEF Verdict

(* A run judged whole is incomplete only as a scope's, and then it was     *)
(* stopped by the workflow.                                                *)
LEMMA WholeIsWhole ==
    ASSUME NEW d, NEW success, NEW accepted, NEW stopped,
           Verdict(d, success, accepted, stopped) = "whole",
           d.kind \in Kinds, FinalQuality(d) = "incomplete"
    PROVE  /\ d.kind = "scopes" /\ stopped
           /\ d.summary.captured = d.total
           /\ d.summary.data_integrity = "incomplete"
           /\ ~(Limit > 0 /\ d.total # Limit)
<1>1. Evidence(d) /\ ~NotOurs(d, accepted, stopped)
    BY DEF Verdict
<1>2. d.kind # "serial" /\ d.summary.data_integrity = "incomplete"
    BY DEF FinalQuality
<1>3. CASE d.kind = "scopes"
    <2>1. OfScopes(d, success, accepted, stopped) = "whole"
        BY <1>1, <1>3 DEF Verdict
    <2>. QED
        BY <1>2, <1>3, <2>1 DEF OfScopes
<1>4. CASE d.kind \in {"simple", "custom"}
    <2>1. OfMeters(d, success, accepted, stopped) = "whole"
        BY <1>1, <1>4 DEF Verdict
    <2>2. ~validate_background_summary(d)
        BY <1>2 DEF validate_background_summary
    <2>3. validate_stopped_background_summary(d, success) # "whole"
        BY <2>2 DEF validate_stopped_background_summary
    <2>. QED
        BY <2>1, <2>2, <2>3 DEF OfMeters
<1>. QED
    BY <1>2, <1>3, <1>4 DEF Kinds

(* What a verdict settles was completed and not judged, and it is settled  *)
(* for the worse only by a scope without a count.                          *)
LEMMA JudgedSettles ==
    ASSUME DInv, NEW b \in Backgrounds, dispatcher[b].pc = "stopping",
           NEW success, NEW accepted, NEW verdict,
           \/ verdict = "error"
           \/ verdict = Verdict(dispatcher[b], success, accepted, StoppedHere(dispatcher[b])),
           NEW sets, sets = Judged(b, dispatcher[b], verdict)
    PROVE  \A i \in 1 .. Len(datasets) :
              i # dispatcher[b].current => MaySettle(sets[i], datasets[i], b)
<1>. SUFFICES ASSUME NEW i \in 1 .. Len(datasets), i # dispatcher[b].current,
                     NEW set, set = sets[i]
              PROVE  MaySettle(set, datasets[i], b)
    OBVIOUS
<1>. DEFINE d == dispatcher[b]
            old == datasets[i]
            stopped == StoppedHere(d)
<1>1. \/ set = old
      \/ /\ verdict # "error"
         /\ old.background_id = b /\ old.run = d.run /\ old.status # "failed"
         /\ ~(verdict = "shortfall" /\ old.status = "completed")
         /\ set = [old EXCEPT !.quality = FinalQuality(d)]
    BY DEF Judged
<1>2. ASSUME verdict # "error",
             old.background_id = b, old.run = d.run, old.status # "failed",
             ~(verdict = "shortfall" /\ old.status = "completed"),
             set = [old EXCEPT !.quality = FinalQuality(d)]
      PROVE  /\ old.status = "completed" /\ old.quality = "unknown"
             /\ set.quality = "incomplete" => Kind(b) = "scopes" /\ Limit = 0
             /\ set = [old EXCEPT !.quality = set.quality]
    <2>1. /\ Books(datasets, b, d, d, verified, manager.acts) /\ Shelf(datasets)
          /\ Placed(d, source[b], Kind(b), manager.acts) /\ InStep(d, source[b], Limit)
          /\ Kind(b) \in Kinds /\ Limit \in Nat
        BY Starts
    <2>2. d.session /\ d.kind = Kind(b)
        BY <2>1 DEF Placed
    <2>3. Filled(old, d)
        BY <1>2, <2>1 DEF Books
    <2>4. old.status = "completed" /\ old.quality = "unknown"
        BY <1>2, <2>2, <2>3 DEF Filled
    <2>5. Shape(old)
        BY <2>1 DEF Shelf
    <2>6. set.quality = FinalQuality(d)
        BY <1>2, <2>5 DEF Shape
    <2>7. verdict = Verdict(d, success, accepted, stopped) /\ verdict # "shortfall"
        BY <1>2, <2>4
    <2>8. ASSUME FinalQuality(d) = "incomplete"
          PROVE  Kind(b) = "scopes" /\ Limit = 0
        <3>1. verdict \in {"whole", "shortfall", "error"}
            BY <2>7 DEF Verdict, OfSerial, OfScopes, OfMeters, validate_stopped_background_summary
        <3>2. verdict = "whole" /\ d.kind \in Kinds
            BY <1>2, <2>1, <2>2, <2>7, <3>1
        <3>3. /\ d.kind = "scopes" /\ StoppedHere(d)
              /\ d.summary.captured = d.total
              /\ d.summary.data_integrity = "incomplete"
              /\ ~(Limit > 0 /\ d.total # Limit)
            <4>1. /\ Verdict(d, success, accepted, stopped) = "whole"
                  /\ d.kind \in Kinds /\ FinalQuality(d) = "incomplete"
                BY <2>7, <2>8, <3>2
            <4>. HIDE DEF d
            <4>. QED
                BY <4>1, WholeIsWhole
        <3>4. Evidence(d)
            BY <1>2, <2>7, VerdictNeedsEvidence
        <3>5. source[b].index = d.total /\ ~source[b].lost
            BY <2>1, <2>2, <3>3, <3>4 DEF InStep, Evidence, StoppedHere
        <3>6. Limit > 0 => source[b].lost \/ source[b].index < Limit
            BY <2>1, <2>2, <3>3, <3>4 DEF InStep, Evidence
        <3>. QED
            BY <2>1, <2>2, <3>3, <3>5, <3>6
    <2>. QED
        BY <1>2, <2>4, <2>6, <2>8
<1>. QED
    BY <1>1, <1>2 DEF MaySettle

(* However stop() ends, the books are right and nothing finished is        *)
(* written: what was open is failed, or was filled in step and is closed   *)
(* on the run's evidence.                                                  *)
LEMMA StopCloses ==
    ASSUME DInv, NEW b \in Backgrounds, dispatcher[b].pc = "stopping",
           NEW success, NEW accepted, NEW verdict,
           \/ verdict = "error"
           \/ verdict = Verdict(dispatcher[b], success, accepted, StoppedHere(dispatcher[b])),
           verified' = IF verdict = "error" THEN verified
                       ELSE verified \cup {<<b, dispatcher[b].run>>},
           source' = [source EXCEPT ![b].phase = "closed"],
           NEW n, Ended(n, dispatcher[b]), dispatcher'[b] = n, Commanded(inbox'[b]),
           NEW e, e.current = dispatcher[b].current, e.summary = dispatcher[b].summary,
           e.kind = dispatcher[b].kind, NEW flush_error \in BOOLEAN,
           \/ datasets' = finish(e, FailCurrent(Judged(b, dispatcher[b], verdict),
                                                dispatcher[b].current),
                                 "failed", "incomplete", FALSE)
           \/ /\ verdict # "error"
              /\ \E status \in {"completed", "incomplete"} :
                    datasets' = finish(e, Judged(b, dispatcher[b], verdict), status,
                                       "no_loss_detected", flush_error)
    PROVE  /\ Stands(b) /\ Settles(b)
           /\ Books(datasets', b, n, n, verified', manager.acts)
<1>. DEFINE d == dispatcher[b]
            sets == Judged(b, d, verdict)
            bad == FailCurrent(sets, d.current)
            acts == manager.acts
<1>1. /\ Shelf(datasets) /\ d.current \in 0 .. Len(datasets) /\ acts \in Nat
      /\ d.current # 0 => datasets[d.current].background_id = b
      /\ Books(datasets, b, d, d, verified, acts) /\ DOMAIN source = Backgrounds
      /\ Len(datasets) \in Nat /\ DOMAIN source[b] = {"phase", "index", "lost"}
    BY Starts
<1>2. source'[b] \in {source[b], [source[b] EXCEPT !.phase = "closed"]}
    BY <1>1
<1>3. /\ verified \subseteq verified'
      /\ verdict # "error" => <<b, d.run>> \in verified' /\ ~d.event_error
    BY VerdictNeedsEvidence DEF Evidence
<1>4. GoesOnAs(n, d) /\ ~n.session
    BY DEF Ended, GoesOnAs
<1>5. Shelf(sets) /\ Len(sets) = Len(datasets)
      /\ \A i \in 1 .. Len(datasets) : sets[i].background_id = datasets[i].background_id
    <2>1. Ends(sets, datasets, 0)
        BY <1>1, Settled
    <2>. HIDE DEF sets
    <2>. QED
        BY <2>1 DEF Ends
<1>6. Books(sets, b, d, n, verified', acts)
    BY <1>1, <1>3, <1>4, BooksJudge
<1>7. d.current # 0 => sets[d.current].background_id = b
    BY <1>1, <1>5
<1>8. \A i \in 1 .. Len(datasets) : i # d.current => MaySettle(sets[i], datasets[i], b)
    BY JudgedSettles
<1>9. ASSUME Touches(datasets', sets, d.current)
      PROVE  Settles(b)
    BY <1>5, <1>8, <1>9 DEF Touches, Settles, MaySettle
<1>10. CASE datasets' = finish(e, bad, "failed", "incomplete", FALSE)
    <2>1. /\ Books(bad, b, d, n, verified', acts)
          /\ d.current # 0 => bad[d.current].status = "failed"
        <3>. HIDE DEF sets
        <3>. QED
            BY <1>1, <1>5, <1>6, BooksFail
    <2>2. Shelf(bad) /\ Len(bad) = Len(sets)
        <3>. HIDE DEF sets
        <3>. QED
            BY <1>1, <1>5, Failed DEF Ends
    <2>3. Stands(b) /\ Books(datasets', b, n, n, verified', acts)
        <3>. HIDE DEF sets, bad
        <3>. QED
            BY <1>2, <1>5, <1>10, <2>1, <2>2, EndDoes
    <2>4. Touches(datasets', sets, d.current)
        <3>1. Touches(bad, sets, d.current)
            BY <1>5, HelpersTouch
        <3>2. Touches(datasets', bad, d.current)
            <4>. HIDE DEF bad
            <4>1. Touches(datasets', bad, e.current)
                BY <1>10, <2>2, HelpersTouch
            <4>. QED
                BY <4>1
        <3>. HIDE DEF sets, bad
        <3>. QED
            BY <2>2, <3>1, <3>2 DEF Touches
    <2>. QED
        BY <1>9, <2>3, <2>4
<1>11. ASSUME verdict # "error", NEW status \in {"completed", "incomplete"},
              datasets' = finish(e, sets, status, "no_loss_detected", flush_error)
       PROVE  /\ Stands(b) /\ Settles(b)
              /\ Books(datasets', b, n, n, verified', acts)
    <2>1. status \in {"completed", "incomplete", "failed"}
        BY <1>11
    <2>2. Stands(b) /\ Books(datasets', b, n, n, verified', acts)
        <3>. HIDE DEF sets
        <3>. QED
            BY <1>2, <1>3, <1>5, <1>6, <1>7, <1>11, <2>1, EndDoes
    <2>3. Touches(datasets', sets, d.current)
        <3>. HIDE DEF sets
        <3>1. Touches(datasets', sets, e.current)
            BY <1>5, <1>11, HelpersTouch
        <3>. QED
            BY <3>1
    <2>. QED
        BY <1>9, <2>2, <2>3
<1>. QED
    BY <1>10, <1>11

(* stop() has returned: whoever asked is answered, and a thread that exits *)
(* drops what is still queued for it.                                      *)
LEMMA StopDoes ==
    ASSUME DInv, NEW b \in Backgrounds, StopReturns(b)
    PROVE  Does(b)
<1>. DEFINE d == dispatcher[b]
            n == dispatcher'[b]
            open == [d EXCEPT !.session = FALSE, !.event_error = FALSE]
<1>1. PICK clean \in BOOLEAN, success \in BOOLEAN, accepted \in BOOLEAN,
           flush_error \in FlushErrors(d) :
          LET verdict ==
                IF clean
                THEN Verdict(d, success, accepted,
                             d.cmd # None /\ d.cmd.action = "cleanup" /\ d.cmd.flag)
                ELSE "error"
          IN /\ AfterStop(b, d, verdict, flush_error)
             /\ verified' = IF verdict = "error" THEN verified
                            ELSE verified \cup {<<b, d.run>>}
    BY DEF StopReturns
<1>. DEFINE verdict == IF clean THEN Verdict(d, success, accepted, StoppedHere(d)) ELSE "error"
            sets == Judged(b, d, verdict)
<1>2. /\ AfterStop(b, d, verdict, flush_error)
      /\ verified' = IF verdict = "error" THEN verified ELSE verified \cup {<<b, d.run>>}
      /\ verdict = "error" \/ verdict = Verdict(d, success, accepted, StoppedHere(d))
    BY <1>1 DEF StoppedHere
<1>3. /\ d.pc = "stopping" /\ source' = [source EXCEPT ![b].phase = "closed"]
      /\ inbox' = IF Exits(b) THEN [inbox EXCEPT ![b] = None] ELSE inbox
    BY DEF StopReturns
<1>4. /\ Thread(d) /\ Base /\ DOMAIN inbox = Backgrounds /\ DOMAIN source = Backgrounds
      /\ DOMAIN acks = Backgrounds /\ DOMAIN source[b] = {"phase", "index", "lost"}
      /\ Commanded(inbox[b]) /\ Commanded(d.cmd)
      /\ Placed(d, source[b], Kind(b), manager.acts)
    BY Starts
<1>5. /\ DOMAIN inbox' = Backgrounds /\ Commanded(inbox'[b])
      /\ \A c \in Backgrounds \ {b} : inbox'[c] = inbox[c]
      /\ n.pc = "exited" => inbox'[b] = None
      /\ n.pc # "exited" => inbox'[b] = inbox[b]
    BY <1>3, <1>4 DEF Exits, Commanded
<1>6. /\ DOMAIN source' = Backgrounds /\ DOMAIN source'[b] = {"phase", "index", "lost"}
      /\ \A c \in Backgrounds \ {b} : source'[c] = source[c]
    BY <1>3, <1>4
<1>7. verified \subseteq verified'
    BY <1>2
<1>8. flush_error \in BOOLEAN
    BY DEF FlushErrors
<1>9. /\ Thread(open) /\ open.current = d.current /\ open.summary = d.summary
      /\ open.kind = d.kind /\ open.auto_closed = d.auto_closed /\ open.run = d.run
      /\ open.total = d.total /\ open.stream_state = d.stream_state
      /\ open.session = FALSE /\ open.event_error = FALSE /\ open.cmd = d.cmd
    BY <1>4 DEF Thread
<1>10. ASSUME Ended(n, d), Tally(b), Pays(b),
              manager'.config = manager.config, manager'.acts = manager.acts,
              DOMAIN acks' = Backgrounds, \A c \in Backgrounds \ {b} : acks'[c] = acks[c],
              NEW e, e.current = d.current, e.summary = d.summary, e.kind = d.kind,
              \/ datasets' = finish(e, FailCurrent(sets, d.current),
                                    "failed", "incomplete", FALSE)
              \/ /\ verdict # "error"
                 /\ \E status \in {"completed", "incomplete"} :
                       datasets' = finish(e, sets, status, "no_loss_detected", flush_error)
       PROVE  Does(b)
    <2>1. Stands(b) /\ Settles(b) /\ Books(datasets', b, n, n, verified', manager.acts)
        <3>. HIDE DEF verdict
        <3>. QED
            BY <1>2, <1>3, <1>5, <1>8, <1>10, StopCloses
    <2>2. Spares(b)
        BY <1>5, <1>6, <1>7, <1>10 DEF Spares
    <2>. QED
        BY <1>10, <2>1, <2>2 DEF Does
<1>. HIDE DEF verdict, sets
<1>11. CASE d.cmd # None /\ d.cmd.action = "cleanup"
    <2>. DEFINE m == [Idle(open) EXCEPT !.session = FALSE, !.cmd = None,
                         !.event_error = FALSE, !.pc = "exited"]
                status == IF verdict = "shortfall" THEN "incomplete" ELSE "completed"
    <2>1. CleanedUp(b, open, d.cmd, sets, inbox[b], verdict, flush_error)
        BY <1>2, <1>11 DEF AfterStop, sets
    <2>2. /\ Unchanged(b, m) /\ acks' = acks
          /\ \E ok \in BOOLEAN : Answer(d.cmd, ok, inbox[b])
        BY <2>1 DEF CleanedUp
    <2>3. n = m
        BY <1>4, <2>2, OneThread DEF Base
    <2>4. m.pc = "exited" /\ Ended(m, d) /\ m.auto_closed = d.auto_closed
        <3>. HIDE DEF open
        <3>. QED
            BY <1>9 DEF Thread, Idle, Ended
    <2>5. /\ manager'.config = manager.config /\ manager'.acts = manager.acts
          /\ manager'.reply = None => manager.reply = None
          /\ Pending(d.cmd) \/ Pending(inbox[b]) => manager'.reply # None
        BY <1>4, <2>2, AnswerPays DEF Base
    <2>6. \/ datasets' = finish(open, FailCurrent(sets, d.current), "failed", "incomplete", FALSE)
          \/ verdict # "error" /\ datasets' = finish(open, sets, status, "no_loss_detected",
                                                     flush_error)
        BY <1>9, <2>1 DEF CleanedUp
    <2>. HIDE DEF m, open
    <2>7. Tally(b) /\ Pays(b)
        BY <2>2, <2>3, <2>4, <2>5 DEF Tally, Pays, Due, Ended
    <2>. QED
        BY <1>4, <1>9, <1>10, <2>2, <2>3, <2>4, <2>5, <2>6, <2>7
<1>12. CASE d.cmd # None /\ d.cmd.action # "cleanup" /\ verdict # "error"
    <2>. DEFINE done == FlushSignal(b, flush_error) = None
                m == [Idle(open) EXCEPT !.auto_closed = FALSE, !.session = FALSE,
                         !.cmd = None, !.event_error = FALSE,
                         !.pc = IF done THEN "exited" ELSE "loop"]
    <2>1. Release(b, open, d.cmd, sets, inbox[b], flush_error)
        BY <1>2, <1>12 DEF AfterStop, sets
    <2>2. /\ Unchanged(b, m)
          /\ datasets' = finish(open, sets, "completed", "no_loss_detected", flush_error)
          /\ Answer(d.cmd, done, IF done THEN inbox[b] ELSE None)
          /\ acks' = IF done /\ d.cmd.flag THEN [acks EXCEPT ![b] = @ + 1] ELSE acks
        BY <2>1 DEF Release
    <2>3. n = m
        BY <1>4, <2>2, OneThread DEF Base
    <2>4. /\ Ended(m, d) /\ ~m.auto_closed
          /\ done => m.pc = "exited"
          /\ ~done => m.pc = "loop"
        <3>. HIDE DEF open, done
        <3>. QED
            BY <1>9 DEF Thread, Idle, Ended
    <2>5. /\ manager'.config = manager.config /\ manager'.acts = manager.acts
          /\ manager'.reply = None => manager.reply = None
          /\ Pending(d.cmd) \/ (done /\ Pending(inbox[b])) => manager'.reply # None
        BY <1>4, <2>2, AnswerPays DEF Base
    <2>6. d.cmd.flag => Due(d)
        BY <1>3, <1>4, <1>12 DEF Placed, Due
    <2>. HIDE DEF m, open, done
    <2>7. /\ DOMAIN acks' = Backgrounds /\ \A c \in Backgrounds \ {b} : acks'[c] = acks[c]
          /\ acks'[b] = IF done /\ d.cmd.flag THEN acks[b] + 1 ELSE acks[b]
        BY <1>4, <2>2
    <2>8. Tally(b)
        BY <2>3, <2>4, <2>6, <2>7 DEF Tally, Due, Ended
    <2>9. Pays(b)
        BY <1>5, <2>3, <2>4, <2>5 DEF Pays
    <2>. QED
        BY <1>9, <1>10, <1>12, <2>2, <2>3, <2>4, <2>5, <2>7, <2>8, <2>9
<1>13. CASE d.cmd = None /\ d.ended /\ verdict # "error"
    <2>. DEFINE m == [Idle(open) EXCEPT !.pc = "loop", !.auto_closed = d.current # 0]
    <2>1. /\ datasets' = finish(d, sets, "completed", "no_loss_detected", flush_error)
          /\ Unchanged(b, m)
          /\ UNCHANGED <<manager, acks>>
        BY <1>2, <1>13 DEF AfterStop, sets
    <2>2. n = m
        BY <1>4, <2>1, OneThread DEF Base
    <2>3. /\ Ended(m, d) /\ m.pc = "loop"
          /\ m.auto_closed => d.current # 0
        <3>. HIDE DEF open
        <3>. QED
            BY <1>9, <1>13 DEF Thread, Idle, Ended
    <2>. HIDE DEF m, open
    <2>4. Tally(b)
        BY <2>1, <2>2, <2>3 DEF Tally, Due, Ended
    <2>5. Pays(b)
        BY <1>5, <1>13, <2>1, <2>2, <2>3, NoneIsNotPending DEF Pays
    <2>. QED
        BY <1>4, <1>10, <1>13, <2>1, <2>2, <2>3, <2>4, <2>5
<1>14. CASE /\ ~(d.cmd # None /\ d.cmd.action = "cleanup")
            /\ ~(d.cmd # None /\ verdict # "error")
            /\ ~(d.ended /\ verdict # "error")
    <2>. DEFINE m == [Idle(open) EXCEPT !.cmd = None,
                         !.pc = IF d.cmd = None THEN "loop" ELSE "exited"]
    <2>1. /\ datasets' = finish(d, FailCurrent(sets, d.current), "failed", "incomplete", FALSE)
          /\ Unchanged(b, m)
          /\ Answer(d.cmd, FALSE, IF d.cmd = None THEN None ELSE inbox[b])
          /\ UNCHANGED acks
        BY <1>2, <1>14 DEF AfterStop, sets
    <2>2. n = m
        BY <1>4, <2>1, OneThread DEF Base
    <2>3. /\ Ended(m, d) /\ m.auto_closed = d.auto_closed
          /\ m.pc = IF d.cmd = None THEN "loop" ELSE "exited"
        <3>. HIDE DEF open
        <3>. QED
            BY <1>9 DEF Thread, Idle, Ended
    <2>4. /\ manager'.config = manager.config /\ manager'.acts = manager.acts
          /\ manager'.reply = None => manager.reply = None
          /\ Pending(d.cmd) \/ (d.cmd # None /\ Pending(inbox[b])) => manager'.reply # None
        BY <1>4, <2>1, AnswerPays DEF Base
    <2>. HIDE DEF m, open
    <2>5. Tally(b)
        BY <2>1, <2>2, <2>3 DEF Tally, Due, Ended
    <2>6. Pays(b)
        BY <1>5, <2>2, <2>3, <2>4, NoneIsNotPending DEF Pays
    <2>. QED
        BY <1>4, <1>10, <2>1, <2>2, <2>3, <2>4, <2>5, <2>6
<1>. QED
    BY <1>11, <1>12, <1>13, <1>14

-----------------------------------------------------------------------------
(* What a Worker says.                                                     *)

(* An event is one the Worker may emit in the phase it is in.              *)
LEMMA EventsFollow ==
    ASSUME NEW b \in Backgrounds, NEW e \in Events(b)
    PROVE  LET s == source[b]
           IN /\ e.kind \in {"sample", "active", "ended", "summary", "error"}
              /\ e.kind = "sample" => e.captured \in Nat /\ s.phase \in {"active", "ended"}
              /\ e.kind = "active" => s.phase = "idle"
              /\ e.kind = "ended" => s.phase = "active"
              /\ e.kind = "summary" =>
                    /\ s.phase = "ended"
                    /\ e.summary.captured = s.index
                    /\ HonestSummary(b, e.summary)
<1>. DEFINE phase == source[b].phase
            kinds == CASE phase = "idle" -> {"active", "error"}
                       [] phase = "active" -> {"ended", "error"}
                       [] phase = "closed" -> {}
                       [] OTHER -> {"error"}
<1>1. CASE e \in Samples(b)
    <2>1. e.kind = "sample" /\ e.captured \in Nat /\ phase \in {"active", "ended"}
        BY <1>1 DEF Samples
    <2>. QED
        BY <2>1
<1>2. CASE e \in [kind : kinds]
    <2>1. e.kind \in kinds
        BY <1>2
    <2>2. /\ e.kind \in {"active", "ended", "error"}
          /\ e.kind = "active" => phase = "idle"
          /\ e.kind = "ended" => phase = "active"
        BY <2>1
    <2>. HIDE DEF kinds
    <2>. QED
        BY <2>2
<1>3. CASE e \in [kind : {"summary"}, summary : IF phase = "ended" THEN Summaries(b) ELSE {}]
    <2>1. e.kind = "summary" /\ phase = "ended" /\ e.summary \in Summaries(b)
        BY <1>3
    <2>2. e.summary.captured = source[b].index /\ HonestSummary(b, e.summary)
        BY <2>1 DEF Summaries
    <2>. QED
        BY <2>1, <2>2
<1>. QED
    BY <1>1, <1>2, <1>3 DEF Events

(* The Worker has said it.                                                 *)
LEMMA SaysSo ==
    ASSUME DInv, NEW b \in Backgrounds, NEW e \in Events(b), Says(b, e)
    PROVE  LET s == source[b]
               t == source'[b]
           IN /\ DOMAIN source' = Backgrounds /\ DOMAIN t = {"phase", "index", "lost"}
              /\ \A c \in Backgrounds \ {b} : source'[c] = source[c]
              /\ e.kind = "active" => t.phase = "active"
              /\ e.kind = "ended" => t.phase = "ended"
              /\ e.kind = "summary" => t.phase = "summed"
              /\ e.kind \in {"sample", "error"} => t.phase = s.phase
              /\ e.kind = "sample" =>
                    t.index = e.captured /\ (t.lost => s.lost \/ e.captured # s.index + 1)
              /\ e.kind # "sample" => t.index = s.index /\ t.lost = s.lost
<1>. DEFINE s == source[b]
            t == source'[b]
<1>1. DOMAIN source = Backgrounds /\ DOMAIN s = {"phase", "index", "lost"}
    BY Starts
<1>2. /\ DOMAIN source' = Backgrounds
      /\ \A c \in Backgrounds \ {b} : source'[c] = source[c]
    BY <1>1 DEF Says
<1>3. CASE e.kind = "active"
    <2>1. t = [s EXCEPT !.phase = "active"]
        BY <1>1, <1>3 DEF Says
    <2>. QED
        BY <1>1, <1>2, <1>3, <2>1
<1>4. CASE e.kind = "ended"
    <2>1. t = [s EXCEPT !.phase = "ended"]
        BY <1>1, <1>4 DEF Says
    <2>. QED
        BY <1>1, <1>2, <1>4, <2>1
<1>5. CASE e.kind = "summary"
    <2>1. t = [s EXCEPT !.phase = "summed"]
        BY <1>1, <1>5 DEF Says
    <2>. QED
        BY <1>1, <1>2, <1>5, <2>1
<1>6. CASE e.kind = "sample"
    <2>1. t = [s EXCEPT !.index = e.captured, !.lost = s.lost \/ e.captured # s.index + 1]
        BY <1>1, <1>6 DEF Says
    <2>2. /\ DOMAIN t = {"phase", "index", "lost"} /\ t.phase = s.phase /\ t.index = e.captured
          /\ t.lost => s.lost \/ e.captured # s.index + 1
        BY <1>1, <2>1
    <2>. QED
        BY <1>2, <1>6, <2>2
<1>7. CASE e.kind = "error"
    <2>1. t = s
        BY <1>1, <1>7 DEF Says
    <2>. QED
        BY <1>1, <1>2, <1>7, <2>1
<1>8. e.kind \in {"sample", "active", "ended", "summary", "error"}
    BY EventsFollow
<1>. QED
    BY <1>3, <1>4, <1>5, <1>6, <1>7, <1>8

(* The thread when it has taken an event in.                               *)
Follows(n, d, e) ==
    /\ n.run = d.run /\ n.kind = d.kind /\ n.session = d.session /\ n.cmd = d.cmd
    /\ n.current = d.current /\ n.auto_closed = d.auto_closed
    /\ n.total = IF Filed(d, e) THEN d.total + 1 ELSE d.total
    /\ n.summary = IF e.kind = "summary" THEN e.summary ELSE d.summary
    /\ n.stream_state = IF e.kind \in {"active", "ended"} THEN e.kind ELSE d.stream_state

(* A sample that is the next in turn.                                      *)
InTurn(d, e) == e.kind = "sample" => Filed(d, e) /\ Number(d, e) = d.total + 1

(* Absorb takes an event in.                                               *)
LEMMA AbsorbFollows ==
    ASSUME NEW d, Thread(d), NEW e
    PROVE  LET m == Absorb(d, e)
           IN Follows(m, d, e) /\ m.pc = d.pc /\ m.event_error = d.event_error
<1>. DEFINE m == Absorb(d, e)
<1>1. CASE e.kind = "active"
    <2>1. m = [d EXCEPT !.stream_state = "active"] /\ ~Filed(d, e)
        BY <1>1 DEF Absorb, Filed
    <2>. QED
        BY <1>1, <2>1 DEF Follows, Thread
<1>2. CASE e.kind = "ended"
    <2>1. m = [d EXCEPT !.stream_state = "ended"] /\ ~Filed(d, e)
        BY <1>2 DEF Absorb, Filed
    <2>. QED
        BY <1>2, <2>1 DEF Follows, Thread
<1>3. CASE Filed(d, e)
    <2>1. m = [d EXCEPT !.total = d.total + 1] /\ e.kind = "sample"
        BY <1>3 DEF Absorb, Filed
    <2>. QED
        BY <1>3, <2>1 DEF Follows, Thread
<1>4. CASE e.kind = "summary"
    <2>1. m = [d EXCEPT !.summary = e.summary] /\ ~Filed(d, e)
        BY <1>4 DEF Absorb, Filed
    <2>. QED
        BY <1>4, <2>1 DEF Follows, Thread
<1>5. CASE e.kind \notin {"active", "ended", "summary"} /\ ~Filed(d, e)
    <2>1. m = d
        BY <1>5 DEF Absorb
    <2>. QED
        BY <1>5, <2>1 DEF Follows
<1>. QED
    BY <1>1, <1>2, <1>3, <1>4, <1>5

(* A thread that has taken in what its Worker said is in step with it,     *)
(* unless the event was wrong and it knows.                                *)
LEMMA EventStands ==
    ASSUME DInv, NEW b \in Backgrounds, NEW e \in Events(b), Says(b, e),
           dispatcher[b].session, NEW n, Follows(n, dispatcher[b], e),
           n.pc \in {dispatcher[b].pc, "stopping"}, dispatcher[b].pc \in {"loop", "stopping"},
           n.event_error => n.pc = "stopping",
           dispatcher[b].event_error => n.event_error,
           ~n.event_error /\ ~(n.pc = "stopping" /\ n.cmd = None) => InTurn(dispatcher[b], e)
    PROVE  Placed(n, source'[b], Kind(b), manager.acts) /\ InStep(n, source'[b], Limit)
<1>. DEFINE d == dispatcher[b]
            s == source[b]
            t == source'[b]
<1>1. /\ Placed(d, s, Kind(b), manager.acts) /\ InStep(d, s, Limit)
      /\ Limit \in Nat
    BY Starts
<1>2. Placed(n, t, Kind(b), manager.acts)
    BY <1>1 DEF Placed, Follows
<1>3. /\ e.kind = "active" => t.phase = "active"
      /\ e.kind = "ended" => t.phase = "ended"
      /\ e.kind = "summary" => t.phase = "summed"
      /\ e.kind \in {"sample", "error"} => t.phase = s.phase
      /\ e.kind = "sample" => t.index = e.captured /\ (t.lost => s.lost \/ e.captured # s.index + 1)
      /\ e.kind # "sample" => t.index = s.index /\ t.lost = s.lost
    BY SaysSo
<1>4. /\ e.kind \in {"sample", "active", "ended", "summary", "error"}
      /\ e.kind = "sample" => e.captured \in Nat /\ s.phase \in {"active", "ended"}
      /\ e.kind = "active" => s.phase = "idle"
      /\ e.kind = "ended" => s.phase = "active"
      /\ e.kind = "summary" => /\ s.phase = "ended" /\ e.summary.captured = s.index
                               /\ HonestSummary(b, e.summary)
    BY EventsFollow
<1>5. Filed(d, e) => e.kind = "sample"
    BY DEF Filed
<1>6. n.total \in Nat /\ t.index \in Nat
    BY <1>1, <1>3, <1>4 DEF Follows, InStep
<1>7. /\ n.summary # None => n.stream_state = "ended" /\ t.phase \in {"summed", "closed"}
      /\ t.phase \in {"ended", "summed"} => n.stream_state = "ended"
    BY <1>1, <1>3, <1>4 DEF Follows, InStep
<1>8. ASSUME n.session, n.kind # "serial", ~n.event_error, ~(n.pc = "stopping" /\ n.cmd = None)
      PROVE  t.index = n.total /\ ~t.lost
    <2>1. s.index = d.total /\ ~s.lost /\ InTurn(d, e)
        BY <1>1, <1>8 DEF InStep, Follows
    <2>2. CASE e.kind = "sample"
        <3>1. e.captured = d.total + 1 /\ n.total = d.total + 1
            BY <1>8, <2>1, <2>2 DEF InTurn, Number, Follows
        <3>. QED
            BY <1>3, <2>1, <2>2, <3>1
    <2>3. CASE e.kind # "sample"
        BY <1>3, <1>5, <2>1, <2>3 DEF Follows
    <2>. QED
        BY <2>2, <2>3
<1>9. ASSUME n.session, n.kind = "scopes", n.summary # None
      PROVE  /\ n.summary.captured = t.index
             /\ n.summary.data_integrity = "incomplete" /\ Limit > 0 => t.lost \/ t.index < Limit
    <2>1. CASE e.kind = "summary"
        <3>1. Kind(b) = "scopes" /\ n.summary = e.summary
            BY <1>1, <1>9, <2>1 DEF Placed, Follows
        <3>2. e.summary.data_integrity = "incomplete" =>
                  s.lost \/ (Limit > 0 /\ s.index < Limit)
                  \/ (Limit = 0 /\ e.summary.stop_reason # "completed")
            BY <1>4, <2>1, <3>1 DEF HonestSummary
        <3>. QED
            BY <1>1, <1>3, <1>4, <2>1, <3>1, <3>2
    <2>2. CASE e.kind # "summary"
        <3>1. n.summary = d.summary /\ d.summary # None /\ d.kind = "scopes"
            BY <1>9, <2>2 DEF Follows
        <3>2. s.phase \in {"summed", "closed"}
            BY <1>1, <3>1 DEF InStep
        <3>3. e.kind # "sample"
            BY <1>4, <3>2
        <3>. QED
            BY <1>1, <1>3, <3>1, <3>3 DEF InStep
    <2>. QED
        BY <2>1, <2>2
<1>10. InStep(n, t, Limit)
    BY <1>6, <1>7, <1>8, <1>9 DEF InStep
<1>. QED
    BY <1>2, <1>10

(* A step of the stream tells the manager nothing.                         *)
LEMMA StreamDoes ==
    ASSUME DInv, NEW b \in Backgrounds, UNCHANGED <<manager, inbox, verified, acks>>,
           DOMAIN source' = Backgrounds, DOMAIN source'[b] = {"phase", "index", "lost"},
           \A c \in Backgrounds \ {b} : source'[c] = source[c],
           NEW n, dispatcher'[b] = n, n.cmd = dispatcher[b].cmd,
           n.current = dispatcher[b].current, n.auto_closed = dispatcher[b].auto_closed,
           Placed(n, source'[b], Kind(b), manager.acts), InStep(n, source'[b], Limit),
           Touches(datasets', datasets, dispatcher[b].current),
           Books(datasets', b, n, n, verified, manager.acts)
    PROVE  Does(b)
<1>1. Spares(b)
    BY Starts DEF Spares
<1>2. Stands(b)
    BY Starts DEF Stands
<1>3. Tally(b) /\ Pays(b)
    BY DEF Tally, Pays, Due
<1>. QED
    BY <1>1, <1>2, <1>3, TouchesSettle DEF Does

(* Two writes of what is open are one.                                     *)
LEMMA TouchesTwice ==
    ASSUME NEW new, NEW sets, NEW old, NEW c, Len(sets) = Len(old),
           Touches(new, sets, c), Touches(sets, old, c)
    PROVE  Touches(new, old, c)
BY DEF Touches

(* The sample of an event is filed: m is a thread that has taken it in.    *)
LEMMA SampleBooked ==
    ASSUME DInv, NEW b \in Backgrounds, NEW e \in Events(b), dispatcher[b].session,
           NEW m, Follows(m, dispatcher[b], e),
           ~m.event_error => ~dispatcher[b].event_error
                                /\ (Filed(dispatcher[b], e) => InTurn(dispatcher[b], e)),
           NEW n, GoesOnAs(n, dispatcher[b])
    PROVE  Books(File(dispatcher[b], e), b, m, n, verified, manager.acts)
<1>. DEFINE d == dispatcher[b]
<1>1. /\ Shelf(datasets) /\ Books(datasets, b, d, d, verified, manager.acts)
      /\ d.current \in 0 .. Len(datasets) /\ d.total \in Nat
    BY Starts DEF InStep
<1>2. Books(datasets, b, d, n, verified, manager.acts)
    BY <1>1, BooksFor
<1>3. /\ m.current = d.current /\ m.run = d.run /\ m.session
      /\ Filed(d, e) => m.total = d.total + 1
      /\ ~Filed(d, e) => m.total = d.total
    BY DEF Follows
<1>4. Filed(d, e) => Number(d, e) \in Nat
    BY <1>1, EventsFollow DEF Filed, Number
<1>5. ~m.event_error => ~d.event_error /\ (Filed(d, e) => Number(d, e) = d.total + 1)
    BY DEF InTurn, Filed
<1>. HIDE DEF d
<1>6. d.session
    BY DEF d
<1>7. Books(File(d, e), b, m, n, verified, manager.acts)
    BY <1>1, <1>2, <1>3, <1>4, <1>5, <1>6, BooksFile
<1>. QED
    BY <1>7 DEF d

(* An event in the loop is filed; a wrong one fails what is open, whose    *)
(* samples are vouched for no more.                                        *)
LEMMA LoopEventDoes ==
    ASSUME DInv, NEW b \in Backgrounds, NEW e \in Events(b), LoopEvent(b, e)
    PROVE  Does(b)
<1>. DEFINE d == dispatcher[b]
            a == Absorb(d, e)
            n == [a EXCEPT !.pc = "stopping", !.writer = FALSE]
            sets == File(d, e)
<1>1. /\ d.pc = "loop" /\ d.session /\ Says(b, e)
      /\ UNCHANGED <<manager, runtimes, inbox, verified, acks>>
    BY DEF LoopEvent
<1>2. /\ Base /\ Thread(d) /\ Shelf(datasets) /\ d.current \in 0 .. Len(datasets)
      /\ Placed(d, source[b], Kind(b), manager.acts)
    BY Starts
<1>3. ~d.event_error /\ d.cmd = None
    BY <1>1, <1>2 DEF Placed
<1>4. /\ DOMAIN source' = Backgrounds /\ DOMAIN source'[b] = {"phase", "index", "lost"}
      /\ \A c \in Backgrounds \ {b} : source'[c] = source[c]
    BY <1>1, SaysSo
<1>5. Follows(a, d, e) /\ a.pc = d.pc /\ a.event_error = d.event_error /\ Thread(a)
    BY <1>2, AbsorbFollows, AbsorbKeeps
<1>6. Follows(n, d, e) /\ n.pc = "stopping" /\ n.event_error = a.event_error
    BY <1>5 DEF Follows, Thread
<1>7. Touches(sets, datasets, d.current) /\ Shelf(sets) /\ Len(sets) = Len(datasets)
    BY <1>2, HelpersTouch, SampleFiled DEF Ends
<1>8. ASSUME NEW csv_error \in WriteErrors(d, e), ~EventFails(d, e, csv_error),
             datasets' = sets, Unchanged(b, a)
      PROVE  Does(b)
    <2>1. InTurn(d, e)
        BY <1>8 DEF EventFails, InTurn
    <2>2. dispatcher'[b] = a
        BY <1>2, <1>8, OneThread DEF Base
    <2>. HIDE DEF a
    <2>3. Placed(a, source'[b], Kind(b), manager.acts) /\ InStep(a, source'[b], Limit)
        BY <1>1, <1>3, <1>5, <2>1, EventStands
    <2>4. GoesOnAs(a, d)
        BY <1>1, <1>5 DEF GoesOnAs, Follows
    <2>5. Books(sets, b, a, a, verified, manager.acts)
        BY <1>1, <1>3, <1>5, <2>1, <2>4, SampleBooked
    <2>. HIDE DEF sets
    <2>6. a.cmd = d.cmd /\ a.current = d.current /\ a.auto_closed = d.auto_closed
        BY <1>5 DEF Follows
    <2>. QED
        BY <1>1, <1>4, <1>7, <1>8, <2>2, <2>3, <2>5, <2>6, StreamDoes
<1>9. ASSUME datasets' = FailCurrent(sets, d.current), Unchanged(b, n)
      PROVE  Does(b)
    <2>. DEFINE m == [a EXCEPT !.event_error = TRUE]
    <2>1. Follows(m, d, e) /\ m.event_error
        BY <1>5 DEF Follows, Thread
    <2>2. dispatcher'[b] = n
        BY <1>2, <1>9, OneThread DEF Base
    <2>. HIDE DEF n, m, a
    <2>3. Placed(n, source'[b], Kind(b), manager.acts) /\ InStep(n, source'[b], Limit)
        <3>1. ~n.event_error /\ n.cmd = None
            BY <1>3, <1>5, <1>6 DEF Follows
        <3>. QED
            BY <1>1, <1>3, <1>6, <3>1, EventStands
    <2>4. GoesOnAs(n, d)
        BY <1>6 DEF GoesOnAs, Follows
    <2>5. Books(sets, b, m, n, verified, manager.acts)
        BY <1>1, <2>1, <2>4, SampleBooked
    <2>. HIDE DEF sets
    <2>6. /\ n.current = m.current /\ n.run = m.run /\ n.session = m.session /\ n.session
          /\ m.current = d.current /\ m.current \in 0 .. Len(sets)
          /\ n.cmd = d.cmd /\ n.current = d.current /\ n.auto_closed = d.auto_closed
        BY <1>1, <1>2, <1>6, <1>7, <2>1 DEF Follows
    <2>7. Books(FailCurrent(sets, m.current), b, n, n, verified, manager.acts)
        BY <1>7, <2>5, <2>6, BooksFail
    <2>8. Books(datasets', b, n, n, verified, manager.acts)
        BY <1>9, <2>6, <2>7
    <2>9. Touches(datasets', datasets, d.current)
        <3>1. Touches(FailCurrent(sets, d.current), sets, d.current)
            BY <1>7, HelpersTouch
        <3>. QED
            BY <1>7, <1>9, <3>1, TouchesTwice
    <2>. QED
        BY <1>1, <1>4, <2>2, <2>3, <2>6, <2>8, <2>9, StreamDoes
<1>. QED
    BY <1>8, <1>9 DEF LoopEvent

(* The tail of the stream is filed, and its first error is remembered.     *)
LEMMA StopEventDoes ==
    ASSUME DInv, NEW b \in Backgrounds, NEW e \in Events(b), StopEvent(b, e)
    PROVE  Does(b)
<1>. DEFINE d == dispatcher[b]
            a == Absorb(d, e)
<1>1. /\ d.pc = "stopping" /\ Says(b, e) /\ datasets' = File(d, e)
      /\ UNCHANGED <<manager, runtimes, inbox, verified, acks>>
    BY DEF StopEvent
<1>2. PICK csv_error \in WriteErrors(d, e) :
          Unchanged(b, [a EXCEPT !.event_error = @ \/ EventFails(d, e, csv_error)])
    BY DEF StopEvent
<1>. DEFINE n == [a EXCEPT !.event_error = @ \/ EventFails(d, e, csv_error)]
<1>3. /\ Base /\ Thread(d) /\ Shelf(datasets) /\ d.session
      /\ Placed(d, source[b], Kind(b), manager.acts)
    BY <1>1, Starts DEF Placed
<1>4. /\ DOMAIN source' = Backgrounds /\ DOMAIN source'[b] = {"phase", "index", "lost"}
      /\ \A c \in Backgrounds \ {b} : source'[c] = source[c]
    BY <1>1, SaysSo
<1>5. Follows(a, d, e) /\ a.pc = d.pc /\ a.event_error = d.event_error /\ Thread(a)
    BY <1>3, AbsorbFollows, AbsorbKeeps
<1>6. /\ Follows(n, d, e) /\ n.pc = "stopping"
      /\ ~n.event_error => ~d.event_error /\ ~EventFails(d, e, csv_error)
      /\ d.event_error => n.event_error
    BY <1>1, <1>5 DEF Follows, Thread
<1>7. dispatcher'[b] = n
    BY <1>2, <1>3, OneThread DEF Base
<1>8. ~EventFails(d, e, csv_error) => InTurn(d, e)
    BY DEF EventFails, InTurn
<1>. HIDE DEF n, a
<1>9. Placed(n, source'[b], Kind(b), manager.acts) /\ InStep(n, source'[b], Limit)
    BY <1>1, <1>3, <1>6, <1>8, EventStands
<1>10. GoesOnAs(n, d)
    BY <1>6 DEF GoesOnAs, Follows
<1>11. Books(datasets', b, n, n, verified, manager.acts)
    BY <1>1, <1>3, <1>6, <1>8, <1>10, SampleBooked
<1>12. Touches(datasets', datasets, d.current)
    BY <1>1, <1>3, HelpersTouch
<1>13. n.cmd = d.cmd /\ n.current = d.current /\ n.auto_closed = d.auto_closed
    BY <1>6 DEF Follows
<1>. QED
    BY <1>1, <1>4, <1>7, <1>9, <1>11, <1>12, <1>13, StreamDoes

(* The thread stops a Worker it was not asked to stop.                     *)
Breaks(n, d) ==
    /\ n.pc = "stopping" /\ n.run = d.run /\ n.kind = d.kind /\ n.session = d.session
    /\ n.cmd = d.cmd /\ n.current = d.current /\ n.auto_closed = d.auto_closed
    /\ n.event_error = d.event_error /\ n.total = d.total /\ n.summary = d.summary
    /\ n.stream_state = d.stream_state

(* The books of a thread hold when it stops its Worker by itself.          *)
LEMMA BreaksStand ==
    ASSUME DInv, NEW b \in Backgrounds, dispatcher[b].pc = "loop", dispatcher[b].session,
           NEW n, Breaks(n, dispatcher[b]),
           source' = source \/ source' = [source EXCEPT ![b].phase = "closed"]
    PROVE  /\ DOMAIN source' = Backgrounds /\ DOMAIN source'[b] = {"phase", "index", "lost"}
           /\ \A c \in Backgrounds \ {b} : source'[c] = source[c]
           /\ Placed(n, source'[b], Kind(b), manager.acts)
           /\ InStep(n, source'[b], Limit)
           /\ GoesOnAs(n, dispatcher[b])
<1>. DEFINE d == dispatcher[b]
            s == source[b]
            t == source'[b]
<1>1. /\ Placed(d, s, Kind(b), manager.acts) /\ InStep(d, s, Limit)
      /\ DOMAIN source = Backgrounds /\ DOMAIN s = {"phase", "index", "lost"}
    BY Starts
<1>2. /\ DOMAIN source' = Backgrounds /\ DOMAIN t = {"phase", "index", "lost"}
      /\ \A c \in Backgrounds \ {b} : source'[c] = source[c]
      /\ t.index = s.index /\ t.lost = s.lost /\ t.phase \in {s.phase, "closed"}
    BY <1>1
<1>3. d.cmd = None
    BY <1>1 DEF Placed
<1>. HIDE DEF t
<1>4. Placed(n, t, Kind(b), manager.acts)
    BY <1>1 DEF Placed, Breaks
<1>5. InStep(n, t, Limit)
    BY <1>1, <1>2, <1>3 DEF InStep, Breaks
<1>6. GoesOnAs(n, d)
    BY DEF GoesOnAs, Breaks
<1>. QED
    BY <1>2, <1>4, <1>5, <1>6 DEF t

(* The process died or the queue overflowed: what is open is failed.       *)
LEMMA LoopErrorDoes ==
    ASSUME DInv, NEW b \in Backgrounds, LoopError(b)
    PROVE  Does(b)
<1>. DEFINE d == dispatcher[b]
            n == [d EXCEPT !.pc = "stopping", !.writer = FALSE]
<1>1. /\ d.pc = "loop" /\ d.session /\ Unchanged(b, n)
      /\ datasets' = FailCurrent(datasets, d.current)
      /\ source' = source \/ source' = [source EXCEPT ![b].phase = "closed"]
      /\ UNCHANGED <<manager, runtimes, inbox, verified, acks>>
    BY DEF LoopError
<1>2. /\ Base /\ Thread(d) /\ Shelf(datasets) /\ d.current \in 0 .. Len(datasets)
      /\ Books(datasets, b, d, d, verified, manager.acts)
    BY Starts
<1>3. Breaks(n, d)
    BY <1>2 DEF Breaks, Thread
<1>4. dispatcher'[b] = n
    BY <1>1, <1>2, OneThread DEF Base
<1>. HIDE DEF n
<1>5. /\ DOMAIN source' = Backgrounds /\ DOMAIN source'[b] = {"phase", "index", "lost"}
      /\ \A c \in Backgrounds \ {b} : source'[c] = source[c]
      /\ Placed(n, source'[b], Kind(b), manager.acts)
      /\ InStep(n, source'[b], Limit)
      /\ GoesOnAs(n, d)
    BY <1>1, <1>3, BreaksStand
<1>6. Books(datasets, b, d, n, verified, manager.acts)
    BY <1>2, <1>5, BooksFor
<1>7. /\ n.current = d.current /\ n.run = d.run /\ n.session = d.session /\ n.session
      /\ n.cmd = d.cmd /\ n.auto_closed = d.auto_closed
    BY <1>1, <1>3 DEF Breaks
<1>8. Books(datasets', b, n, n, verified, manager.acts)
    <2>. HIDE DEF d
    <2>. QED
        BY <1>1, <1>2, <1>6, <1>7, BooksFail
<1>9. Touches(datasets', datasets, d.current)
    BY <1>1, <1>2, HelpersTouch
<1>. QED
    BY <1>1, <1>4, <1>5, <1>7, <1>8, <1>9, StreamDoes

(* The stream ends.                                                        *)
LEMMA LoopDisconnectedDoes ==
    ASSUME DInv, NEW b \in Backgrounds, LoopDisconnected(b)
    PROVE  Does(b)
<1>. DEFINE d == dispatcher[b]
            n == [d EXCEPT !.pc = "stopping", !.ended = TRUE]
<1>1. /\ d.pc = "loop" /\ d.session /\ Unchanged(b, n)
      /\ source' = [source EXCEPT ![b].phase = "closed"]
      /\ UNCHANGED <<manager, runtimes, inbox, datasets, verified, acks>>
    BY DEF LoopDisconnected
<1>2. /\ Base /\ Thread(d) /\ Shelf(datasets)
      /\ Books(datasets, b, d, d, verified, manager.acts)
    BY Starts
<1>3. Breaks(n, d)
    BY <1>2 DEF Breaks, Thread
<1>4. dispatcher'[b] = n
    BY <1>1, <1>2, OneThread DEF Base
<1>. HIDE DEF n
<1>5. /\ DOMAIN source' = Backgrounds /\ DOMAIN source'[b] = {"phase", "index", "lost"}
      /\ \A c \in Backgrounds \ {b} : source'[c] = source[c]
      /\ Placed(n, source'[b], Kind(b), manager.acts)
      /\ InStep(n, source'[b], Limit)
      /\ GoesOnAs(n, d)
    BY <1>1, <1>3, BreaksStand
<1>6. /\ FillsAs(n, d)
      /\ n.cmd = d.cmd /\ n.auto_closed = d.auto_closed /\ n.current = d.current
    BY <1>3 DEF Breaks, FillsAs
<1>7. Books(datasets', b, n, n, verified, manager.acts)
    BY <1>1, <1>2, <1>5, <1>6, BooksSame
<1>8. Touches(datasets', datasets, d.current)
    BY <1>1 DEF Touches
<1>. QED
    BY <1>1, <1>4, <1>5, <1>6, <1>7, <1>8, StreamDoes

(* Every step of a dispatcher does right by its background.                *)
LEMMA DispatcherDoes ==
    ASSUME DInv, NEW b \in Backgrounds, Serves(b) \/ Streams(b)
    PROVE  Does(b)
<1>1. CASE Launch(b) \/ capture_on(b) \/ capture_off(b)
    BY <1>1, LaunchDoes, CaptureOnDoes, CaptureOffDoes
<1>2. CASE WorkerOff(b) \/ Cleanup(b) \/ StopReturns(b)
    BY <1>2, WorkerOffDoes, CleanupDoes, StopDoes
<1>3. CASE LoopError(b) \/ LoopDisconnected(b)
    BY <1>3, LoopErrorDoes, LoopDisconnectedDoes
<1>4. ASSUME NEW e \in Events(b), LoopEvent(b, e) \/ StopEvent(b, e)
      PROVE  Does(b)
    BY <1>4, LoopEventDoes, StopEventDoes
<1>. QED
    BY <1>1, <1>2, <1>3, <1>4 DEF Serves, Streams

-----------------------------------------------------------------------------
(* The manager, and the rest of the run.                                   *)

(* A thread whose command may be heard no more.                            *)
Unheard(n, d) ==
    /\ FillsAs(n, d) /\ n.run = d.run /\ n.kind = d.kind /\ n.pc = d.pc
    /\ n.auto_closed = d.auto_closed /\ n.stream_state = d.stream_state
    /\ n.pc = "loop" => n.cmd = d.cmd
    /\ n.cmd # None => /\ d.cmd # None
                       /\ n.cmd.action = d.cmd.action /\ n.cmd.flag = d.cmd.flag
    /\ Commanded(n.cmd)

(* What the manager asks and hears is in no background's books.            *)
LEMMA LedgerKept ==
    ASSUME DInv, UNCHANGED <<datasets, verified, acks>>,
           manager'.config = manager.config, manager'.acts \in {manager.acts, manager.acts + 1},
           NEW b \in Backgrounds, source'[b] = source[b],
           Commanded(inbox'[b]), Unheard(dispatcher'[b], dispatcher[b])
    PROVE  Ledger(b)'
<1>. DEFINE d == dispatcher[b]
            n == dispatcher'[b]
            acts == manager.acts
            later == manager'.acts
<1>1. /\ Books(datasets, b, d, d, verified, acts) /\ Placed(d, source[b], Kind(b), acts)
      /\ InStep(d, source[b], Limit) /\ acts \in Nat /\ Acknowledged(b)
    BY Starts DEF DInv, Ledger
<1>2. Kind(b)' = Kind(b) /\ Limit' = Limit /\ later \in Nat /\ acts <= later
    BY <1>1 DEF Kind, Limit
<1>3. /\ \A set : Filled(set, d) => Filled(set, n)
      /\ \A set : Filling(set, d) => Filling(set, n)
    BY DEF Unheard, FillsAs, Filled, Filling
<1>4. Books(datasets, b, n, n, verified, acts)
    BY <1>1, <1>3 DEF Books, Unheard, FillsAs
<1>5. Books(datasets, b, n, n, verified, later)
    <2>. HIDE DEF n, acts, later
    <2>. QED
        BY <1>1, <1>2, <1>4, BooksGrow
<1>6. Placed(n, source[b], Kind(b), later)
    BY <1>1, <1>2 DEF Placed, Unheard, FillsAs
<1>7. InStep(n, source[b], Limit)
    BY <1>1 DEF InStep, Unheard, FillsAs
<1>8. Acknowledged(b)'
    BY <1>1 DEF Acknowledged, Captures, Due, Unheard, FillsAs
<1>. QED
    BY <1>2, <1>5, <1>6, <1>7, <1>8 DEF Ledger, Unheard

(* A thread that is not touched.                                           *)
LEMMA SelfUnheard ==
    ASSUME NEW d, Commanded(d.cmd)
    PROVE  Unheard(d, d)
BY DEF Unheard, FillsAs

(* A command that is sent is pending.                                      *)
LEMMA SentIsPending ==
    ASSUME NEW action \in Actions \cup {"worker-on"}, NEW flag \in BOOLEAN
    PROVE  LET c == [action |-> action, flag |-> flag, heard |-> TRUE]
           IN Pending(c) /\ Commanded(c)
<1>. DEFINE c == [action |-> action, flag |-> flag, heard |-> TRUE]
<1>1. c \in Command /\ c.heard /\ DOMAIN c = {"action", "flag", "heard"}
    BY DEF Command
<1>. QED
    BY <1>1, NoneIsFresh DEF Pending, Commanded

(* Nothing of the manager's and of the rest of the run but a new Worker    *)
(* touches the books.                                                      *)
LEMMA AsideKeeps ==
    ASSUME DInv, IInv', Awaited', UNCHANGED <<source, datasets, verified, acks>>,
           manager'.config = manager.config, manager'.acts \in {manager.acts, manager.acts + 1},
           manager'.stopped \in BOOLEAN, DOMAIN inbox' = Backgrounds,
           \A b \in Backgrounds :
              Commanded(inbox'[b]) /\ Unheard(dispatcher'[b], dispatcher[b])
    PROVE  DInv'
<1>1. Sorts'
    BY DEF DInv, Sorts
<1>2. \A b \in Backgrounds : Ledger(b)'
    BY LedgerKept
<1>. QED
    BY <1>1, <1>2 DEF DInv

(* A new Worker's run is one that no Dataset was filled in.                *)
LEMMA WorkerOnBooks ==
    ASSUME DInv, NEW b \in Backgrounds, NEW capture \in BOOLEAN, WorkerOn(b, capture)
    PROVE  DInv'
<1>. DEFINE d == dispatcher[b]
            cmd == [action |-> "worker-on", flag |-> capture, heard |-> TRUE]
            n == [NoDispatcher EXCEPT !.pc = "starting", !.kind = Kind(b),
                     !.run = manager.acts + 1, !.cmd = cmd]
            acts == manager.acts
            later == manager'.acts
<1>1. /\ IInv /\ ManagerShape /\ Threads /\ Joined /\ b \notin runtimes /\ manager.pc = "idle"
      /\ dispatcher' = [dispatcher EXCEPT ![b] = n]
      /\ source' = [source EXCEPT ![b] = NewSource]
      /\ UNCHANGED <<inbox, datasets, verified, acks>>
    BY DEF DInv, IInv, Base, WorkerOn, Idling
<1>2. IInv'
    BY <1>1, WorkerOnKeeps
<1>3. /\ manager'.config = manager.config /\ later = acts + 1 /\ manager'.pc = "wait"
      /\ manager'.bg = b /\ manager'.stopped = manager.stopped
    BY <1>1 DEF WorkerOn, Begin, ManagerShape
<1>4. /\ Shelf(datasets) /\ Len(datasets) \in Nat /\ acts \in Nat
      /\ Books(datasets, b, d, d, verified, acts) /\ Acknowledged(b)
      /\ DOMAIN source = Backgrounds
    BY Starts DEF DInv, Ledger
<1>5. d.current = 0
    BY <1>1 DEF Joined, Threads
<1>6. /\ dispatcher'[b] = n /\ source'[b] = NewSource
      /\ \A c \in Backgrounds \ {b} : dispatcher'[c] = dispatcher[c] /\ source'[c] = source[c]
      /\ DOMAIN source' = Backgrounds
    BY <1>1, <1>4 DEF Threads
<1>7. /\ n.pc = "starting" /\ n.kind = Kind(b) /\ n.run = later /\ n.cmd = cmd
      /\ n.current = 0 /\ n.session = FALSE /\ n.total = 0 /\ n.summary = None
      /\ n.event_error = FALSE /\ n.auto_closed = FALSE
    BY <1>3 DEF NoDispatcher
<1>8. /\ NewSource.phase = "idle" /\ NewSource.index = 0
      /\ DOMAIN NewSource = {"phase", "index", "lost"}
    BY DEF NewSource
<1>9. Pending(cmd) /\ Commanded(cmd)
    BY SentIsPending
<1>10. Kind(b)' = Kind(b) /\ Limit' = Limit
    BY <1>3 DEF Kind, Limit
<1>. HIDE DEF n, cmd
<1>11. Ledger(b)'
    <2>1. ASSUME NEW i \in 1 .. Len(datasets), datasets[i].background_id = b
          PROVE  /\ Entry(datasets[i], verified, later)
                 /\ n.current # i /\ Filled(datasets[i], n)
        <3>1. Entry(datasets[i], verified, acts) /\ Filled(datasets[i], d)
            BY <1>4, <1>5, <2>1 DEF Books
        <3>2. datasets[i].run \in 0 .. acts /\ datasets[i].run # n.run
            BY <1>3, <1>4, <1>7, <3>1 DEF Entry
        <3>3. Entry(datasets[i], verified, later)
            BY <1>3, <1>4, <3>1, <3>2 DEF Entry
        <3>4. Filled(datasets[i], n)
            BY <1>7, <3>1, <3>2 DEF Filled
        <3>. QED
            BY <1>7, <3>3, <3>4
    <2>2. Books(datasets, b, n, n, verified, later)
        BY <2>1 DEF Books
    <2>3. Placed(n, NewSource, Kind(b), later)
        BY <1>3, <1>4, <1>7 DEF Placed
    <2>4. InStep(n, NewSource, Limit)
        BY <1>7, <1>8 DEF InStep
    <2>5. Acknowledged(b)'
        <3>1. /\ acks[b] \in Nat
              /\ acks[b] + (IF Due(d) THEN 1 ELSE 0) <= Cardinality(Captures(b))
              /\ Cardinality(Captures(b)) \in Nat
            <4>1. IsFiniteSet(1 .. Len(datasets)) /\ Captures(b) \subseteq 1 .. Len(datasets)
                BY <1>4, FS_Interval DEF Captures
            <4>. QED
                BY <1>4, <4>1, FS_Subset, FS_CardinalityType DEF Acknowledged
        <3>2. ~Due(n)
            BY <1>7 DEF Due
        <3>3. Captures(b)' = Captures(b)
            BY <1>1 DEF Captures
        <3>4. acks[b] + 0 <= Cardinality(Captures(b))
            BY <3>1
        <3>. QED
            BY <1>1, <1>6, <3>1, <3>2, <3>3, <3>4 DEF Acknowledged
    <2>6. Commanded(inbox[b])
        BY DEF DInv, Ledger
    <2>. QED
        BY <1>1, <1>6, <1>7, <1>9, <1>10, <2>2, <2>3, <2>4, <2>5, <2>6 DEF Ledger
<1>12. ASSUME NEW c \in Backgrounds, c # b
       PROVE  Ledger(c)'
    <2>1. Commanded(inbox'[c]) /\ Commanded(dispatcher[c].cmd)
        BY <1>1 DEF DInv, Ledger
    <2>2. Unheard(dispatcher'[c], dispatcher[c])
        BY <1>6, <1>12, <2>1, SelfUnheard
    <2>. QED
        BY <1>1, <1>3, <1>6, <1>12, <2>1, <2>2, LedgerKept
<1>13. Sorts'
    BY <1>1, <1>3, <1>4, <1>6, <1>8 DEF DInv, Sorts
<1>14. Awaited'
    BY <1>3, <1>6, <1>7, <1>9 DEF Awaited
<1>. QED
    BY <1>2, <1>11, <1>12, <1>13, <1>14 DEF DInv

(* A manager that gives up makes the command unheard, wherever it is.      *)
LEMMA TimeoutBooks ==
    ASSUME DInv, ReplyTimeout
    PROVE  DInv'
<1>. DEFINE b == manager.bg
            d == dispatcher[b]
<1>1. /\ IInv /\ ManagerShape /\ Threads /\ manager.pc = "wait" /\ manager.reply = None
      /\ UNCHANGED <<source, datasets, verified, acks>> /\ DOMAIN inbox = Backgrounds
    BY DEF DInv, IInv, Base, Sorts, ReplyTimeout
<1>2. IInv'
    BY <1>1, ReplyTimeoutKeeps
<1>3. /\ manager'.config = manager.config /\ manager'.acts = manager.acts
      /\ manager'.stopped = manager.stopped /\ manager'.bg = b /\ manager'.pc \in {"join", "idle"}
    BY <1>1 DEF ReplyTimeout, ManagerShape
<1>4. b \in Backgrounds /\ (Pending(inbox[b]) \/ Pending(d.cmd))
    BY <1>1 DEF DInv, Awaited
<1>5. Awaited'
    BY <1>3, <1>4 DEF Awaited
<1>6. \A c \in Backgrounds : Commanded(inbox[c]) /\ Commanded(dispatcher[c].cmd)
    BY DEF DInv, Ledger
<1>7. CASE Pending(inbox[b])
    <2>1. inbox' = [inbox EXCEPT ![b].heard = FALSE] /\ dispatcher' = dispatcher
        BY <1>7 DEF ReplyTimeout, Pending
    <2>2. DOMAIN inbox[b] = {"action", "flag", "heard"}
        BY <1>4, <1>6, <1>7 DEF Commanded, Pending
    <2>3. /\ DOMAIN inbox' = Backgrounds
          /\ \A c \in Backgrounds : inbox'[c] = inbox[c] \/ DOMAIN inbox'[c] = DOMAIN inbox[b]
        BY <1>1, <1>4, <2>1
    <2>4. \A c \in Backgrounds : Commanded(inbox'[c]) /\ Unheard(dispatcher'[c], dispatcher[c])
        BY <1>6, <2>1, <2>2, <2>3, SelfUnheard DEF Commanded
    <2>. QED
        BY <1>1, <1>2, <1>3, <1>5, <2>3, <2>4, AsideKeeps DEF DInv, Sorts
<1>8. CASE ~Pending(inbox[b])
    <2>. DEFINE m == [d.cmd EXCEPT !.heard = FALSE]
                n == [d EXCEPT !.cmd = m]
    <2>1. inbox' = inbox /\ dispatcher' = [dispatcher EXCEPT ![b].cmd.heard = FALSE]
        BY <1>8 DEF ReplyTimeout, Pending
    <2>2. d.cmd # None /\ DOMAIN d.cmd = {"action", "flag", "heard"}
        BY <1>4, <1>6, <1>8 DEF Commanded, Pending
    <2>3. DOMAIN m = {"action", "flag", "heard"} /\ m.action = d.cmd.action /\ m.flag = d.cmd.flag
        BY <2>2
    <2>4. /\ dispatcher'[b] = n
          /\ \A c \in Backgrounds \ {b} : dispatcher'[c] = dispatcher[c]
        BY <1>1, <1>4, <2>1 DEF Threads
    <2>5. d.pc # "loop"
        BY <1>4, <2>2, Starts DEF Placed
    <2>6. Thread(d)
        BY <1>1, <1>4 DEF Threads
    <2>. HIDE DEF m
    <2>7. Unheard(n, d)
        BY <2>2, <2>3, <2>5, <2>6 DEF Unheard, FillsAs, Thread, Commanded
    <2>. HIDE DEF n
    <2>8. \A c \in Backgrounds : Commanded(inbox'[c]) /\ Unheard(dispatcher'[c], dispatcher[c])
        BY <1>6, <2>1, <2>4, <2>7, SelfUnheard
    <2>. QED
        BY <1>1, <1>2, <1>3, <1>5, <2>1, <2>8, AsideKeeps DEF DInv, Sorts
<1>. QED
    BY <1>7, <1>8

(* The manager asks, hears, waits for a thread, and cleans up.             *)
LEMMA ManagerBooks ==
    ASSUME DInv, Manager
    PROVE  DInv'
<1>1. /\ IInv' /\ ManagerShape /\ DOMAIN inbox = Backgrounds /\ manager.stopped \in BOOLEAN
      /\ manager.pc \in {"send", "wait", "join"} => manager.bg \in Backgrounds
    BY ManagerActs DEF DInv, IInv, Base, Sorts, Awaited
<1>2. \A b \in Backgrounds : Commanded(inbox[b]) /\ Unheard(dispatcher[b], dispatcher[b])
    BY SelfUnheard DEF DInv, Ledger
<1>3. ASSUME UNCHANGED <<inbox, dispatcher, source, datasets, verified, acks>>,
             manager'.config = manager.config, manager'.acts = manager.acts,
             manager'.stopped \in BOOLEAN,
             manager'.pc # "wait",
             manager'.pc \in {"send", "join"} => manager'.bg \in Backgrounds
      PROVE  DInv'
    <2>1. Awaited'
        BY <1>3 DEF Awaited
    <2>. QED
        BY <1>1, <1>2, <1>3, <2>1, AsideKeeps
<1>4. ASSUME NEW b \in Backgrounds, NEW action \in Actions, NEW flag \in BOOLEAN,
             Send(b, action, flag),
             UNCHANGED <<dispatcher, source, datasets, verified, acks>>,
             manager'.config = manager.config,
             manager'.acts \in {manager.acts, manager.acts + 1},
             manager'.stopped = manager.stopped, manager'.pc = "wait", manager'.bg = b
      PROVE  DInv'
    <2>. DEFINE c == [action |-> action, flag |-> flag, heard |-> TRUE]
    <2>1. inbox' = [inbox EXCEPT ![b] = c]
        BY <1>4 DEF Send
    <2>2. Pending(c) /\ Commanded(c)
        BY SentIsPending
    <2>. HIDE DEF c
    <2>3. /\ DOMAIN inbox' = Backgrounds /\ inbox'[b] = c
          /\ \A a \in Backgrounds : Commanded(inbox'[a])
        BY <1>1, <1>2, <2>1, <2>2
    <2>4. Awaited'
        BY <1>4, <2>2, <2>3 DEF Awaited
    <2>5. \A a \in Backgrounds : Unheard(dispatcher'[a], dispatcher[a])
        BY <1>2, <1>4
    <2>. QED
        BY <1>1, <1>4, <2>3, <2>4, <2>5, AsideKeeps
<1>5. ASSUME NEW b \in Backgrounds, NEW action \in Actions, NEW flag \in BOOLEAN,
             Ask(b, action, flag)
      PROVE  DInv'
    <2>1. /\ manager'.config = manager.config /\ manager'.acts = manager.acts + 1
          /\ manager'.stopped = manager.stopped /\ manager'.pc = "wait" /\ manager'.bg = b
        BY <1>1, <1>5 DEF Ask, Begin, ManagerShape
    <2>. QED
        BY <1>4, <1>5, <2>1 DEF Ask
<1>6. CASE Receive
    <2>1. /\ manager'.config = manager.config /\ manager'.acts = manager.acts
          /\ manager'.stopped = manager.stopped /\ manager'.pc \in {"join", "idle"}
          /\ manager'.bg = manager.bg /\ manager.pc = "wait"
        BY <1>1, <1>6 DEF Receive, ManagerShape
    <2>2. UNCHANGED <<inbox, dispatcher, source, datasets, verified, acks>>
        BY <1>6 DEF Receive
    <2>. QED
        BY <1>1, <1>3, <2>1, <2>2
<1>7. ASSUME NEW stopped \in BOOLEAN, BeginCleanup(stopped)
      PROVE  DInv'
    <2>1. /\ manager'.config = manager.config /\ manager'.acts = manager.acts
          /\ manager'.stopped = stopped /\ manager'.pc = "drain"
        BY <1>1, <1>7 DEF BeginCleanup, ManagerShape
    <2>. QED
        BY <1>3, <1>7, <2>1 DEF BeginCleanup
<1>8. ASSUME NEW b \in Backgrounds, Drain(b)
      PROVE  DInv'
    <2>1. /\ manager'.config = manager.config /\ manager'.acts = manager.acts
          /\ manager'.stopped = manager.stopped /\ manager'.pc = "send" /\ manager'.bg = b
        BY <1>1, <1>8 DEF Drain, ManagerShape
    <2>. QED
        BY <1>1, <1>3, <1>8, <2>1 DEF Drain
<1>9. CASE SendCleanup
    <2>1. CASE manager' = [manager EXCEPT !.pc = "join"] /\ UNCHANGED inbox
        <3>1. /\ manager'.config = manager.config /\ manager'.acts = manager.acts
              /\ manager'.stopped = manager.stopped /\ manager'.pc = "join"
              /\ manager'.bg = manager.bg /\ manager.pc = "send"
            BY <1>1, <1>9, <2>1 DEF SendCleanup, ManagerShape
        <3>. QED
            BY <1>1, <1>3, <1>9, <2>1, <3>1 DEF SendCleanup
    <2>2. CASE /\ Send(manager.bg, "cleanup", manager.stopped)
               /\ manager' = [manager EXCEPT !.pc = "wait"]
        <3>1. /\ manager'.config = manager.config /\ manager'.acts = manager.acts
              /\ manager'.stopped = manager.stopped /\ manager'.pc = "wait"
              /\ manager'.bg = manager.bg /\ manager.pc = "send"
            BY <1>1, <1>9, <2>2 DEF SendCleanup, ManagerShape
        <3>2. "cleanup" \in Actions
            BY DEF Actions
        <3>. QED
            BY <1>1, <1>4, <1>9, <2>2, <3>1, <3>2 DEF SendCleanup
    <2>. QED
        BY <1>9, <2>1, <2>2 DEF SendCleanup
<1>10. CASE CleanupAnswered
    <2>1. /\ manager'.config = manager.config /\ manager'.acts = manager.acts
          /\ manager'.stopped = manager.stopped /\ manager'.pc = "join"
          /\ manager'.bg = manager.bg /\ manager.pc = "wait"
        BY <1>1, <1>10 DEF CleanupAnswered, ManagerShape
    <2>. QED
        BY <1>1, <1>3, <1>10, <2>1 DEF CleanupAnswered
<1>11. CASE Join
    <2>1. /\ manager'.config = manager.config /\ manager'.acts = manager.acts
          /\ manager'.stopped = manager.stopped /\ manager'.pc \in {"drain", "idle"}
        BY <1>1, <1>11 DEF Join, ManagerShape
    <2>. QED
        BY <1>1, <1>3, <1>11, <2>1 DEF Join
<1>12. CASE CleanupReturns
    <2>1. /\ manager'.config = manager.config /\ manager'.acts = manager.acts
          /\ manager'.stopped = manager.stopped /\ manager'.pc = "done"
        BY <1>1, <1>12 DEF CleanupReturns, ManagerShape
    <2>. QED
        BY <1>1, <1>3, <1>12, <2>1 DEF CleanupReturns
<1>. QED
    BY <1>5, <1>6, <1>7, <1>8, <1>9, <1>10, <1>11, <1>12, WorkerOnBooks, TimeoutBooks DEF Manager

(* Nothing has been filled before the run begins.                          *)
LEMMA InitBooks ==
    ASSUME Init
    PROVE  DInv
<1>1. IInv
    BY InitInv
<1>2. /\ \E config \in Configs :
              manager = [config |-> config, pc |-> "idle", bg |-> None, action |-> None,
                         reply |-> None, over |-> FALSE, stopped |-> FALSE, acts |-> 0]
      /\ datasets = <<>> /\ inbox = [b \in Backgrounds |-> None]
      /\ dispatcher = [b \in Backgrounds |-> NoDispatcher]
      /\ source = [b \in Backgrounds |-> NewSource]
      /\ acks = [b \in Backgrounds |-> 0] /\ Len(datasets) = 0
    BY DEF Init
<1>3. /\ manager.config \in Configs /\ manager.acts = 0 /\ manager.stopped = FALSE
      /\ manager.pc = "idle"
    BY <1>2
<1>4. /\ NewSource.phase = "idle" /\ NewSource.index = 0
      /\ DOMAIN NewSource = {"phase", "index", "lost"}
    BY DEF NewSource
<1>5. /\ NoDispatcher.pc = "none" /\ NoDispatcher.cmd = None /\ NoDispatcher.current = 0
      /\ NoDispatcher.session = FALSE /\ NoDispatcher.total = 0 /\ NoDispatcher.summary = None
      /\ NoDispatcher.event_error = FALSE /\ NoDispatcher.auto_closed = FALSE
    BY DEF NoDispatcher
<1>6. Sorts
    BY <1>2, <1>3, <1>4 DEF Sorts
<1>7. Awaited
    BY <1>3 DEF Awaited
<1>8. ASSUME NEW b \in Backgrounds
      PROVE  Ledger(b)
    <2>. DEFINE d == dispatcher[b]
    <2>1. d = NoDispatcher /\ source[b] = NewSource /\ inbox[b] = None /\ acks[b] = 0
        BY <1>2
    <2>2. Books(datasets, b, d, d, verified, manager.acts)
        BY <1>2 DEF Books
    <2>3. Placed(d, source[b], Kind(b), manager.acts)
        BY <1>5, <2>1 DEF Placed
    <2>4. InStep(d, source[b], Limit)
        BY <1>4, <1>5, <2>1 DEF InStep
    <2>5. Acknowledged(b)
        <3>1. Captures(b) = {}
            BY <1>2 DEF Captures
        <3>2. Cardinality(Captures(b)) = 0
            BY <3>1, FS_EmptySet
        <3>3. ~Due(dispatcher[b])
            BY <1>5, <2>1 DEF Due
        <3>. QED
            BY <2>1, <3>2, <3>3 DEF Acknowledged
    <2>. QED
        BY <1>5, <2>1, <2>2, <2>3, <2>4, <2>5 DEF Ledger, Commanded
<1>. QED
    BY <1>1, <1>6, <1>7, <1>8 DEF DInv

(* Every step keeps the books.                                             *)
LEMMA NextBooks ==
    ASSUME DInv, [Next]_vars
    PROVE  DInv'
<1>1. CASE Manager
    BY <1>1, ManagerBooks
<1>2. CASE FailsOutside \/ UNCHANGED vars
    <2>1. UNCHANGED <<manager, inbox, dispatcher, source, datasets, verified, acks>>
        BY <1>2 DEF FailsOutside, vars
    <2>2. IInv'
        BY NextInv DEF DInv
    <2>3. Awaited'
        BY <2>1 DEF DInv, Awaited
    <2>4. \A b \in Backgrounds :
              Commanded(inbox'[b]) /\ Unheard(dispatcher'[b], dispatcher[b])
        BY <2>1, SelfUnheard DEF DInv, Ledger
    <2>. QED
        BY <2>1, <2>2, <2>3, <2>4, AsideKeeps DEF DInv, Sorts
<1>3. ASSUME NEW b \in Backgrounds, Serves(b) \/ Streams(b)
      PROVE  DInv'
    BY <1>3, DispatcherActs, DispatcherDoes, DoesKeep DEF DInv, IInv
<1>. QED
    BY <1>1, <1>2, <1>3 DEF Next, Over

(* DInv is an invariant of every run.                                      *)
LEMMA BooksAreKept == Spec => []DInv
<1>1. Init => DInv
    BY InitBooks
<1>2. DInv /\ [Next]_vars => DInv'
    BY NextBooks
<1>. QED
    BY <1>1, <1>2, PTL DEF Spec

-----------------------------------------------------------------------------
(* What a Dataset says of itself holds at every moment, whatever events,   *)
(* commands, timeouts and failures come in whatever order: it is open      *)
(* exactly while its dispatcher fills it, one that was completed or cut    *)
(* short on purpose has no gap, a claim of no loss rests on the            *)
(* termination checks of its run, and its end is told at most once.        *)
THEOREM DatasetsStayHonest == Spec => []DatasetsAreHonest
<1>1. ASSUME DInv
      PROVE  NoHiddenGap /\ LosslessIsProved
    <2>1. ASSUME NEW i \in 1 .. Len(datasets)
          PROVE  /\ datasets[i].status \in {"completed", "incomplete"}
                       => Consecutive(datasets[i].samples)
                 /\ datasets[i].quality = "no_loss_detected"
                       => <<datasets[i].background_id, datasets[i].run>> \in verified
        <3>. DEFINE b == datasets[i].background_id
        <3>1. b \in Backgrounds
            BY <1>1 DEF DInv, Sorts
        <3>2. Books(datasets, b, dispatcher[b], dispatcher[b], verified, manager.acts)
            BY <1>1, <3>1 DEF DInv, Ledger
        <3>3. /\ Entry(datasets[i], verified, manager.acts)
              /\ Filling(datasets[i], dispatcher[b]) \/ Filled(datasets[i], dispatcher[b])
            BY <3>2 DEF Books
        <3>. QED
            BY <3>3 DEF Entry, Filling, Filled
    <2>. QED
        BY <2>1 DEF NoHiddenGap, LosslessIsProved
<1>2. DInv => AcknowledgedOnce
    BY DEF DInv, Ledger, Acknowledged, AcknowledgedOnce, Due
<1>3. []DInv => [](NoHiddenGap /\ LosslessIsProved /\ AcknowledgedOnce)
    BY <1>1, <1>2, PTL
<1>. QED
    BY <1>3, BooksAreKept, UnfinishedIsFilled, PTL DEF DatasetsAreHonest

(* A finished Dataset is never written again, except that the end of its   *)
(* Worker's run may settle the quality of one that had completed, and for  *)
(* the worse only as the evidence of a scope without a count.              *)
THEOREM FinishedStaysFinal == Spec => FinishedIsFinal
<1>1. ASSUME DInv, [Next]_vars, NEW i \in 1 .. Len(datasets), datasets[i].finished
      PROVE  \/ datasets'[i] = datasets[i]
             \/ /\ datasets[i].status = "completed" /\ datasets[i].quality = "unknown"
                /\ datasets'[i].quality = "incomplete" =>
                      Kind(datasets[i].background_id) = "scopes" /\ Limit = 0
                /\ datasets'[i] = [datasets[i] EXCEPT !.quality = datasets'[i].quality]
    <2>1. CASE \E b \in Backgrounds : Serves(b) \/ Streams(b)
        <3>1. PICK b \in Backgrounds : Serves(b) \/ Streams(b)
            BY <2>1
        <3>2. Settles(b)
            BY <1>1, <3>1, DispatcherDoes DEF Does
        <3>3. i # dispatcher[b].current
            BY <1>1, LenIsNat DEF DInv, IInv, Base, Owned
        <3>. QED
            BY <3>2, <3>3 DEF Settles, MaySettle
    <2>2. CASE UNCHANGED datasets
        BY <2>2
    <2>3. Manager \/ FailsOutside \/ Over \/ UNCHANGED vars => UNCHANGED datasets
        BY DEF Manager, WorkerOn, Ask, Receive, ReplyTimeout, BeginCleanup, Drain, SendCleanup,
               CleanupAnswered, Join, CleanupReturns, FailsOutside, Over, vars
    <2>. QED
        BY <1>1, <2>1, <2>2, <2>3 DEF Next
<1>2. DInv /\ [Next]_vars =>
        [\A i \in 1 .. Len(datasets) :
            datasets[i].finished =>
                \/ datasets'[i] = datasets[i]
                \/ /\ datasets[i].status = "completed" /\ datasets[i].quality = "unknown"
                   /\ datasets'[i].quality = "incomplete" =>
                         Kind(datasets[i].background_id) = "scopes" /\ Limit = 0
                   /\ datasets'[i] = [datasets[i] EXCEPT !.quality = datasets'[i].quality]]_vars
    BY <1>1
<1>. QED
    BY <1>2, BooksAreKept, PTL DEF Spec, FinishedIsFinal

=============================================================================
