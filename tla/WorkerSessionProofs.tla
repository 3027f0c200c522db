-------------------------- MODULE WorkerSessionProofs --------------------------
(***************************************************************************)
(* What a Worker session promises, for any number of lines and any         *)
(* capacity: lines reach the owner in order and without a hole, a shutdown *)
(* that succeeds proves the whole run, and nothing is left behind.         *)
(*                                                                         *)
(* The invariant counts the lines the owner has taken off the channel.     *)
(* With c of them taken, the channel holds the lines c + 1, c + 2, ... and *)
(* perhaps Eof as its last message (Channel); what was recorded is what    *)
(* the lines 1 .. c say (Recollection); and these lines, but for refused   *)
(* ones, were handed over or wait in pending_events, in order (Delivered). *)
(***************************************************************************)
EXTENDS WorkerSession, Integers, TLAPS

\* The first n lines are all there will ever be, and the reader knows.
AtEnd(n) == n = Len(written) /\ reader.pc = "done" /\ ~open

\* c lines were taken off the channel; it holds the next ones.
Channel(c) ==
  /\ c <= reader.taken /\ reader.taken <= Len(written)
  /\ ~receiving => queue = <<>>
  /\ \A i \in 1 .. Len(queue) :
       \/ queue[i] = c + i /\ c + i <= reader.taken
       \/ queue[i] = Eof /\ i = Len(queue) /\ AtEnd(c + i - 1) /\ ~evidence.eof
  /\ reader.pc = "read" /\ receiving => c + Len(queue) = reader.taken
  /\ evidence.eof => queue = <<>> /\ AtEnd(c)

\* What record_event has kept of the first c lines.
Recollection(c) ==
  /\ ~evidence.fatal => \A l \in 1 .. c : written[l] # "fatal"
  /\ ~evidence.errors =>
       /\ evidence.summary = None => \A l \in 1 .. c : written[l] \notin Summaries
       /\ evidence.summary # None =>
            \E k \in 1 .. c : /\ written[k] = evidence.summary
                              /\ \A l \in 1 .. c : written[l] \in Summaries => l = k
  /\ ~evidence.errors /\ ~told => \A l \in 1 .. c : written[l] # "garbage"

\* The lines that were taken in order, handed over or not yet.
Seen == handled \o pending

\* The sequence s has the first c lines, in order, but for refused ones.
InOrder(s, c) ==
  /\ \A i \in 1 .. Len(s) : s[i] \in 1 .. c
  /\ \A i, k \in 1 .. Len(s) : i < k => s[i] < s[k]
  /\ \A l \in 1 .. c : written[l] = "garbage" \/ \E k \in 1 .. Len(s) : s[k] = l
  /\ (\A l \in 1 .. c : written[l] # "garbage") =>
       Len(s) = c /\ \A i \in 1 .. c : s[i] = i

Delivered(c) ==
  ~told => InOrder(Seen, c) /\ (evidence.eof => pending = <<>>)

\* Where the owner is, the process and the reader are not.
Ends ==
  /\ DOMAIN owner = {"pc", "reported", "expired", "checked", "accepted"}
  /\ owner.pc \in {"finish", "join", "forced", "returned"} => process # "running"
  /\ owner.pc = "returned" => reader.pc = "done"
  /\ result # None => owner.pc = "returned"
  /\ told \in BOOLEAN /\ (owner.pc = "wait" => ~told)

Following(c) == Channel(c) /\ Recollection(c) /\ Delivered(c)

SInv ==
  /\ TypeOK
  /\ \E c \in Nat : Following(c)
  /\ Ends
  /\ OkIsComplete
-----------------------------------------------------------------------------
(***************************************************************************)
(* Sequences in order.                                                     *)
(***************************************************************************)

\* The next line is added, or was refused.
LEMMA OrderGrows ==
  ASSUME NEW s \in Seq(Nat), NEW c \in Nat, InOrder(s, c)
  PROVE  /\ InOrder(Append(s, c + 1), c + 1)
         /\ written[c + 1] = "garbage" => InOrder(s, c + 1)
<1> DEFINE t == Append(s, c + 1)
<1>1. /\ Len(s) \in Nat /\ Len(t) = Len(s) + 1 /\ t[Len(s) + 1] = c + 1
      /\ \A i \in 1 .. Len(s) : t[i] = s[i] /\ s[i] \in Nat
  OBVIOUS
<1> HIDE DEF t
<1>2. \A i \in 1 .. Len(t) : t[i] \in 1 .. c + 1
  BY <1>1 DEF InOrder
<1>3. \A i, k \in 1 .. Len(t) : i < k => t[i] < t[k]
  <2> SUFFICES ASSUME NEW i \in 1 .. Len(t), NEW k \in 1 .. Len(t), i < k PROVE t[i] < t[k]
    OBVIOUS
  <2>1. i \in 1 .. Len(s)
    BY <1>1
  <2>2. CASE k \in 1 .. Len(s)
    BY <1>1, <2>1, <2>2 DEF InOrder
  <2>3. CASE k = Len(s) + 1
    BY <1>1, <2>1, <2>3 DEF InOrder
  <2> QED BY <1>1, <2>2, <2>3
<1>4. \A l \in 1 .. c + 1 : written[l] = "garbage" \/ \E k \in 1 .. Len(t) : t[k] = l
  <2> SUFFICES ASSUME NEW l \in 1 .. c + 1, written[l] # "garbage"
               PROVE  \E k \in 1 .. Len(t) : t[k] = l
    OBVIOUS
  <2>1. CASE l = c + 1
    BY <1>1, <2>1
  <2>2. CASE l \in 1 .. c
    <3>1. PICK k \in 1 .. Len(s) : s[k] = l
      BY <2>2 DEF InOrder
    <3> QED BY <1>1, <3>1
  <2> QED BY <2>1, <2>2
<1>5. (\A l \in 1 .. c + 1 : written[l] # "garbage") =>
         Len(t) = c + 1 /\ \A i \in 1 .. c + 1 : t[i] = i
  BY <1>1 DEF InOrder
<1>6. InOrder(t, c + 1)
  BY <1>2, <1>3, <1>4, <1>5 DEF InOrder
<1>7. written[c + 1] = "garbage" => InOrder(s, c + 1)
  BY <1>1 DEF InOrder
<1> QED BY <1>6, <1>7 DEF t

\* The lines handed over are the first of those seen.
LEMMA SeenFirst ==
  ASSUME TypeOK
  PROVE  /\ Seen \in Seq(Nat) /\ Len(handled) \in Nat /\ Len(pending) \in Nat
         /\ Len(Seen) = Len(handled) + Len(pending)
         /\ \A i \in 1 .. Len(handled) : Seen[i] = handled[i]
         /\ \A i \in 1 .. Len(pending) : Seen[Len(handled) + i] = pending[i]
<1>1. handled \in Seq(Nat) /\ pending \in Seq(Nat)
  BY CapacityIsPositive DEF TypeOK
<1> QED BY <1>1 DEF Seen

\* Two sequences are equal when their elements are.
LEMMA SameSequence ==
  ASSUME NEW S, NEW s \in Seq(S), NEW t \in Seq(S), Len(s) = Len(t),
         \A i \in 1 .. Len(s) : s[i] = t[i]
  PROVE  s = t
  OBVIOUS

\* The first element of a sequence, and the others.
LEMMA FirstOf ==
  ASSUME NEW S, NEW s \in Seq(S), s # <<>>
  PROVE  /\ Head(s) = s[1] /\ Head(s) \in S /\ Len(s) \in Nat /\ Len(s) > 0
         /\ Tail(s) \in Seq(S) /\ Len(Tail(s)) = Len(s) - 1
         /\ \A i \in 1 .. Len(s) - 1 : Tail(s)[i] = s[i + 1]
  OBVIOUS

\* Handing over a pending line changes nothing of what was seen.
LEMMA HandOver ==
  ASSUME TypeOK, HandlePending
  PROVE  /\ Seen' = Seen
         /\ handled' \in Seq(1 .. MaxLines) /\ pending' \in Seq(1 .. MaxLines)
<1>1. /\ handled \in Seq(1 .. MaxLines) /\ pending \in Seq(1 .. MaxLines) /\ pending # <<>>
      /\ handled' = Append(handled, Head(pending)) /\ pending' = Tail(pending)
  BY DEF TypeOK, HandlePending
<1>2. /\ Len(handled') = Len(handled) + 1 /\ Len(pending') = Len(pending) - 1
      /\ Len(handled) \in Nat /\ Len(pending) \in Nat /\ Len(pending) > 0
      /\ \A i \in 1 .. Len(handled) : handled'[i] = handled[i]
      /\ handled'[Len(handled) + 1] = pending[1]
      /\ \A i \in 1 .. Len(pending') : pending'[i] = pending[i + 1]
      /\ handled' \in Seq(1 .. MaxLines) /\ pending' \in Seq(1 .. MaxLines)
  <2>1. Len(handled) \in Nat /\ Len(pending) \in Nat /\ Len(pending) > 0
    BY <1>1
  <2>2. Head(pending) = pending[1] /\ Head(pending) \in 1 .. MaxLines
    BY <1>1, <2>1, FirstOf
  <2>3. /\ handled' \in Seq(1 .. MaxLines) /\ Len(handled') = Len(handled) + 1
        /\ \A i \in 1 .. Len(handled) : handled'[i] = handled[i]
        /\ handled'[Len(handled) + 1] = pending[1]
    BY <1>1, <2>2
  <2>4. /\ pending' \in Seq(1 .. MaxLines) /\ Len(pending') = Len(pending) - 1
        /\ \A i \in 1 .. Len(pending') : pending'[i] = pending[i + 1]
    BY <1>1, <2>1
  <2> QED BY <2>1, <2>3, <2>4
<1>3. Seen \in Seq(1 .. MaxLines) /\ Seen' \in Seq(1 .. MaxLines)
  BY <1>1, <1>2 DEF Seen
<1>4. Len(Seen) = Len(handled) + Len(pending) /\ Len(Seen') = Len(handled') + Len(pending')
  BY <1>1, <1>2 DEF Seen
<1>5. \A i \in 1 .. Len(Seen) : Seen'[i] = Seen[i]
  <2> SUFFICES ASSUME NEW i \in 1 .. Len(Seen) PROVE Seen'[i] = Seen[i]
    OBVIOUS
  <2>1. Seen[i] = IF i <= Len(handled) THEN handled[i] ELSE pending[i - Len(handled)]
    BY <1>1, <1>2, <1>4 DEF Seen
  <2>2. Seen'[i] = IF i <= Len(handled') THEN handled'[i] ELSE pending'[i - Len(handled')]
    BY <1>1, <1>2, <1>4 DEF Seen
  <2>3. CASE i <= Len(handled)
    BY <1>2, <2>1, <2>2, <2>3
  <2>4. CASE i = Len(handled) + 1
    BY <1>2, <2>1, <2>2, <2>4
  <2>5. CASE i > Len(handled) + 1
    <3>1. i - Len(handled') \in 1 .. Len(pending') /\ i - Len(handled') + 1 = i - Len(handled)
      BY <1>2, <1>4, <2>5
    <3> QED BY <1>2, <2>1, <2>2, <2>5, <3>1
  <2> QED BY <1>2, <1>4, <2>3, <2>4, <2>5
<1>6. Seen' = Seen
  BY <1>2, <1>3, <1>4, <1>5, SameSequence
<1> QED BY <1>2, <1>6

\* A line goes to the owner, or to pending_events.
LEMMA SeenGrows ==
  ASSUME TypeOK, NEW l \in 1 .. MaxLines,
         \/ pending = <<>> /\ handled' = Append(handled, l) /\ pending' = pending
         \/ handled' = handled /\ pending' = Append(pending, l)
  PROVE  /\ Seen' = Append(Seen, l)
         /\ handled' \in Seq(1 .. MaxLines) /\ pending' \in Seq(1 .. MaxLines)
<1> DEFINE S == 1 .. MaxLines
<1>1. handled \in Seq(S) /\ pending \in Seq(S) /\ l \in S
  BY DEF TypeOK
<1> HIDE DEF S
<1>2. CASE pending = <<>> /\ handled' = Append(handled, l) /\ pending' = pending
  <2>1. handled' \in Seq(S) /\ pending' \in Seq(S)
    BY <1>1, <1>2
  <2>2. handled \o <<>> = handled /\ handled' \o <<>> = handled'
    BY <1>1, <2>1
  <2> QED BY <1>2, <2>1, <2>2 DEF Seen, S
<1>3. CASE handled' = handled /\ pending' = Append(pending, l)
  <2>1. pending' \in Seq(S) /\ handled' \in Seq(S)
    BY <1>1, <1>3
  <2>2. handled \o Append(pending, l) = Append(handled \o pending, l)
    <3> DEFINE a == handled \o Append(pending, l)
               b == Append(handled \o pending, l)
    <3>1. a \in Seq(S) /\ b \in Seq(S) /\ Len(handled) \in Nat /\ Len(pending) \in Nat
      BY <1>1
    <3>2. Len(a) = Len(handled) + Len(pending) + 1 /\ Len(b) = Len(handled) + Len(pending) + 1
      BY <1>1
    <3>3. \A i \in 1 .. Len(handled) + Len(pending) + 1 : a[i] = b[i]
      BY SMTT(30), <1>1, <3>1
    <3> HIDE DEF a, b
    <3>4. a = b
      BY <3>1, <3>2, <3>3, SameSequence
    <3> QED BY <3>4 DEF a, b
  <2> QED BY <1>3, <2>1, <2>2 DEF Seen, S
<1> QED BY <1>2, <1>3
-----------------------------------------------------------------------------
(***************************************************************************)
(* The pipe and the channel: what is written, read and sent.               *)
(***************************************************************************)

\* The owner and its history do not notice what happens in the pipe.
PipeStep ==
  /\ UNCHANGED ownerVars
  /\ \A l \in 1 .. Len(written) : written'[l] = written[l]
  /\ Len(written') >= Len(written)

\* What the owner was told is still where it was in the pipe.
LEMMA PipeKeeps ==
  ASSUME TypeOK, NEW c \in Nat, c <= Len(written), Recollection(c), Delivered(c), PipeStep
  PROVE  Recollection(c)' /\ Delivered(c)'
<1>1. /\ evidence' = evidence /\ told' = told /\ Seen' = Seen /\ pending' = pending
      /\ Len(written) \in Nat
      /\ \A l \in 1 .. c : l \in 1 .. Len(written) /\ written'[l] = written[l]
  BY DEF PipeStep, ownerVars, Seen, TypeOK
<1>2. Recollection(c)'
  BY <1>1 DEF Recollection
<1>3. InOrder(Seen, c) => InOrder(Seen, c)'
  BY <1>1 DEF InOrder
<1> QED BY <1>1, <1>2, <1>3 DEF Delivered

\* The Worker writes a line, closes its end or exits.
LEMMA ProcessKeeps ==
  ASSUME TypeOK, NEW c \in Nat, Following(c), WriteLine \/ CloseStdout \/ Exit
  PROVE  TypeOK' /\ Following(c)'
<1>1. UNCHANGED <<reader, queue, receiving, ownerVars>>
  BY DEF WriteLine, CloseStdout, Exit, channelVars
<1>2. CASE WriteLine
  <2>1. PICK k \in Kinds : written' = Append(written, k)
    BY <1>2 DEF WriteLine
  <2>2. /\ written' \in Seq(Kinds) /\ Len(written') = Len(written) + 1 /\ Len(written) \in Nat
        /\ \A l \in 1 .. Len(written) : written'[l] = written[l]
        /\ Len(written) < MaxLines /\ open /\ open' = open /\ process' = process
    BY <1>2, <2>1 DEF WriteLine, TypeOK
  <2>3. PipeStep
    BY <1>1, <2>2 DEF PipeStep
  <2>4. Channel(c)'
    <3>1. reader.taken \in Nat
      BY DEF TypeOK
    <3>2. \A n : ~AtEnd(n)
      BY <2>2 DEF AtEnd
    <3> QED BY <1>1, <2>2, <3>1, <3>2 DEF Following, Channel, ownerVars
  <2>5. c <= Len(written)
    BY <2>2 DEF Following, Channel, TypeOK
  <2>6. TypeOK'
    BY <1>1, <2>2, CapacityIsPositive DEF TypeOK, ownerVars
  <2> QED BY <2>2, <2>3, <2>4, <2>5, <2>6, PipeKeeps DEF Following
<1>3. CASE CloseStdout \/ Exit
  <2>1. /\ written' = written /\ open' = FALSE
        /\ process' \in {"running", "ok", "nonzero", "killed"}
        /\ process' # process => process = "running"
    BY <1>3 DEF CloseStdout, Exit, TypeOK
  <2>2. PipeStep
    BY <1>1, <2>1 DEF PipeStep, TypeOK
  <2>3. Channel(c)'
    BY <1>1, <2>1 DEF Following, Channel, AtEnd, ownerVars
  <2>4. c <= Len(written)
    BY DEF Following, Channel, TypeOK
  <2>5. TypeOK'
    BY ZenonT(40), <1>1, <2>1 DEF TypeOK, ownerVars
  <2> QED BY <2>1, <2>2, <2>3, <2>4, <2>5, PipeKeeps DEF Following
<1> QED BY <1>2, <1>3

\* A message that is sent is the last of the channel.
LEMMA SendAppends ==
  ASSUME TypeOK, NEW m \in (1 .. MaxLines) \cup {Eof}, Send(m)
  PROVE  /\ queue' \in Seq(1 .. MaxLines \cup {Eof}) /\ Len(queue) \in Nat
         /\ Bounded => Len(queue') <= Capacity
         /\ receiving' = receiving
         /\ ~CanSend => queue' = queue
         /\ CanSend => /\ receiving
                       /\ Len(queue') = Len(queue) + 1 /\ queue'[Len(queue) + 1] = m
                       /\ \A i \in 1 .. Len(queue) : queue'[i] = queue[i]
<1> DEFINE S == 1 .. MaxLines \cup {Eof}
<1>1. queue \in Seq(S) /\ m \in S
  BY DEF TypeOK
<1> HIDE DEF S
<1>2. CASE CanSend
  <2>1. queue' = Append(queue, m) /\ receiving' = receiving
    BY <1>2 DEF Send
  <2>2. /\ queue' \in Seq(S) /\ Len(queue) \in Nat
        /\ Len(queue') = Len(queue) + 1 /\ queue'[Len(queue) + 1] = m
        /\ \A i \in 1 .. Len(queue) : queue'[i] = queue[i]
    BY <1>1, <2>1
  <2>3. receiving /\ (Bounded => ~(Len(queue) >= Capacity))
    BY <1>2 DEF CanSend
  <2>4. Bounded => Len(queue') <= Capacity
    BY <2>2, <2>3, CapacityIsPositive
  <2> QED BY <1>2, <2>1, <2>2, <2>3, <2>4 DEF S
<1>3. CASE ~CanSend
  <2>1. queue' = queue /\ receiving' = receiving
    BY <1>3 DEF Send
  <2> QED BY <1>1, <1>3, <2>1 DEF TypeOK, S
<1> QED BY <1>2, <1>3

\* The reader passes lines on in order, until it must drop one.
LEMMA ReaderKeeps ==
  ASSUME TypeOK, NEW c \in Nat, Following(c), Reader
  PROVE  TypeOK' /\ Following(c)' /\ reader.pc # "done" /\ process' = process
<1>1. UNCHANGED <<written, open, process, ownerVars>>
  BY DEF Reader, ReadLine, ReadEof, Drain, pipeVars
<1>2. PipeStep
  BY <1>1 DEF PipeStep, TypeOK
<1>3. /\ reader.taken \in 0 .. MaxLines /\ Len(written) \in Nat /\ Len(written) <= MaxLines
      /\ MaxLines \in Nat /\ c <= Len(written) /\ Len(queue) \in Nat
      /\ c <= reader.taken /\ reader.taken <= Len(written)
  BY CapacityIsPositive DEF TypeOK, Following, Channel
<1>4. Recollection(c)' /\ Delivered(c)'
  BY <1>2, <1>3, PipeKeeps DEF Following
<1>5. CASE ReadLine
  <2>1. reader.pc = "read" /\ reader.taken < Len(written) /\ Send(reader.taken + 1)
    BY <1>5 DEF ReadLine
  <2>2. reader.taken + 1 \in 1 .. MaxLines
    BY <1>3, <2>1
  <2>3. /\ queue' \in Seq(1 .. MaxLines \cup {Eof}) /\ Len(queue) \in Nat
        /\ Bounded => Len(queue') <= Capacity
        /\ receiving' = receiving
        /\ ~CanSend => queue' = queue
        /\ CanSend => /\ receiving
                      /\ Len(queue') = Len(queue) + 1 /\ queue'[Len(queue) + 1] = reader.taken + 1
                      /\ \A i \in 1 .. Len(queue) : queue'[i] = queue[i]
    BY <2>1, <2>2, SendAppends
  <2>4. reader' = [pc |-> IF CanSend THEN "read" ELSE "drain", taken |-> reader.taken + 1]
    BY <1>5 DEF ReadLine
  <2>5. reader'.taken = reader.taken + 1 /\ reader'.pc = IF CanSend THEN "read" ELSE "drain"
    BY <2>4
  <2>6. TypeOK'
    BY <1>1, <2>2, <2>3, <2>4 DEF TypeOK, ownerVars
  <2>7. \A n : ~AtEnd(n)
    BY <2>1 DEF AtEnd
  <2>8. evidence' = evidence /\ ~evidence.eof
    BY <1>1, <2>7 DEF ownerVars, Following, Channel
  <2>9. \A i \in 1 .. Len(queue) : queue[i] = c + i /\ c + i <= reader.taken
    BY <2>7 DEF Following, Channel
  <2>10. CASE CanSend
    <3>1. receiving /\ c + Len(queue) = reader.taken
      BY <2>1, <2>3, <2>10 DEF Following, Channel
    <3>2. \A i \in 1 .. Len(queue') : queue'[i] = c + i /\ c + i <= reader'.taken
      <4> SUFFICES ASSUME NEW i \in 1 .. Len(queue')
                   PROVE  queue'[i] = c + i /\ c + i <= reader'.taken
        OBVIOUS
      <4>1. i \in 1 .. Len(queue) \/ i = Len(queue) + 1
        BY <1>3, <2>3, <2>10
      <4>2. CASE i \in 1 .. Len(queue)
        BY <1>3, <2>3, <2>5, <2>9, <2>10, <4>2
      <4>3. CASE i = Len(queue) + 1
        BY <1>3, <2>3, <2>5, <2>10, <3>1, <4>3
      <4> QED BY <4>1, <4>2, <4>3
    <3> QED BY <1>1, <1>3, <1>4, <2>1, <2>3, <2>5, <2>6, <2>8, <2>10, <3>1, <3>2 DEF Following, Channel
  <2>11. CASE ~CanSend
    <3>1. \A i \in 1 .. Len(queue') : queue'[i] = c + i /\ c + i <= reader'.taken
      BY <1>3, <2>3, <2>5, <2>9, <2>11
    <3> QED BY <1>1, <1>3, <1>4, <2>1, <2>3, <2>5, <2>6, <2>8, <2>11, <3>1 DEF Following, Channel
  <2> QED BY <2>10, <2>11
<1>6. CASE ReadEof
  <2>1. reader.pc = "read" /\ reader.taken = Len(written) /\ ~open /\ Send(Eof)
          /\ reader' = [reader EXCEPT !.pc = "done"]
    BY <1>6 DEF ReadEof
  <2>2. /\ queue' \in Seq(1 .. MaxLines \cup {Eof}) /\ Len(queue) \in Nat
        /\ Bounded => Len(queue') <= Capacity
        /\ receiving' = receiving
        /\ ~CanSend => queue' = queue
        /\ CanSend => /\ receiving
                      /\ Len(queue') = Len(queue) + 1 /\ queue'[Len(queue) + 1] = Eof
                      /\ \A i \in 1 .. Len(queue) : queue'[i] = queue[i]
    BY <2>1, SendAppends
  <2>3. reader'.pc = "done" /\ reader'.taken = reader.taken
          /\ reader' \in [pc : {"read", "drain", "done"}, taken : 0 .. MaxLines]
    BY <2>1 DEF TypeOK
  <2>4. TypeOK'
    BY <1>1, <2>2, <2>3 DEF TypeOK, ownerVars
  <2>5. \A n : ~AtEnd(n)
    BY <2>1 DEF AtEnd
  <2>6. evidence' = evidence /\ ~evidence.eof
    BY <1>1, <2>5 DEF ownerVars, Following, Channel
  <2>7. \A i \in 1 .. Len(queue) : queue[i] = c + i /\ c + i <= reader.taken
    BY <2>5 DEF Following, Channel
  <2>8. \A i \in 1 .. Len(queue') :
          \/ queue'[i] = c + i /\ c + i <= reader'.taken
          \/ queue'[i] = Eof /\ i = Len(queue') /\ AtEnd(c + i - 1)' /\ ~evidence'.eof
    <3>1. CASE CanSend
      <4>1. c + Len(queue) = Len(written)
        BY <2>1, <2>2, <3>1 DEF Following, Channel
      <4> SUFFICES ASSUME NEW i \in 1 .. Len(queue')
                   PROVE  \/ queue'[i] = c + i /\ c + i <= reader'.taken
                          \/ queue'[i] = Eof /\ i = Len(queue') /\ AtEnd(c + i - 1)' /\ ~evidence'.eof
        OBVIOUS
      <4>2. i \in 1 .. Len(queue) \/ i = Len(queue) + 1
        BY <1>3, <2>2, <3>1
      <4>3. CASE i \in 1 .. Len(queue)
        BY <1>3, <2>2, <2>3, <2>7, <3>1, <4>3
      <4>4. CASE i = Len(queue) + 1
        <5>1. c + i - 1 = Len(written)
          BY <1>3, <4>1, <4>4
        <5>2. AtEnd(c + i - 1)'
          BY <1>1, <2>1, <2>3, <5>1 DEF AtEnd
        <5> QED BY <2>2, <2>6, <3>1, <4>4, <5>2
      <4> QED BY <4>2, <4>3, <4>4
    <3>2. CASE ~CanSend
      BY <2>2, <2>3, <2>7, <3>2
    <3> QED BY <3>1, <3>2
  <2>9. ~receiving' => queue' = <<>>
    BY <2>2 DEF Following, Channel
  <2>10. Channel(c)'
    BY <1>1, <1>3, <2>3, <2>6, <2>8, <2>9 DEF Channel
  <2> QED BY <1>1, <1>4, <2>1, <2>4, <2>10 DEF Following
<1>7. CASE Drain
  <2>1. /\ reader.pc = "drain" /\ UNCHANGED <<queue, receiving>>
        /\ \/ reader.taken < Len(written) /\ reader' = [reader EXCEPT !.taken = @ + 1]
           \/ reader' = [reader EXCEPT !.pc = "done"]
    BY <1>7 DEF Drain, channelVars
  <2>2. /\ reader'.taken \in 0 .. MaxLines /\ reader.taken <= reader'.taken
        /\ reader'.taken <= Len(written) /\ reader'.pc # "read"
        /\ reader' \in [pc : {"read", "drain", "done"}, taken : 0 .. MaxLines]
    BY <1>3, <2>1 DEF TypeOK
  <2>3. TypeOK'
    BY <1>1, <2>1, <2>2 DEF TypeOK, ownerVars
  <2>4. \A n : ~AtEnd(n)
    BY <2>1 DEF AtEnd
  <2>5. \A i \in 1 .. Len(queue) : queue[i] = c + i /\ c + i <= reader.taken
    BY <2>4 DEF Following, Channel
  <2>6. evidence' = evidence /\ ~evidence.eof
    BY <1>1, <2>4 DEF ownerVars, Following, Channel
  <2>7. Channel(c)'
    BY <1>1, <1>3, <2>1, <2>2, <2>5, <2>6 DEF Following, Channel
  <2> QED BY <1>1, <1>4, <2>1, <2>3, <2>7 DEF Following
<1> QED BY <1>5, <1>6, <1>7 DEF Reader
-----------------------------------------------------------------------------
(***************************************************************************)
(* The owner takes what is in the channel.                                 *)
(***************************************************************************)

\* The next line in the channel is the next one that was written.
LEMMA LineTaken ==
  ASSUME TypeOK, NEW c \in Nat, Channel(c), queue # <<>>, Head(queue) # Eof,
         queue' = Tail(queue), UNCHANGED <<written, open, reader, receiving>>,
         evidence'.eof = evidence.eof
  PROVE  /\ Head(queue) = c + 1 /\ c + 1 \in 1 .. MaxLines /\ c + 1 \in 1 .. Len(written)
         /\ ~evidence.eof
         /\ Channel(c + 1)'
         /\ queue' \in Seq(1 .. MaxLines \cup {Eof}) /\ (Bounded => Len(queue') <= Capacity)
<1> DEFINE S == 1 .. MaxLines \cup {Eof}
<1>1. queue \in Seq(S) /\ (Bounded => Len(queue) <= Capacity)
  BY DEF TypeOK
<1> HIDE DEF S
<1>2. /\ Head(queue) = queue[1] /\ Len(queue) \in Nat /\ Len(queue) > 0
      /\ queue' \in Seq(S) /\ Len(queue') = Len(queue) - 1
      /\ \A i \in 1 .. Len(queue) - 1 : queue'[i] = queue[i + 1]
  BY <1>1, FirstOf
<1>3. /\ reader.taken \in 0 .. MaxLines /\ Len(written) \in Nat /\ Len(written) <= MaxLines
      /\ MaxLines \in Nat /\ Capacity \in Nat /\ reader.taken <= Len(written)
  BY CapacityIsPositive DEF TypeOK, Channel
<1>4. 1 \in 1 .. Len(queue)
  BY <1>2
<1>5. Head(queue) = c + 1 /\ c + 1 <= reader.taken
  BY <1>2, <1>4 DEF Channel
<1>6. c + 1 \in 1 .. MaxLines /\ c + 1 \in 1 .. Len(written)
  BY <1>3, <1>5
<1>7. ~evidence.eof
  BY DEF Channel
<1>8. \A i \in 1 .. Len(queue') :
        \/ queue'[i] = (c + 1) + i /\ (c + 1) + i <= reader'.taken
        \/ queue'[i] = Eof /\ i = Len(queue') /\ AtEnd((c + 1) + i - 1)' /\ ~evidence'.eof
  <2> SUFFICES ASSUME NEW i \in 1 .. Len(queue')
               PROVE  \/ queue'[i] = (c + 1) + i /\ (c + 1) + i <= reader'.taken
                      \/ queue'[i] = Eof /\ i = Len(queue') /\ AtEnd((c + 1) + i - 1)' /\ ~evidence'.eof
    OBVIOUS
  <2>1. i + 1 \in 1 .. Len(queue) /\ queue'[i] = queue[i + 1]
    BY <1>2
  <2>2. CASE queue[i + 1] = c + (i + 1) /\ c + (i + 1) <= reader.taken
    <3>1. c + (i + 1) = (c + 1) + i
      BY <1>2
    <3> QED BY <2>1, <2>2, <3>1
  <2>3. CASE queue[i + 1] = Eof /\ i + 1 = Len(queue) /\ AtEnd(c + (i + 1) - 1) /\ ~evidence.eof
    <3>1. c + (i + 1) - 1 = (c + 1) + i - 1 /\ i = Len(queue')
      <4>1. Len(queue) = i + 1
        BY <2>3, Zenon
      <4>2. Len(queue') = i
        BY <1>2, <4>1
      <4> QED BY <4>2
    <3>2. AtEnd((c + 1) + i - 1)
      BY <2>3, <3>1
    <3>3. AtEnd((c + 1) + i - 1)'
      BY <3>2 DEF AtEnd
    <3> QED BY <2>1, <2>3, <3>1, <3>3
  <2> QED BY <2>1, <2>2, <2>3 DEF Channel
<1>9. reader'.pc = "read" /\ receiving' => (c + 1) + Len(queue') = reader'.taken
  <2>1. (c + 1) + Len(queue') = c + Len(queue)
    BY <1>2
  <2> QED BY <2>1 DEF Channel
<1>10. ~receiving' => queue' = <<>>
  BY DEF Channel
<1>11. Channel(c + 1)'
  BY <1>3, <1>5, <1>7, <1>8, <1>9, <1>10 DEF Channel
<1>12. Bounded => Len(queue') <= Capacity
  BY <1>1, <1>2, <1>3
<1> QED BY <1>2, <1>5, <1>6, <1>7, <1>11, <1>12 DEF S

\* What record_event keeps of a line.
LEMMA RecordedKeeps ==
  ASSUME TypeOK, NEW c \in Nat, Recollection(c), c + 1 \in 1 .. Len(written), written' = written,
         evidence' = Recorded(written[c + 1]),
         told => told', told' \/ written[c + 1] # "garbage"
  PROVE  /\ Recollection(c + 1)' /\ evidence'.eof = evidence.eof
         /\ evidence' \in [eof : BOOLEAN, errors : BOOLEAN, fatal : BOOLEAN,
                           summary : Summaries \cup {None}]
<1> DEFINE k == written[c + 1]
<1>1. /\ evidence \in [eof : BOOLEAN, errors : BOOLEAN, fatal : BOOLEAN,
                       summary : Summaries \cup {None}]
      /\ k \in Kinds /\ None \notin Summaries
  BY NoneIsFresh DEF TypeOK, Summaries
<1>0. \A l \in 1 .. c + 1 : l \in 1 .. c \/ l = c + 1
  OBVIOUS
<1> HIDE DEF k
<1>2. k = written[c + 1]
  BY DEF k
<1>3. CASE k \in Summaries /\ evidence.summary = None
  <2>1. evidence' = [evidence EXCEPT !.summary = k]
    BY <1>1, <1>2, <1>3 DEF Recorded, Summaries
  <2>2. /\ evidence'.summary = k /\ evidence'.errors = evidence.errors
        /\ evidence'.fatal = evidence.fatal /\ evidence'.eof = evidence.eof
        /\ evidence' \in [eof : BOOLEAN, errors : BOOLEAN, fatal : BOOLEAN,
                          summary : Summaries \cup {None}]
    BY <1>1, <1>3, <2>1
  <2>3. k # "fatal" /\ k # "garbage"
    BY <1>3 DEF Summaries
  <2> QED BY <1>0, <1>1, <1>2, <1>3, <2>2, <2>3 DEF Recollection
<1>4. CASE k \in Summaries /\ evidence.summary # None
  <2>1. evidence' = [evidence EXCEPT !.errors = TRUE]
    BY <1>1, <1>2, <1>4 DEF Recorded, Summaries
  <2>2. /\ evidence'.summary = evidence.summary /\ evidence'.errors = TRUE
        /\ evidence'.fatal = evidence.fatal /\ evidence'.eof = evidence.eof
        /\ evidence' \in [eof : BOOLEAN, errors : BOOLEAN, fatal : BOOLEAN,
                          summary : Summaries \cup {None}]
    BY <1>1, <2>1
  <2>3. k # "fatal"
    BY <1>4 DEF Summaries
  <2> QED BY <1>0, <1>2, <2>2, <2>3 DEF Recollection
<1>5. CASE k = "fatal"
  <2>1. evidence' = [evidence EXCEPT !.fatal = TRUE]
    BY <1>2, <1>5 DEF Recorded, Summaries
  <2>2. /\ evidence'.summary = evidence.summary /\ evidence'.errors = evidence.errors
        /\ evidence'.fatal = TRUE /\ evidence'.eof = evidence.eof
        /\ evidence' \in [eof : BOOLEAN, errors : BOOLEAN, fatal : BOOLEAN,
                          summary : Summaries \cup {None}]
    BY <1>1, <2>1
  <2>3. k \notin Summaries /\ k # "garbage"
    BY <1>5 DEF Summaries
  <2> QED BY <1>0, <1>2, <2>2, <2>3 DEF Recollection
<1>6. CASE k \notin Summaries /\ k # "fatal"
  <2>1. evidence' = evidence
    BY <1>2, <1>6 DEF Recorded
  <2> QED BY <1>0, <1>1, <1>2, <1>6, <2>1 DEF Recollection
<1> QED BY <1>3, <1>4, <1>5, <1>6

\* A protocol error forgets nothing else, and excuses a refused line.
LEMMA ErrorKeeps ==
  ASSUME TypeOK, NEW c \in Nat, Recollection(c), written' = written,
         evidence' = [evidence EXCEPT !.errors = TRUE]
  PROVE  /\ Recollection(c)' /\ evidence'.eof = evidence.eof
         /\ written[c + 1] = "garbage" => Recollection(c + 1)'
         /\ evidence' \in [eof : BOOLEAN, errors : BOOLEAN, fatal : BOOLEAN,
                           summary : Summaries \cup {None}]
<1>1. /\ evidence'.summary = evidence.summary /\ evidence'.errors = TRUE
      /\ evidence'.fatal = evidence.fatal /\ evidence'.eof = evidence.eof
      /\ evidence' \in [eof : BOOLEAN, errors : BOOLEAN, fatal : BOOLEAN,
                        summary : Summaries \cup {None}]
  BY DEF TypeOK
<1>2. \A l \in 1 .. c + 1 : l \in 1 .. c \/ l = c + 1
  OBVIOUS
<1> QED BY <1>1, <1>2 DEF Recollection

\* The end of stdout: nothing was left in the channel.
LEMMA EofKeeps ==
  ASSUME TypeOK, NEW c \in Nat, Channel(c), Recollection(c), TakeEof,
         UNCHANGED <<written, open, reader, receiving>>, told => told'
  PROVE  /\ Channel(c)' /\ Recollection(c)'
         /\ queue' \in Seq(1 .. MaxLines \cup {Eof}) /\ (Bounded => Len(queue') <= Capacity)
         /\ evidence' \in [eof : BOOLEAN, errors : BOOLEAN, fatal : BOOLEAN,
                           summary : Summaries \cup {None}]
<1> DEFINE S == 1 .. MaxLines \cup {Eof}
<1>1. queue \in Seq(S) /\ queue # <<>> /\ Head(queue) = Eof /\ queue' = Tail(queue)
        /\ (Bounded => Len(queue) <= Capacity)
  BY DEF TypeOK, TakeEof
<1> HIDE DEF S
<1>2. /\ Head(queue) = queue[1] /\ Len(queue) \in Nat /\ Len(queue) > 0
      /\ queue' \in Seq(S) /\ Len(queue') = Len(queue) - 1
  BY <1>1, FirstOf
<1>3. queue[1] # c + 1
  BY <1>1, <1>2, EofIsNoLine
<1>4. Len(queue) = 1
  BY <1>2, <1>3 DEF Channel
<1>5. Len(queue') = 0 /\ queue' = <<>> /\ AtEnd(c)
  <2>1. Len(queue') = 0
    BY <1>2, <1>4
  <2>2. AtEnd(c)
    BY <1>2, <1>3 DEF Channel, AtEnd
  <2> QED BY <1>2, <1>4, <2>1, <2>2
<1>6. evidence' = [evidence EXCEPT !.eof = TRUE]
  BY DEF TakeEof
<1>7. /\ evidence'.summary = evidence.summary /\ evidence'.errors = evidence.errors
      /\ evidence'.fatal = evidence.fatal /\ evidence'.eof = TRUE
      /\ evidence' \in [eof : BOOLEAN, errors : BOOLEAN, fatal : BOOLEAN,
                        summary : Summaries \cup {None}]
  BY <1>6 DEF TypeOK
<1>8. Recollection(c)'
  BY <1>7 DEF Recollection
<1>9. Channel(c)'
  BY <1>5, <1>7 DEF Channel, AtEnd
<1>10. Bounded => Len(queue') <= Capacity
  BY <1>5, CapacityIsPositive
<1> QED BY <1>2, <1>7, <1>8, <1>9, <1>10 DEF S
-----------------------------------------------------------------------------
(***************************************************************************)
(* The owner's steps.                                                      *)
(***************************************************************************)

\* What is typed of the channel and of what the owner keeps.
KeptType ==
  /\ queue \in Seq(1 .. MaxLines \cup {Eof}) /\ (Bounded => Len(queue) <= Capacity)
  /\ evidence \in [eof : BOOLEAN, errors : BOOLEAN, fatal : BOOLEAN,
                   summary : Summaries \cup {None}]
  /\ pending \in Seq(1 .. MaxLines) /\ handled \in Seq(1 .. MaxLines)

\* A step of the owner that leaves the pipe and the reader alone.
PipeAlone == UNCHANGED <<written, open, reader, receiving>>

\* Nothing is taken.
LEMMA NothingTaken ==
  ASSUME TypeOK, NEW c \in Nat, Following(c), PipeAlone,
         UNCHANGED <<queue, evidence>>,
         \/ told' /\ UNCHANGED <<pending, handled>>
         \/ told' = told /\ (HandlePending \/ UNCHANGED <<pending, handled>>)
  PROVE  Following(c)' /\ KeptType'
<1> USE DEF PipeAlone
<1>1. Channel(c)'
  BY DEF Following, Channel, AtEnd
<1>2. Recollection(c)'
  <2>1. told' \/ told' = told
    OBVIOUS
  <2> QED BY <2>1 DEF Following, Recollection
<1>3. CASE HandlePending
  <2>1. /\ Seen' = Seen /\ pending # <<>>
        /\ handled' \in Seq(1 .. MaxLines) /\ pending' \in Seq(1 .. MaxLines)
    BY <1>3, HandOver DEF HandlePending
  <2>2. InOrder(Seen, c) => InOrder(Seen, c)'
    BY <2>1 DEF InOrder
  <2>3. told' = told
    BY <1>3 DEF HandlePending
  <2>4. Delivered(c)'
    BY <2>1, <2>2, <2>3 DEF Following, Delivered
  <2> QED BY <1>1, <1>2, <2>1, <2>4 DEF Following, KeptType, TypeOK
<1>4. CASE UNCHANGED <<pending, handled>>
  <2>1. Seen' = Seen
    BY <1>4 DEF Seen
  <2>2. InOrder(Seen, c) => InOrder(Seen, c)'
    BY <2>1 DEF InOrder
  <2>3. Delivered(c)'
    BY <1>4, <2>2 DEF Following, Delivered
  <2> QED BY <1>1, <1>2, <1>4, <2>3 DEF Following, KeptType, TypeOK
<1> QED BY <1>3, <1>4

\* The next line is taken, and handed over, kept, or the owner is given an error.
LEMMA LineKept ==
  ASSUME TypeOK, NEW c \in Nat, Following(c), PipeAlone, TakeLine(Kinds),
         \/ told' /\ (UNCHANGED pending \/ pending' = Append(pending, Head(queue)))
                  /\ UNCHANGED handled
         \/ /\ told' = told /\ written[Head(queue)] # "garbage"
            /\ \/ /\ pending = <<>> /\ pending' = pending
                  /\ handled' = Append(handled, Head(queue))
               \/ handled' = handled /\ pending' = Append(pending, Head(queue))
  PROVE  Following(c + 1)' /\ KeptType'
<1> USE DEF PipeAlone
<1>0. queue # <<>> /\ Head(queue) # Eof /\ queue' = Tail(queue)
        /\ evidence' = Recorded(written[Head(queue)])
  BY DEF TakeLine
<1>1. evidence'.eof = evidence.eof
  BY <1>0 DEF Recorded, TypeOK
<1>2. /\ Head(queue) = c + 1 /\ c + 1 \in 1 .. MaxLines /\ c + 1 \in 1 .. Len(written)
      /\ ~evidence.eof
      /\ Channel(c + 1)'
      /\ queue' \in Seq(1 .. MaxLines \cup {Eof}) /\ (Bounded => Len(queue') <= Capacity)
  BY <1>0, <1>1, LineTaken DEF Following
<1>3. told => told'
  OBVIOUS
<1>4. /\ Recollection(c + 1)'
      /\ evidence' \in [eof : BOOLEAN, errors : BOOLEAN, fatal : BOOLEAN,
                        summary : Summaries \cup {None}]
  BY <1>0, <1>2, <1>3, RecordedKeeps DEF Following
<1>5. CASE told' /\ handled' = handled
             /\ (UNCHANGED pending \/ pending' = Append(pending, Head(queue)))
  <2>1. pending' \in Seq(1 .. MaxLines) /\ handled' \in Seq(1 .. MaxLines)
    <3>1. handled' \in Seq(1 .. MaxLines)
      BY <1>5 DEF TypeOK
    <3>2. CASE UNCHANGED pending
      BY <3>1, <3>2 DEF TypeOK
    <3>3. CASE pending' = Append(pending, Head(queue))
      BY <1>2, <1>5, <3>3, SeenGrows
    <3> QED BY <1>5, <3>1, <3>2, <3>3
  <2> QED BY <1>2, <1>4, <1>5, <2>1 DEF Following, Delivered, KeptType
<1>6. CASE /\ told' = told
           /\ \/ /\ pending = <<>> /\ pending' = pending
                 /\ handled' = Append(handled, Head(queue))
              \/ handled' = handled /\ pending' = Append(pending, Head(queue))
  <2>1. /\ Seen' = Append(Seen, c + 1)
        /\ handled' \in Seq(1 .. MaxLines) /\ pending' \in Seq(1 .. MaxLines)
    BY <1>2, <1>6, SeenGrows
  <2>2. Seen \in Seq(Nat)
    BY SeenFirst
  <2>3. ~told => InOrder(Append(Seen, c + 1), c + 1)
    BY <2>2, OrderGrows DEF Following, Delivered
  <2>4. ~told => InOrder(Seen, c + 1)'
    BY <2>1, <2>3 DEF InOrder
  <2>5. ~evidence'.eof
    BY <1>1, <1>2
  <2>6. Delivered(c + 1)'
    BY <1>6, <2>4, <2>5 DEF Delivered
  <2> QED BY <1>2, <1>4, <2>1, <2>6 DEF Following, KeptType
<1> QED BY <1>5, <1>6

\* A refused line, or the overflow, becomes a protocol error.
LEMMA ErrorKept ==
  ASSUME TypeOK, NEW c \in Nat, Following(c), PipeAlone, UNCHANGED <<pending, handled>>,
         RefuseLine \/ TakeOverflow, told' = told \/ told'
  PROVE  (\E d \in Nat : Following(d)') /\ KeptType'
<1> USE DEF PipeAlone
<1>1. evidence' = [evidence EXCEPT !.errors = TRUE]
  BY DEF RefuseLine, TakeOverflow
<1>2. /\ Recollection(c)' /\ evidence'.eof = evidence.eof
      /\ written[c + 1] = "garbage" => Recollection(c + 1)'
      /\ evidence' \in [eof : BOOLEAN, errors : BOOLEAN, fatal : BOOLEAN,
                        summary : Summaries \cup {None}]
  BY <1>1, ErrorKeeps DEF Following
<1>3. Seen' = Seen /\ pending' \in Seq(1 .. MaxLines) /\ handled' \in Seq(1 .. MaxLines)
  BY DEF Seen, TypeOK
<1>4. CASE TakeOverflow
  <2>1. queue' = queue
    BY <1>4 DEF TakeOverflow
  <2>2. Channel(c)'
    BY <1>2, <2>1 DEF Following, Channel, AtEnd
  <2>3. InOrder(Seen, c) => InOrder(Seen, c)'
    BY <1>3 DEF InOrder
  <2>4. Delivered(c)'
    BY <1>2, <2>3 DEF Following, Delivered
  <2>5. Following(c)'
    BY <1>2, <2>2, <2>4 DEF Following
  <2>6. KeptType'
    BY <1>2, <1>3, <2>1 DEF KeptType, TypeOK
  <2> QED BY <2>5, <2>6
<1>5. CASE RefuseLine
  <2>1. queue # <<>> /\ Head(queue) # Eof /\ queue' = Tail(queue) /\ written[Head(queue)] = "garbage"
    BY <1>5 DEF RefuseLine
  <2>2. /\ Head(queue) = c + 1 /\ c + 1 \in 1 .. Len(written)
        /\ ~evidence.eof
        /\ Channel(c + 1)'
        /\ queue' \in Seq(1 .. MaxLines \cup {Eof}) /\ (Bounded => Len(queue') <= Capacity)
    BY <1>2, <2>1, LineTaken DEF Following
  <2>3. Seen \in Seq(Nat)
    BY SeenFirst
  <2>4. ~told => InOrder(Seen, c + 1)
    BY <2>1, <2>2, <2>3, OrderGrows DEF Following, Delivered
  <2>5. ~told => InOrder(Seen, c + 1)'
    BY <1>3, <2>4 DEF InOrder
  <2>6. Delivered(c + 1)'
    BY <1>2, <2>2, <2>5 DEF Delivered
  <2>7. Following(c + 1)'
    BY <1>2, <2>1, <2>2, <2>6 DEF Following
  <2>8. KeptType' /\ c + 1 \in Nat
    BY <1>2, <1>3, <2>2 DEF KeptType
  <2> QED BY <2>7, <2>8
<1> QED BY <1>4, <1>5

\* Eof is taken when nothing is pending, or the owner is given an error.
LEMMA EofKept ==
  ASSUME TypeOK, NEW c \in Nat, Following(c), PipeAlone, UNCHANGED <<pending, handled>>,
         TakeEof, told' \/ (told' = told /\ pending = <<>>)
  PROVE  Following(c)' /\ KeptType'
<1> USE DEF PipeAlone
<1>1. /\ Channel(c)' /\ Recollection(c)'
      /\ queue' \in Seq(1 .. MaxLines \cup {Eof}) /\ (Bounded => Len(queue') <= Capacity)
      /\ evidence' \in [eof : BOOLEAN, errors : BOOLEAN, fatal : BOOLEAN,
                        summary : Summaries \cup {None}]
  BY EofKeeps DEF Following
<1>2. Seen' = Seen
  BY DEF Seen
<1>3. InOrder(Seen, c) => InOrder(Seen, c)'
  BY <1>2 DEF InOrder
<1>4. Delivered(c)'
  BY <1>3 DEF Following, Delivered
<1> QED BY <1>1, <1>4 DEF Following, KeptType, TypeOK

\* The receiver is dropped: what was taken stays what it is.
LEMMA DropKeeps ==
  ASSUME TypeOK, NEW c \in Nat, Following(c), DropReceiver,
         UNCHANGED <<written, reader, evidence, pending, handled, told>>, open' => open
  PROVE  Following(c)' /\ KeptType'
<1>1. receiving' = FALSE /\ queue' = <<>>
  BY DEF DropReceiver
<1>2. Channel(c)'
  BY <1>1 DEF Following, Channel, AtEnd
<1>3. Recollection(c)'
  BY DEF Following, Recollection
<1>4. Seen' = Seen
  BY DEF Seen
<1>5. InOrder(Seen, c) => InOrder(Seen, c)'
  BY <1>4 DEF InOrder
<1>6. Delivered(c)'
  BY <1>5 DEF Following, Delivered
<1>7. queue' \in Seq(1 .. MaxLines \cup {Eof}) /\ Len(queue') = 0
  BY <1>1
<1>8. KeptType'
  BY <1>7, CapacityIsPositive DEF KeptType, TypeOK
<1> QED BY <1>2, <1>3, <1>6, <1>8 DEF Following
\* A step of the owner.
OwnerStep == Wait \/ WaitOver \/ Run \/ Call \/ Abandon \/ Shutdown \/ Expire

\* Whatever the owner takes, it goes on with the next line.
LEMMA OwnerTakes ==
  ASSUME TypeOK, NEW c \in Nat, Following(c), Ends, OwnerStep
  PROVE  (\E d \in Nat : Following(d)') /\ KeptType'
<1>1. \A K \in SUBSET Kinds : TakeLine(K) => TakeLine(Kinds)
  BY DEF TakeLine
<1>2. Good \in SUBSET Kinds /\ Ending \in SUBSET Kinds /\ Good \ Ending \in SUBSET Kinds
        /\ {"garbage"} \in SUBSET Kinds
  BY DEF Good, Kinds, Ending, Summaries
<1>3. \A K \in SUBSET Kinds : "garbage" \notin K /\ TakeLine(K) => written[Head(queue)] # "garbage"
  BY DEF TakeLine
<1>4. "garbage" \notin Good
  BY DEF Good
<1>5. ASSUME PipeAlone, TakeLine(Kinds),
             \/ told' /\ (UNCHANGED pending \/ pending' = Append(pending, Head(queue)))
                      /\ UNCHANGED handled
             \/ /\ told' = told /\ written[Head(queue)] # "garbage"
                /\ \/ /\ pending = <<>> /\ pending' = pending
                      /\ handled' = Append(handled, Head(queue))
                   \/ handled' = handled /\ pending' = Append(pending, Head(queue))
      PROVE  (\E d \in Nat : Following(d)') /\ KeptType'
  <2>1. Following(c + 1)' /\ KeptType' /\ c + 1 \in Nat
    BY <1>5, LineKept
  <2> QED BY <2>1
<1>6. CASE Wait
  <2>1. PipeAlone /\ UNCHANGED handled
    BY <1>6 DEF Wait, PipeAlone, pipeVars
  <2>2. CASE /\ TakeLine(Good \ Ending) /\ pending' = Append(pending, Head(queue))
             /\ UNCHANGED told
    BY <1>1, <1>2, <1>3, <1>4, <1>5, <2>1, <2>2
  <2>3. CASE /\ TakeLine(Ending) /\ pending' \in {pending, Append(pending, Head(queue))}
             /\ told'
    BY <1>1, <1>2, <1>5, <2>1, <2>3
  <2>4. CASE TakeLine({"garbage"}) /\ told' /\ UNCHANGED pending
    BY <1>1, <1>2, <1>5, <2>1, <2>4
  <2>5. CASE TakeEof /\ told' /\ UNCHANGED pending
    BY <2>1, <2>5, EofKept
  <2>6. CASE TakeOverflow /\ told' /\ UNCHANGED pending
    BY <2>1, <2>6, ErrorKept
  <2> QED BY <1>6, <2>2, <2>3, <2>4, <2>5, <2>6 DEF Wait
<1>7. CASE Run
  <2>1. PipeAlone /\ ~told
    BY <1>7 DEF Run, PipeAlone, pipeVars
  <2>2. CASE HandlePending
    BY <2>1, <2>2, NothingTaken DEF HandlePending
  <2>3. CASE HandleLine
    BY <1>1, <1>2, <1>3, <1>4, <1>5, <2>1, <2>3 DEF HandleLine
  <2>4. CASE TakeLine({"garbage"}) /\ told' /\ UNCHANGED <<pending, handled>>
    BY <1>1, <1>2, <1>5, <2>1, <2>4
  <2>5. CASE TakeEof /\ told' = told /\ pending = <<>> /\ UNCHANGED <<pending, handled>>
    BY <2>1, <2>5, EofKept
  <2>6. CASE TakeOverflow /\ told' /\ UNCHANGED <<pending, handled>>
    BY <2>1, <2>6, ErrorKept
  <2> QED BY <1>7, <2>2, <2>3, <2>4, <2>5, <2>6 DEF Run
<1>8. CASE StoppingTakes \/ FinishTakes
  <2>1. RecvInShutdown /\ PipeAlone
    BY <1>8 DEF StoppingTakes, FinishTakes, RecvInShutdown, PipeAlone, pipeVars
  <2>2. CASE HandlePending
    BY <2>1, <2>2, NothingTaken DEF HandlePending
  <2>3. CASE HandleLine
    BY <1>1, <1>2, <1>3, <1>4, <1>5, <2>1, <2>3 DEF HandleLine
  <2>4. CASE (RefuseLine \/ TakeOverflow) /\ UNCHANGED <<pending, handled, told>>
    BY <2>1, <2>4, ErrorKept
  <2>5. CASE TakeEof /\ pending = <<>> /\ UNCHANGED <<pending, handled, told>>
    BY <2>1, <2>5, EofKept
  <2> QED BY <2>1, <2>2, <2>3, <2>4, <2>5 DEF RecvInShutdown
<1>9. CASE FinishEnds
  BY <1>9, DropKeeps DEF FinishEnds, pipeVars
<1>10. CASE ForceCleanup
  <2>1. UNCHANGED <<written, reader, evidence, pending, handled, told>> /\ DropReceiver
    BY <1>10 DEF ForceCleanup
  <2>2. open' = FALSE
    BY <1>10 DEF ForceCleanup
  <2>3. open' => open
    BY <2>2
  <2> QED BY <2>1, <2>3, DropKeeps
<1>11. CASE WaitOver \/ Call \/ Abandon \/ Begin \/ Stop \/ Poll \/ StoppingEnds \/ Classify
              \/ Forced \/ Expire
  <2>1. /\ PipeAlone /\ UNCHANGED <<queue, evidence, pending, handled>>
        /\ told' = told \/ (WaitOver /\ told' \in BOOLEAN)
    BY <1>11 DEF WaitOver, Call, Abandon, Begin, Stop, Poll, StoppingEnds, Classify, Forced, Expire,
                 Quiet, PipeAlone, pipeVars, channelVars
  <2>2. CASE told' = told \/ told'
    BY <2>1, <2>2, NothingTaken
  <2>3. CASE WaitOver /\ told' \in BOOLEAN
    <3>1. told = FALSE
      BY <2>3 DEF WaitOver, Ends
    <3>2. told' = told \/ told'
      BY <2>3, <3>1
    <3> QED BY <2>2, <3>2
  <2> QED BY <2>1, <2>2, <2>3
<1> QED BY <1>6, <1>7, <1>8, <1>9, <1>10, <1>11 DEF OwnerStep, Shutdown
\* Where the owner can be.
Places == {"wait", "run", "shutdown", "stop", "poll", "stopping", "finish",
           "join", "force", "forced", "returned"}

(* The owner goes on, with the fields it has.  It finishes only with a     *)
(* process that exited, returns only when the reader is joined, and told   *)
(* is set for good when the owner leaves the wait.                         *)
LEMMA OwnerFlows ==
  ASSUME TypeOK, Ends, OwnerStep
  PROVE  /\ Ends' /\ owner'.pc \in Places /\ owner.pc # "returned"
         /\ UNCHANGED <<written, reader>>
         /\ process' \in {"running", "ok", "nonzero", "killed"} /\ open' \in BOOLEAN
         /\ result' \in {None, "ok", "err"}
         /\ result' = "ok" => Classify
<1> USE DEF Places
<1>0. /\ owner.pc \in Places /\ DOMAIN owner = {"pc", "reported", "expired", "checked", "accepted"}
      /\ process \in {"running", "ok", "nonzero", "killed"} /\ open \in BOOLEAN
      /\ told \in BOOLEAN /\ result \in {None, "ok", "err"}
      /\ None \notin {"ok", "err"}
  BY NoneIsFresh DEF TypeOK, Ends
<1>1. ASSUME UNCHANGED <<written, reader, process, open, result>>, told' \in BOOLEAN,
             DOMAIN owner' = DOMAIN owner, owner'.pc \in Places \ {"wait", "returned"},
             owner.pc \notin {"join", "force", "forced", "returned"},
             owner'.pc \in {"finish", "join", "forced"} =>
               process # "running" \/ owner.pc = "finish"
      PROVE  /\ Ends' /\ owner'.pc \in Places /\ owner.pc # "returned"
             /\ UNCHANGED <<written, reader>>
             /\ process' \in {"running", "ok", "nonzero", "killed"} /\ open' \in BOOLEAN
             /\ result' \in {None, "ok", "err"}
             /\ result' = "ok" => Classify
  BY <1>0, <1>1 DEF Ends
<1>2. CASE Wait
  <2>1. CASE UNCHANGED <<owner, told>>
    BY <1>0, <1>2, <2>1 DEF Wait, Ends, pipeVars
  <2>2. CASE told' \in BOOLEAN /\ (Goto("run") \/ Report("run"))
    <3>1. DOMAIN owner' = DOMAIN owner /\ owner'.pc = "run"
      BY <1>0, <2>2 DEF Goto, Report
    <3> QED BY <1>0, <1>1, <1>2, <2>2, <3>1 DEF Wait, pipeVars
  <2>3. told' = told \/ told' = TRUE
    BY <1>2 DEF Wait
  <2>4. UNCHANGED <<owner, told>> \/ Goto("run") \/ Report("run")
    BY <1>2 DEF Wait, Goto
  <2> QED BY <1>0, <2>1, <2>2, <2>3, <2>4
<1>3. CASE WaitOver
  <2>1. DOMAIN owner' = DOMAIN owner /\ owner'.pc = "run"
    BY <1>0, <1>3 DEF WaitOver, Goto
  <2> QED BY <1>0, <1>1, <1>3, <2>1 DEF WaitOver, pipeVars
<1>4. CASE Run
  <2>1. DOMAIN owner' = DOMAIN owner /\ owner'.pc = "run"
    BY <1>0, <1>4 DEF Run, HandlePending, HandleLine, Report
  <2>2. told' \in BOOLEAN
    BY <1>0, <1>4 DEF Run, HandlePending, HandleLine
  <2> QED BY <1>0, <1>1, <1>4, <2>1, <2>2 DEF Run, pipeVars
<1>5. CASE Call \/ Abandon
  <2>1. DOMAIN owner' = DOMAIN owner /\ owner'.pc \in {"shutdown", "force"}
    BY <1>0, <1>5 DEF Call, Abandon, Goto
  <2>2. told' = told
    BY <1>5 DEF Call, Abandon, Quiet
  <2> QED BY <1>0, <1>1, <1>5, <2>1, <2>2 DEF Call, Abandon, Quiet, pipeVars
<1>6. CASE Begin \/ Stop \/ Poll \/ StoppingEnds
  <2>1. /\ DOMAIN owner' = DOMAIN owner
        /\ owner'.pc \in {"poll", "stopping", "force", "stop", "finish"}
        /\ owner'.pc = "finish" => process # "running"
    BY <1>0, <1>6 DEF Begin, Stop, Poll, StoppingEnds, Goto, Finish, Exited
  <2>2. told' = told
    BY <1>6 DEF Begin, Stop, Poll, StoppingEnds, Quiet
  <2> QED BY <1>0, <1>1, <1>6, <2>1, <2>2 DEF Begin, Stop, Poll, StoppingEnds, Quiet, pipeVars
<1>7. CASE StoppingTakes \/ FinishTakes
  <2>1. DOMAIN owner' = DOMAIN owner /\ owner'.pc = owner.pc
    BY <1>0, <1>7 DEF StoppingTakes, FinishTakes, RecvInShutdown, HandlePending, HandleLine, Report
  <2>2. told' = told /\ UNCHANGED <<pipeVars, reader, result>>
    BY <1>7 DEF StoppingTakes, FinishTakes, RecvInShutdown, HandlePending, HandleLine
  <2> QED BY <1>0, <1>1, <1>7, <2>1, <2>2 DEF StoppingTakes, FinishTakes, pipeVars
<1>8. CASE FinishEnds
  <2>1. DOMAIN owner' = DOMAIN owner /\ owner'.pc = "join"
    BY <1>0, <1>8 DEF FinishEnds, Goto
  <2> QED BY <1>0, <1>1, <1>8, <2>1 DEF FinishEnds, pipeVars
<1>9. CASE Classify
  <2>1. DOMAIN owner' = DOMAIN owner /\ owner'.pc = "returned"
    BY <1>0, <1>9 DEF Classify, Goto
  <2>2. result' \in {None, "ok", "err"}
    BY <1>9 DEF Classify
  <2> QED BY <1>0, <1>9, <2>1, <2>2 DEF Classify, pipeVars, Ends
<1>10. CASE ForceCleanup
  <2>1. DOMAIN owner' = DOMAIN owner /\ owner'.pc = "forced"
    BY <1>0, <1>10 DEF ForceCleanup, Goto
  <2>2. process' \in {"ok", "nonzero", "killed"} /\ open' = FALSE /\ told' = told
    BY <1>0, <1>10 DEF ForceCleanup
  <2> QED BY <1>0, <1>10, <2>1, <2>2 DEF ForceCleanup, Ends
<1>11. CASE Forced
  <2>1. DOMAIN owner' = DOMAIN owner /\ owner'.pc = "returned"
    BY <1>0, <1>11 DEF Forced, Goto
  <2> QED BY <1>0, <1>11, <2>1 DEF Forced, pipeVars, Ends
<1>12. CASE Expire
  <2>1. DOMAIN owner' = DOMAIN owner /\ owner'.pc = owner.pc
    BY <1>0, <1>12 DEF Expire
  <2>2. told' = told
    BY <1>12 DEF Expire, Quiet
  <2> QED BY <1>0, <1>1, <1>12, <2>1, <2>2 DEF Expire, Quiet, pipeVars
<1> QED BY <1>2, <1>3, <1>4, <1>5, <1>6, <1>7, <1>8, <1>9, <1>10, <1>11, <1>12 DEF OwnerStep, Shutdown

\* A shutdown that succeeds has seen the whole run.
LEMMA ClassifyIsTrue ==
  ASSUME TypeOK, NEW c \in Nat, Following(c), Classify
  PROVE  OkIsComplete'
<1> SUFFICES ASSUME result' = "ok", ~told', process' = "ok" \/ owner'.checked
             PROVE  /\ handled' = [l \in DOMAIN written' |-> l]
                    /\ \E l \in SummaryLines' : SummaryLines' = {l} /\ written'[l] # "fatalsummary"
                    /\ \A l \in DOMAIN written' : written'[l] \notin {"fatal", "garbage"}
  BY DEF OkIsComplete
<1>1. /\ written' = written /\ process' = process /\ handled' = handled /\ told' = told
      /\ owner' = [owner EXCEPT !.pc = "returned"]
  BY DEF Classify, pipeVars, Goto
<1>2. ~(process = "nonzero" /\ ~owner.checked)
  BY <1>1
<1>3. Complete
  BY <1>2 DEF Classify
<1>4. c = Len(written) /\ DOMAIN written = 1 .. c /\ evidence.eof
  BY <1>3 DEF Complete, Following, Channel, AtEnd, TypeOK
<1>5. \A l \in 1 .. c : written[l] \notin {"fatal", "garbage"}
  BY <1>1, <1>3 DEF Complete, Following, Recollection
<1>6. PICK k \in 1 .. c : /\ written[k] = evidence.summary
                          /\ \A l \in 1 .. c : written[l] \in Summaries => l = k
  BY <1>3, NoneIsFresh DEF Complete, Following, Recollection
<1>7. SummaryLines = {k} /\ written[k] # "fatalsummary"
  BY <1>3, <1>4, <1>6 DEF SummaryLines, Complete, Summaries
<1>8. InOrder(Seen, c) /\ pending = <<>>
  BY <1>1, <1>4 DEF Following, Delivered
<1>9. /\ Len(handled) = c /\ \A i \in 1 .. c : handled[i] = i
      /\ handled \in Seq(Nat)
  <2>1. /\ Len(Seen) = Len(handled) + Len(pending) /\ Len(handled) \in Nat
        /\ \A i \in 1 .. Len(handled) : Seen[i] = handled[i]
    BY SeenFirst
  <2>2. Len(pending) = 0
    BY <1>8
  <2>3. Len(Seen) = c /\ \A i \in 1 .. c : Seen[i] = i
    BY <1>5, <1>8 DEF InOrder
  <2>4. handled \in Seq(Nat)
    BY CapacityIsPositive DEF TypeOK
  <2> QED BY <2>1, <2>2, <2>3, <2>4
<1>10. handled = [l \in 1 .. c |-> l]
  BY <1>9
<1> QED BY <1>1, <1>4, <1>5, <1>7, <1>10 DEF SummaryLines
-----------------------------------------------------------------------------
(***************************************************************************)
(* The invariant, and the properties.                                      *)
(***************************************************************************)

\* At first nothing is written and nothing taken.
LEMMA SInvInit == Init => SInv
<1> SUFFICES ASSUME Init PROVE SInv
  OBVIOUS
<1>1. TypeOK
  BY CapacityIsPositive, NoneIsFresh DEF Init, TypeOK
<1>2. Ends
  BY NoneIsFresh DEF Init, Ends
<1>3. Channel(0) /\ Recollection(0)
  BY DEF Init, Channel, Recollection
<1>4. Delivered(0)
  <2>1. Seen = <<>>
    BY DEF Init, Seen
  <2> QED BY <2>1 DEF Init, Delivered, InOrder
<1>5. OkIsComplete
  BY NoneIsFresh DEF Init, OkIsComplete
<1> QED BY <1>1, <1>2, <1>3, <1>4, <1>5 DEF SInv, Following

\* Every step keeps the invariant; once the owner has returned there is none.
LEMMA SInvStep == SInv /\ [Next]_vars => SInv'
<1> SUFFICES ASSUME SInv, [Next]_vars PROVE SInv'
  OBVIOUS
<1>0. PICK c \in Nat : Following(c)
  BY DEF SInv
<1>1. result = "ok" => owner.pc = "returned" /\ process # "running" /\ reader.pc = "done"
  BY NoneIsFresh DEF SInv, Ends
<1>2. CASE WriteLine \/ CloseStdout \/ Exit
  <2>1. TypeOK' /\ Following(c)' /\ process = "running"
    BY <1>0, <1>2, ProcessKeeps DEF SInv, WriteLine, CloseStdout, Exit
  <2>2. UNCHANGED <<reader, ownerVars>>
    BY <1>2 DEF WriteLine, CloseStdout, Exit
  <2>3. Ends'
    BY <2>1, <2>2 DEF SInv, Ends, ownerVars
  <2>4. OkIsComplete'
    BY <1>1, <2>1, <2>2 DEF OkIsComplete, ownerVars
  <2> QED BY <2>1, <2>3, <2>4 DEF SInv
<1>3. CASE Reader
  <2>1. TypeOK' /\ Following(c)' /\ reader.pc # "done" /\ process' = process
    BY <1>0, <1>3, ReaderKeeps DEF SInv
  <2>2. UNCHANGED <<written, ownerVars>>
    BY <1>3 DEF Reader, ReadLine, ReadEof, Drain, pipeVars
  <2>3. Ends'
    BY <2>1, <2>2 DEF SInv, Ends, ownerVars
  <2>4. OkIsComplete'
    BY <1>1, <2>1, <2>2 DEF OkIsComplete, ownerVars
  <2> QED BY <2>1, <2>3, <2>4 DEF SInv
<1>4. CASE OwnerStep
  <2>1. (\E d \in Nat : Following(d)') /\ KeptType'
    BY <1>0, <1>4, OwnerTakes DEF SInv
  <2>2. /\ Ends' /\ owner'.pc \in Places /\ owner.pc # "returned"
        /\ UNCHANGED <<written, reader>>
        /\ process' \in {"running", "ok", "nonzero", "killed"} /\ open' \in BOOLEAN
        /\ result' \in {None, "ok", "err"}
        /\ result' = "ok" => Classify
    BY <1>4, OwnerFlows DEF SInv
  <2>3. TypeOK'
    BY <2>1, <2>2 DEF SInv, TypeOK, KeptType, Places
  <2>4. OkIsComplete'
    <3>1. CASE result' = "ok"
      BY <1>0, <2>2, <3>1, ClassifyIsTrue DEF SInv
    <3>2. CASE result' # "ok"
      BY <3>2 DEF OkIsComplete
    <3> QED BY <3>1, <3>2
  <2> QED BY <2>1, <2>2, <2>3, <2>4 DEF SInv
<1>5. CASE UNCHANGED vars
  <2>1. /\ UNCHANGED <<written, process, open, reader, queue, receiving, evidence, owner, pending>>
        /\ UNCHANGED <<handled, told, result>>
    BY <1>5 DEF vars, pipeVars, channelVars, ownerVars
  <2>2. TypeOK' /\ Ends' /\ OkIsComplete'
    BY <2>1 DEF SInv, TypeOK, Ends, OkIsComplete, SummaryLines
  <2>3. Following(c)'
    BY <1>0, <2>1 DEF Following, Channel, AtEnd, Recollection, Delivered, InOrder, Seen
  <2> QED BY <2>2, <2>3 DEF SInv
<1> QED BY <1>2, <1>3, <1>4, <1>5 DEF Next, OwnerStep

\* The invariant holds.
LEMMA SInvAlways == Spec => []SInv
  BY SInvInit, SInvStep, PTL DEF Spec

\* A session is well typed, and a bounded channel never holds more than it can.
THEOREM TypeCorrect == Spec => []TypeOK
<1>1. SInv => TypeOK
  BY DEF SInv
<1> QED BY <1>1, SInvAlways, PTL

(***************************************************************************)
(* Lines reach the owner in the order written, once each, without a hole:  *)
(* not from pending_events, the overflow or the change of owners.          *)
(***************************************************************************)
THEOREM NoGapHolds == Spec => []NoGap
<1>1. SInv => NoGap
  <2> SUFFICES ASSUME SInv, ~told
               PROVE  /\ \A i, k \in DOMAIN handled : i < k => handled[i] < handled[k]
                      /\ \A i \in DOMAIN handled : \A l \in 1 .. handled[i] :
                           written[l] = "garbage" \/ \E k \in 1 .. i : handled[k] = l
    BY DEF NoGap
  <2>1. PICK c \in Nat : InOrder(Seen, c)
    BY DEF SInv, Following, Delivered
  <2>2. /\ Len(Seen) = Len(handled) + Len(pending) /\ Len(handled) \in Nat /\ Len(pending) \in Nat
        /\ \A i \in 1 .. Len(handled) : Seen[i] = handled[i]
        /\ \A i \in 1 .. Len(pending) : Seen[Len(handled) + i] = pending[i]
        /\ DOMAIN handled = 1 .. Len(handled)
    BY SeenFirst DEF SInv, TypeOK
  <2>3. \A i \in 1 .. Len(handled) : i \in 1 .. Len(Seen)
    BY <2>2
  <2>4. \A i, k \in 1 .. Len(handled) : i < k => handled[i] < handled[k]
    BY <2>1, <2>2, <2>3 DEF InOrder
  <2>5. ASSUME NEW i \in 1 .. Len(handled), NEW l \in 1 .. handled[i], written[l] # "garbage"
        PROVE  \E k \in 1 .. i : handled[k] = l
    <3>1. Seen[i] = handled[i] /\ i \in 1 .. Len(Seen) /\ Seen[i] \in 1 .. c
      BY <2>1, <2>2, <2>3 DEF InOrder
    <3>2. l \in 1 .. c
      BY <3>1
    <3>3. PICK k \in 1 .. Len(Seen) : Seen[k] = l
      BY <2>1, <2>5, <3>2 DEF InOrder
    <3>4. ~(i < k)
      <4>1. i < k => Seen[i] < Seen[k]
        BY <2>1, <3>1 DEF InOrder
      <4> QED BY <3>1, <3>3, <4>1
    <3>5. k \in 1 .. i /\ k \in 1 .. Len(handled)
      BY <2>2, <3>4
    <3> QED BY <2>2, <3>3, <3>5
  <2> QED BY <2>2, <2>4, <2>5
<1> QED BY <1>1, SInvAlways, PTL

(***************************************************************************)
(* A shutdown that succeeds proves the whole run: every line was handled,  *)
(* one was the summary, and none was fatal or refused.                     *)
(***************************************************************************)
THEOREM OkIsCompleteHolds == Spec => []OkIsComplete
<1>1. SInv => OkIsComplete
  BY DEF SInv
<1> QED BY <1>1, SInvAlways, PTL

\* When a session has ended its process is gone and its reader joined.
THEOREM NothingIsLeftBehind == Spec => []NothingLeftBehind
<1>1. SInv => NothingLeftBehind
  BY DEF SInv, Ends, NothingLeftBehind
<1> QED BY <1>1, SInvAlways, PTL

=============================================================================
