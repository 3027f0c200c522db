--------------------------- MODULE ExecutorProofs ---------------------------
(***************************************************************************)
(* Proofs about the workflow executor: what a step reads is what lexical   *)
(* scopes would give it, a committed row is a whole iteration, the way a   *)
(* run ends is how it went, and a stop takes effect at once.               *)
(***************************************************************************)
EXTENDS Executor, TLAPS, WellFoundedInduction

-----------------------------------------------------------------------------
(* Induction over the naturals, from the well-founded order on them.        *)

(* The order is well founded. *)
LEMMA Below == \E R : IsWellFoundedOn(R, Nat) /\ \A m, n \in Nat : m < n => <<m, n>> \in R
<1>1. \A m, n \in Nat : m < n => <<m, n>> \in OpToRel(<, Nat)
  BY DEF OpToRel
<1> QED BY <1>1, NatLessThanWellFounded, Zenon

(* A set of naturals that is not empty has a least member. *)
LEMMA Least == ASSUME NEW T, T \subseteq Nat, T # {} PROVE \E n \in T : \A m \in T : n <= m
<1>0. PICK R : IsWellFoundedOn(R, Nat) /\ \A m, n \in Nat : m < n => <<m, n>> \in R
  BY Below
<1>a. IsWellFoundedOn(R, Nat)
  BY <1>0
<1>1. \E n \in T : \A m \in T : ~ (<<m, n>> \in R)
  BY <1>a, WFMin
<1>2. PICK n \in T : \A m \in T : ~ (<<m, n>> \in R)
  BY <1>1
<1>3. ASSUME NEW m \in T PROVE n <= m
  <2>1. m \in Nat /\ n \in Nat
    OBVIOUS
  <2>2. ~ (<<m, n>> \in R)
    BY <1>2
  <2>3. ~ (m < n)
    BY <2>1, <2>2, <1>0
  <2> QED BY <2>1, <2>3
<1> QED BY <1>3

(* A set that holds 0 and every successor holds every natural. *)
LEMMA Induct ==
  ASSUME NEW T, 0 \in T, \A n \in Nat : n \in T => n + 1 \in T
  PROVE  Nat \subseteq T
<1>1. SUFFICES ASSUME Nat \ T # {} PROVE FALSE
  OBVIOUS
<1>2. PICK n \in Nat \ T : \A m \in Nat \ T : n <= m
  BY <1>1, Least
<1>3. n # 0 /\ n - 1 \in Nat
  BY <1>2
<1> QED BY <1>2, <1>3

-----------------------------------------------------------------------------
(* Outputs in a log.                                                        *)

Counts(e, page, path) == e.path = path /\ Kind[e.step] = "output" /\ Page[e.step] = page

(* What OutputsIn has taken of the first entries of a log. *)
IsTaking(f, n, log, page, path) ==
    f = [k \in 0 .. n |->
            IF k = 0 THEN <<>>
            ELSE IF Counts(log[k], page, path) THEN Append(f[k - 1], log[k].step)
            ELSE f[k - 1]]

(* The recursion of OutputsIn has a solution for every log. *)
LEMMA TakingExists ==
  ASSUME NEW log, NEW page, NEW path, NEW n \in Nat
  PROVE  \E f : IsTaking(f, n, log, page, path)
<1> DEFINE T == {m \in Nat : \E f : IsTaking(f, m, log, page, path)}
<1>1. 0 \in T
  <2> DEFINE f == [k \in 0 .. 0 |-> <<>>]
  <2>1. IsTaking(f, 0, log, page, path)
    BY DEF IsTaking
  <2> QED BY <2>1
<1>2. ASSUME NEW m \in Nat, m \in T PROVE m + 1 \in T
  <2>1. PICK f : IsTaking(f, m, log, page, path)
    BY <1>2
  <2>x. f = [k \in 0 .. m |->
            IF k = 0 THEN <<>>
            ELSE IF Counts(log[k], page, path) THEN Append(f[k - 1], log[k].step)
            ELSE f[k - 1]]
    BY <2>1 DEF IsTaking
  <2> DEFINE last == IF Counts(log[m + 1], page, path)
                     THEN Append(f[m], log[m + 1].step) ELSE f[m]
             g == [k \in 0 .. m + 1 |-> IF k = m + 1 THEN last ELSE f[k]]
             h == [k \in 0 .. m + 1 |->
                    IF k = 0 THEN <<>>
                    ELSE IF Counts(log[k], page, path) THEN Append(g[k - 1], log[k].step)
                    ELSE g[k - 1]]
  <2>2. ASSUME NEW k \in 0 .. m + 1 PROVE g[k] = h[k]
    <3> HIDE DEF last
    <3>1. CASE k = m + 1
      <4>1. g[k] = last /\ k # 0 /\ k - 1 = m /\ g[m] = f[m]
        BY <3>1
      <4>2. h[k] = IF Counts(log[m + 1], page, path)
                   THEN Append(f[m], log[m + 1].step) ELSE f[m]
        BY <4>1, <3>1
      <4> QED BY <4>1, <4>2 DEF last
    <3>2. CASE k = 0
      <4>1. g[k] = f[0] /\ f[0] = <<>> /\ h[k] = <<>>
        BY <3>2, <2>x
      <4> QED BY <4>1
    <3>3. CASE k \in 1 .. m
      <4>1. g[k] = f[k] /\ k - 1 \in 0 .. m /\ g[k - 1] = f[k - 1] /\ k # 0
        BY <3>3
      <4>2. f[k] = IF Counts(log[k], page, path) THEN Append(f[k - 1], log[k].step)
                   ELSE f[k - 1]
        <5>1. k \in 0 .. m /\ k # 0
          BY <3>3
        <5> QED BY <2>x, <5>1
      <4>3. h[k] = IF Counts(log[k], page, path) THEN Append(g[k - 1], log[k].step)
                   ELSE g[k - 1]
        BY <4>1
      <4> QED BY <4>1, <4>2, <4>3
    <3> QED BY <3>1, <3>2, <3>3
  <2>3. g = h
    <3> HIDE DEF last
    <3> QED BY <2>2
  <2>4. IsTaking(g, m + 1, log, page, path)
    BY <2>3 DEF IsTaking
  <2> QED BY <2>4
<1>3. Nat \subseteq T
  <2> HIDE DEF T
  <2> QED BY <1>1, <1>2, Induct
<1> QED BY <1>3

(* OutputsIn is what such a solution has taken at the end of the log. *)
LEMMA TakenAtTheEnd ==
  ASSUME NEW log, Len(log) \in Nat, NEW page, NEW path
  PROVE  \E f : /\ IsTaking(f, Len(log), log, page, path)
                /\ OutputsIn(log, page, path) = f[Len(log)]
<1> DEFINE f == CHOOSE f : IsTaking(f, Len(log), log, page, path)
<1>1. IsTaking(f, Len(log), log, page, path)
  BY TakingExists
<1>2. OutputsIn(log, page, path) = f[Len(log)]
  BY DEF OutputsIn, IsTaking, Counts
<1> QED BY <1>1, <1>2

(* What is taken of a log is in its steps, and the same of a log that goes  *)
(* on.                                                                      *)
LEMMA TakingAgrees ==
  ASSUME NEW log \in Seq(Execution), NEW e \in Execution, NEW page, NEW path,
         NEW f, IsTaking(f, Len(log), log, page, path),
         NEW g, IsTaking(g, Len(log) + 1, Append(log, e), page, path)
  PROVE  \A k \in 0 .. Len(log) : g[k] = f[k]
<1> DEFINE T == {k \in Nat : k <= Len(log) => g[k] = f[k]}
<1>0. Len(log) \in Nat
  OBVIOUS
<1>1. 0 \in T
  <2>1. f[0] = <<>> /\ g[0] = <<>>
    BY <1>0 DEF IsTaking
  <2> QED BY <2>1
<1>2. ASSUME NEW n \in Nat, n \in T PROVE n + 1 \in T
  <2>1. SUFFICES ASSUME n + 1 <= Len(log) PROVE g[n + 1] = f[n + 1]
    OBVIOUS
  <2>2. g[n] = f[n]
    BY <1>2, <2>1, <1>0
  <2>3. Append(log, e)[n + 1] = log[n + 1]
    BY <2>1, <1>0
  <2>4. /\ n + 1 \in 0 .. Len(log) /\ n + 1 \in 0 .. Len(log) + 1
        /\ n + 1 # 0 /\ (n + 1) - 1 = n
    BY <2>1, <1>0
  <2>5. f[n + 1] = IF Counts(log[n + 1], page, path) THEN Append(f[n], log[n + 1].step)
                   ELSE f[n]
    BY <2>4 DEF IsTaking
  <2>6. g[n + 1] = IF Counts(log[n + 1], page, path) THEN Append(g[n], log[n + 1].step)
                   ELSE g[n]
    BY <2>4, <2>3 DEF IsTaking
  <2> QED BY <2>2, <2>5, <2>6
<1>3. Nat \subseteq T
  <2> HIDE DEF T
  <2> QED BY <1>1, <1>2, Induct
<1> QED BY <1>3, <1>0

(* A new entry is added to the Outputs it counts for, and to no others.     *)
LEMMA OutputsGrow ==
  ASSUME NEW log \in Seq(Execution), NEW e \in Execution, NEW page, NEW path
  PROVE  /\ Counts(e, page, path) => OutputsIn(Append(log, e), page, path)
                                        = Append(OutputsIn(log, page, path), e.step)
         /\ ~Counts(e, page, path) => OutputsIn(Append(log, e), page, path)
                                        = OutputsIn(log, page, path)
<1> DEFINE n == Len(log)
<1>0. n \in Nat /\ Len(Append(log, e)) = n + 1 /\ Append(log, e)[n + 1] = e
  OBVIOUS
<1>1. PICK f : IsTaking(f, n, log, page, path) /\ OutputsIn(log, page, path) = f[n]
  BY <1>0, TakenAtTheEnd
<1>2. PICK g : /\ IsTaking(g, n + 1, Append(log, e), page, path)
               /\ OutputsIn(Append(log, e), page, path) = g[n + 1]
  <2>1. Len(Append(log, e)) \in Nat
    BY <1>0
  <2>2. \E g : /\ IsTaking(g, Len(Append(log, e)), Append(log, e), page, path)
               /\ OutputsIn(Append(log, e), page, path) = g[Len(Append(log, e))]
    BY <2>1, TakenAtTheEnd
  <2> QED BY <2>2, <1>0
<1>3. g[n] = f[n]
  <2>1. \A k \in 0 .. n : g[k] = f[k]
    BY <1>1, <1>2, TakingAgrees
  <2> QED BY <2>1, <1>0
<1>4. g[n + 1] = IF Counts(e, page, path) THEN Append(g[n], e.step) ELSE g[n]
  <2>1. n + 1 \in 0 .. n + 1 /\ n + 1 # 0 /\ (n + 1) - 1 = n
    BY <1>0
  <2>2. g[n + 1] = IF Counts(Append(log, e)[n + 1], page, path)
                   THEN Append(g[(n + 1) - 1], Append(log, e)[n + 1].step)
                   ELSE g[(n + 1) - 1]
    <3> HIDE DEF n
    <3> QED BY <1>2, <2>1 DEF IsTaking
  <2> QED BY <2>1, <2>2, <1>0
<1> QED BY <1>1, <1>2, <1>3, <1>4

(* A log without entries of a place holds no Outputs there.                 *)
LEMMA NoOutputs ==
  ASSUME NEW log \in Seq(Execution), NEW page, NEW path,
         \A k \in DOMAIN log : ~Counts(log[k], page, path)
  PROVE  OutputsIn(log, page, path) = <<>>
<1>0. Len(log) \in Nat /\ DOMAIN log = 1 .. Len(log)
  OBVIOUS
<1>1. PICK f : IsTaking(f, Len(log), log, page, path) /\ OutputsIn(log, page, path) = f[Len(log)]
  BY <1>0, TakenAtTheEnd
<1> DEFINE T == {k \in Nat : k <= Len(log) => f[k] = <<>>}
<1>2. 0 \in T
  <2>1. f[0] = <<>>
    BY <1>0, <1>1 DEF IsTaking
  <2> QED BY <2>1
<1>3. ASSUME NEW n \in Nat, n \in T PROVE n + 1 \in T
  <2>1. SUFFICES ASSUME n + 1 <= Len(log) PROVE f[n + 1] = <<>>
    OBVIOUS
  <2>2. n + 1 \in 0 .. Len(log) /\ n + 1 # 0 /\ (n + 1) - 1 = n /\ n + 1 \in DOMAIN log
    BY <2>1, <1>0
  <2>3. f[n] = <<>>
    BY <1>3, <2>1, <1>0
  <2>4. f[n + 1] = IF Counts(log[n + 1], page, path) THEN Append(f[n], log[n + 1].step)
                   ELSE f[n]
    BY <2>2, <1>1 DEF IsTaking
  <2> QED BY <2>2, <2>3, <2>4
<1>4. Nat \subseteq T
  <2> HIDE DEF T
  <2> QED BY <1>2, <1>3, Induct
<1> QED BY <1>0, <1>1, <1>4

-----------------------------------------------------------------------------
(* The tree of blocks.                                                      *)

Closed(S, inner) == \A s \in S \cap inner : Children(s) \subseteq S

(* A step is in no other block than its own. *)
LEMMA Tree ==
  /\ Root \in Seq(Steps) /\ Len(Root) > 0
  /\ \A s \in Steps : Body[s] \in Seq(Steps) /\ Else[s] \in Seq(Steps)
  /\ \A s \in Steps : Children(s) \subseteq Steps
  /\ \A s, t \in Steps : s # t => Children(s) \cap Children(t) = {}
  /\ \A s \in Steps : Children(s) \cap Range(Root) = {}
  /\ \A b \in Blocks : b \in Seq(Steps) /\ Range(b) \subseteq Steps
  /\ \A b \in Blocks, j, k \in Nat \ {0} :
        j <= Len(b) /\ k <= Len(b) /\ b[j] = b[k] => j = k
<1>1. Root \in Seq(Steps) /\ Len(Root) > 0
  BY ProgramAssumption
<1>2. \A s \in Steps : Body[s] \in Seq(Steps) /\ Else[s] \in Seq(Steps)
  BY ProgramAssumption
<1>a. ASSUME NEW b \in Seq(Steps) PROVE Range(b) \subseteq Steps
  BY DEF Range
<1>3. \A s \in Steps : Children(s) \subseteq Steps
  BY <1>2, <1>a DEF Children
<1>4. \A s, t \in Steps : s # t => Children(s) \cap Children(t) = {}
  BY ProgramAssumption
<1>5. \A s \in Steps : Children(s) \cap Range(Root) = {}
  BY ProgramAssumption
<1>6. ASSUME NEW b \in Blocks PROVE b \in Seq(Steps) /\ Range(b) \subseteq Steps
  BY <1>1, <1>2, <1>a DEF Blocks
<1>7. ASSUME NEW b \in Blocks, NEW j \in Nat \ {0}, NEW k \in Nat \ {0},
             j <= Len(b), k <= Len(b), b[j] = b[k]
      PROVE  j = k
  <2>1. b \in Seq(Steps)
    BY <1>6
  <2>2. IsInjective(b)
    BY ProgramAssumption
  <2>3. j \in DOMAIN b /\ k \in DOMAIN b
    BY <2>1, <1>7
  <2> QED BY <2>2, <2>3, <1>7 DEF IsInjective
<1> QED BY <1>1, <1>2, <1>3, <1>4, <1>5, <1>6, <1>7

(* What one level adds is no more than a closed set has. *)
LEMMA DeeperFacts ==
  ASSUME NEW S, NEW inner
  PROVE  /\ S \subseteq Deeper(S, inner)
         /\ \A C : S \subseteq C /\ Closed(C, inner) => Deeper(S, inner) \subseteq C
         /\ \A x \in Deeper(S, inner) : x \in S \/ \E s \in S \cap inner : x \in Children(s)
BY DEF Deeper, Closed

(* Inside is the least closed set that holds the block. *)
LEMMA InsideFacts ==
  ASSUME NEW block, NEW inner
  PROVE  /\ Range(block) \subseteq Inside(block, inner)
         /\ \A C : Range(block) \subseteq C /\ Closed(C, inner) => Inside(block, inner) \subseteq C
         /\ \A x \in Inside(block, inner) : x \in Range(block)
              \/ \E s \in Inside(block, inner) \cap inner : x \in Children(s)
<1> DEFINE d1 == Deeper(Range(block), inner)
           d2 == Deeper(d1, inner)
           d3 == Deeper(d2, inner)
           d4 == Deeper(d3, inner)
           d5 == Deeper(d4, inner)
           d6 == Deeper(d5, inner)
           d7 == Deeper(d6, inner)
           d8 == Deeper(d7, inner)
<1>1. Inside(block, inner) = d8
  BY DEF Inside
<1>2. /\ Range(block) \subseteq d1 /\ d1 \subseteq d2 /\ d2 \subseteq d3 /\ d3 \subseteq d4
      /\ d4 \subseteq d5 /\ d5 \subseteq d6 /\ d6 \subseteq d7 /\ d7 \subseteq d8
  <2>1. Range(block) \subseteq d1
    BY DeeperFacts
  <2>2. d1 \subseteq d2
    <3> HIDE DEF d1
    <3> QED BY DeeperFacts
  <2>3. d2 \subseteq d3
    <3> HIDE DEF d2
    <3> QED BY DeeperFacts
  <2>4. d3 \subseteq d4
    <3> HIDE DEF d3
    <3> QED BY DeeperFacts
  <2>5. d4 \subseteq d5
    <3> HIDE DEF d4
    <3> QED BY DeeperFacts
  <2>6. d5 \subseteq d6
    <3> HIDE DEF d5
    <3> QED BY DeeperFacts
  <2>7. d6 \subseteq d7
    <3> HIDE DEF d6
    <3> QED BY DeeperFacts
  <2>8. d7 \subseteq d8
    <3> HIDE DEF d7
    <3> QED BY DeeperFacts
  <2> QED BY <2>1, <2>2, <2>3, <2>4, <2>5, <2>6, <2>7, <2>8
<1>3. ASSUME NEW C, Range(block) \subseteq C, Closed(C, inner) PROVE d8 \subseteq C
  <2> DEFINE D(S) == Deeper(S, inner)
  <2>0. ASSUME NEW S, S \subseteq C PROVE D(S) \subseteq C
    BY <2>0, <1>3, DeeperFacts
  <2>1. d1 \subseteq C
    BY <2>0, <1>3
  <2>2. d2 \subseteq C
    <3> HIDE DEF d1
    <3> QED BY <2>0, <2>1
  <2>3. d3 \subseteq C
    <3> HIDE DEF d2
    <3> QED BY <2>0, <2>2
  <2>4. d4 \subseteq C
    <3> HIDE DEF d3
    <3> QED BY <2>0, <2>3
  <2>5. d5 \subseteq C
    <3> HIDE DEF d4
    <3> QED BY <2>0, <2>4
  <2>6. d6 \subseteq C
    <3> HIDE DEF d5
    <3> QED BY <2>0, <2>5
  <2>7. d7 \subseteq C
    <3> HIDE DEF d6
    <3> QED BY <2>0, <2>6
  <2> HIDE DEF d7
  <2> QED BY <2>0, <2>7
<1>4. ASSUME NEW x \in d8
      PROVE  x \in Range(block) \/ \E s \in d8 \cap inner : x \in Children(s)
  <2> DEFINE D(S) == Deeper(S, inner)
  <2>0. ASSUME NEW S, NEW y \in D(S)
        PROVE  y \in S \/ \E s \in S \cap inner : y \in Children(s)
    BY DeeperFacts
  <2> DEFINE Known == x \in Range(block) \/ \E s \in d8 \cap inner : x \in Children(s)
  <2>8. Known \/ x \in d7
    <3> HIDE DEF d7
    <3> QED BY <2>0, <1>2
  <2>7. Known \/ x \in d6
    <3> HIDE DEF d6
    <3>1. ASSUME x \in d7 PROVE Known \/ x \in d6
      BY <3>1, <2>0, <1>2
    <3> QED BY <3>1, <2>8
  <2>6. Known \/ x \in d5
    <3> HIDE DEF d5
    <3>1. ASSUME x \in d6 PROVE Known \/ x \in d5
      BY <3>1, <2>0, <1>2
    <3> QED BY <3>1, <2>7
  <2>5. Known \/ x \in d4
    <3> HIDE DEF d4
    <3>1. ASSUME x \in d5 PROVE Known \/ x \in d4
      BY <3>1, <2>0, <1>2
    <3> QED BY <3>1, <2>6
  <2>4. Known \/ x \in d3
    <3> HIDE DEF d3
    <3>1. ASSUME x \in d4 PROVE Known \/ x \in d3
      BY <3>1, <2>0, <1>2
    <3> QED BY <3>1, <2>5
  <2>3. Known \/ x \in d2
    <3> HIDE DEF d2
    <3>1. ASSUME x \in d3 PROVE Known \/ x \in d2
      BY <3>1, <2>0, <1>2
    <3> QED BY <3>1, <2>4
  <2>2. Known \/ x \in d1
    <3> HIDE DEF d1
    <3>1. ASSUME x \in d2 PROVE Known \/ x \in d1
      BY <3>1, <2>0, <1>2
    <3> QED BY <3>1, <2>3
  <2>1. ASSUME x \in d1 PROVE Known
    BY <2>1, <2>0, <1>2
  <2> QED BY <2>1, <2>2
<1> HIDE DEF d8
<1> QED BY <1>1, <1>2, <1>3, <1>4

(* The steps inside a block of the workflow are closed, and no step is      *)
(* inside its own blocks.                                                   *)
LEMMA InsideBlocks ==
  /\ \A b \in Blocks, inner \in {Steps, Ifs} : Closed(Inside(b, inner), inner)
  /\ \A s \in Steps : s \notin Inside(Body[s], Steps) /\ s \notin Inside(Else[s], Steps)
  /\ \A b \in Blocks : Inside(b, Ifs) \subseteq Inside(b, Steps)
<1>1. ASSUME NEW b \in Blocks, NEW inner \in {Steps, Ifs}
      PROVE  Closed(Inside(b, inner), inner)
  <2>1. Deeper(Inside(b, inner), inner) = Inside(b, inner)
    BY ProgramAssumption
  <2> DEFINE S == Inside(b, inner)
  <2>2. Deeper(S, inner) = S
    BY <2>1
  <2> HIDE DEF S
  <2>3. Closed(S, inner)
    BY <2>2 DEF Deeper, Closed
  <2> QED BY <2>3 DEF S
<1>2. \A s \in Steps : s \notin Inside(Body[s], Steps) /\ s \notin Inside(Else[s], Steps)
  BY ProgramAssumption
<1>3. ASSUME NEW b \in Blocks PROVE Inside(b, Ifs) \subseteq Inside(b, Steps)
  <2>1. Closed(Inside(b, Steps), Steps)
    BY <1>1
  <2>2. Closed(Inside(b, Steps), Ifs)
    <3> DEFINE S == Inside(b, Steps)
    <3>1. Closed(S, Steps)
      BY <2>1
    <3> HIDE DEF S
    <3>2. Closed(S, Ifs)
      BY <3>1 DEF Closed, Ifs
    <3> QED BY <3>2 DEF S
  <2> QED BY <2>2, InsideFacts
<1> QED BY <1>1, <1>2, <1>3

-----------------------------------------------------------------------------
(* The stack of blocks.                                                     *)

(* What stays as it is while a block runs. *)
Fixed(f, g) == /\ g.kind = f.kind /\ g.owner = f.owner /\ g.steps = f.steps
               /\ g.path = f.path /\ g.previous = f.previous

(* A block is one of the step its outer block is at, and knows its place.   *)
Opens(f, g) ==
    /\ f.at <= Len(f.steps) /\ g.owner = f.steps[f.at] /\ g.path = Place(f)
    /\ \/ g.kind = "branch" /\ Kind[g.owner] = "if" /\ g.steps \in {Body[g.owner], Else[g.owner]}
       \/ g.kind = "loop" /\ g.owner \in Loops /\ g.steps = Body[g.owner]

Chain ==
    /\ Depth > 0
    /\ frames[1].kind = "root" /\ frames[1].owner = None
    /\ frames[1].steps = Root /\ frames[1].path = <<>>
    /\ \A k \in 1 .. Depth : frames[k].at <= Len(frames[k].steps) + 1
    /\ \A k \in 2 .. Depth : Opens(frames[k - 1], frames[k])

(* An inner block is inside every outer one, and its place goes on theirs.  *)
Nested ==
    /\ \A j \in 1 .. Depth, k \in 1 .. Depth :
        j <= k => Range(frames[k].steps) \subseteq Inside(frames[j].steps, Steps)
    /\ \A j \in 1 .. Depth, k \in 1 .. Depth :
        j < k => Len(Place(frames[j])) <= Len(frames[k].path)

(* p is one of the places q lies in, and the next iteration of q is x.      *)
Within(q, p, x) == /\ Len(p) < Len(q) /\ q[Len(p) + 1] = x
                   /\ \A i \in 1 .. Len(p) : q[i] = p[i]

(* Every iteration of a place is that of a loop around it.                  *)
Placed ==
    \A k \in 1 .. Depth : \A n \in 1 .. Len(frames[k].path) : \E m \in 1 .. k - 1 :
        /\ IsLoop(frames[m]) /\ Len(frames[m].path) = n - 1
        /\ Within(frames[k].path, frames[m].path, <<frames[m].owner, frames[m].index>>)

(* A branch is in the place of the loop or of the root around it.           *)
Scoped ==
    \A k \in 1 .. Depth : \E c \in 1 .. k :
        /\ frames[c].kind # "branch" /\ Place(frames[c]) = Place(frames[k])
        /\ \A j \in c + 1 .. k : frames[j].kind = "branch"

Stack == Chain /\ Nested /\ Placed /\ Scoped

(* The frames are blocks. *)
LEMMA Frames ==
  ASSUME TypeOK
  PROVE  /\ Depth \in Nat /\ Depth > 0 /\ DOMAIN frames = 1 .. Depth /\ Depth \in 1 .. Depth
         /\ \A k \in 1 .. Depth :
              /\ frames[k] \in Block
              /\ frames[k].kind \in {"root", "branch", "loop"}
              /\ frames[k].owner \in Steps \cup {None}
              /\ frames[k].steps \in Seq(Steps) /\ Len(frames[k].steps) \in Nat
              /\ frames[k].path \in Occurrence /\ Len(frames[k].path) \in Nat
              /\ frames[k].at \in Nat /\ frames[k].at > 0 /\ frames[k].index \in Nat
              /\ frames[k].previous \in Value
              /\ frames[k].inherited \in SUBSET Variables
              /\ frames[k].scope \in [Variables -> Value]
<1>1. frames \in Seq(Block) /\ frames # <<>>
  BY DEF TypeOK
<1>2. Depth \in Nat /\ Depth > 0 /\ DOMAIN frames = 1 .. Depth
  BY <1>1 DEF Depth
<1>3. ASSUME NEW k \in 1 .. Depth PROVE frames[k] \in Block
  BY <1>1, <1>2 DEF Depth
<1>4. ASSUME NEW f \in Block
      PROVE  /\ f.kind \in {"root", "branch", "loop"}
             /\ f.owner \in Steps \cup {None}
             /\ f.steps \in Seq(Steps) /\ Len(f.steps) \in Nat
             /\ f.path \in Occurrence /\ Len(f.path) \in Nat
             /\ f.at \in Nat /\ f.at > 0 /\ f.index \in Nat
             /\ f.previous \in Value
             /\ f.inherited \in SUBSET Variables
             /\ f.scope \in [Variables -> Value]
  BY DEF Block, Occurrence
<1> QED BY <1>2, <1>3, <1>4

(* The same after a step. *)
LEMMA NewFrames ==
  ASSUME TypeOK'
  PROVE  /\ Depth' \in Nat /\ Depth' > 0 /\ Depth' \in 1 .. Depth'
         /\ \A k \in 1 .. Depth' :
              /\ frames'[k] \in Block
              /\ frames'[k].kind \in {"root", "branch", "loop"}
              /\ frames'[k].owner \in Steps \cup {None}
              /\ frames'[k].steps \in Seq(Steps) /\ Len(frames'[k].steps) \in Nat
              /\ frames'[k].path \in Occurrence /\ Len(frames'[k].path) \in Nat
              /\ frames'[k].at \in Nat /\ frames'[k].at > 0 /\ frames'[k].index \in Nat
<1>1. frames' \in Seq(Block) /\ frames' # <<>>
  BY DEF TypeOK
<1>2. Depth' \in Nat /\ Depth' > 0
  BY <1>1 DEF Depth
<1>3. ASSUME NEW k \in 1 .. Depth' PROVE frames'[k] \in Block
  BY <1>1, <1>2 DEF Depth
<1>4. ASSUME NEW f \in Block
      PROVE  /\ f.kind \in {"root", "branch", "loop"}
             /\ f.owner \in Steps \cup {None}
             /\ f.steps \in Seq(Steps) /\ Len(f.steps) \in Nat
             /\ f.path \in Occurrence /\ Len(f.path) \in Nat
             /\ f.at \in Nat /\ f.at > 0 /\ f.index \in Nat
  BY DEF Block, Occurrence
<1> QED BY <1>2, <1>3, <1>4

(* The place of a block extends the iterations around it.                   *)
LEMMA PlaceFacts ==
  ASSUME NEW f, f.path \in Occurrence, f.kind = "loop" => f.owner \in Loops, f.index \in Nat
  PROVE  /\ Place(f) \in Occurrence /\ Len(Place(f)) \in Nat /\ Len(f.path) \in Nat
         /\ f.kind # "loop" => Place(f) = f.path
         /\ f.kind = "loop" => /\ Len(Place(f)) = Len(f.path) + 1
                               /\ Within(Place(f), f.path, <<f.owner, f.index>>)
         /\ \A i \in 1 .. Len(f.path) : Place(f)[i] = f.path[i]
<1>0. f.path \in Seq(Loops \X Nat) /\ Len(f.path) \in Nat
  BY DEF Occurrence
<1>1. CASE f.kind = "loop"
  <2>1. <<f.owner, f.index>> \in Loops \X Nat
    BY <1>1
  <2>2. Place(f) = Append(f.path, <<f.owner, f.index>>)
    BY <1>1 DEF Place, IsLoop
  <2> DEFINE p == f.path
             x == <<f.owner, f.index>>
  <2> HIDE DEF p, x
  <2>3. ASSUME p \in Seq(Loops \X Nat), x \in Loops \X Nat
        PROVE  /\ Append(p, x) \in Seq(Loops \X Nat) /\ Len(Append(p, x)) = Len(p) + 1
               /\ Append(p, x)[Len(p) + 1] = x
               /\ \A i \in 1 .. Len(p) : Append(p, x)[i] = p[i]
    BY <2>3
  <2>4. /\ Place(f) \in Seq(Loops \X Nat) /\ Len(Place(f)) = Len(f.path) + 1
        /\ Place(f)[Len(f.path) + 1] = <<f.owner, f.index>>
        /\ \A i \in 1 .. Len(f.path) : Place(f)[i] = f.path[i]
    BY <2>1, <2>2, <2>3, <1>0 DEF p, x
  <2>5. Within(Place(f), f.path, <<f.owner, f.index>>)
    BY <2>4, <1>0 DEF Within
  <2> QED BY <2>4, <2>5, <1>0, <1>1 DEF Occurrence
<1>2. CASE f.kind # "loop"
  BY <1>0, <1>2 DEF Place, IsLoop, Occurrence
<1> QED BY <1>1, <1>2

(* The same for every block of the stack; its steps are a block of the      *)
(* workflow.                                                                *)
LEMMA Places ==
  ASSUME TypeOK, Stack
  PROVE  \A k \in 1 .. Depth :
            /\ frames[k].steps \in Blocks
            /\ k > 1 => /\ frames[k].owner \in Steps
                        /\ Range(frames[k].steps) \subseteq Children(frames[k].owner)
                        /\ frames[k].kind \in {"branch", "loop"}
            /\ k = 1 => frames[k].kind = "root"
            /\ frames[k].kind = "loop" => frames[k].owner \in Loops
            /\ Place(frames[k]) \in Occurrence /\ Len(Place(frames[k])) \in Nat
            /\ frames[k].kind # "loop" => Place(frames[k]) = frames[k].path
            /\ frames[k].kind = "loop" =>
                  /\ Len(Place(frames[k])) = Len(frames[k].path) + 1
                  /\ Within(Place(frames[k]), frames[k].path,
                            <<frames[k].owner, frames[k].index>>)
            /\ \A i \in 1 .. Len(frames[k].path) : Place(frames[k])[i] = frames[k].path[i]
<1> SUFFICES ASSUME NEW k \in 1 .. Depth
             PROVE  /\ frames[k].steps \in Blocks
                    /\ k > 1 => /\ frames[k].owner \in Steps
                                /\ Range(frames[k].steps) \subseteq Children(frames[k].owner)
                                /\ frames[k].kind \in {"branch", "loop"}
                    /\ k = 1 => frames[k].kind = "root"
                    /\ frames[k].kind = "loop" => frames[k].owner \in Loops
                    /\ Place(frames[k]) \in Occurrence /\ Len(Place(frames[k])) \in Nat
                    /\ frames[k].kind # "loop" => Place(frames[k]) = frames[k].path
                    /\ frames[k].kind = "loop" =>
                          /\ Len(Place(frames[k])) = Len(frames[k].path) + 1
                          /\ Within(Place(frames[k]), frames[k].path,
                                    <<frames[k].owner, frames[k].index>>)
                    /\ \A i \in 1 .. Len(frames[k].path) : Place(frames[k])[i] = frames[k].path[i]
  OBVIOUS
<1>0. Depth \in Nat /\ frames[k].path \in Occurrence /\ frames[k].index \in Nat
  BY Frames
<1>1. ASSUME k > 1 PROVE Opens(frames[k - 1], frames[k])
  BY <1>1, <1>0 DEF Stack, Chain
<1>2. k = 1 => frames[k].kind = "root" /\ frames[k].steps = Root
  BY DEF Stack, Chain
<1>3. ASSUME k > 1
      PROVE  /\ frames[k].owner \in Steps /\ frames[k].steps \in Blocks
             /\ Range(frames[k].steps) \subseteq Children(frames[k].owner)
             /\ frames[k].kind \in {"branch", "loop"}
             /\ frames[k].kind = "loop" => frames[k].owner \in Loops
  <2>1. k - 1 \in 1 .. Depth
    BY <1>3, <1>0
  <2>2. /\ frames[k - 1].steps \in Seq(Steps) /\ frames[k - 1].at \in Nat
        /\ frames[k - 1].at > 0
    BY <2>1, Frames
  <2>3. /\ frames[k - 1].at <= Len(frames[k - 1].steps)
        /\ frames[k].owner = frames[k - 1].steps[frames[k - 1].at]
    BY <1>1, <1>3 DEF Opens
  <2>4. frames[k].owner \in Steps
    BY <2>2, <2>3
  <2>5. frames[k].kind = "branch" \/ (frames[k].kind = "loop" /\ frames[k].owner \in Loops)
    BY <1>1, <1>3 DEF Opens
  <2>6. frames[k].steps \in {Body[frames[k].owner], Else[frames[k].owner]}
    BY <1>1, <1>3 DEF Opens
  <2>7. Range(frames[k].steps) \subseteq Children(frames[k].owner)
    BY <2>6 DEF Children
  <2>8. frames[k].steps \in Blocks
    BY <2>4, <2>6 DEF Blocks
  <2> QED BY <2>4, <2>5, <2>7, <2>8
<1>4. /\ frames[k].steps \in Blocks
      /\ frames[k].kind = "loop" => frames[k].owner \in Loops
  <2>1. CASE k = 1
    BY <2>1, <1>2 DEF Blocks
  <2>2. CASE k > 1
    BY <2>2, <1>3
  <2> QED BY <2>1, <2>2
<1> DEFINE f == frames[k]
<1>5. f.path \in Occurrence /\ (f.kind = "loop" => f.owner \in Loops) /\ f.index \in Nat
  BY <1>0, <1>4
<1> HIDE DEF f
<1>6. /\ Place(f) \in Occurrence /\ Len(Place(f)) \in Nat /\ Len(f.path) \in Nat
      /\ f.kind # "loop" => Place(f) = f.path
      /\ f.kind = "loop" => /\ Len(Place(f)) = Len(f.path) + 1
                            /\ Within(Place(f), f.path, <<f.owner, f.index>>)
      /\ \A i \in 1 .. Len(f.path) : Place(f)[i] = f.path[i]
  BY <1>5, PlaceFacts
<1> QED BY <1>2, <1>3, <1>4, <1>6 DEF f

(* A step is on the stack once, and a block shares no step with what is     *)
(* inside an inner one.                                                     *)
LEMMA Apart ==
  ASSUME TypeOK, Stack
  PROVE  \A j \in 1 .. Depth, k \in 1 .. Depth : j < k =>
            /\ frames[j].owner # frames[k].owner
            /\ Range(frames[j].steps) \cap Inside(frames[k].steps, Steps) = {}
            /\ Range(frames[j].steps) \cap Range(frames[k].steps) = {}
            /\ frames[k].owner \notin Inside(frames[k].steps, Steps)
            /\ frames[k].owner \in Inside(frames[j].steps, Steps)
<1> SUFFICES ASSUME NEW j \in 1 .. Depth, NEW k \in 1 .. Depth, j < k
             PROVE  /\ frames[j].owner # frames[k].owner
                    /\ Range(frames[j].steps) \cap Inside(frames[k].steps, Steps) = {}
                    /\ Range(frames[j].steps) \cap Range(frames[k].steps) = {}
                    /\ frames[k].owner \notin Inside(frames[k].steps, Steps)
                    /\ frames[k].owner \in Inside(frames[j].steps, Steps)
  OBVIOUS
<1>0. /\ Depth \in Nat /\ k - 1 \in 1 .. Depth /\ j + 1 \in 2 .. Depth /\ k \in 2 .. Depth
      /\ k > 1 /\ j + 1 > 1 /\ (j + 1) - 1 = j /\ j <= k - 1 /\ j + 1 <= k /\ j + 1 \in 1 .. Depth
  BY Frames
<1> DEFINE I(m) == Inside(frames[m].steps, Steps)
           o(m) == frames[m].owner
<1>1. ASSUME NEW m \in 2 .. Depth
      PROVE  /\ o(m) \in Steps /\ o(m) \in Range(frames[m - 1].steps)
             /\ o(m) \notin I(m)
  <2>1. m \in 1 .. Depth /\ m > 1 /\ m - 1 \in 1 .. Depth
    BY <1>0
  <2>2. o(m) \in Steps
    BY <2>1, Places
  <2>3. Opens(frames[m - 1], frames[m])
    BY DEF Stack, Chain
  <2>4. /\ frames[m - 1].steps \in Seq(Steps) /\ frames[m - 1].at \in Nat /\ frames[m - 1].at > 0
        /\ frames[m - 1].at <= Len(frames[m - 1].steps)
        /\ o(m) = frames[m - 1].steps[frames[m - 1].at]
    BY <2>1, <2>3, Frames DEF Opens
  <2>5. o(m) \in Range(frames[m - 1].steps)
    <3>1. frames[m - 1].at \in DOMAIN frames[m - 1].steps
      BY <2>4
    <3> QED BY <3>1, <2>4 DEF Range
  <2>6. frames[m].steps \in {Body[o(m)], Else[o(m)]}
    BY <2>3 DEF Opens
  <2>7. o(m) \notin I(m)
    BY <2>2, <2>6, InsideBlocks
  <2> QED BY <2>2, <2>5, <2>7
<1>2. ASSUME NEW m \in 1 .. Depth
      PROVE  /\ frames[m].steps \in Blocks /\ Closed(I(m), Steps)
             /\ Range(frames[m].steps) \subseteq I(m)
  BY Places, InsideBlocks, InsideFacts
<1>3. ASSUME NEW m \in 1 .. Depth, NEW n \in 1 .. Depth, m <= n
      PROVE  Range(frames[n].steps) \subseteq I(m)
  BY <1>3 DEF Stack, Nested
<1>4. o(k) \in I(j)
  <2>1. o(k) \in Range(frames[k - 1].steps)
    BY <1>0, <1>1
  <2> QED BY <2>1, <1>0, <1>3
<1>5. o(j) # o(k)
  <2>1. CASE j = 1
    <3>1. o(j) = None /\ o(k) \in Steps
      BY <2>1, <1>0, <1>1 DEF Stack, Chain
    <3> QED BY <3>1, MarksAreFresh
  <2>2. CASE j > 1
    <3>1. j \in 2 .. Depth
      BY <2>2
    <3>2. o(j) \notin I(j)
      BY <3>1, <1>1
    <3> QED BY <3>2, <1>4
  <2> QED BY <2>1, <2>2
<1>6. ASSUME NEW x \in Range(frames[j].steps), x \in I(k) PROVE FALSE
  <2> DEFINE m == j + 1
  <2>0. m \in 2 .. Depth /\ m \in 1 .. Depth /\ m <= k /\ m - 1 = j /\ m > 1
    BY <1>0
  <2> HIDE DEF m
  <2>1. x \in I(m)
    <3>1. Range(frames[k].steps) \subseteq I(m) /\ Closed(I(m), Steps)
      BY <2>0, <1>2, <1>3
    <3> QED BY <3>1, <1>6, InsideFacts
  <2>2. o(m) \in Steps /\ o(m) \in Range(frames[j].steps) /\ o(m) \notin I(m)
    BY <2>0, <1>1
  <2>3. Range(frames[m].steps) \subseteq Children(o(m))
    BY <2>0, Places
  <2>4. PICK t \in Steps : x \in Children(t) /\ (t = o(m) \/ t \in I(m))
    <3>1. CASE x \in Range(frames[m].steps)
      BY <3>1, <2>2, <2>3
    <3>2. CASE \E s \in I(m) \cap Steps : x \in Children(s)
      BY <3>2
    <3> QED BY <2>1, <3>1, <3>2, InsideFacts
  <2>5. j # 1
    <3>1. SUFFICES ASSUME j = 1 PROVE FALSE
      OBVIOUS
    <3>2. x \in Range(Root)
      BY <3>1 DEF Stack, Chain
    <3> QED BY <3>2, <2>4, Tree
  <2>6. j > 1 /\ j \in 2 .. Depth
    BY <2>5
  <2>7. o(j) \in Steps /\ Range(frames[j].steps) \subseteq Children(o(j)) /\ o(j) \notin I(j)
    BY <2>6, <1>1, Places
  <2>8. o(j) = t
    BY <2>7, <2>4, Tree
  <2>9. CASE t = o(m)
    <3>1. o(j) \in Range(frames[j].steps)
      BY <2>8, <2>9, <2>2
    <3> QED BY <3>1, <2>7, <1>2
  <2>10. CASE t \in I(m)
    <3>1. Closed(I(m), Steps)
      BY <2>0, <1>2
    <3>2. Children(t) \subseteq I(m)
      BY <3>1, <2>10 DEF Closed
    <3>3. o(m) \in Children(o(j))
      BY <2>7, <2>2
    <3> QED BY <3>2, <3>3, <2>8, <2>2
  <2> QED BY <2>4, <2>9, <2>10
<1>7. Range(frames[k].steps) \subseteq I(k) /\ o(k) \notin I(k)
  BY <1>0, <1>1, <1>2
<1> QED BY <1>4, <1>5, <1>6, <1>7

(* Blocks end, the innermost first; the one that is then on top may go on.  *)
Trims(n) ==
    /\ n \in 1 .. Depth /\ Len(frames') = n
    /\ \A k \in 1 .. n : Fixed(frames[k], frames'[k])
    /\ \A k \in 1 .. n : k < n => frames'[k].at = frames[k].at /\ frames'[k].index = frames[k].index
    /\ frames'[n].at <= Len(frames'[n].steps) + 1

(* A block begins. *)
Pushes(g) ==
    /\ Len(frames') = Depth + 1
    /\ \A k \in 1 .. Depth : frames'[k] = frames[k]
    /\ frames'[Depth + 1] = g
    /\ Opens(Top, g) /\ g.at = 1 /\ g.index = 0

(* The stack is one of blocks of the workflow, however they begin and end.  *)
LEMMA TrimsStack ==
  ASSUME TypeOK, TypeOK', Stack, NEW n, Trims(n)
  PROVE  Stack'
<1>0. /\ Depth \in Nat /\ n \in Nat /\ n > 0 /\ n <= Depth /\ n \in 1 .. Depth /\ Depth' = n
  BY Frames DEF Trims, Depth
<1>1. \A k \in 1 .. n : k \in 1 .. Depth
  BY <1>0
<1>2. \A k \in 1 .. n : /\ frames'[k].kind = frames[k].kind /\ frames'[k].owner = frames[k].owner
                        /\ frames'[k].steps = frames[k].steps
                        /\ frames'[k].path = frames[k].path
  BY <1>1 DEF Trims, Fixed
<1>3. \A k \in 1 .. n : k < n => /\ frames'[k].at = frames[k].at
                                 /\ frames'[k].index = frames[k].index
  BY DEF Trims
<1>4. \A k \in 1 .. n : k < n => Place(frames'[k]) = Place(frames[k])
  BY <1>2, <1>3 DEF Place, IsLoop
<1>5. \A k \in 1 .. n : frames'[k].kind # "loop" => Place(frames'[k]) = Place(frames[k])
  BY <1>2 DEF Place, IsLoop
<1>6. Chain'
  <2>1. ASSUME NEW k \in 1 .. n PROVE frames'[k].at <= Len(frames'[k].steps) + 1
    <3>1. CASE k = n
      BY <3>1 DEF Trims
    <3>2. CASE k < n
      <4>1. frames[k].at <= Len(frames[k].steps) + 1
        BY <1>1 DEF Stack, Chain
      <4> QED BY <4>1, <3>2, <1>2, <1>3
    <3> QED BY <3>1, <3>2, <1>0
  <2>2. ASSUME NEW k \in 2 .. n PROVE Opens(frames'[k - 1], frames'[k])
    <3>0. k \in 1 .. n /\ k - 1 \in 1 .. n /\ k - 1 < n /\ k \in 2 .. Depth
      BY <1>0
    <3>1. Opens(frames[k - 1], frames[k])
      BY <3>0 DEF Stack, Chain
    <3>2. Place(frames'[k - 1]) = Place(frames[k - 1])
      BY <3>0, <1>4
    <3>3. frames'[k - 1].at = frames[k - 1].at /\ frames'[k - 1].steps = frames[k - 1].steps
      BY <3>0, <1>2, <1>3
    <3>4. /\ frames'[k].kind = frames[k].kind /\ frames'[k].owner = frames[k].owner
          /\ frames'[k].steps = frames[k].steps /\ frames'[k].path = frames[k].path
      BY <3>0, <1>2
    <3> QED BY <3>1, <3>2, <3>3, <3>4 DEF Opens
  <2>3. 1 \in 1 .. n
    BY <1>0
  <2>4. /\ frames'[1].kind = "root" /\ frames'[1].owner = None
        /\ frames'[1].steps = Root /\ frames'[1].path = <<>>
    BY <2>3, <1>2 DEF Stack, Chain
  <2> QED BY <2>1, <2>2, <2>4, <1>0 DEF Chain
<1>7. Nested'
  <2>1. ASSUME NEW j \in 1 .. n, NEW k \in 1 .. n, j <= k
        PROVE  Range(frames'[k].steps) \subseteq Inside(frames'[j].steps, Steps)
    <3>1. Range(frames[k].steps) \subseteq Inside(frames[j].steps, Steps)
      BY <2>1, <1>1 DEF Stack, Nested
    <3> QED BY <3>1, <1>2
  <2>2. ASSUME NEW j \in 1 .. n, NEW k \in 1 .. n, j < k
        PROVE  Len(Place(frames'[j])) <= Len(frames'[k].path)
    <3>1. Len(Place(frames[j])) <= Len(frames[k].path)
      BY <2>2, <1>1 DEF Stack, Nested
    <3>2. j < n
      BY <2>2, <1>0
    <3> QED BY <3>1, <3>2, <1>2, <1>4
  <2> QED BY <2>1, <2>2, <1>0 DEF Nested
<1>8. Placed'
  <2>1. ASSUME NEW k \in 1 .. n, NEW i \in 1 .. Len(frames'[k].path)
        PROVE  \E m \in 1 .. k - 1 :
                  /\ IsLoop(frames'[m]) /\ Len(frames'[m].path) = i - 1
                  /\ Within(frames'[k].path, frames'[m].path,
                            <<frames'[m].owner, frames'[m].index>>)
    <3>0. k \in 1 .. Depth /\ i \in 1 .. Len(frames[k].path) /\ frames'[k].path = frames[k].path
      BY <1>1, <1>2
    <3>1. PICK m \in 1 .. k - 1 :
                  /\ IsLoop(frames[m]) /\ Len(frames[m].path) = i - 1
                  /\ Within(frames[k].path, frames[m].path,
                            <<frames[m].owner, frames[m].index>>)
      BY <3>0 DEF Stack, Placed
    <3>2. m \in 1 .. n /\ m < n
      BY <1>0
    <3>3. /\ frames'[m].path = frames[m].path /\ frames'[m].owner = frames[m].owner
          /\ frames'[m].index = frames[m].index /\ frames'[m].kind = frames[m].kind
      BY <3>2, <1>2, <1>3
    <3> QED BY <3>0, <3>1, <3>3 DEF IsLoop
  <2> QED BY <2>1, <1>0 DEF Placed
<1>9. Scoped'
  <2>1. ASSUME NEW k \in 1 .. n
        PROVE  \E c \in 1 .. k :
                  /\ frames'[c].kind # "branch" /\ Place(frames'[c]) = Place(frames'[k])
                  /\ \A j \in c + 1 .. k : frames'[j].kind = "branch"
    <3>1. CASE frames'[k].kind # "branch"
      <4>1. k \in 1 .. k /\ \A j \in k + 1 .. k : frames'[j].kind = "branch"
        BY <1>0
      <4> QED BY <3>1, <4>1
    <3>2. CASE frames'[k].kind = "branch"
      <4>1. PICK c \in 1 .. k :
                  /\ frames[c].kind # "branch" /\ Place(frames[c]) = Place(frames[k])
                  /\ \A j \in c + 1 .. k : frames[j].kind = "branch"
        BY <1>1 DEF Stack, Scoped
      <4>2. frames[k].kind = "branch"
        BY <3>2, <1>2
      <4>3. c # k
        BY <4>1, <4>2
      <4>4. c < n /\ c \in 1 .. n
        BY <4>3, <1>0
      <4>5. Place(frames'[c]) = Place(frames[c]) /\ frames'[c].kind # "branch"
        BY <4>4, <4>1, <1>4, <1>2
      <4>6. Place(frames'[k]) = Place(frames[k])
        BY <3>2, <1>5
      <4>7. \A j \in c + 1 .. k : j \in 1 .. n
        BY <1>0
      <4>8. \A j \in c + 1 .. k : frames'[j].kind = "branch"
        BY <4>7, <4>1, <1>2
      <4> QED BY <4>1, <4>5, <4>6, <4>8
    <3> QED BY <3>1, <3>2
  <2> QED BY <2>1, <1>0 DEF Scoped
<1> QED BY <1>6, <1>7, <1>8, <1>9 DEF Stack

(* The same when a block begins. *)
LEMMA PushesStack ==
  ASSUME TypeOK, TypeOK', Stack, NEW g, Pushes(g)
  PROVE  Stack'
<1> DEFINE d == Depth
           n == Depth + 1
<1>0. /\ d \in Nat /\ d > 0 /\ n = d + 1 /\ n \in Nat /\ Depth' = n
      /\ d \in 1 .. d /\ d \in 1 .. n /\ n \in 1 .. n /\ 1 \in 1 .. d /\ Top = frames[d]
  BY Frames DEF Pushes, Depth, Top
<1>1. \A k \in 1 .. n : k = n \/ (k \in 1 .. d /\ k < n)
  BY <1>0
<1>2. \A k \in 1 .. d : frames'[k] = frames[k]
  BY DEF Pushes
<1>3. frames'[n] = g /\ Opens(frames[d], g) /\ g.at = 1 /\ g.index = 0
  BY <1>0 DEF Pushes
<1>4. g \in Block /\ Len(g.steps) \in Nat /\ g.path \in Occurrence /\ Len(g.path) \in Nat
  BY <1>0, <1>3, NewFrames
<1>5. g.path = Place(frames[d]) /\ frames[d].at <= Len(frames[d].steps)
      /\ g.owner = frames[d].steps[frames[d].at]
  BY <1>3 DEF Opens
<1> HIDE DEF d, n
<1>6. Chain'
  <2>1. ASSUME NEW k \in 1 .. n PROVE frames'[k].at <= Len(frames'[k].steps) + 1
    <3>1. CASE k = n
      BY <3>1, <1>3, <1>4
    <3>2. CASE k \in 1 .. d
      BY <3>2, <1>2 DEF Stack, Chain, d
    <3> QED BY <3>1, <3>2, <1>1
  <2>2. ASSUME NEW k \in 2 .. n PROVE Opens(frames'[k - 1], frames'[k])
    <3>1. CASE k = n
      <4>1. k - 1 = d
        BY <3>1, <1>0
      <4> QED BY <3>1, <4>1, <1>0, <1>2, <1>3
    <3>2. CASE k # n
      <4>1. k \in 2 .. d /\ k \in 1 .. d /\ k - 1 \in 1 .. d
        BY <3>2, <1>0
      <4>2. Opens(frames[k - 1], frames[k])
        BY <4>1 DEF Stack, Chain, d
      <4> QED BY <4>1, <4>2, <1>2
    <3> QED BY <3>1, <3>2
  <2>3. frames'[1] = frames[1]
    BY <1>0, <1>2
  <2> QED BY <2>1, <2>2, <2>3, <1>0 DEF Chain, Stack
<1>a. \A k \in 1 .. d : /\ Place(frames[k]) \in Occurrence /\ Len(Place(frames[k])) \in Nat
                        /\ Len(frames[k].path) \in Nat
                        /\ Len(frames[k].path) <= Len(Place(frames[k]))
  <2> SUFFICES ASSUME NEW k \in 1 .. d
               PROVE  /\ Place(frames[k]) \in Occurrence /\ Len(Place(frames[k])) \in Nat
                      /\ Len(frames[k].path) \in Nat
                      /\ Len(frames[k].path) <= Len(Place(frames[k]))
    OBVIOUS
  <2>1. Len(frames[k].path) \in Nat
    BY Frames DEF d
  <2>2. /\ Place(frames[k]) \in Occurrence /\ Len(Place(frames[k])) \in Nat
        /\ frames[k].kind # "loop" => Place(frames[k]) = frames[k].path
        /\ frames[k].kind = "loop" => Len(Place(frames[k])) = Len(frames[k].path) + 1
    BY Places DEF d
  <2> QED BY <2>1, <2>2
<1>7. Nested'
  <2>1. ASSUME NEW j \in 1 .. n, NEW k \in 1 .. n, j <= k
        PROVE  Range(frames'[k].steps) \subseteq Inside(frames'[j].steps, Steps)
    <3>1. CASE k \in 1 .. d
      <4>1. j \in 1 .. d
        BY <3>1, <2>1, <1>0
      <4>2. Range(frames[k].steps) \subseteq Inside(frames[j].steps, Steps)
        BY <2>1, <3>1, <4>1 DEF Stack, Nested, d
      <4> QED BY <4>1, <4>2, <3>1, <1>2
    <3>2. CASE k = n /\ j = n
      BY <3>2, InsideFacts
    <3>3. CASE k = n /\ j \in 1 .. d
      <4>1. Range(frames[d].steps) \subseteq Inside(frames[j].steps, Steps)
        <5>1. j <= d
          BY <3>3, <1>0
        <5> QED BY <3>3, <5>1, <1>0 DEF Stack, Nested, d
      <4>2. frames[j].steps \in Blocks
        BY <3>3, Places DEF d
      <4>3. Closed(Inside(frames[j].steps, Steps), Steps)
        BY <4>2, InsideBlocks
      <4>4. /\ frames[d].steps \in Seq(Steps) /\ frames[d].at \in Nat /\ frames[d].at > 0
        BY <1>0, Frames DEF d
      <4>5. g.owner \in Range(frames[d].steps) /\ g.owner \in Steps
        BY <4>4, <1>5 DEF Range
      <4>6. Range(g.steps) \subseteq Children(g.owner)
        BY <1>3 DEF Opens, Children
      <4>7. Children(g.owner) \subseteq Inside(frames[j].steps, Steps)
        BY <4>1, <4>3, <4>5 DEF Closed
      <4> QED BY <4>6, <4>7, <3>3, <1>2, <1>3
    <3> QED BY <3>1, <3>2, <3>3, <1>1
  <2>2. ASSUME NEW j \in 1 .. n, NEW k \in 1 .. n, j < k
        PROVE  Len(Place(frames'[j])) <= Len(frames'[k].path)
    <3>0. j \in 1 .. d /\ frames'[j] = frames[j]
      BY <2>2, <1>0, <1>2
    <3>1. CASE k \in 1 .. d
      <4>1. Len(Place(frames[j])) <= Len(frames[k].path)
        BY <2>2, <3>0, <3>1 DEF Stack, Nested, d
      <4> QED BY <4>1, <3>0, <3>1, <1>2
    <3>2. CASE k = n /\ j = d
      <4>1. Len(Place(frames[d])) \in Nat
        BY <1>0, <1>a
      <4> QED BY <4>1, <3>0, <3>2, <1>3, <1>5
    <3>3. CASE k = n /\ j < d
      <4>1. Len(Place(frames[j])) <= Len(frames[d].path)
        BY <3>3, <3>0, <1>0 DEF Stack, Nested, d
      <4>2. Len(frames[d].path) <= Len(Place(frames[d]))
        BY <1>0, <1>a
      <4>3. Len(Place(frames[j])) \in Nat /\ Len(frames[d].path) \in Nat
            /\ Len(Place(frames[d])) \in Nat
        BY <1>0, <1>a, <3>0
      <4>4. Len(Place(frames[j])) <= Len(Place(frames[d]))
        BY <4>1, <4>2, <4>3
      <4> QED BY <4>4, <3>0, <3>3, <1>3, <1>5
    <3> QED BY <3>0, <3>1, <3>2, <3>3, <1>0, <1>1
  <2> QED BY <2>1, <2>2, <1>0 DEF Nested
<1>8. Placed'
  <2>1. ASSUME NEW k \in 1 .. n, NEW i \in 1 .. Len(frames'[k].path)
        PROVE  \E m \in 1 .. k - 1 :
                  /\ IsLoop(frames'[m]) /\ Len(frames'[m].path) = i - 1
                  /\ Within(frames'[k].path, frames'[m].path,
                            <<frames'[m].owner, frames'[m].index>>)
    <3>1. ASSUME NEW c \in 1 .. d, NEW h \in 1 .. Len(frames[c].path)
          PROVE  \E m \in 1 .. c - 1 :
                  /\ IsLoop(frames'[m]) /\ Len(frames'[m].path) = h - 1
                  /\ Within(frames[c].path, frames'[m].path,
                            <<frames'[m].owner, frames'[m].index>>)
      <4>1. PICK m \in 1 .. c - 1 :
                  /\ IsLoop(frames[m]) /\ Len(frames[m].path) = h - 1
                  /\ Within(frames[c].path, frames[m].path,
                            <<frames[m].owner, frames[m].index>>)
        BY DEF Stack, Placed, d
      <4>2. m \in 1 .. d
        BY <1>0
      <4> QED BY <4>1, <4>2, <1>2
    <3>2. CASE k \in 1 .. d
      BY <3>1, <3>2, <1>2
    <3>3. CASE k = n
      <4>0. frames'[k].path = Place(frames[d]) /\ k - 1 = d
        BY <3>3, <1>0, <1>3, <1>5
      <4>1. CASE i \in 1 .. Len(frames[d].path)
        <5>1. PICK m \in 1 .. d - 1 :
                  /\ IsLoop(frames'[m]) /\ Len(frames'[m].path) = i - 1
                  /\ Within(frames[d].path, frames'[m].path,
                            <<frames'[m].owner, frames'[m].index>>)
          BY <1>0, <3>1, <4>1
        <5>2. \A h \in 1 .. Len(frames[d].path) : Place(frames[d])[h] = frames[d].path[h]
          BY <1>0, Places DEF d
        <5>3. Len(frames[d].path) \in Nat /\ Len(Place(frames[d])) \in Nat
              /\ Len(frames[d].path) <= Len(Place(frames[d])) /\ Len(frames'[m].path) = i - 1
          BY <5>1, <1>0, <1>a
        <5>4. Within(Place(frames[d]), frames'[m].path, <<frames'[m].owner, frames'[m].index>>)
          <6> DEFINE p == frames'[m].path
                     x == <<frames'[m].owner, frames'[m].index>>
                     q == frames[d].path
                     r == Place(frames[d])
          <6>1. Within(q, p, x)
            BY <5>1
          <6>2. Len(p) \in Nat /\ Len(q) \in Nat /\ Len(r) \in Nat /\ Len(q) <= Len(r)
                /\ \A h \in 1 .. Len(q) : r[h] = q[h]
            BY <5>2, <5>3, <4>1
          <6> HIDE DEF p, x, q, r
          <6>3. Len(p) < Len(q) /\ q[Len(p) + 1] = x /\ \A h \in 1 .. Len(p) : q[h] = p[h]
            BY <6>1 DEF Within
          <6>4. Within(r, p, x)
            BY SMTT(30), <6>2, <6>3 DEF Within
          <6> QED BY <6>4 DEF p, x, q, r
        <5>5. m \in 1 .. k - 1
          BY <4>0, <1>0
        <5> QED BY <5>1, <5>4, <5>5, <4>0
      <4>2. CASE ~(i \in 1 .. Len(frames[d].path))
        <5>1. /\ frames[d].kind # "loop" => Place(frames[d]) = frames[d].path
              /\ frames[d].kind = "loop" =>
                  /\ Len(Place(frames[d])) = Len(frames[d].path) + 1
                  /\ Within(Place(frames[d]), frames[d].path,
                            <<frames[d].owner, frames[d].index>>)
          BY <1>0, Places DEF d
        <5>2. frames[d].kind = "loop"
          BY <5>1, <4>0, <4>2
        <5>3. i = Len(frames[d].path) + 1
          <6>1. Len(frames[d].path) \in Nat
            BY <1>0, <1>a
          <6>2. i \in 1 .. Len(frames[d].path) + 1
            BY <5>1, <5>2, <4>0
          <6> QED BY <6>1, <6>2, <4>2
        <5>4. i - 1 = Len(frames[d].path) /\ d \in 1 .. k - 1
          <6>1. Len(frames[d].path) \in Nat
            BY <1>0, <1>a
          <6> QED BY <5>3, <6>1, <4>0, <1>0
        <5>5. frames'[d] = frames[d]
          BY <1>0, <1>2
        <5> QED BY <5>1, <5>2, <5>4, <5>5, <4>0 DEF IsLoop
      <4> QED BY <4>1, <4>2
    <3> QED BY <3>2, <3>3, <1>1
  <2> QED BY <2>1, <1>0 DEF Placed
<1>9. Scoped'
  <2>1. ASSUME NEW k \in 1 .. n
        PROVE  \E c \in 1 .. k :
                  /\ frames'[c].kind # "branch" /\ Place(frames'[c]) = Place(frames'[k])
                  /\ \A j \in c + 1 .. k : frames'[j].kind = "branch"
    <3>0. ASSUME NEW m \in 1 .. d
          PROVE  \E c \in 1 .. m :
                  /\ frames'[c].kind # "branch" /\ Place(frames'[c]) = Place(frames[m])
                  /\ \A j \in c + 1 .. m : frames'[j].kind = "branch"
      <4>1. PICK c \in 1 .. m :
                  /\ frames[c].kind # "branch" /\ Place(frames[c]) = Place(frames[m])
                  /\ \A j \in c + 1 .. m : frames[j].kind = "branch"
        BY DEF Stack, Scoped, d
      <4>2. c \in 1 .. d /\ \A j \in c + 1 .. m : j \in 1 .. d
        BY <1>0
      <4> QED BY <4>1, <4>2, <1>2
    <3>1. CASE k \in 1 .. d
      <4>1. frames'[k] = frames[k]
        BY <3>1, <1>2
      <4> QED BY <3>0, <3>1, <4>1
    <3>2. CASE k = n /\ g.kind # "branch"
      <4>1. k \in 1 .. k /\ \A j \in k + 1 .. k : frames'[j].kind = "branch"
        BY <1>0
      <4> QED BY <3>2, <4>1, <1>3
    <3>3. CASE k = n /\ g.kind = "branch"
      <4>1. PICK c \in 1 .. d :
                  /\ frames'[c].kind # "branch" /\ Place(frames'[c]) = Place(frames[d])
                  /\ \A j \in c + 1 .. d : frames'[j].kind = "branch"
        BY <1>0, <3>0
      <4>2. Place(g) = Place(frames[d])
        BY <3>3, <1>5 DEF Place, IsLoop
      <4>3. ASSUME NEW j \in c + 1 .. k PROVE frames'[j].kind = "branch"
        <5>1. j \in c + 1 .. d \/ j = n
          BY <3>3, <1>0
        <5> QED BY <5>1, <4>1, <3>3, <1>3
      <4>4. c \in 1 .. k
        BY <3>3, <1>0
      <4> QED BY <4>1, <4>2, <4>3, <4>4, <3>3, <1>3
    <3> QED BY <3>1, <3>2, <3>3, <1>1
  <2> QED BY <2>1, <1>0 DEF Scoped
<1> QED BY <1>6, <1>7, <1>8, <1>9 DEF Stack

-----------------------------------------------------------------------------
(* What a step of the executor does to the stack.                           *)

Same(f, g) == Fixed(f, g) /\ g.at = f.at /\ g.index = f.index /\ g.inherited = f.inherited

Endings == {"continue", "stopped", "err"} \cup Loops

Done(ending) == Outcome(ending) = "succeeded"

(* The step block d is at ends, and the blocks inside d have ended.         *)
CompletesAt(d, ending, cause) ==
    /\ d \in 1 .. Depth /\ Len(frames') = d /\ ending \in Endings
    /\ frames[d].at <= Len(frames[d].steps)
    /\ \A k \in 1 .. d : /\ Fixed(frames[k], frames'[k])
                         /\ frames'[k].index = frames[k].index
                         /\ frames'[k].inherited = frames[k].inherited
    /\ \A k \in 1 .. d : k < d => frames'[k].at = frames[k].at
    /\ Done(ending) => frames'[d].at = frames[d].at + 1
    /\ ~Done(ending) => frames'[d].at = frames[d].at
    /\ executions' = Append(executions, [step |-> frames[d].steps[frames[d].at],
                                         path |-> Place(frames[d]),
                                         outcome |-> Outcome(ending)])
    /\ rows' = rows
    /\ failure' = IF ending = "err" /\ failure = None THEN cause ELSE failure
    /\ flow' = ending
    /\ pc' = IF ending = "continue" THEN "step" ELSE "return"

(* Replacing one element of a sequence. *)
LEMMA Setting ==
  ASSUME NEW S, NEW s \in Seq(S), NEW i \in 1 .. Len(s), NEW x \in S
  PROVE  /\ [s EXCEPT ![i] = x] \in Seq(S) /\ Len([s EXCEPT ![i] = x]) = Len(s)
         /\ [s EXCEPT ![i] = x][i] = x
         /\ \A k \in 1 .. Len(s) : k # i => [s EXCEPT ![i] = x][k] = s[k]
OBVIOUS

(* All of a sequence but its last element. *)
LEMMA Fronts ==
  ASSUME NEW S, NEW s \in Seq(S), Len(s) > 1
  PROVE  /\ Front(s) \in Seq(S) /\ Len(Front(s)) = Len(s) - 1
         /\ \A k \in 1 .. Len(s) - 1 : Front(s)[k] = s[k]
<1>1. Len(s) \in Nat
  OBVIOUS
<1>2. Front(s) = SubSeq(s, 1, Len(s) - 1)
  BY DEF Front
<1>3. SubSeq(s, 1, Len(s) - 1) = [k \in 1 .. Len(s) - 1 |-> s[k]]
  <2>1. SubSeq(s, 1, Len(s) - 1) = [k \in 1 .. (1 + (Len(s) - 1) - 1) |-> s[(1 + k) - 1]]
    BY <1>1
  <2> QED BY <2>1, <1>1
<1>4. \A k \in 1 .. Len(s) - 1 : s[k] \in S
  BY <1>1
<1>5. [k \in 1 .. Len(s) - 1 |-> s[k]] \in Seq(S)
  BY <1>1, <1>4
<1>6. Len([k \in 1 .. Len(s) - 1 |-> s[k]]) = Len(s) - 1
  BY <1>1
<1> QED BY <1>2, <1>3, <1>5, <1>6

Fields == {"kind", "owner", "steps", "path", "at", "index", "staged", "previous",
           "inherited", "scope"}

(* A record with the fields of a block, each of its type, is one.           *)
LEMMA IsBlock ==
  ASSUME NEW g, g = [x \in Fields |-> g[x]],
         g.kind \in {"root", "branch", "loop"}, g.owner \in Steps \cup {None},
         g.steps \in Seq(Steps), g.path \in Occurrence, g.at \in Nat \ {0}, g.index \in Nat,
         g.staged \in Seq([page : Pages \cup {None}, outputs : Seq(Steps)]),
         g.previous \in Value, g.inherited \in SUBSET Variables,
         g.scope \in [Variables -> Value]
  PROVE  g \in Block
<1>1. g = [kind |-> g.kind, owner |-> g.owner, steps |-> g.steps, path |-> g.path,
           at |-> g.at, index |-> g.index, staged |-> g.staged,
           previous |-> g.previous, inherited |-> g.inherited, scope |-> g.scope]
  BY DEF Fields
<1> QED BY <1>1 DEF Block

(* The fields of a block have their types. *)
LEMMA BlockFields ==
  ASSUME NEW f \in Block
  PROVE  /\ f.kind \in {"root", "branch", "loop"} /\ f.owner \in Steps \cup {None}
         /\ f.steps \in Seq(Steps) /\ f.path \in Occurrence
         /\ f.at \in Nat \ {0} /\ f.index \in Nat
         /\ f.staged \in Seq([page : Pages \cup {None}, outputs : Seq(Steps)])
         /\ f.previous \in Value /\ f.inherited \in SUBSET Variables
         /\ f.scope \in [Variables -> Value]
BY DEF Block

(* A block that has moved on is a block, and the same one. *)
LEMMA MovedOn ==
  ASSUME NEW f \in Block
  PROVE  /\ [f EXCEPT !.at = f.at + 1] \in Block
         /\ [f EXCEPT !.at = f.at + 1].at = f.at + 1
         /\ Fixed(f, [f EXCEPT !.at = f.at + 1])
         /\ [f EXCEPT !.at = f.at + 1].index = f.index
         /\ [f EXCEPT !.at = f.at + 1].inherited = f.inherited
         /\ [f EXCEPT !.at = f.at + 1].scope = f.scope
         /\ [f EXCEPT !.at = f.at + 1].staged = f.staged
<1> DEFINE g == [f EXCEPT !.at = f.at + 1]
<1>1. g = [x \in Fields |-> g[x]]
  BY DEF Block, Fields
<1>2. /\ g.kind = f.kind /\ g.owner = f.owner /\ g.steps = f.steps /\ g.path = f.path
      /\ g.at = f.at + 1 /\ g.index = f.index /\ g.staged = f.staged
      /\ g.previous = f.previous /\ g.inherited = f.inherited /\ g.scope = f.scope
  BY DEF Block
<1>3. f.at + 1 \in Nat \ {0}
  BY BlockFields
<1> HIDE DEF g
<1>4. g \in Block
  BY <1>1, <1>2, <1>3, BlockFields, IsBlock
<1>5. g \in Block /\ g.at = f.at + 1 /\ Fixed(f, g) /\ g.index = f.index
      /\ g.inherited = f.inherited /\ g.scope = f.scope /\ g.staged = f.staged
  BY <1>2, <1>4 DEF Fixed
<1> QED BY <1>5 DEF g

(* The outcome of an ending. *)
LEMMA Outcomes ==
  /\ \A ending \in Endings : Outcome(ending) \in {"succeeded", "failed", "cancelled"}
  /\ \A ending \in Endings : Done(ending) <=> ending \notin {"stopped", "err"}
  /\ Loops \subseteq Steps
  /\ Loops \cap {"continue", "stopped", "err", "signal"} = {} /\ None \notin Loops
<1>1. Loops \subseteq Steps
  BY DEF Loops
<1>2. Loops \cap {"continue", "stopped", "err", "signal"} = {} /\ None \notin Loops
  BY <1>1, MarksAreFresh
<1> QED BY <1>1, <1>2 DEF Outcome, Done, Endings

(* The end of a step, in a stack whose blocks are those below d, or have    *)
(* only staged or declared something since.                                 *)
LEMMA CompleteMeans ==
  ASSUME TypeOK, Stack, NEW d \in 1 .. Depth,
         NEW stack \in Seq(Block), Len(stack) = d,
         \A k \in 1 .. d : Same(frames[k], stack[k]),
         NEW outputs \in [Steps -> Occurrence \cup {None}],
         NEW s, NEW ending \in Endings, NEW cause \in Steps \cup {"signal", None},
         frames[d].at <= Len(frames[d].steps), s = frames[d].steps[frames[d].at],
         Complete(stack, outputs, s, ending, cause), rows' = rows
  PROVE  /\ CompletesAt(d, ending, cause)
         /\ \A k \in 1 .. d : frames'[k].scope = stack[k].scope /\ frames'[k].staged = stack[k].staged
         /\ s \in Steps
         /\ step_outputs' = IF Done(ending) THEN [outputs EXCEPT ![s] = Place(frames[d])] ELSE outputs
         /\ frames' \in Seq(Block) /\ frames' # <<>>
         /\ step_outputs' \in [Steps -> Occurrence \cup {None}]
         /\ executions' \in Seq(Execution) /\ failure' \in Steps \cup {"signal", None}
         /\ flow' \in Endings /\ pc' \in {"step", "return"}
<1>0. /\ Depth \in Nat /\ d \in Nat /\ d > 0 /\ d \in 1 .. Len(stack)
      /\ frames[d].steps \in Seq(Steps) /\ frames[d].at \in Nat /\ frames[d].at > 0
      /\ Place(frames[d]) \in Occurrence
  <2>1. Depth \in Nat /\ d \in Nat /\ d > 0 /\ d \in 1 .. Len(stack)
    BY Frames
  <2>2. frames[d].steps \in Seq(Steps) /\ frames[d].at \in Nat /\ frames[d].at > 0
    BY Frames
  <2>3. Place(frames[d]) \in Occurrence
    BY Places
  <2> QED BY <2>1, <2>2, <2>3
<1>1. s \in Steps
  BY <1>0
<1>2. Path(stack) = Place(frames[d])
  <2>1. stack[d].kind = frames[d].kind /\ stack[d].owner = frames[d].owner
        /\ stack[d].path = frames[d].path /\ stack[d].index = frames[d].index
    BY <1>0 DEF Same, Fixed
  <2>2. Path(stack) = Place(stack[d])
    BY DEF Path
  <2> QED BY <2>1, <2>2 DEF Place, IsLoop
<1> DEFINE e == [step |-> s, path |-> Place(frames[d]), outcome |-> Outcome(ending)]
<1>3. executions' = Append(executions, e)
  BY <1>2 DEF Complete
<1>4. e \in Execution
  BY <1>0, <1>1, Outcomes DEF Execution
<1>5. executions' \in Seq(Execution)
  <2> HIDE DEF e
  <2>1. executions \in Seq(Execution)
    BY DEF TypeOK
  <2> QED BY <1>3, <1>4, <2>1
<1>6. step_outputs' = IF Done(ending) THEN [outputs EXCEPT ![s] = Place(frames[d])] ELSE outputs
  BY <1>2 DEF Complete, Done
<1>7. step_outputs' \in [Steps -> Occurrence \cup {None}]
  BY <1>0, <1>6
<1>8. failure' = IF ending = "err" /\ failure = None THEN cause ELSE failure
  BY DEF Complete
<1>9. failure' \in Steps \cup {"signal", None}
  <2>1. failure \in Steps \cup {"signal", None}
    BY DEF TypeOK
  <2> QED BY <1>8, <2>1
<1>10. /\ flow' = ending /\ pc' = IF ending = "continue" THEN "step" ELSE "return"
  BY DEF Complete
<1> DEFINE x == [stack[d] EXCEPT !.at = stack[d].at + 1]
<1>11. frames' = IF Done(ending) THEN [stack EXCEPT ![d] = x] ELSE stack
  BY DEF Complete, Done
<1>12. stack[d] \in Block
  BY <1>0
<1>13. /\ x \in Block /\ x.at = stack[d].at + 1 /\ Fixed(stack[d], x)
       /\ x.index = stack[d].index /\ x.inherited = stack[d].inherited
       /\ x.scope = stack[d].scope /\ x.staged = stack[d].staged
  BY <1>12, MovedOn
<1> HIDE DEF x, e
<1>14. /\ frames' \in Seq(Block) /\ Len(frames') = d
       /\ \A k \in 1 .. d : k # d => frames'[k] = stack[k]
       /\ Done(ending) => frames'[d] = x
       /\ ~Done(ending) => frames'[d] = stack[d]
  <2>1. CASE Done(ending)
    <3>1. frames' = [stack EXCEPT ![d] = x]
      BY <1>11, <2>1
    <3> QED BY <2>1, <3>1, <1>0, <1>13, Setting
  <2>2. CASE ~Done(ending)
    BY <2>2, <1>11
  <2> QED BY <2>1, <2>2
<1>15. frames' # <<>>
  BY <1>14, <1>0
<1>16. ASSUME NEW k \in 1 .. d
       PROVE  /\ Fixed(frames[k], frames'[k]) /\ frames'[k].index = frames[k].index
              /\ frames'[k].inherited = frames[k].inherited
              /\ k < d => frames'[k].at = frames[k].at
              /\ frames'[k].scope = stack[k].scope /\ frames'[k].staged = stack[k].staged
  <2>0. Same(frames[k], stack[k])
    OBVIOUS
  <2>1. CASE k # d
    BY <2>0, <2>1, <1>14 DEF Same
  <2>2. CASE k = d /\ Done(ending)
    BY <2>0, <2>2, <1>13, <1>14 DEF Same, Fixed
  <2>3. CASE k = d /\ ~Done(ending)
    BY <2>0, <2>3, <1>14 DEF Same
  <2> QED BY <2>1, <2>2, <2>3
<1>17. /\ Done(ending) => frames'[d].at = frames[d].at + 1
       /\ ~Done(ending) => frames'[d].at = frames[d].at
  <2>1. stack[d].at = frames[d].at
    BY <1>0 DEF Same
  <2> QED BY <2>1, <1>13, <1>14
<1>18. CompletesAt(d, ending, cause)
  BY <1>3, <1>8, <1>10, <1>14, <1>16, <1>17 DEF CompletesAt, e
<1> QED BY <1>1, <1>5, <1>6, <1>7, <1>9, <1>10, <1>14, <1>15, <1>16, <1>18

(* Where the executor stands, and what the last block returned.             *)
Control ==
    /\ pc = "busy" => ~AtEnd /\ Kind[Current] \notin {"if", "for", "while"}
    /\ pc = "next" => Top.kind = "loop"
    /\ pc = "commit" => AtEnd /\ Top.kind # "branch"
    /\ pc = "done" => Top.kind = "root"
    /\ pc \notin {"return", "done"} => flow = "continue"
    /\ pc \in {"return", "done"} /\ flow = "continue" => AtEnd
    /\ pc \in {"return", "done"} /\ flow = "stopped" => ~AtEnd /\ stop
    /\ flow \in Loops => pc = "return" /\ InLoop(flow)

(* A step ends in the block on top. *)
Logs(ending, cause) ==
    /\ pc \in {"step", "busy"} /\ ending \in {"continue", "stopped", "err"}
    /\ CompletesAt(Depth, ending, cause)
    /\ step_outputs' = IF Done(ending) THEN [step_outputs EXCEPT ![Current] = Place(Top)]
                       ELSE step_outputs
    /\ UNCHANGED <<world, again>>
    /\ late' = IF pc = "busy" /\ stop THEN late + 1 ELSE late
    /\ ending = "continue" => pc = "busy"
    /\ ending = "stopped" => stop
    /\ ending = "err" => cause \in Steps /\ cause = Current

(* The others leave the variables and the staged rows alone ...             *)
Plain(ending) ==
    /\ UNCHANGED variables
    /\ \A k \in 1 .. Depth : /\ frames'[k].scope = frames[k].scope
                             /\ frames'[k].staged = frames[k].staged
    /\ Done(ending) => Kind[Current] \notin {"set", "output"}

(* ... a set changes the innermost binding of its variable, and declares it *)
(* where there is none ...                                                  *)
Assigns ==
    /\ Kind[Current] = "set"
    /\ \E value \in Value \ {None}, home \in 1 .. Depth : LET v == Variable[Current] IN
        /\ variables' = [variables EXCEPT ![v] = value]
        /\ \A k \in 1 .. Depth : k # home => frames'[k].scope = frames[k].scope
        /\ frames'[home].scope = [frames[home].scope EXCEPT ![v] = value]
        /\ \/ /\ frames[home].scope[v] # None
              /\ \A j \in home + 1 .. Depth : frames[j].scope[v] = None
           \/ home = Depth /\ \A j \in 1 .. Depth : frames[j].scope[v] = None
    /\ \A k \in 1 .. Depth : frames'[k].staged = frames[k].staged

(* ... and an output is staged in the scope around it.                      *)
StagesOutput ==
    /\ Kind[Current] = "output" /\ UNCHANGED variables
    /\ \A k \in 1 .. Depth : frames'[k].scope = frames[k].scope
    /\ \E c \in 1 .. Depth :
        /\ frames[c].kind # "branch" /\ \A j \in c + 1 .. Depth : frames[j].kind = "branch"
        /\ Place(frames[c]) = Place(Top)
        /\ frames'[c].staged = Staged(frames[c].staged, Current)
        /\ \A k \in 1 .. Depth : k # c => frames'[k].staged = frames[k].staged

(* The block on top ends, and with it the step it belongs to.               *)
Pops(ending, cause, data, outputs) ==
    /\ Depth > 1 /\ CompletesAt(Depth - 1, ending, cause)
    /\ \A k \in 1 .. Depth - 1 : /\ frames'[k].scope = frames[k].scope
                                 /\ frames'[k].staged = frames[k].staged
    /\ variables' = data
    /\ step_outputs' = IF Done(ending)
                       THEN [outputs EXCEPT ![Top.owner] = Place(frames[Depth - 1])] ELSE outputs
    /\ UNCHANGED <<world, history>>
    /\ ending \in Loops => pc = "return" /\ flow = ending /\ Top.owner # ending
    /\ ending = "stopped" => stop
    /\ ending = "err" => \/ pc = "return" /\ flow = "err"
                         \/ pc = "next" /\ cause \in {Top.owner, "signal"}
                                        /\ (cause = "signal" => signal)

PopsBranch(ending, cause) ==
    /\ pc = "return" /\ Top.kind = "branch" /\ ending = flow
    /\ Pops(ending, cause, leave_variable_scope(variables, Top.inherited),
            clear_step_outputs(step_outputs, Inside(Top.steps, Ifs)))

PopsLoop(ending, cause) ==
    /\ Top.kind = "loop"
    /\ \/ pc = "return" /\ flow # "continue" /\ ending = Ending(Top.owner, flow)
          /\ Pops(ending, cause,
                  restored(leave_variable_scope(variables, Top.inherited), Top),
                  clear_step_outputs(step_outputs, Range(Top.steps)))
       \/ pc = "next" /\ ending \in {"continue", "stopped", "err"}
          /\ Pops(ending, cause, restored(variables, Top),
                  clear_step_outputs(step_outputs, Range(Top.steps)))

(* A block begins. *)
Enters(g) ==
    /\ pc = "step" /\ ~stop /\ ~signal /\ Pushes(g)
    /\ g.staged = <<>> /\ g.scope = Nothing
    /\ UNCHANGED <<variables, step_outputs, executions, rows, failure, flow, world, history>>
    /\ \/ g.kind = "branch" /\ pc' = "step" /\ g.inherited = variable_scope(variables)
       \/ /\ g.kind = "loop" /\ pc' = "next"
          /\ g.previous = IF Kind[g.owner] = "for" THEN variables[Variable[g.owner]] ELSE None

(* Nothing but what is staged changes on the stack.                         *)
Stays ==
    /\ Len(frames') = Depth
    /\ \A k \in 1 .. Depth : Same(frames[k], frames'[k]) /\ frames'[k].scope = frames[k].scope
    /\ \A k \in 1 .. Depth : k < Depth => frames'[k].staged = frames[k].staged
    /\ UNCHANGED <<variables, step_outputs, executions>>

-----------------------------------------------------------------------------
(* Which of these every action is, and that it keeps the types.             *)

(* The block on top, and the step it is at. *)
LEMMA TopFacts ==
  ASSUME TypeOK
  PROVE  /\ Depth \in 1 .. Depth /\ Top = frames[Depth]
         /\ AtEnd <=> ~(Top.at <= Len(Top.steps))
         /\ ~AtEnd => /\ Current \in Steps /\ Current = frames[Depth].steps[frames[Depth].at]
                      /\ frames[Depth].at <= Len(frames[Depth].steps)
<1>1. Depth \in 1 .. Depth /\ Top = frames[Depth]
  BY Frames DEF Top
<1>2. frames[Depth].steps \in Seq(Steps) /\ frames[Depth].at \in Nat /\ frames[Depth].at > 0
      /\ Len(frames[Depth].steps) \in Nat
  BY <1>1, Frames
<1> QED BY <1>1, <1>2 DEF AtEnd, Current

(* A place is one an output may be of. *)
LEMMA Keeping ==
  ASSUME TypeOK
  PROVE  frames \in Seq(Block) /\ Len(frames) = Depth /\ \A k \in 1 .. Depth : Same(frames[k], frames[k])
BY DEF TypeOK, Depth, Same, Fixed

(* The step that runs ends in an error where it stands. *)
LEMMA LogsFailure ==
  ASSUME TypeOK, Stack, ~AtEnd, pc \in {"step", "busy"}, NEW ending \in {"stopped", "err"},
         ending = "stopped" => stop, NEW cause \in Steps \cup {None},
         ending = "err" => cause = Current,
         Complete(frames, step_outputs, Current, ending, cause),
         UNCHANGED <<variables, rows, world, again>>,
         late' = IF pc = "busy" /\ stop THEN late + 1 ELSE late
  PROVE  TypeOK' /\ Logs(ending, cause) /\ Plain(ending)
<1>1. /\ Depth \in 1 .. Depth /\ Top = frames[Depth] /\ Current \in Steps
      /\ Current = frames[Depth].steps[frames[Depth].at]
      /\ frames[Depth].at <= Len(frames[Depth].steps)
  BY TopFacts
<1>2. frames \in Seq(Block) /\ Len(frames) = Depth /\ \A k \in 1 .. Depth : Same(frames[k], frames[k])
  BY Keeping
<1>3. step_outputs \in [Steps -> Occurrence \cup {None}]
  BY DEF TypeOK
<1>4. ending \in Endings /\ cause \in Steps \cup {"signal", None} /\ ~Done(ending)
  BY Outcomes DEF Endings
<1>5. Complete(frames, step_outputs, Current, ending, cause) /\ rows' = rows
  OBVIOUS
<1>6. /\ CompletesAt(Depth, ending, cause)
      /\ \A k \in 1 .. Depth : frames'[k].scope = frames[k].scope /\ frames'[k].staged = frames[k].staged
      /\ step_outputs' = IF Done(ending) THEN [step_outputs EXCEPT ![Current] = Place(frames[Depth])]
                         ELSE step_outputs
      /\ frames' \in Seq(Block) /\ frames' # <<>>
      /\ step_outputs' \in [Steps -> Occurrence \cup {None}]
      /\ executions' \in Seq(Execution) /\ failure' \in Steps \cup {"signal", None}
      /\ flow' \in Endings /\ pc' \in {"step", "return"}
  BY <1>1, <1>2, <1>3, <1>4, <1>5, CompleteMeans
<1>7. Logs(ending, cause)
  BY <1>1, <1>6 DEF Logs
<1>8. Plain(ending)
  BY <1>4, <1>6 DEF Plain
<1>9. TypeOK'
  BY <1>6 DEF TypeOK, Endings, world
<1> QED BY <1>7, <1>8, <1>9

(* A set of places of the stack that is not empty has a topmost one.        *)
LEMMA Topmost ==
  ASSUME NEW n \in Nat, NEW S, S \subseteq 1 .. n, S # {}
  PROVE  \E k \in S : \A j \in k + 1 .. n : j \notin S
<1> DEFINE T == {n - k : k \in S}
<1>1. T \subseteq Nat /\ T # {}
  <2>1. ASSUME NEW k \in S PROVE n - k \in Nat
    <3>1. k \in 1 .. n
      OBVIOUS
    <3> QED BY <3>1
  <2> QED BY <2>1
<1>2. PICK m \in T : \A h \in T : m <= h
  <2> HIDE DEF T
  <2> QED BY <1>1, Least
<1>3. PICK k \in S : m = n - k
  OBVIOUS
<1>4. ASSUME NEW j \in k + 1 .. n, j \in S PROVE FALSE
  <2>1. n - j \in T
    BY <1>4
  <2>2. m <= n - j
    BY <1>2, <2>1
  <2> QED BY <1>3, <2>2
<1> QED BY <1>4

(* A block whose scope or whose staged rows change stays the same block.    *)
LEMMA Rescoped ==
  ASSUME NEW f \in Block, NEW sc \in [Variables -> Value]
  PROVE  /\ [f EXCEPT !.scope = sc] \in Block /\ Same(f, [f EXCEPT !.scope = sc])
         /\ [f EXCEPT !.scope = sc].scope = sc
         /\ [f EXCEPT !.scope = sc].staged = f.staged
<1> DEFINE g == [f EXCEPT !.scope = sc]
<1>1. g = [x \in Fields |-> g[x]]
  BY DEF Block, Fields
<1>2. /\ g.kind = f.kind /\ g.owner = f.owner /\ g.steps = f.steps /\ g.path = f.path
      /\ g.at = f.at /\ g.index = f.index /\ g.staged = f.staged
      /\ g.previous = f.previous /\ g.inherited = f.inherited /\ g.scope = sc
  BY DEF Block
<1> HIDE DEF g
<1>3. g \in Block
  BY <1>1, <1>2, BlockFields, IsBlock
<1>4. g \in Block /\ Same(f, g) /\ g.scope = sc /\ g.staged = f.staged
  BY <1>2, <1>3 DEF Same, Fixed
<1> QED BY <1>4 DEF g

Rows == Seq([page : Pages \cup {None}, outputs : Seq(Steps)])

(* The same of the staged rows. *)
LEMMA Restaged ==
  ASSUME NEW f \in Block, NEW st \in Rows
  PROVE  /\ [f EXCEPT !.staged = st] \in Block /\ Same(f, [f EXCEPT !.staged = st])
         /\ [f EXCEPT !.staged = st].scope = f.scope
         /\ [f EXCEPT !.staged = st].staged = st
<1> DEFINE g == [f EXCEPT !.staged = st]
<1>1. g = [x \in Fields |-> g[x]]
  BY DEF Block, Fields
<1>2. /\ g.kind = f.kind /\ g.owner = f.owner /\ g.steps = f.steps /\ g.path = f.path
      /\ g.at = f.at /\ g.index = f.index /\ g.staged = st
      /\ g.previous = f.previous /\ g.inherited = f.inherited /\ g.scope = f.scope
  BY DEF Block
<1> HIDE DEF g
<1>3. g \in Block
  BY <1>1, <1>2, BlockFields, IsBlock DEF Rows
<1>4. g \in Block /\ Same(f, g) /\ g.scope = f.scope /\ g.staged = st
  BY <1>2, <1>3 DEF Same, Fixed
<1> QED BY <1>4 DEF g

(* Staging an output keeps the shape of the rows. *)
LEMMA StagedRows ==
  ASSUME NEW st \in Rows, NEW s \in Steps, Page[s] \in Pages
  PROVE  Staged(st, s) \in Rows
<1> DEFINE Row == [page : Pages \cup {None}, outputs : Seq(Steps)]
<1>1. ASSUME NEW r \in Row PROVE [r EXCEPT !.outputs = Append(@, s)] \in Row
  OBVIOUS
<1>2. [page |-> Page[s], outputs |-> <<s>>] \in Row
  OBVIOUS
<1>3. st \in Seq(Row) /\ Len(st) \in Nat /\ DOMAIN st = 1 .. Len(st)
  BY DEF Rows
<1> HIDE DEF Row
<1>4. CASE \E k \in DOMAIN st : st[k].page = Page[s]
  <2> DEFINE x(k) == IF st[k].page = Page[s] THEN [st[k] EXCEPT !.outputs = Append(@, s)] ELSE st[k]
  <2>1. ASSUME NEW k \in 1 .. Len(st) PROVE x(k) \in Row
    <3>1. st[k] \in Row
      BY <1>3
    <3> QED BY <3>1, <1>1
  <2>2. Staged(st, s) = [k \in 1 .. Len(st) |-> x(k)]
    BY <1>4, <1>3 DEF Staged
  <2> HIDE DEF x
  <2>3. [k \in 1 .. Len(st) |-> x(k)] \in Seq(Row)
    BY <2>1, <1>3
  <2> QED BY <2>2, <2>3 DEF Rows, Row
<1>5. CASE ~\E k \in DOMAIN st : st[k].page = Page[s]
  <2>1. Staged(st, s) = Append(st, [page |-> Page[s], outputs |-> <<s>>])
    BY <1>5 DEF Staged
  <2> QED BY <2>1, <1>2, <1>3 DEF Rows, Row
<1> QED BY <1>4, <1>5

(* The scope of the block on top is the innermost block that is no branch.  *)
LEMMA ScopeOfTop ==
  ASSUME TypeOK, Stack
  PROVE  /\ ScopeOf(frames) \in 1 .. Depth /\ frames[ScopeOf(frames)].kind # "branch"
         /\ \A j \in ScopeOf(frames) + 1 .. Depth : frames[j].kind = "branch"
         /\ Place(frames[ScopeOf(frames)]) = Place(Top)
<1>0. /\ Depth \in Nat /\ Depth \in 1 .. Depth /\ DOMAIN frames = 1 .. Depth
      /\ Len(frames) = Depth /\ Top = frames[Depth]
  BY Frames DEF Depth, Top
<1>1. PICK c \in 1 .. Depth :
            /\ frames[c].kind # "branch" /\ Place(frames[c]) = Place(frames[Depth])
            /\ \A j \in c + 1 .. Depth : frames[j].kind = "branch"
  BY <1>0 DEF Stack, Scoped
<1> DEFINE P(k) == frames[k].kind # "branch" /\ \A j \in k + 1 .. Len(frames) : frames[j].kind = "branch"
<1>2. ASSUME NEW k \in DOMAIN frames, P(k) PROVE k = c
  <2>1. ~(k < c) /\ ~(c < k)
    BY <1>0, <1>1, <1>2
  <2> QED BY <2>1, <1>0
<1>3. c \in DOMAIN frames /\ P(c)
  BY <1>0, <1>1
<1>4. ScopeOf(frames) = CHOOSE k \in DOMAIN frames : P(k)
  BY DEF ScopeOf
<1> HIDE DEF P
<1>5. ScopeOf(frames) = c
  BY <1>2, <1>3, <1>4
<1> QED BY <1>0, <1>1, <1>5

(* A set that succeeds assigns its variable. *)
LEMMA LogsSet ==
  ASSUME TypeOK, Stack, ~AtEnd, pc = "busy", Kind[Current] = "set",
         Assign(Variable[Current], <<Current, Path(frames)>>),
         UNCHANGED <<rows, world, again>>, late' = IF stop THEN late + 1 ELSE late
  PROVE  TypeOK' /\ Logs("continue", None) /\ Assigns
<1>1. /\ Depth \in 1 .. Depth /\ Top = frames[Depth] /\ Current \in Steps /\ Depth \in Nat
      /\ Current = frames[Depth].steps[frames[Depth].at]
      /\ frames[Depth].at <= Len(frames[Depth].steps) /\ DOMAIN frames = 1 .. Depth
  BY TopFacts, Frames
<1> DEFINE v == Variable[Current]
           value == <<Current, Path(frames)>>
           declares(k) == frames[k].scope[v] # None
           home == IF \E k \in DOMAIN frames : declares(k)
                   THEN CHOOSE k \in DOMAIN frames :
                            declares(k) /\ \A j \in k + 1 .. Depth : ~declares(j)
                   ELSE Depth
           sc == [frames[home].scope EXCEPT ![v] = value]
           g == [frames[home] EXCEPT !.scope = sc]
           stack == [frames EXCEPT ![home] = g]
<1>2. v \in Variables
  BY <1>1, ProgramAssumption
<1>3. value \in Steps \X Occurrence /\ value \in Value /\ value # None
  <2>1. Path(frames) \in Occurrence
    BY <1>1, Places DEF Path, Depth
  <2> QED BY <2>1, <1>1, MarksAreFresh DEF Value
<1>4. /\ home \in 1 .. Depth
      /\ \/ declares(home) /\ \A j \in home + 1 .. Depth : ~declares(j)
         \/ home = Depth /\ \A j \in 1 .. Depth : ~declares(j)
  <2>1. CASE \E k \in DOMAIN frames : declares(k)
    <3> DEFINE S == {k \in 1 .. Depth : declares(k)}
    <3>1. S # {} /\ S \subseteq 1 .. Depth
      BY <2>1, <1>1
    <3>2. \E k \in S : \A j \in k + 1 .. Depth : j \notin S
      <4> HIDE DEF S
      <4> QED BY <3>1, <1>1, Topmost
    <3>3. \E k \in DOMAIN frames : declares(k) /\ \A j \in k + 1 .. Depth : ~declares(j)
      <4>1. PICK k \in S : \A j \in k + 1 .. Depth : j \notin S
        BY <3>2
      <4>2. k \in DOMAIN frames /\ declares(k)
        BY <4>1, <1>1
      <4>3. ASSUME NEW j \in k + 1 .. Depth PROVE ~declares(j)
        <5>1. j \in 1 .. Depth
          <6>1. k \in 1 .. Depth
            OBVIOUS
          <6> HIDE DEF S
          <6> QED BY <6>1, <1>1
        <5> QED BY <5>1, <4>1
      <4> QED BY <4>2, <4>3
    <3>4. home = CHOOSE k \in DOMAIN frames :
                    declares(k) /\ \A j \in k + 1 .. Depth : ~declares(j)
      BY <2>1
    <3> HIDE DEF declares, home
    <3> QED BY <3>3, <3>4, <1>1
  <2>2. CASE ~\E k \in DOMAIN frames : declares(k)
    <3>1. home = Depth
      BY <2>2
    <3> QED BY <2>2, <3>1, <1>1
  <2> QED BY <2>1, <2>2
<1>5. /\ variables' = [variables EXCEPT ![v] = value]
      /\ Complete(stack, step_outputs, Current, "continue", None)
  BY DEF Assign
<1> HIDE DEF home
<1>6. frames \in Seq(Block) /\ Len(frames) = Depth
  BY Keeping
<1>7. frames[home] \in Block /\ frames[home].scope \in [Variables -> Value]
  BY <1>4, Frames
<1>8. sc \in [Variables -> Value]
  BY <1>2, <1>3, <1>7
<1>9. g \in Block /\ Same(frames[home], g) /\ g.scope = sc /\ g.staged = frames[home].staged
  <2> HIDE DEF sc
  <2> QED BY <1>7, <1>8, Rescoped
<1>10. /\ stack \in Seq(Block) /\ Len(stack) = Depth /\ stack[home] = g
       /\ \A k \in 1 .. Depth : k # home => stack[k] = frames[k]
  <2> HIDE DEF g
  <2> QED BY <1>4, <1>6, <1>9, Setting
<1> HIDE DEF stack, g, value
<1>11. \A k \in 1 .. Depth : Same(frames[k], stack[k]) /\ stack[k].staged = frames[k].staged
  BY <1>9, <1>10, Keeping
<1>12. step_outputs \in [Steps -> Occurrence \cup {None}]
  BY DEF TypeOK
<1>13. "continue" \in Endings /\ None \in Steps \cup {"signal", None} /\ Done("continue")
  BY Outcomes DEF Endings
<1>14. /\ CompletesAt(Depth, "continue", None)
       /\ \A k \in 1 .. Depth : frames'[k].scope = stack[k].scope /\ frames'[k].staged = stack[k].staged
       /\ step_outputs' = IF Done("continue") THEN [step_outputs EXCEPT ![Current] = Place(frames[Depth])]
                          ELSE step_outputs
       /\ frames' \in Seq(Block) /\ frames' # <<>>
       /\ step_outputs' \in [Steps -> Occurrence \cup {None}]
       /\ executions' \in Seq(Execution) /\ failure' \in Steps \cup {"signal", None}
       /\ flow' \in Endings /\ pc' \in {"step", "return"}
  <2>1. Current = frames[Depth].steps[frames[Depth].at]
    BY <1>1
  <2>2. rows' = rows /\ TypeOK /\ Stack
    OBVIOUS
  <2>3. \A k \in 1 .. Depth : Same(frames[k], stack[k])
    BY <1>11
  <2>4. /\ CompletesAt(Depth, "continue", None)
        /\ \A k \in 1 .. Depth : frames'[k].scope = stack[k].scope /\ frames'[k].staged = stack[k].staged
        /\ step_outputs' = IF Done("continue") THEN [step_outputs EXCEPT ![Current] = Place(frames[Depth])]
                           ELSE step_outputs
        /\ frames' \in Seq(Block) /\ frames' # <<>>
        /\ step_outputs' \in [Steps -> Occurrence \cup {None}]
        /\ executions' \in Seq(Execution) /\ failure' \in Steps \cup {"signal", None}
        /\ flow' \in Endings /\ pc' \in {"step", "return"}
    BY ONLY <1>1, <1>5, <1>10, <1>12, <1>13, <2>1, <2>2, <2>3, CompleteMeans
  <2> QED BY ONLY <2>4
<1>15. Logs("continue", None)
  BY <1>1, <1>14 DEF Logs
<1>16. Assigns
  <2>1. \A k \in 1 .. Depth : k # home => frames'[k].scope = frames[k].scope
    BY <1>10, <1>14
  <2>2. frames'[home].scope = [frames[home].scope EXCEPT ![v] = value]
    BY <1>4, <1>9, <1>10, <1>14
  <2>3. \A k \in 1 .. Depth : frames'[k].staged = frames[k].staged
    BY <1>11, <1>14
  <2>4. \/ /\ frames[home].scope[v] # None
           /\ \A j \in home + 1 .. Depth : frames[j].scope[v] = None
        \/ home = Depth /\ \A j \in 1 .. Depth : frames[j].scope[v] = None
    BY <1>4
  <2>5. value \in Value \ {None}
    BY <1>3
  <2> QED BY <1>4, <1>5, <2>1, <2>2, <2>3, <2>4, <2>5 DEF Assigns
<1>17. variables' \in [Variables -> Value]
  BY <1>2, <1>3, <1>5 DEF TypeOK
<1>18. TypeOK'
  BY <1>14, <1>17 DEF TypeOK, Endings, world
<1> QED BY <1>15, <1>16, <1>18

(* An output that succeeds is staged. *)
LEMMA LogsOutput ==
  ASSUME TypeOK, Stack, ~AtEnd, pc = "busy", Kind[Current] = "output",
         Complete([frames EXCEPT ![ScopeOf(frames)].staged =
                                     Staged(frames[ScopeOf(frames)].staged, Current)],
                  step_outputs, Current, "continue", None),
         UNCHANGED <<variables, rows, world, again>>,
         late' = IF stop THEN late + 1 ELSE late
  PROVE  TypeOK' /\ Logs("continue", None) /\ StagesOutput
<1> DEFINE c == ScopeOf(frames)
           st == Staged(frames[c].staged, Current)
           g == [frames[c] EXCEPT !.staged = st]
           stack == [frames EXCEPT ![c] = g]
<1>1. /\ Depth \in 1 .. Depth /\ Top = frames[Depth] /\ Current \in Steps /\ Depth \in Nat
      /\ Current = frames[Depth].steps[frames[Depth].at]
      /\ frames[Depth].at <= Len(frames[Depth].steps) /\ DOMAIN frames = 1 .. Depth
  BY TopFacts, Frames
<1>2. /\ c \in 1 .. Depth /\ frames[c].kind # "branch"
      /\ \A j \in c + 1 .. Depth : frames[j].kind = "branch"
      /\ Place(frames[c]) = Place(Top)
  BY ScopeOfTop
<1>3. Complete(stack, step_outputs, Current, "continue", None)
  OBVIOUS
<1> HIDE DEF c
<1>4. frames \in Seq(Block) /\ Len(frames) = Depth
  BY Keeping
<1>5. frames[c] \in Block /\ frames[c].staged \in Rows
  BY <1>2, Frames, BlockFields DEF Rows
<1>6. st \in Rows
  <2>1. Page[Current] \in Pages
    BY <1>1, ProgramAssumption
  <2> QED BY <2>1, <1>1, <1>5, StagedRows
<1>7. g \in Block /\ Same(frames[c], g) /\ g.scope = frames[c].scope /\ g.staged = st
  <2> HIDE DEF st
  <2> QED BY <1>5, <1>6, Restaged
<1>8. /\ stack \in Seq(Block) /\ Len(stack) = Depth /\ stack[c] = g
      /\ \A k \in 1 .. Depth : k # c => stack[k] = frames[k]
  <2> HIDE DEF g
  <2> QED BY <1>2, <1>4, <1>7, Setting
<1> HIDE DEF stack, g
<1>9. \A k \in 1 .. Depth : Same(frames[k], stack[k]) /\ stack[k].scope = frames[k].scope
  BY <1>7, <1>8, Keeping
<1>10. step_outputs \in [Steps -> Occurrence \cup {None}]
  BY DEF TypeOK
<1>11. "continue" \in Endings /\ None \in Steps \cup {"signal", None} /\ Done("continue")
  BY Outcomes DEF Endings
<1>12. /\ CompletesAt(Depth, "continue", None)
       /\ \A k \in 1 .. Depth : frames'[k].scope = stack[k].scope /\ frames'[k].staged = stack[k].staged
       /\ step_outputs' = IF Done("continue") THEN [step_outputs EXCEPT ![Current] = Place(frames[Depth])]
                          ELSE step_outputs
       /\ frames' \in Seq(Block) /\ frames' # <<>>
       /\ step_outputs' \in [Steps -> Occurrence \cup {None}]
       /\ executions' \in Seq(Execution) /\ failure' \in Steps \cup {"signal", None}
       /\ flow' \in Endings /\ pc' \in {"step", "return"}
  <2>1. Current = frames[Depth].steps[frames[Depth].at]
    BY <1>1
  <2>2. rows' = rows
    OBVIOUS
  <2> QED BY SMTT(30), <1>1, <1>3, <1>8, <1>9, <1>10, <1>11, <2>1, <2>2, CompleteMeans
<1>13. Logs("continue", None)
  BY <1>1, <1>12 DEF Logs
<1>14. StagesOutput
  <2>1. \A k \in 1 .. Depth : frames'[k].scope = frames[k].scope
    BY <1>9, <1>12
  <2>2. frames'[c].staged = Staged(frames[c].staged, Current)
    BY <1>2, <1>7, <1>8, <1>12
  <2>3. \A k \in 1 .. Depth : k # c => frames'[k].staged = frames[k].staged
    BY <1>8, <1>12
  <2> QED BY <1>2, <2>1, <2>2, <2>3 DEF StagesOutput
<1>15. TypeOK'
  BY <1>12 DEF TypeOK, Endings, world
<1> QED BY <1>13, <1>14, <1>15

(* An action or a wait that succeeds leaves no trace but its output. *)
LEMMA LogsSuccess ==
  ASSUME TypeOK, Stack, ~AtEnd, pc = "busy", Kind[Current] \in {"act", "wait"},
         Complete(frames, step_outputs, Current, "continue", None),
         UNCHANGED <<variables, rows, world, again>>,
         late' = IF stop THEN late + 1 ELSE late
  PROVE  TypeOK' /\ Logs("continue", None) /\ Plain("continue")
<1>1. /\ Depth \in 1 .. Depth /\ Top = frames[Depth] /\ Current \in Steps
      /\ Current = frames[Depth].steps[frames[Depth].at]
      /\ frames[Depth].at <= Len(frames[Depth].steps)
  BY TopFacts
<1>2. frames \in Seq(Block) /\ Len(frames) = Depth /\ \A k \in 1 .. Depth : Same(frames[k], frames[k])
  BY Keeping
<1>3. step_outputs \in [Steps -> Occurrence \cup {None}]
  BY DEF TypeOK
<1>4. "continue" \in Endings /\ None \in Steps \cup {"signal", None} /\ Done("continue")
  BY Outcomes DEF Endings
<1>5. Complete(frames, step_outputs, Current, "continue", None) /\ rows' = rows
  OBVIOUS
<1>6. /\ CompletesAt(Depth, "continue", None)
      /\ \A k \in 1 .. Depth : frames'[k].scope = frames[k].scope /\ frames'[k].staged = frames[k].staged
      /\ step_outputs' = IF Done("continue") THEN [step_outputs EXCEPT ![Current] = Place(frames[Depth])]
                         ELSE step_outputs
      /\ frames' \in Seq(Block) /\ frames' # <<>>
      /\ step_outputs' \in [Steps -> Occurrence \cup {None}]
      /\ executions' \in Seq(Execution) /\ failure' \in Steps \cup {"signal", None}
      /\ flow' \in Endings /\ pc' \in {"step", "return"}
  BY SMTT(30), <1>1, <1>2, <1>3, <1>4, <1>5, CompleteMeans
<1>7. Logs("continue", None)
  BY <1>1, <1>6 DEF Logs
<1>8. Plain("continue")
  BY <1>4, <1>6 DEF Plain
<1>9. TypeOK'
  BY <1>6 DEF TypeOK, Endings, world
<1> QED BY <1>7, <1>8, <1>9

(* A step ends in the block on top, in one of these ways.                   *)
Leaf == \E ending \in Endings, cause \in Steps \cup {None} :
            /\ Logs(ending, cause)
            /\ Plain(ending) \/ (ending = "continue" /\ (Assigns \/ StagesOutput))

(* The checkpoint before a step can only fail it. *)
LEMMA FailAtStepLogs ==
  ASSUME TypeOK, Stack, FailAtStep
  PROVE  TypeOK' /\ Leaf
<1>1. ~AtEnd /\ pc = "step" /\ Complete(frames, step_outputs, Current, "err", Current)
      /\ UNCHANGED <<variables, rows, world, history>>
  BY DEF FailAtStep
<1>2. Current \in Steps
  BY <1>1, TopFacts
<1>3. TypeOK' /\ Logs("err", Current) /\ Plain("err")
  <2>1. UNCHANGED <<variables, rows, world, again>> /\ late' = late
    BY <1>1 DEF history
  <2>2. pc \in {"step", "busy"} /\ "err" \in {"stopped", "err"} /\ Current \in Steps \cup {None}
        /\ late' = IF pc = "busy" /\ stop THEN late + 1 ELSE late
    BY <1>1, <1>2, <2>1
  <2> QED BY <1>1, <2>1, <2>2, LogsFailure
<1> QED BY <1>2, <1>3 DEF Leaf, Endings

(* However a leaf step ends, it ends in the block on top. *)
LEMMA EndLeafLogs ==
  ASSUME TypeOK, Stack, Control, EndLeaf
  PROVE  TypeOK' /\ Leaf
<1>1. pc = "busy" /\ UNCHANGED <<rows, world, again>> /\ late' = IF stop THEN late + 1 ELSE late
  BY DEF EndLeaf
<1>2. ~AtEnd
  BY <1>1 DEF Control
<1>3. Current \in Steps
  BY <1>2, TopFacts
<1>4. CASE Kind[Current] = "set" /\ Assign(Variable[Current], <<Current, Path(frames)>>)
  <2>1. TypeOK' /\ Logs("continue", None) /\ Assigns
    BY <1>1, <1>2, <1>4, LogsSet
  <2> QED BY <2>1 DEF Leaf, Endings
<1>5. CASE /\ Kind[Current] = "output" /\ UNCHANGED variables
           /\ Complete([frames EXCEPT ![ScopeOf(frames)].staged =
                                     Staged(frames[ScopeOf(frames)].staged, Current)],
                  step_outputs, Current, "continue", None)
  <2>1. TypeOK' /\ Logs("continue", None) /\ StagesOutput
    BY <1>1, <1>2, <1>5, LogsOutput
  <2> QED BY <2>1 DEF Leaf, Endings
<1>6. CASE /\ Kind[Current] \in {"act", "wait"} /\ UNCHANGED variables
           /\ Complete(frames, step_outputs, Current, "continue", None)
  <2>1. TypeOK' /\ Logs("continue", None) /\ Plain("continue")
    BY <1>1, <1>2, <1>6, LogsSuccess
  <2> QED BY <2>1 DEF Leaf, Endings
<1>7. CASE Complete(frames, step_outputs, Current, "err", Current) /\ UNCHANGED variables
  <2>1. TypeOK' /\ Logs("err", Current) /\ Plain("err")
    <3>1. pc \in {"step", "busy"} /\ "err" \in {"stopped", "err"} /\ Current \in Steps \cup {None}
          /\ late' = IF pc = "busy" /\ stop THEN late + 1 ELSE late
      BY <1>1, <1>3
    <3> QED BY <1>1, <1>2, <1>7, <3>1, LogsFailure
  <2> QED BY <2>1, <1>3 DEF Leaf, Endings
<1>8. CASE Complete(frames, step_outputs, Current, "stopped", None) /\ UNCHANGED variables /\ stop
  <2>1. TypeOK' /\ Logs("stopped", None) /\ Plain("stopped")
    <3>1. pc \in {"step", "busy"} /\ "stopped" \in {"stopped", "err"} /\ None \in Steps \cup {None}
          /\ "stopped" # "err" /\ late' = IF pc = "busy" /\ stop THEN late + 1 ELSE late
      BY <1>1, <1>3
    <3> QED BY <1>1, <1>2, <1>8, <3>1, LogsFailure
  <2> QED BY <2>1 DEF Leaf, Endings
<1> QED BY <1>4, <1>5, <1>6, <1>7, <1>8 DEF EndLeaf

(* A block that begins is a block, put on top of the others.                *)
LEMMA EntersBlock ==
  ASSUME TypeOK, Stack, ~AtEnd, NEW kind \in {"branch", "loop"}, NEW steps \in Seq(Steps),
         NEW previous \in Value, NEW inherited \in SUBSET Variables,
         frames' = Append(frames, Frame(kind, Current, steps, Path(frames), previous, inherited)),
         kind = "branch" => Kind[Current] = "if" /\ steps \in {Body[Current], Else[Current]},
         kind = "loop" => Current \in Loops /\ steps = Body[Current]
  PROVE  LET g == Frame(kind, Current, steps, Path(frames), previous, inherited) IN
         /\ frames' \in Seq(Block) /\ frames' # <<>> /\ Pushes(g)
         /\ g.staged = <<>> /\ g.scope = Nothing /\ g.kind = kind /\ g.owner = Current
         /\ g.previous = previous /\ g.inherited = inherited
<1> DEFINE g == Frame(kind, Current, steps, Path(frames), previous, inherited)
<1>1. /\ Depth \in 1 .. Depth /\ Top = frames[Depth] /\ Current \in Steps /\ Depth \in Nat
      /\ Current = frames[Depth].steps[frames[Depth].at]
      /\ frames[Depth].at <= Len(frames[Depth].steps)
  BY TopFacts, Frames
<1>2. Path(frames) = Place(Top) /\ Place(Top) \in Occurrence
  BY <1>1, Places DEF Path, Depth
<1>3. Nothing \in [Variables -> Value]
  BY DEF Nothing, Value
<1>4. /\ g.kind = kind /\ g.owner = Current /\ g.steps = steps /\ g.path = Path(frames)
      /\ g.at = 1 /\ g.index = 0 /\ g.staged = <<>> /\ g.previous = previous
      /\ g.inherited = inherited /\ g.scope = Nothing
  BY DEF Frame
<1>5. g = [x \in Fields |-> g[x]]
  BY DEF Frame, Fields
<1> HIDE DEF g
<1>6. g \in Block
  <2>1. <<>> \in Seq([page : Pages \cup {None}, outputs : Seq(Steps)])
    OBVIOUS
  <2>2. /\ g.kind \in {"root", "branch", "loop"} /\ g.owner \in Steps \cup {None}
        /\ g.steps \in Seq(Steps) /\ g.path \in Occurrence /\ g.at \in Nat \ {0} /\ g.index \in Nat
    BY <1>1, <1>2, <1>4
  <2>3. /\ g.staged \in Seq([page : Pages \cup {None}, outputs : Seq(Steps)])
        /\ g.previous \in Value /\ g.inherited \in SUBSET Variables
        /\ g.scope \in [Variables -> Value]
    BY <1>3, <1>4, <2>1
  <2> QED BY <1>5, <2>2, <2>3, IsBlock
<1>7. frames' = Append(frames, g) /\ frames \in Seq(Block) /\ Len(frames) = Depth
  BY Keeping DEF g
<1>8. /\ frames' \in Seq(Block) /\ frames' # <<>> /\ Len(frames') = Depth + 1
      /\ \A k \in 1 .. Depth : frames'[k] = frames[k]
      /\ frames'[Depth + 1] = g
  BY <1>1, <1>6, <1>7
<1>9. Opens(Top, g)
  BY <1>1, <1>2, <1>4 DEF Opens
<1>10. Pushes(g)
  BY <1>4, <1>8, <1>9 DEF Pushes
<1> QED BY <1>4, <1>8, <1>10 DEF g

(* An If begins a branch, or fails where it is. *)
LEMMA BeginIfEnters ==
  ASSUME TypeOK, Stack, NEW s \in Steps, BeginIf(s)
  PROVE  TypeOK' /\ (Leaf \/ \E g \in Block : Enters(g))
<1>1. /\ pc = "step" /\ ~AtEnd /\ ~signal /\ ~stop /\ s = Current /\ Kind[s] = "if"
      /\ UNCHANGED <<variables, rows, world, history>>
  BY DEF BeginIf, Begins, CheckpointStops
<1>2. CASE Complete(frames, step_outputs, s, "err", s)
  <2>1. UNCHANGED <<variables, rows, world, again>> /\ late' = late
    BY <1>1 DEF history
  <2>2. pc \in {"step", "busy"} /\ "err" \in {"stopped", "err"} /\ Current \in Steps \cup {None}
        /\ late' = IF pc = "busy" /\ stop THEN late + 1 ELSE late
    BY <1>1, <2>1
  <2>3. TypeOK' /\ Logs("err", Current) /\ Plain("err")
    BY <1>1, <1>2, <2>1, <2>2, LogsFailure
  <2> QED BY <1>1, <2>3 DEF Leaf, Endings
<1>3. CASE /\ \E steps \in {Body[s], Else[s]} :
                frames' = Append(frames, Frame("branch", s, steps, Path(frames), None,
                                               variable_scope(variables)))
           /\ UNCHANGED <<pc, flow, step_outputs, executions, failure>>
  <2>1. PICK steps \in {Body[s], Else[s]} :
          frames' = Append(frames, Frame("branch", s, steps, Path(frames), None,
                                         variable_scope(variables)))
    BY <1>3
  <2> DEFINE inh == variable_scope(variables)
             g == Frame("branch", s, steps, Path(frames), None, inh)
  <2>2. steps \in Seq(Steps) /\ None \in Value /\ inh \in SUBSET Variables
    BY ProgramAssumption DEF Value, variable_scope
  <2> HIDE DEF inh
  <2>3. /\ frames' \in Seq(Block) /\ frames' # <<>> /\ Pushes(g)
        /\ g.staged = <<>> /\ g.scope = Nothing /\ g.kind = "branch" /\ g.owner = Current
        /\ g.previous = None /\ g.inherited = inh
    <3>1. frames' = Append(frames, Frame("branch", Current, steps, Path(frames), None, inh))
      BY <2>1, <1>1 DEF inh
    <3>2. Kind[Current] = "if" /\ steps \in {Body[Current], Else[Current]}
      BY <1>1
    <3> QED BY <1>1, <2>2, <3>1, <3>2, EntersBlock
  <2> HIDE DEF g
  <2>4. g \in Block
    <3>1. Depth \in Nat
      BY Frames
    <3>2. frames'[Depth + 1] = g /\ Len(frames') = Depth + 1
      BY <2>3 DEF Pushes
    <3> QED BY <2>3, <3>1, <3>2
  <2>5. Enters(g)
    BY <1>1, <1>3, <2>3 DEF Enters, inh
  <2>6. TypeOK'
    BY <1>1, <1>3, <2>3 DEF TypeOK, world, history
  <2> QED BY <2>4, <2>5, <2>6
<1> QED BY <1>1, <1>2, <1>3 DEF BeginIf

(* A loop begins, before its first iteration. *)
LEMMA BeginLoopEnters ==
  ASSUME TypeOK, Stack, NEW s \in Steps, BeginLoop(s)
  PROVE  TypeOK' /\ \E g \in Block : Enters(g)
<1> DEFINE previous == IF Kind[s] = "for" THEN variables[Variable[s]] ELSE None
           g == Frame("loop", s, Body[s], Path(frames), previous, {})
<1>1. /\ pc = "step" /\ ~AtEnd /\ ~signal /\ ~stop /\ s = Current /\ s \in Loops /\ pc' = "next"
      /\ frames' = Append(frames, g)
      /\ UNCHANGED <<flow, variables, step_outputs, executions, rows, failure, world, history>>
  BY DEF BeginLoop, Begins, CheckpointStops
<1>2. Body[s] \in Seq(Steps)
  BY ProgramAssumption
<1>3. previous \in Value
  <2>1. CASE Kind[s] = "for"
    <3>1. Variable[s] \in Variables
      BY <2>1, ProgramAssumption
    <3> QED BY <2>1, <3>1 DEF TypeOK
  <2>2. CASE Kind[s] # "for"
    BY <2>2 DEF Value
  <2> QED BY <2>1, <2>2
<1>4. previous = IF Kind[s] = "for" THEN variables[Variable[s]] ELSE None
  OBVIOUS
<1> HIDE DEF previous
<1>5. /\ frames' \in Seq(Block) /\ frames' # <<>> /\ Pushes(g)
      /\ g.staged = <<>> /\ g.scope = Nothing /\ g.kind = "loop" /\ g.owner = Current
      /\ g.previous = previous /\ g.inherited = {}
  <2>1. frames' = Append(frames, Frame("loop", Current, Body[s], Path(frames), previous, {}))
    BY <1>1
  <2>2. Current \in Loops /\ Body[s] = Body[Current] /\ {} \in SUBSET Variables
    BY <1>1
  <2> QED BY <1>1, <1>2, <1>3, <2>1, <2>2, EntersBlock
<1> HIDE DEF g
<1>6. g \in Block
  <2>1. Depth \in Nat
    BY Frames
  <2>2. frames'[Depth + 1] = g /\ Len(frames') = Depth + 1
    BY <1>5 DEF Pushes
  <2> QED BY <1>5, <2>1, <2>2
<1>7. Enters(g)
  BY <1>1, <1>4, <1>5 DEF Enters
<1>8. TypeOK'
  BY <1>1, <1>5 DEF TypeOK, world, history
<1> QED BY <1>6, <1>7, <1>8

(* What is left of the variables and of the outputs when a block ends.      *)
LEMMA LeftTypes ==
  ASSUME TypeOK, NEW S
  PROVE  /\ leave_variable_scope(variables, S) \in [Variables -> Value]
         /\ clear_step_outputs(step_outputs, S) \in [Steps -> Occurrence \cup {None}]
BY DEF TypeOK, leave_variable_scope, clear_step_outputs, Value

(* A block ends, and its step ends in the block below. *)
LEMMA PopsBlock ==
  ASSUME TypeOK, Stack, Control, Top.kind # "root",
         NEW outputs \in [Steps -> Occurrence \cup {None}], NEW data \in [Variables -> Value],
         NEW ending \in Endings, NEW cause \in Steps \cup {"signal", None},
         Complete(Front(frames), outputs, Top.owner, ending, cause),
         variables' = data, UNCHANGED <<rows, world, history>>,
         ending \in Loops => pc = "return" /\ flow = ending /\ Top.owner # ending,
         ending = "stopped" => stop,
         ending = "err" => \/ pc = "return" /\ flow = "err"
                           \/ pc = "next" /\ cause \in {Top.owner, "signal"}
                                          /\ (cause = "signal" => signal)
  PROVE  TypeOK' /\ Pops(ending, cause, data, outputs)
<1> DEFINE d == Depth - 1
<1>1. /\ Depth \in Nat /\ Depth \in 1 .. Depth /\ Top = frames[Depth] /\ Depth > 0
      /\ frames \in Seq(Block) /\ Len(frames) = Depth
  BY Frames, TopFacts, Keeping
<1>2. Depth > 1
  <2>1. Depth = 1 => Top.kind = "root"
    BY <1>1, Places
  <2> QED BY <1>1, <2>1
<1>3. d \in 1 .. Depth /\ Depth \in 2 .. Depth /\ d \in Nat
  BY <1>1, <1>2
<1>4. Opens(frames[d], frames[Depth])
  BY <1>3 DEF Stack, Chain
<1>5. Front(frames) \in Seq(Block) /\ Len(Front(frames)) = d
      /\ \A k \in 1 .. d : Front(frames)[k] = frames[k]
  BY <1>1, <1>2, Fronts
<1>6. \A k \in 1 .. d : Same(frames[k], Front(frames)[k])
  BY <1>5 DEF Same, Fixed
<1>7. frames[d].at <= Len(frames[d].steps) /\ Top.owner = frames[d].steps[frames[d].at]
  BY <1>1, <1>4 DEF Opens
<1> HIDE DEF d
<1>8. rows' = rows
  OBVIOUS
<1>9. /\ CompletesAt(d, ending, cause)
      /\ \A k \in 1 .. d : /\ frames'[k].scope = Front(frames)[k].scope
                           /\ frames'[k].staged = Front(frames)[k].staged
      /\ Top.owner \in Steps
      /\ step_outputs' = IF Done(ending) THEN [outputs EXCEPT ![Top.owner] = Place(frames[d])]
                         ELSE outputs
      /\ frames' \in Seq(Block) /\ frames' # <<>>
      /\ step_outputs' \in [Steps -> Occurrence \cup {None}]
      /\ executions' \in Seq(Execution) /\ failure' \in Steps \cup {"signal", None}
      /\ flow' \in Endings /\ pc' \in {"step", "return"}
  BY <1>3, <1>5, <1>6, <1>7, <1>8, CompleteMeans
<1>10. Pops(ending, cause, data, outputs)
  BY <1>2, <1>5, <1>9 DEF Pops, d
<1>11. TypeOK'
  BY <1>9 DEF TypeOK, Endings, world, history
<1> QED BY <1>10, <1>11

(* An If ends with its branch. *)
LEMMA ReturnBranchPops ==
  ASSUME TypeOK, Stack, Control, ReturnBranch
  PROVE  TypeOK' /\ \E ending \in Endings, cause \in Steps \cup {"signal", None} :
                        PopsBranch(ending, cause)
<1> DEFINE data == leave_variable_scope(variables, Top.inherited)
           outputs == clear_step_outputs(step_outputs, Inside(Top.steps, Ifs))
<1>1. /\ pc = "return" /\ Top.kind = "branch" /\ variables' = data
      /\ Complete(Front(frames), outputs, Top.owner, flow, Top.owner)
      /\ UNCHANGED <<rows, world, history>>
  BY DEF ReturnBranch
<1>2. data \in [Variables -> Value] /\ outputs \in [Steps -> Occurrence \cup {None}]
  BY LeftTypes
<1> HIDE DEF data, outputs
<1>3. flow \in Endings /\ Top.owner \in Steps \cup {"signal", None} /\ Depth \in 1 .. Depth
      /\ Top = frames[Depth]
  BY TopFacts, Frames DEF TypeOK, Endings
<1>4. flow \in Loops => Top.owner # flow
  <2>1. SUFFICES ASSUME flow \in Loops PROVE Top.owner # flow
    OBVIOUS
  <2>2. PICK k \in DOMAIN frames : IsLoop(frames[k]) /\ frames[k].owner = flow
    BY <2>1 DEF Control, InLoop
  <2>3. k \in 1 .. Depth /\ k # Depth /\ Depth \in Nat
    BY <1>1, <1>3, <2>2, Frames DEF IsLoop
  <2>4. k < Depth
    BY <2>3
  <2> QED BY <1>3, <2>2, <2>3, <2>4, Apart
<1>5. flow = "stopped" => stop
  BY <1>1 DEF Control
<1>6. TypeOK' /\ Pops(flow, Top.owner, data, outputs)
  <2>1. Top.kind # "root"
    BY <1>1
  <2>2. flow = "err" => \/ pc = "return" /\ flow = "err"
                        \/ pc = "next" /\ Top.owner \in {Top.owner, "signal"}
                                       /\ (Top.owner = "signal" => signal)
    BY <1>1
  <2> QED BY <1>1, <1>2, <1>3, <1>4, <1>5, <2>1, <2>2, PopsBlock
<1>7. PopsBranch(flow, Top.owner)
  BY <1>1, <1>6 DEF PopsBranch, data, outputs
<1> QED BY <1>3, <1>6, <1>7

(* A loop that is left ends in the block below. *)
LEMMA LeaveLoopPops ==
  ASSUME TypeOK, Stack, Control, Top.kind = "loop",
         NEW data \in [Variables -> Value], NEW result \in Endings,
         NEW cause \in Steps \cup {"signal", None},
         LeaveLoop(data, result, cause), UNCHANGED <<rows, world, history>>,
         result \in Loops => pc = "return" /\ flow = result,
         result = "stopped" => stop,
         result = "err" => \/ pc = "return" /\ flow = "err"
                           \/ pc = "next" /\ cause \in {Top.owner, "signal"}
                                          /\ (cause = "signal" => signal)
  PROVE  TypeOK' /\ Pops(Ending(Top.owner, result), cause, restored(data, Top),
                         clear_step_outputs(step_outputs, Range(Top.steps)))
<1> DEFINE ending == Ending(Top.owner, result)
           back == restored(data, Top)
           outputs == clear_step_outputs(step_outputs, Range(Top.steps))
<1>1. variables' = back /\ Complete(Front(frames), outputs, Top.owner, ending, cause)
  BY DEF LeaveLoop
<1>2. Depth \in 1 .. Depth /\ Top = frames[Depth] /\ Top.owner \in Loops
  BY TopFacts, Places
<1>3. back \in [Variables -> Value]
  <2>1. CASE Kind[Top.owner] = "for"
    <3>1. Variable[Top.owner] \in Variables
      BY <1>2, <2>1, ProgramAssumption DEF Loops
    <3>2. Top.previous \in Value
      BY <1>2, Frames
    <3> QED BY <2>1, <3>1, <3>2 DEF restored
  <2>2. CASE Kind[Top.owner] # "for"
    BY <2>2 DEF restored
  <2> QED BY <2>1, <2>2
<1>4. outputs \in [Steps -> Occurrence \cup {None}]
  BY LeftTypes
<1>5. /\ ending \in Endings /\ (ending \in Loops => ending = result /\ Top.owner # ending)
      /\ (ending = "stopped" => result = "stopped") /\ (ending = "err" => result = "err")
  BY Outcomes DEF Ending, Endings
<1> HIDE DEF ending, back, outputs
<1>6. Top.kind # "root"
  OBVIOUS
<1>7. /\ ending \in Loops => pc = "return" /\ flow = ending /\ Top.owner # ending
      /\ ending = "stopped" => stop
      /\ ending = "err" => \/ pc = "return" /\ flow = "err"
                           \/ pc = "next" /\ cause \in {Top.owner, "signal"}
                                          /\ (cause = "signal" => signal)
  BY <1>5
<1>8. TypeOK' /\ Pops(ending, cause, back, outputs)
  BY <1>1, <1>3, <1>4, <1>5, <1>6, <1>7, PopsBlock
<1> QED BY <1>8 DEF ending, back, outputs

(* A loop is left when its block returned anything but Continue.            *)
LEMMA ReturnIterationPops ==
  ASSUME TypeOK, Stack, Control, ReturnIteration, flow # "continue"
  PROVE  TypeOK' /\ \E ending \in Endings, cause \in Steps \cup {"signal", None} :
                        PopsLoop(ending, cause)
<1> DEFINE data == leave_variable_scope(variables, Top.inherited)
<1>1. /\ pc = "return" /\ Top.kind = "loop" /\ LeaveLoop(data, flow, Top.owner)
      /\ UNCHANGED <<rows, world, history>>
  BY DEF ReturnIteration
<1>2. data \in [Variables -> Value]
  BY LeftTypes
<1>3. Depth \in 1 .. Depth /\ Top = frames[Depth] /\ Top.owner \in Loops
  BY <1>1, TopFacts, Places
<1>4. flow \in Endings /\ Top.owner \in Steps \cup {"signal", None}
  BY <1>3, Outcomes DEF TypeOK, Endings
<1>5. flow = "stopped" => stop
  BY <1>1 DEF Control
<1> HIDE DEF data
<1>6. TypeOK' /\ Pops(Ending(Top.owner, flow), Top.owner, restored(data, Top),
                      clear_step_outputs(step_outputs, Range(Top.steps)))
  BY <1>1, <1>2, <1>4, <1>5, LeaveLoopPops
<1>7. Ending(Top.owner, flow) \in Endings
  BY <1>4 DEF Ending, Endings
<1>8. PopsLoop(Ending(Top.owner, flow), Top.owner)
  BY <1>1, <1>6 DEF PopsLoop, data
<1> QED BY <1>4, <1>6, <1>7, <1>8

(* Or before an iteration: at its end, for an error or for a stop.          *)
LEMMA NextPops ==
  ASSUME TypeOK, Stack, Control, LoopEnds \/ LoopFails \/ LoopStopped
  PROVE  TypeOK' /\ \E ending \in Endings, cause \in Steps \cup {"signal", None} :
                        PopsLoop(ending, cause)
<1>1. /\ pc = "next" /\ UNCHANGED <<rows, world, history>>
  BY DEF LoopEnds, LoopFails, LoopStopped
<1>2. Top.kind = "loop"
  BY <1>1 DEF Control
<1>3. Depth \in 1 .. Depth /\ Top = frames[Depth] /\ Top.owner \in Loops
  BY <1>2, TopFacts, Places
<1>4. Top.owner \in Steps
  BY <1>3, Outcomes
<1>5. variables \in [Variables -> Value]
  BY DEF TypeOK
<1>6. ASSUME NEW result \in {"continue", "stopped", "err"}, NEW cause \in Steps \cup {"signal", None},
             LeaveLoop(variables, result, cause), result = "stopped" => stop,
             result = "err" => cause \in {Top.owner, "signal"} /\ (cause = "signal" => signal)
      PROVE  TypeOK' /\ PopsLoop(result, cause)
  <2>1. result \in Endings /\ result \notin Loops /\ Ending(Top.owner, result) = result
    BY <1>3, Outcomes DEF Endings, Ending
  <2>2. TypeOK' /\ Pops(Ending(Top.owner, result), cause, restored(variables, Top),
                        clear_step_outputs(step_outputs, Range(Top.steps)))
    BY <1>1, <1>2, <1>5, <1>6, <2>1, LeaveLoopPops
  <2> QED BY <1>1, <1>2, <2>1, <2>2 DEF PopsLoop
<1>7. CASE LoopEnds
  <2>1. LeaveLoop(variables, "continue", None)
    BY <1>7 DEF LoopEnds
  <2>2. TypeOK' /\ PopsLoop("continue", None)
    BY <2>1, <1>6
  <2> QED BY <2>2 DEF Endings
<1>8. CASE LoopFails
  <2>1. \/ LeaveLoop(variables, "err", Top.owner)
        \/ signal /\ LeaveLoop(variables, "err", "signal")
    BY <1>8 DEF LoopFails
  <2>2. CASE LeaveLoop(variables, "err", Top.owner)
    <3>1. Top.owner # "signal"
      BY <1>3, Outcomes
    <3>2. TypeOK' /\ PopsLoop("err", Top.owner)
      BY <2>2, <3>1, <1>4, <1>6
    <3> QED BY <3>2, <1>4 DEF Endings
  <2>3. CASE signal /\ LeaveLoop(variables, "err", "signal")
    <3>1. TypeOK' /\ PopsLoop("err", "signal")
      BY <2>3, <1>6
    <3> QED BY <3>1 DEF Endings
  <2> QED BY <2>1, <2>2, <2>3
<1>9. CASE LoopStopped
  <2>1. stop /\ LeaveLoop(variables, "stopped", None)
    BY <1>9 DEF LoopStopped
  <2>2. TypeOK' /\ PopsLoop("stopped", None)
    BY <2>1, <1>6
  <2> QED BY <2>2 DEF Endings
<1> QED BY <1>7, <1>8, <1>9

(* An iteration has ended, and the loop looks for the next one.             *)
Continues ==
    /\ pc = "return" /\ flow = "continue" /\ Top.kind = "loop" /\ pc' = "next"
    /\ Len(frames') = Depth /\ \A k \in 1 .. Depth : k # Depth => frames'[k] = frames[k]
    /\ Fixed(Top, frames'[Depth]) /\ frames'[Depth].at = Top.at
    /\ frames'[Depth].index = Top.index + 1 /\ frames'[Depth].inherited = Top.inherited
    /\ frames'[Depth].scope = leave_variable_scope(Top.scope, Top.inherited)
    /\ variables' = leave_variable_scope(variables, Top.inherited)
    /\ UNCHANGED <<flow, step_outputs, executions, rows, failure, world, history>>

(* An iteration begins. *)
Binds(l, value) == IF Kind[l] = "for" THEN [variables EXCEPT ![Variable[l]] = value] ELSE variables

Iterates ==
    /\ pc = "next" /\ ~signal /\ ~stop /\ Top.kind = "loop" /\ pc' = "step"
    /\ Len(frames') = Depth /\ \A k \in 1 .. Depth : k # Depth => frames'[k] = frames[k]
    /\ Fixed(Top, frames'[Depth]) /\ frames'[Depth].at = 1
    /\ frames'[Depth].index = Top.index /\ frames'[Depth].staged = <<>>
    /\ \E value \in Value \ {None} :
        /\ variables' = Binds(Top.owner, value)
        /\ frames'[Depth].inherited = variable_scope(Binds(Top.owner, value))
        /\ frames'[Depth].scope = IF Kind[Top.owner] = "for"
                                  THEN [Nothing EXCEPT ![Variable[Top.owner]] = value] ELSE Nothing
    /\ step_outputs' = clear_step_outputs(step_outputs, Range(Top.steps))
    /\ again' = IF InLoop(request) THEN [again EXCEPT ![Top.owner] = @ + 1] ELSE again
    /\ UNCHANGED <<flow, executions, rows, failure, world, late>>

(* The end of an iteration that returned Continue. *)
LEMMA ContinuesMeans ==
  ASSUME TypeOK, Stack, ReturnIteration, flow = "continue"
  PROVE  TypeOK' /\ Continues
<1> DEFINE f == Top
           sc == leave_variable_scope(f.scope, f.inherited)
           g == [f EXCEPT !.index = f.index + 1, !.scope = sc]
<1>1. /\ Depth \in 1 .. Depth /\ Top = frames[Depth] /\ Depth \in Nat /\ frames \in Seq(Block)
      /\ Len(frames) = Depth /\ f \in Block
  BY TopFacts, Frames, Keeping
<1>2. /\ pc = "return" /\ Top.kind = "loop" /\ pc' = "next" /\ frames' = [frames EXCEPT ![Depth] = g]
      /\ variables' = leave_variable_scope(variables, Top.inherited)
      /\ UNCHANGED <<flow, step_outputs, executions, rows, failure, world, history>>
  BY DEF ReturnIteration, IsLoop
<1>3. sc \in [Variables -> Value] /\ f.index + 1 \in Nat
  BY <1>1, BlockFields DEF leave_variable_scope, Value
<1> HIDE DEF f, sc
<1>4. g = [x \in Fields |-> g[x]]
  BY <1>1 DEF Block, Fields
<1>5. /\ g.kind = f.kind /\ g.owner = f.owner /\ g.steps = f.steps /\ g.path = f.path
      /\ g.at = f.at /\ g.index = f.index + 1 /\ g.staged = f.staged
      /\ g.previous = f.previous /\ g.inherited = f.inherited /\ g.scope = sc
  BY <1>1 DEF Block
<1> HIDE DEF g
<1>6. g \in Block
  BY <1>1, <1>3, <1>4, <1>5, BlockFields, IsBlock
<1>7. /\ frames' \in Seq(Block) /\ Len(frames') = Depth /\ frames'[Depth] = g
      /\ \A k \in 1 .. Depth : k # Depth => frames'[k] = frames[k]
  BY <1>1, <1>2, <1>6, Setting
<1>8. Continues
  BY <1>2, <1>5, <1>7 DEF Continues, Fixed, f, sc
<1>9. variables' \in [Variables -> Value]
  BY <1>2, LeftTypes
<1>10. frames' # <<>>
  BY <1>1, <1>7
<1>11. TypeOK'
  BY <1>2, <1>7, <1>9, <1>10 DEF TypeOK, world, history
<1> QED BY <1>8, <1>11

(* The beginning of the next. *)
LEMMA IteratesMeans ==
  ASSUME TypeOK, Stack, Control, BeginIteration
  PROVE  TypeOK' /\ Iterates
<1> DEFINE l == Top.owner
           value == <<l, Path(frames)>>
           data == Binds(l, value)
           f == Top
           sc == IF Kind[l] = "for" THEN [Nothing EXCEPT ![Variable[l]] = value] ELSE Nothing
           inh == variable_scope(data)
           st == <<>>
           g == [f EXCEPT !.at = 1, !.staged = st, !.inherited = inh, !.scope = sc]
<1>1. /\ Depth \in 1 .. Depth /\ Top = frames[Depth] /\ Depth \in Nat /\ frames \in Seq(Block)
      /\ Len(frames) = Depth /\ f \in Block
  BY TopFacts, Frames, Keeping
<1>2. /\ pc = "next" /\ ~signal /\ ~stop /\ pc' = "step"
      /\ variables' = data /\ frames' = [frames EXCEPT ![Depth] = g]
      /\ step_outputs' = clear_step_outputs(step_outputs, Range(Body[l]))
      /\ again' = IF InLoop(request) THEN [again EXCEPT ![l] = @ + 1] ELSE again
      /\ UNCHANGED <<flow, executions, rows, failure, world, late>>
  BY DEF BeginIteration, Binds
<1>3. Top.kind = "loop"
  BY <1>2 DEF Control
<1>4. l \in Loops /\ Top.steps = Body[l]
  <2>1. l \in Loops /\ Depth # 1
    BY <1>1, <1>3, Places
  <2>2. Depth \in 2 .. Depth
    BY <1>1, <2>1
  <2>3. Opens(frames[Depth - 1], frames[Depth])
    BY <2>2 DEF Stack, Chain
  <2> QED BY <1>1, <1>3, <2>1, <2>3 DEF Opens
<1>5. value \in Value /\ value # None
  <2>1. Path(frames) \in Occurrence /\ l \in Steps
    BY <1>1, <1>4, Places, Outcomes DEF Path, Depth
  <2>2. value \in Steps \X Occurrence
    BY <2>1
  <2> QED BY <2>2, MarksAreFresh DEF Value
<1> HIDE DEF value
<1>6. data \in [Variables -> Value] /\ sc \in [Variables -> Value] /\ inh \in SUBSET Variables
  <2>1. Kind[l] = "for" => Variable[l] \in Variables
    BY <1>4, ProgramAssumption DEF Loops
  <2>2. Nothing \in [Variables -> Value]
    BY DEF Nothing, Value
  <2>3. data \in [Variables -> Value]
    BY <1>5, <2>1 DEF Binds, TypeOK
  <2>4. sc \in [Variables -> Value]
    BY <1>5, <2>1, <2>2
  <2>5. inh \in SUBSET Variables
    BY DEF variable_scope
  <2> QED BY <2>3, <2>4, <2>5
<1>7. st \in Seq([page : Pages \cup {None}, outputs : Seq(Steps)])
  OBVIOUS
<1>a. /\ variables' = Binds(Top.owner, value)
      /\ inh = variable_scope(Binds(Top.owner, value))
      /\ sc = IF Kind[Top.owner] = "for"
              THEN [Nothing EXCEPT ![Variable[Top.owner]] = value] ELSE Nothing
      /\ st = <<>>
  BY <1>2
<1> HIDE DEF data, sc, inh, st, f
<1>8. g = [x \in Fields |-> g[x]]
  BY <1>1 DEF Block, Fields
<1>9. /\ g.kind = f.kind /\ g.owner = f.owner /\ g.steps = f.steps /\ g.path = f.path
      /\ g.at = 1 /\ g.index = f.index /\ g.staged = st
      /\ g.previous = f.previous /\ g.inherited = inh /\ g.scope = sc
  BY <1>1 DEF Block
<1> HIDE DEF g
<1>10. g \in Block
  <2>1. /\ f.kind \in {"root", "branch", "loop"} /\ f.owner \in Steps \cup {None}
        /\ f.steps \in Seq(Steps) /\ f.path \in Occurrence /\ f.index \in Nat
        /\ f.previous \in Value
    BY <1>1, BlockFields
  <2>2. /\ g.kind \in {"root", "branch", "loop"} /\ g.owner \in Steps \cup {None}
        /\ g.steps \in Seq(Steps) /\ g.path \in Occurrence /\ g.at \in Nat \ {0} /\ g.index \in Nat
    BY <1>9, <2>1
  <2>3. /\ g.staged \in Seq([page : Pages \cup {None}, outputs : Seq(Steps)])
        /\ g.previous \in Value /\ g.inherited \in SUBSET Variables
        /\ g.scope \in [Variables -> Value]
    BY <1>6, <1>7, <1>9, <2>1
  <2> QED BY <1>8, <2>2, <2>3, IsBlock
<1>11. /\ frames' \in Seq(Block) /\ Len(frames') = Depth /\ frames'[Depth] = g
       /\ \A k \in 1 .. Depth : k # Depth => frames'[k] = frames[k]
  BY <1>1, <1>2, <1>10, Setting
<1>12. Fixed(Top, frames'[Depth])
  BY <1>9, <1>11 DEF Fixed, f
<1>13. /\ frames'[Depth].at = 1 /\ frames'[Depth].index = Top.index /\ frames'[Depth].staged = <<>>
       /\ frames'[Depth].inherited = inh /\ frames'[Depth].scope = sc
  BY <1>9, <1>11, <1>a DEF f
<1>14. step_outputs' = clear_step_outputs(step_outputs, Range(Top.steps))
       /\ again' = IF InLoop(request) THEN [again EXCEPT ![Top.owner] = @ + 1] ELSE again
  BY <1>2, <1>4
<1>15. value \in Value \ {None}
  BY <1>5
<1>16. Iterates
  BY <1>2, <1>3, <1>11, <1>12, <1>13, <1>14, <1>15, <1>a DEF Iterates
<1>17. /\ step_outputs' \in [Steps -> Occurrence \cup {None}] /\ variables' \in [Variables -> Value]
       /\ frames' # <<>>
  BY <1>1, <1>2, <1>6, <1>11, LeftTypes
<1>18. again' \in [Loops -> Nat]
  BY <1>2, <1>4 DEF TypeOK
<1>19. TypeOK'
  BY <1>2, <1>11, <1>17, <1>18 DEF TypeOK, world
<1> QED BY <1>16, <1>19

(* The other actions leave the stack as it is, but for what is staged.      *)
LEMMA SameFrames ==
  ASSUME TypeOK, frames' = frames, UNCHANGED <<variables, step_outputs, executions>>
  PROVE  Stays
BY Keeping DEF Stays

(* The staged rows of the block on top may change. *)
LEMMA StagedFrames ==
  ASSUME TypeOK, Stack, NEW st \in Rows, frames' = [frames EXCEPT ![Depth].staged = st],
         UNCHANGED <<variables, step_outputs, executions>>
  PROVE  Stays /\ frames' \in Seq(Block) /\ frames' # <<>> /\ frames'[Depth].staged = st
<1> DEFINE g == [frames[Depth] EXCEPT !.staged = st]
<1>1. /\ Depth \in 1 .. Depth /\ Depth \in Nat /\ frames \in Seq(Block)
      /\ Len(frames) = Depth /\ frames[Depth] \in Block
  BY TopFacts, Frames, Keeping
<1>2. frames' = [frames EXCEPT ![Depth] = g]
  OBVIOUS
<1>3. g \in Block /\ Same(frames[Depth], g) /\ g.scope = frames[Depth].scope /\ g.staged = st
  BY <1>1, Restaged
<1> HIDE DEF g
<1>4. /\ frames' \in Seq(Block) /\ Len(frames') = Depth /\ frames'[Depth] = g
      /\ \A k \in 1 .. Depth : k # Depth => frames'[k] = frames[k]
  BY <1>1, <1>2, <1>3, Setting
<1>5. \A k \in 1 .. Depth : Same(frames[k], frames'[k]) /\ frames'[k].scope = frames[k].scope
  BY <1>3, <1>4, Keeping
<1>6. \A k \in 1 .. Depth : k < Depth => frames'[k].staged = frames[k].staged
  BY <1>1, <1>4
<1>7. frames' # <<>>
  BY <1>1, <1>4
<1> QED BY <1>3, <1>4, <1>5, <1>6, <1>7 DEF Stays

Idles ==
    \/ StopAtStep \/ \E s \in Steps : BeginLeaf(s)
    \/ EndBlock \/ CommitRow \/ CommitEnds \/ ReturnRoot
    \/ RequestStop \/ SignalFailure \/ (\E l \in Loops : RequestLoopStop(l))
    \/ Finished \/ UNCHANGED vars

(* None of these moves a block, a value or an entry of the log.             *)
LEMMA IdlesMeans ==
  ASSUME TypeOK, Stack, Idles
  PROVE  TypeOK' /\ Stays
<1>0. variables \in [Variables -> Value] /\ frames # <<>> /\ Depth \in 1 .. Depth /\ Top = frames[Depth]
  BY TopFacts DEF TypeOK
<1>1. CASE StopAtStep
  <2>1. frames' = frames /\ UNCHANGED <<variables, step_outputs, executions>>
    BY <1>1 DEF StopAtStep
  <2>2. TypeOK'
    BY <1>1 DEF StopAtStep, Returns, TypeOK, world, history
  <2> QED BY <2>1, <2>2, SameFrames
<1>2. CASE \E s \in Steps : BeginLeaf(s)
  <2>1. frames' = frames /\ UNCHANGED <<variables, step_outputs, executions>>
    BY <1>2 DEF BeginLeaf
  <2>2. TypeOK'
    BY <1>2 DEF BeginLeaf, TypeOK, world, history
  <2> QED BY <2>1, <2>2, SameFrames
<1>3. CASE EndBlock
  <2>1. UNCHANGED <<variables, step_outputs, executions>>
    BY <1>3 DEF EndBlock
  <2> DEFINE st == <<[page |-> None, outputs |-> <<>>]>>
  <2>2. frames' = frames \/ frames' = [frames EXCEPT ![Depth].staged = st]
    BY <1>3 DEF EndBlock
  <2>3. st \in Rows
    <3> DEFINE Row == [page : Pages \cup {None}, outputs : Seq(Steps)]
    <3>1. [page |-> None, outputs |-> <<>>] \in Row
      OBVIOUS
    <3> HIDE DEF Row
    <3>2. st \in Seq(Row)
      BY <3>1
    <3> QED BY <3>2 DEF Rows, Row
  <2> HIDE DEF st
  <2>4. Stays /\ frames' \in Seq(Block) /\ frames' # <<>>
    <3>1. CASE frames' = frames
      BY <3>1, <2>1, SameFrames DEF TypeOK
    <3>2. CASE frames' = [frames EXCEPT ![Depth].staged = st]
      BY <3>2, <2>1, <2>3, StagedFrames
    <3> QED BY <2>2, <3>1, <3>2
  <2>5. TypeOK'
    BY <1>3, <2>4 DEF EndBlock, Returns, TypeOK, world, history
  <2> QED BY <2>4, <2>5
<1>4. CASE CommitRow
  <2> DEFINE st == Tail(Top.staged)
             r == [page |-> Head(Top.staged).page, path |-> Path(frames),
                   outputs |-> Head(Top.staged).outputs]
  <2>1. /\ UNCHANGED <<variables, step_outputs, executions, world, history>>
        /\ rows' = Append(rows, r) /\ Top.staged # <<>>
        /\ frames' = [frames EXCEPT ![Depth].staged = st]
    BY <1>4, <1>0 DEF CommitRow
  <2>2. Top.staged \in Rows
    BY <1>0, Frames, BlockFields DEF Rows
  <2>3. st \in Rows /\ Head(Top.staged) \in [page : Pages \cup {None}, outputs : Seq(Steps)]
    <3> DEFINE Row == [page : Pages \cup {None}, outputs : Seq(Steps)]
    <3>1. Top.staged \in Seq(Row)
      BY <2>2 DEF Rows
    <3> HIDE DEF Row
    <3>2. st \in Seq(Row) /\ Head(Top.staged) \in Row
      BY <3>1, <2>1
    <3> QED BY <3>2 DEF Rows, Row
  <2>4. Path(frames) \in Occurrence
    BY <1>0, Places DEF Path, Depth
  <2>5. r \in [page : Pages \cup {None}, path : Occurrence, outputs : Seq(Steps)]
    BY <2>3, <2>4
  <2> HIDE DEF st, r
  <2>6. Stays /\ frames' \in Seq(Block) /\ frames' # <<>>
    BY <2>1, <2>3, StagedFrames
  <2>7. rows' \in Seq([page : Pages \cup {None}, path : Occurrence, outputs : Seq(Steps)])
    BY <2>1, <2>5 DEF TypeOK
  <2>8. failure' \in Steps \cup {"signal", None} /\ flow' \in {"continue", "stopped", "err"} \cup Loops
        /\ pc' \in {"step", "busy", "commit", "return", "next", "done"}
    BY <1>4 DEF CommitRow, CommitFailure, Returns, TypeOK
  <2>9. TypeOK'
    BY <2>1, <2>6, <2>7, <2>8 DEF TypeOK, world, history
  <2> QED BY <2>6, <2>9
<1>5. CASE CommitEnds
  <2>1. frames' = frames /\ UNCHANGED <<variables, step_outputs, executions>>
    BY <1>5 DEF CommitEnds
  <2>2. InLoop(request) => request \in Loops
    <3>1. ASSUME InLoop(request) PROVE request \in Loops
      <4>1. PICK k \in DOMAIN frames : IsLoop(frames[k]) /\ frames[k].owner = request
        BY <3>1 DEF InLoop
      <4>2. k \in 1 .. Depth
        BY Frames
      <4> QED BY <4>1, <4>2, Places DEF IsLoop
    <3> QED BY <3>1
  <2>3. TypeOK'
    BY <1>5, <2>2 DEF CommitEnds, StopsLoop, Returns, TypeOK, history
  <2> QED BY <2>1, <2>3, SameFrames
<1>6. CASE ReturnRoot
  <2>1. frames' = frames /\ UNCHANGED <<variables, step_outputs, executions>>
    BY <1>6 DEF ReturnRoot
  <2>2. TypeOK'
    BY <1>6 DEF ReturnRoot, TypeOK, world, history
  <2> QED BY <2>1, <2>2, SameFrames
<1>7. CASE RequestStop
  <2>1. frames' = frames /\ UNCHANGED <<variables, step_outputs, executions>>
    BY <1>7 DEF RequestStop
  <2>2. TypeOK'
    BY <1>7 DEF RequestStop, TypeOK
  <2> QED BY <2>1, <2>2, SameFrames
<1>8. CASE SignalFailure
  <2>1. frames' = frames /\ UNCHANGED <<variables, step_outputs, executions>>
    BY <1>8 DEF SignalFailure
  <2>2. TypeOK'
    BY <1>8 DEF SignalFailure, TypeOK
  <2> QED BY <2>1, <2>2, SameFrames
<1>9. CASE \E l \in Loops : RequestLoopStop(l)
  <2>1. frames' = frames /\ UNCHANGED <<variables, step_outputs, executions>>
    BY <1>9 DEF RequestLoopStop
  <2>2. TypeOK'
    BY <1>9 DEF RequestLoopStop, TypeOK
  <2> QED BY <2>1, <2>2, SameFrames
<1>10. CASE UNCHANGED vars
  <2>1. frames' = frames /\ UNCHANGED <<variables, step_outputs, executions>>
    BY <1>10 DEF vars
  <2>2. TypeOK'
    BY <1>10 DEF vars, TypeOK
  <2> QED BY <2>1, <2>2, SameFrames
<1> QED BY <1>1, <1>2, <1>3, <1>4, <1>5, <1>6, <1>7, <1>8, <1>9, <1>10 DEF Idles, Finished

-----------------------------------------------------------------------------
(* The stack and the types hold in every state.                             *)

Moves == \/ Leaf \/ \E g \in Block : Enters(g)
         \/ \E ending \in Endings, cause \in Steps \cup {"signal", None} :
                PopsBranch(ending, cause) \/ PopsLoop(ending, cause)
         \/ Continues \/ Iterates \/ (Idles /\ Stays)

(* Every step is one of these. *)
LEMMA StepMoves ==
  ASSUME TypeOK, Stack, Control, [Next]_vars
  PROVE  TypeOK' /\ Moves
<1>1. CASE FailAtStep
  BY <1>1, FailAtStepLogs DEF Moves
<1>2. ASSUME NEW s \in Steps, BeginIf(s) PROVE TypeOK' /\ Moves
  BY <1>2, BeginIfEnters DEF Moves
<1>3. ASSUME NEW s \in Steps, BeginLoop(s) PROVE TypeOK' /\ Moves
  BY <1>3, BeginLoopEnters DEF Moves
<1>4. CASE EndLeaf
  BY <1>4, EndLeafLogs DEF Moves
<1>5. CASE ReturnBranch
  BY <1>5, ReturnBranchPops DEF Moves
<1>6. CASE ReturnIteration
  BY <1>6, ReturnIterationPops, ContinuesMeans DEF Moves
<1>7. CASE LoopEnds \/ LoopFails \/ LoopStopped
  BY <1>7, NextPops DEF Moves
<1>8. CASE BeginIteration
  BY <1>8, IteratesMeans DEF Moves
<1>9. CASE Idles
  BY <1>9, IdlesMeans DEF Moves
<1> QED BY <1>1, <1>2, <1>3, <1>4, <1>5, <1>6, <1>7, <1>8, <1>9 DEF Next, Execute, Idles

(* A step that ends leaves a stack that is trimmed. *)
LEMMA CompletesTrims ==
  ASSUME TypeOK, NEW d, NEW ending, NEW cause, CompletesAt(d, ending, cause)
  PROVE  Trims(d)
<1>1. d \in 1 .. Depth /\ Len(frames') = d /\ frames[d].at <= Len(frames[d].steps)
      /\ frames[d].at \in Nat /\ Len(frames[d].steps) \in Nat /\ d \in 1 .. d
  BY Frames DEF CompletesAt
<1>2. frames'[d].steps = frames[d].steps
  BY <1>1 DEF CompletesAt, Fixed
<1>3. frames'[d].at = frames[d].at + 1 \/ frames'[d].at = frames[d].at
  BY DEF CompletesAt
<1>4. frames'[d].at <= Len(frames'[d].steps) + 1
  BY <1>1, <1>2, <1>3
<1> QED BY <1>1, <1>4 DEF CompletesAt, Trims

(* So does every other step that begins no block. *)
LEMMA OthersTrim ==
  ASSUME TypeOK, Stack, Stays \/ Continues \/ Iterates
  PROVE  Trims(Depth)
<1>1. /\ Depth \in 1 .. Depth /\ Top = frames[Depth] /\ Depth \in Nat
      /\ \A k \in 1 .. Depth : /\ frames[k].at <= Len(frames[k].steps) + 1
                               /\ Len(frames[k].steps) \in Nat /\ Fixed(frames[k], frames[k])
  BY TopFacts, Frames DEF Stack, Chain, Fixed
<1>2. CASE Stays
  BY <1>1, <1>2 DEF Stays, Trims, Same, Fixed
<1>3. CASE Continues
  BY <1>1, <1>3 DEF Continues, Trims, Fixed
<1>4. CASE Iterates
  BY <1>1, <1>4 DEF Iterates, Trims, Fixed
<1> QED BY <1>2, <1>3, <1>4

(* The stack stays one of blocks of the workflow. *)
LEMMA StackStep ==
  ASSUME TypeOK, TypeOK', Stack, Moves
  PROVE  Stack'
<1>1. CASE Leaf
  <2>1. PICK ending, cause : CompletesAt(Depth, ending, cause)
    BY <1>1 DEF Leaf, Logs
  <2> QED BY <2>1, CompletesTrims, TrimsStack
<1>2. CASE \E g \in Block : Enters(g)
  BY <1>2, PushesStack DEF Enters
<1>3. CASE \E ending \in Endings, cause \in Steps \cup {"signal", None} :
                PopsBranch(ending, cause) \/ PopsLoop(ending, cause)
  <2>1. PICK ending, cause : CompletesAt(Depth - 1, ending, cause)
    BY <1>3 DEF PopsBranch, PopsLoop, Pops
  <2> QED BY <2>1, CompletesTrims, TrimsStack
<1>4. CASE Continues \/ Iterates \/ Stays
  BY <1>4, OthersTrim, TrimsStack
<1> QED BY <1>1, <1>2, <1>3, <1>4 DEF Moves

(* The block on top after a step that ended in block d.                     *)
LEMMA TopAfter ==
  ASSUME TypeOK, TypeOK', NEW d, NEW ending, NEW cause, CompletesAt(d, ending, cause)
  PROVE  /\ Depth' = d /\ Top' = frames'[d] /\ Top'.kind = frames[d].kind
         /\ Top'.owner = frames[d].owner /\ Top'.steps = frames[d].steps
         /\ ~Done(ending) => ~AtEnd'
<1>1. d \in 1 .. Depth /\ Len(frames') = d /\ frames[d].at <= Len(frames[d].steps)
      /\ frames[d].at \in Nat /\ Len(frames[d].steps) \in Nat /\ d \in 1 .. d
  BY Frames DEF CompletesAt
<1>2. Depth' = d /\ Top' = frames'[d]
  BY <1>1 DEF Depth, Top
<1>3. Fixed(frames[d], frames'[d]) /\ (~Done(ending) => frames'[d].at = frames[d].at)
  BY <1>1 DEF CompletesAt
<1> QED BY <1>1, <1>2, <1>3 DEF Fixed, AtEnd

(* Where the executor may stand stays as it is said. *)
LEMMA ControlStep ==
  ASSUME TypeOK, TypeOK', Stack, Stack', Control, Moves
  PROVE  Control'
<1>0. Depth \in 1 .. Depth /\ Top = frames[Depth] /\ Depth \in Nat
  BY TopFacts, Frames
<1>1. CASE Leaf
  <2>1. PICK ending \in Endings, cause \in Steps \cup {None} : Logs(ending, cause)
    BY <1>1 DEF Leaf
  <2>2. /\ CompletesAt(Depth, ending, cause) /\ flow' = ending
        /\ pc' = IF ending = "continue" THEN "step" ELSE "return"
        /\ ending \in {"continue", "stopped", "err"} /\ (ending = "stopped" => stop) /\ stop' = stop
    BY <2>1 DEF Logs, CompletesAt, world
  <2>3. ending = "stopped" => ~AtEnd'
    BY <2>2, TopAfter, Outcomes
  <2>4. ending \notin Loops
    BY <2>2, Outcomes
  <2> QED BY <2>2, <2>3, <2>4 DEF Control
<1>2. CASE \E g \in Block : Enters(g)
  <2>1. PICK g \in Block : Enters(g)
    BY <1>2
  <2>2. Top' = g
    <3>1. Len(frames') = Depth + 1 /\ frames'[Depth + 1] = g
      BY <2>1 DEF Enters, Pushes
    <3> QED BY <3>1 DEF Top, Depth
  <2>3. flow = "continue" /\ flow' = flow
    BY <2>1 DEF Enters, Control
  <2>4. pc' = "step" \/ (pc' = "next" /\ g.kind = "loop")
    BY <2>1 DEF Enters
  <2> QED BY <2>2, <2>3, <2>4, Outcomes DEF Control
<1>3. CASE \E ending \in Endings, cause \in Steps \cup {"signal", None} :
                PopsBranch(ending, cause) \/ PopsLoop(ending, cause)
  <2>1. PICK ending, cause, data, outputs :
            ending \in Endings /\ Pops(ending, cause, data, outputs)
    BY <1>3 DEF PopsBranch, PopsLoop
  <2>2. /\ CompletesAt(Depth - 1, ending, cause) /\ flow' = ending /\ Depth > 1
        /\ pc' = IF ending = "continue" THEN "step" ELSE "return"
        /\ (ending = "stopped" => stop) /\ stop' = stop
        /\ ending \in Loops => pc = "return" /\ flow = ending /\ Top.owner # ending
    BY <2>1 DEF Pops, CompletesAt, world
  <2>3. ending = "stopped" => ~AtEnd'
    BY <2>1, <2>2, TopAfter, Outcomes
  <2>4. ending \in Loops => InLoop(ending)'
    <3>1. SUFFICES ASSUME ending \in Loops PROVE InLoop(ending)'
      OBVIOUS
    <3>2. PICK k \in DOMAIN frames : IsLoop(frames[k]) /\ frames[k].owner = ending
      BY <2>2, <3>1 DEF Control, InLoop
    <3>3. k \in 1 .. Depth /\ k # Depth
      BY <2>2, <3>1, <3>2, <1>0, Frames
    <3>4. k \in 1 .. Depth - 1
      BY <3>3, <1>0
    <3>5. Fixed(frames[k], frames'[k]) /\ Depth' = Depth - 1
      BY <2>2, <3>4, TopAfter DEF CompletesAt
    <3>6. k \in DOMAIN frames'
      <4>1. frames' \in Seq(Block) /\ Len(frames') = Depth - 1
        BY <2>2 DEF TypeOK, CompletesAt
      <4> QED BY <4>1, <3>4
    <3>7. IsLoop(frames'[k]) /\ frames'[k].owner = ending
      BY <3>2, <3>5 DEF Fixed, IsLoop
    <3> QED BY <3>6, <3>7 DEF InLoop
  <2>5. "continue" \notin Loops
    BY Outcomes
  <2>6. flow' \in Loops => pc' = "return" /\ InLoop(flow)'
    <3>1. SUFFICES ASSUME ending \in Loops PROVE pc' = "return" /\ InLoop(flow)'
      BY <2>2
    <3>2. InLoop(ending)' /\ flow' = ending
      BY <2>2, <2>4, <3>1
    <3> QED BY <3>1, <3>2, <2>2, <2>5 DEF InLoop
  <2> QED BY <2>2, <2>3, <2>6 DEF Control
<1>4. CASE Continues
  <2>1. Top'.kind = "loop"
    <3>1. Len(frames') = Depth /\ Fixed(Top, frames'[Depth]) /\ Top.kind = "loop"
      BY <1>4 DEF Continues
    <3> QED BY <3>1 DEF Top, Depth, Fixed
  <2> QED BY <1>4, <2>1, Outcomes DEF Control, Continues
<1>5. CASE Iterates
  <2>1. pc' = "step" /\ flow' = "continue"
    BY <1>5 DEF Control, Iterates
  <2> QED BY <2>1, Outcomes DEF Control
<1>6. CASE Idles /\ Stays
  <2>1. /\ Depth' = Depth /\ Top' = frames'[Depth] /\ Top'.kind = Top.kind /\ Top'.steps = Top.steps
        /\ Top'.at = Top.at
    <3>1. Len(frames') = Depth /\ Same(frames[Depth], frames'[Depth])
      BY <1>6, <1>0 DEF Stays
    <3> QED BY <3>1, <1>0 DEF Top, Depth, Same, Fixed
  <2>2. (AtEnd' <=> AtEnd) /\ Current' = Current
    BY <2>1 DEF AtEnd, Current
  <2>3. ASSUME NEW l \in Loops, InLoop(l) PROVE InLoop(l)'
    <3>1. PICK k \in DOMAIN frames : IsLoop(frames[k]) /\ frames[k].owner = l
      BY <2>3 DEF InLoop
    <3>2. k \in 1 .. Depth
      BY Frames
    <3>3. k \in DOMAIN frames' /\ Same(frames[k], frames'[k])
      <4>1. frames' \in Seq(Block) /\ Len(frames') = Depth
        BY <1>6 DEF TypeOK, Stays
      <4> QED BY <4>1, <3>2, <1>6 DEF Stays
    <3>4. IsLoop(frames'[k]) /\ frames'[k].owner = l
      BY <3>1, <3>3 DEF Same, Fixed, IsLoop
    <3> QED BY <3>3, <3>4 DEF InLoop
  <2>a. ASSUME flow' = flow, pc' = pc, stop => stop' PROVE Control'
    <3>1. flow' \in Loops => pc' = "return" /\ InLoop(flow)'
      <4>1. SUFFICES ASSUME flow \in Loops PROVE pc' = "return" /\ InLoop(flow)'
        BY <2>a
      <4>2. pc = "return" /\ InLoop(flow)
        BY <4>1 DEF Control
      <4>3. \A l \in Loops : InLoop(l) => InLoop(l)'
        BY <2>3
      <4> QED BY <4>1, <4>2, <4>3, <2>a DEF InLoop
    <3> QED BY <2>1, <2>2, <2>a, <3>1 DEF Control
  <2>4. CASE StopAtStep
    BY <2>4, <2>1, <2>2, Outcomes DEF StopAtStep, Returns, Control, CheckpointStops, world
  <2>5. CASE \E s \in Steps : BeginLeaf(s)
    BY <2>5, <2>1, <2>2, Outcomes DEF BeginLeaf, Begins, Control, world
  <2>6. CASE EndBlock
    BY <2>6, <2>1, <2>2, Outcomes DEF EndBlock, Returns, Control, world
  <2>7. CASE CommitRow
    BY <2>7, <2>1, <2>2, Outcomes DEF CommitRow, Returns, Control, world
  <2>8. CASE CommitEnds
    <3>1. pc = "commit" /\ AtEnd /\ pc' = "return" /\ stop' = stop
      BY <2>8 DEF CommitEnds, Control, Returns
    <3>2. CASE flow' = "continue"
      BY <3>1, <3>2, <2>1, <2>2, Outcomes DEF Control
    <3>3. CASE flow' = request /\ InLoop(request)
      <4>1. request \in Loops
        <5>1. PICK k \in DOMAIN frames : IsLoop(frames[k]) /\ frames[k].owner = request
          BY <3>3 DEF InLoop
        <5>2. k \in 1 .. Depth
          BY Frames
        <5> QED BY <5>1, <5>2, Places DEF IsLoop
      <4>3. PICK l \in Loops : l = request
        BY <4>1
      <4>4. InLoop(l)'
        BY <4>3, <3>3, <2>3
      <4>5. InLoop(flow)'
        BY <4>3, <4>4, <3>3 DEF InLoop
      <4>6. flow' \in Loops /\ flow' \notin {"continue", "stopped"}
        BY <3>3, <4>1, Outcomes
      <4> QED BY <3>1, <4>5, <4>6 DEF Control
    <3> QED BY <2>8, <3>2, <3>3 DEF CommitEnds, StopsLoop, Returns
  <2>9. CASE ReturnRoot
    <3>1. pc = "return" /\ Top.kind = "root" /\ pc' = "done" /\ flow' = flow /\ stop' = stop
      BY <2>9 DEF ReturnRoot, world
    <3>2. flow \notin Loops
      <4>1. SUFFICES ASSUME flow \in Loops PROVE FALSE
        OBVIOUS
      <4>2. PICK k \in DOMAIN frames : IsLoop(frames[k])
        BY <4>1 DEF Control, InLoop
      <4>3. k \in 1 .. Depth /\ Depth = 1
        <5>1. Depth > 1 => frames[Depth].kind \in {"branch", "loop"}
          BY <1>0, Places
        <5>2. ~(Depth > 1)
          BY <5>1, <3>1, <1>0
        <5> QED BY <5>2, <1>0, Frames
      <4>4. k = Depth
        BY <4>3
      <4> QED BY <3>1, <4>2, <4>4, <1>0 DEF IsLoop
    <3> QED BY <3>1, <3>2, <2>1, <2>2 DEF Control
  <2>10. CASE RequestStop
    BY <2>10, <2>a DEF RequestStop
  <2>11. CASE SignalFailure
    BY <2>11, <2>a DEF SignalFailure
  <2>12. CASE \E l \in Loops : RequestLoopStop(l)
    BY <2>12, <2>a DEF RequestLoopStop
  <2>13. CASE UNCHANGED vars
    BY <2>13, <2>a DEF vars
  <2> QED BY <1>6, <2>4, <2>5, <2>6, <2>7, <2>8, <2>9, <2>10, <2>11, <2>12, <2>13 DEF Idles, Finished
<1> QED BY <1>1, <1>2, <1>3, <1>4, <1>5, <1>6 DEF Moves

-----------------------------------------------------------------------------
(* The inductive invariant: what a stop allows, what a failure says, ...    *)

Prompt == late <= 1 /\ (late = 1 => stop /\ pc # "busy")

Ends == stop \/ pc = "done" \/ (pc = "return" /\ flow \in {"err", "stopped"})

(* A loop that began an iteration under a request is still in it, inside    *)
(* the loop that was asked, unless the run ends anyway.                     *)
Asked ==
    \A l \in Loops :
        /\ again[l] <= 1
        /\ again[l] = 1 /\ request # None /\ ~Ends =>
            \E r \in 1 .. Depth, k \in 1 .. Depth :
                /\ r <= k /\ frames[r].kind = "loop" /\ frames[k].kind = "loop"
                /\ frames[r].owner = request /\ frames[k].owner = l
                /\ k = Depth => pc \in {"step", "busy", "commit"}
                /\ pc = "return" => flow \notin Loops

FirstFailed(s) ==
    \E k \in DOMAIN executions :
        /\ executions[k].outcome = "failed" /\ executions[k].step = s
        /\ \A h \in 1 .. k - 1 : executions[h].outcome # "failed"

Succeeded(s) == \E k \in DOMAIN executions :
                    executions[k].step = s /\ executions[k].outcome = "succeeded"

Verdict ==
    /\ failure # None <=> pc \in {"return", "done"} /\ flow = "err"
    /\ failure = "signal" => signal
    /\ failure = None => \A k \in DOMAIN executions : executions[k].outcome # "failed"
    /\ failure \in Steps => FirstFailed(failure)
    /\ \A j \in 1 .. Len(Root) : Succeeded(Root[j]) <=> j < frames[1].at

(* ... and the data of every block, as lexical scopes have it.              *)
Live(k) == k < Depth \/ pc # "next"

ForVar(f) == IF f.kind = "loop" /\ Kind[f.owner] = "for" THEN {Variable[f.owner]} ELSE {}

SetVars(f) == {Variable[f.steps[j]] : j \in {i \in 1 .. f.at - 1 : Kind[f.steps[i]] = "set"}}

(* x is the innermost binding of v in the blocks 1 to d. *)
Binding(stack, d, v, x) ==
    \/ x = None /\ \A k \in 1 .. d : stack[k].scope[v] = None
    \/ x # None /\ \E k \in 1 .. d : /\ stack[k].scope[v] = x
                                     /\ \A j \in k + 1 .. d : stack[j].scope[v] = None

(* A block declares what it has set, or its For binds; a For alone shadows. *)
Scopes ==
    /\ \A v \in Variables : Binding(frames, Depth, v, variables[v])
    /\ \A k \in 2 .. Depth : \A v \in ForVar(frames[k]) : Binding(frames, k - 1, v, frames[k].previous)
    /\ \A k \in 2 .. Depth : Live(k) => \A v \in Variables :
        v \in frames[k].inherited <=>
            v \in ForVar(frames[k]) \/ \E j \in 1 .. k - 1 : frames[j].scope[v] # None
    /\ \A k \in 1 .. Depth, v \in Variables : \A j \in 1 .. k - 1 :
        frames[k].scope[v] # None /\ frames[j].scope[v] # None => v \in ForVar(frames[k])
    /\ pc = "next" => \A v \in Variables :
        frames[Depth].scope[v] # None => v \in ForVar(frames[Depth])
    /\ \A k \in 1 .. Depth : Live(k) =>
        /\ \A v \in Variables :
                frames[k].scope[v] # None => v \in ForVar(frames[k]) \cup SetVars(frames[k])
        /\ \A v \in ForVar(frames[k]) \cup SetVars(frames[k]) :
                \E j \in 1 .. k : frames[j].scope[v] # None

Kept ==
    /\ \A s \in Steps : step_outputs[s] # None =>
        \E k \in 1 .. Depth : \E j \in 1 .. frames[k].at - 1 : frames[k].steps[j] = s
    /\ \A k \in 1 .. Depth : \A j \in 1 .. frames[k].at - 1 :
        Live(k) => step_outputs[frames[k].steps[j]] = Place(frames[k])

DataInv == TypeOK /\ Stack /\ Control /\ Prompt /\ Asked /\ Verdict /\ Scopes /\ Kept

-----------------------------------------------------------------------------
(* A stop is prompt.                                                        *)

(* What the block on top, or an ended one, leaves of pc, flow and stop.     *)
LEMMA EndsStays ==
  ASSUME TypeOK, Stack, Control, Moves, Ends
  PROVE  Ends'
<1>1. CASE Leaf
  BY <1>1 DEF Leaf, Logs, Ends, world
<1>2. CASE \E g \in Block : Enters(g)
  BY <1>2 DEF Enters, Ends
<1>3. CASE \E ending \in Endings, cause \in Steps \cup {"signal", None} :
                PopsBranch(ending, cause) \/ PopsLoop(ending, cause)
  <2>1. PICK ending \in Endings, cause \in Steps \cup {"signal", None} :
            PopsBranch(ending, cause) \/ PopsLoop(ending, cause)
    BY <1>3
  <2>2. CASE PopsBranch(ending, cause)
    BY <2>2 DEF PopsBranch, Pops, CompletesAt, Ends, world
  <2>3. CASE PopsLoop(ending, cause)
    <3>1. Top.owner \in Loops
      BY <2>3, TopFacts, Places DEF PopsLoop
    <3>2. flow \in {"err", "stopped"} => Ending(Top.owner, flow) = flow
      BY <3>1, Outcomes DEF Ending
    <3> QED BY <2>3, <3>2 DEF PopsLoop, Pops, CompletesAt, Ends, world
  <2> QED BY <2>1, <2>2, <2>3
<1>4. CASE Continues
  BY <1>4 DEF Continues, Ends, world
<1>5. CASE Iterates
  BY <1>5 DEF Iterates, Ends, world
<1>6. CASE Idles
  BY <1>6 DEF Idles, StopAtStep, BeginLeaf, Begins, EndBlock, CommitRow, CommitEnds, ReturnRoot,
              RequestStop, SignalFailure, RequestLoopStop, Running, Finished, Returns, Ends,
              world, vars
<1> QED BY <1>1, <1>2, <1>3, <1>4, <1>5, <1>6 DEF Moves

(* After a request to stop one step still ends, and none begins. *)
LEMMA PromptStep ==
  ASSUME TypeOK, Stack, Control, Moves, Prompt
  PROVE  Prompt'
<1>0. late \in Nat
  BY DEF TypeOK
<1>1. CASE Leaf
  BY <1>0, <1>1 DEF Leaf, Logs, CompletesAt, Prompt, world
<1>2. CASE \E g \in Block : Enters(g)
  BY <1>2 DEF Enters, Prompt, history, world
<1>3. CASE \E ending \in Endings, cause \in Steps \cup {"signal", None} :
                PopsBranch(ending, cause) \/ PopsLoop(ending, cause)
  BY <1>3 DEF PopsBranch, PopsLoop, Pops, CompletesAt, Prompt, history, world
<1>4. CASE Continues
  BY <1>4 DEF Continues, Prompt, history, world
<1>5. CASE Iterates
  BY <1>5 DEF Iterates, Prompt, history, world
<1>6. CASE Idles
  BY <1>6 DEF Idles, StopAtStep, BeginLeaf, Begins, CheckpointStops, EndBlock, CommitRow,
              CommitEnds, ReturnRoot, RequestStop, SignalFailure, RequestLoopStop, Finished,
              Returns, Prompt, history, world, vars
<1> QED BY <1>1, <1>2, <1>3, <1>4, <1>5, <1>6 DEF Moves

(* The loop l runs inside the loop that was asked. *)
Asks(l, r, k) ==
    /\ r \in 1 .. Depth /\ k \in 1 .. Depth
    /\ r <= k /\ frames[r].kind = "loop" /\ frames[k].kind = "loop"
    /\ frames[r].owner = request /\ frames[k].owner = l
    /\ k = Depth => pc \in {"step", "busy", "commit"}
    /\ pc = "return" => flow \notin Loops

(* What Asked says, by that name. *)
LEMMA AskedMeans ==
  Asked <=> \A l \in Loops : /\ again[l] <= 1
                             /\ again[l] = 1 /\ request # None /\ ~Ends => \E r, k : Asks(l, r, k)
BY DEF Asked, Asks

(* No loop begins twice while one around it is asked to stop. *)
LEMMA AskedStep ==
  ASSUME TypeOK, TypeOK', Stack, Stack', Control, Moves, Asked
  PROVE  Asked'
<1> SUFFICES ASSUME NEW l \in Loops
             PROVE  /\ again'[l] <= 1
                    /\ again'[l] = 1 /\ request' # None /\ ~Ends' => \E r, k : Asks(l, r, k)'
  BY DEF Asked, Asks
<1>0. /\ Depth \in 1 .. Depth /\ Top = frames[Depth] /\ Depth \in Nat /\ Depth' = Len(frames')
      /\ again[l] \in Nat /\ again[l] <= 1
  BY TopFacts, Frames DEF TypeOK, Asked, Depth
<1>1. ~Ends' => ~Ends
  BY EndsStays
<1>2. ASSUME again[l] = 1, request # None, ~Ends' PROVE \E r, k : Asks(l, r, k)
  BY <1>1, <1>2, AskedMeans
<1>3. CASE Leaf
  <2>1. PICK ending \in Endings, cause \in Steps \cup {None} : Logs(ending, cause)
    BY <1>3 DEF Leaf
  <2>2. /\ CompletesAt(Depth, ending, cause) /\ again' = again /\ request' = request /\ flow' = ending
        /\ pc' = IF ending = "continue" THEN "step" ELSE "return"
        /\ ending \in {"continue", "stopped", "err"}
    BY <2>1 DEF Logs, CompletesAt, world
  <2>3. SUFFICES ASSUME again[l] = 1, request # None, ~Ends' PROVE \E r, k : Asks(l, r, k)'
    BY <1>0, <2>2
  <2>4. PICK r, k : Asks(l, r, k)
    BY <1>2, <2>3
  <2>5. pc' = "step"
    BY <2>2, <2>3 DEF Ends
  <2>6. Depth' = Depth /\ Fixed(frames[r], frames'[r]) /\ Fixed(frames[k], frames'[k])
    BY <1>0, <2>2, <2>4 DEF Asks, CompletesAt
  <2>7. Asks(l, r, k)'
    BY <2>2, <2>4, <2>5, <2>6 DEF Asks, Fixed
  <2> QED BY <2>7
<1>4. CASE \E g \in Block : Enters(g)
  <2>1. PICK g \in Block : Enters(g)
    BY <1>4
  <2>2. /\ Depth' = Depth + 1 /\ \A k \in 1 .. Depth : frames'[k] = frames[k]
        /\ again' = again /\ request' = request /\ pc' \in {"step", "next"}
    BY <1>0, <2>1 DEF Enters, Pushes, world, history
  <2>3. SUFFICES ASSUME again[l] = 1, request # None, ~Ends' PROVE \E r, k : Asks(l, r, k)'
    BY <1>0, <2>2
  <2>4. PICK r, k : Asks(l, r, k)
    BY <1>2, <2>3
  <2>5. r \in 1 .. Depth + 1 /\ k \in 1 .. Depth + 1 /\ k # Depth + 1
    BY <1>0, <2>4 DEF Asks
  <2>6. Asks(l, r, k)'
    BY <2>2, <2>4, <2>5 DEF Asks
  <2> QED BY <2>6
<1>5. CASE \E ending \in Endings, cause \in Steps \cup {"signal", None} :
                PopsBranch(ending, cause) \/ PopsLoop(ending, cause)
  <2>1. PICK ending, cause, data, outputs :
            Pops(ending, cause, data, outputs) /\ pc \in {"return", "next"} /\ ending \in Endings
    BY <1>5 DEF PopsBranch, PopsLoop
  <2>2. /\ CompletesAt(Depth - 1, ending, cause) /\ flow' = ending /\ Depth > 1
        /\ again' = again /\ request' = request
        /\ pc' = IF ending = "continue" THEN "step" ELSE "return"
        /\ ending \in Loops => pc = "return" /\ flow = ending
    BY <2>1 DEF Pops, CompletesAt, world, history
  <2>3. SUFFICES ASSUME again[l] = 1, request # None, ~Ends' PROVE \E r, k : Asks(l, r, k)'
    BY <1>0, <2>2
  <2>4. PICK r, k : Asks(l, r, k)
    BY <1>2, <2>3
  <2>5. pc' = "step"
    BY <2>1, <2>2, <2>3, <2>4 DEF Ends, Asks, Endings
  <2>6. Depth' = Depth - 1 /\ k # Depth /\ r \in 1 .. Depth - 1 /\ k \in 1 .. Depth - 1
    BY <1>0, <2>1, <2>2, <2>4 DEF Asks, CompletesAt
  <2>7. Fixed(frames[r], frames'[r]) /\ Fixed(frames[k], frames'[k])
    BY <2>6, <2>2 DEF CompletesAt
  <2>8. Asks(l, r, k)'
    BY <2>2, <2>4, <2>5, <2>6, <2>7 DEF Asks, Fixed
  <2> QED BY <2>8
<1>6. CASE Continues
  <2>1. /\ Depth' = Depth /\ \A k \in 1 .. Depth : k # Depth => frames'[k] = frames[k]
        /\ again' = again /\ request' = request /\ pc' = "next" /\ pc = "return"
        /\ Fixed(frames[Depth], frames'[Depth])
    BY <1>0, <1>6 DEF Continues, world, history
  <2>2. SUFFICES ASSUME again[l] = 1, request # None, ~Ends' PROVE \E r, k : Asks(l, r, k)'
    BY <1>0, <2>1
  <2>3. PICK r, k : Asks(l, r, k)
    BY <1>2, <2>2
  <2>4. k # Depth /\ k < Depth /\ r # Depth
    BY <1>0, <2>1, <2>3 DEF Asks
  <2>5. Asks(l, r, k)'
    BY <2>1, <2>3, <2>4 DEF Asks
  <2> QED BY <2>5
<1>7. CASE Iterates
  <2>1. /\ Depth' = Depth /\ \A k \in 1 .. Depth : k # Depth => frames'[k] = frames[k]
        /\ again' = IF InLoop(request) THEN [again EXCEPT ![Top.owner] = @ + 1] ELSE again
        /\ request' = request /\ pc' = "step" /\ pc = "next" /\ Top.kind = "loop"
        /\ Fixed(frames[Depth], frames'[Depth])
    BY <1>0, <1>7 DEF Iterates, world
  <2>2. \A k \in 1 .. Depth : Fixed(frames[k], frames'[k])
    BY <2>1 DEF Fixed
  <2>3. ASSUME NEW r, NEW k, r \in 1 .. Depth, k \in 1 .. Depth, r <= k,
               frames[r].kind = "loop", frames[k].kind = "loop", frames[r].owner = request,
               frames[k].owner = l
        PROVE  Asks(l, r, k)'
    BY <2>1, <2>2, <2>3 DEF Asks, Fixed
  <2>4. CASE l = Top.owner /\ InLoop(request)
    <3>1. PICK r \in DOMAIN frames : IsLoop(frames[r]) /\ frames[r].owner = request
      BY <2>4 DEF InLoop
    <3>2. r \in 1 .. Depth /\ r <= Depth /\ frames[r].kind = "loop"
      BY <3>1, <1>0, Frames DEF IsLoop
    <3>3. Asks(l, r, Depth)'
      BY <3>1, <3>2, <2>1, <2>3, <2>4, <1>0
    <3>4. again[l] = 0 \/ Ends'
      <4>1. SUFFICES ASSUME again[l] = 1, ~Ends' PROVE FALSE
        BY <1>0
      <4>2. request # None
        <5>1. frames[r].owner \in Loops
          BY <3>2, Places
        <5> QED BY <3>1, <5>1, Outcomes
      <4>3. PICK x, k : Asks(l, x, k)
        BY <4>1, <4>2, <1>2
      <4>4. k \in 1 .. Depth /\ k # Depth /\ frames[k].owner = frames[Depth].owner
        BY <4>3, <2>1, <2>4, <1>0 DEF Asks
      <4>5. k < Depth
        BY <4>4, <1>0
      <4> QED BY <4>4, <4>5, <1>0, Apart
    <3>5. ~Ends'
      BY <1>7 DEF Iterates, Ends, world
    <3>6. again'[l] = again[l] + 1
      BY <2>1, <2>4 DEF TypeOK
    <3> QED BY <3>3, <3>4, <3>5, <3>6
  <2>5. CASE ~(l = Top.owner /\ InLoop(request))
    <3>1. again'[l] = again[l]
      BY <2>1, <2>5 DEF TypeOK
    <3>2. SUFFICES ASSUME again[l] = 1, request # None, ~Ends' PROVE \E r, k : Asks(l, r, k)'
      BY <3>1, <1>0, <2>1
    <3>3. PICK r, k : Asks(l, r, k)
      BY <1>2, <3>2
    <3>4. Asks(l, r, k)'
      BY <3>3, <2>3 DEF Asks
    <3> QED BY <3>4
  <2> QED BY <2>4, <2>5
<1>8. CASE Idles /\ Stays
  <2>1. Depth' = Depth /\ \A k \in 1 .. Depth : Fixed(frames[k], frames'[k])
    BY <1>0, <1>8 DEF Stays, Same
  <2>2. CASE \E m \in Loops : RequestLoopStop(m)
    <3>1. again'[l] = 0
      BY <2>2 DEF RequestLoopStop
    <3> QED BY <3>1
  <2>3. CASE ~\E m \in Loops : RequestLoopStop(m)
    <3>1. again' = again /\ (request' = request \/ request' = None)
      BY <1>8, <2>3 DEF Idles, StopAtStep, BeginLeaf, EndBlock, CommitRow, CommitEnds, ReturnRoot,
              RequestStop, SignalFailure, Finished, history, world, vars
    <3>2. SUFFICES ASSUME again[l] = 1, request # None, request' = request, ~Ends'
                   PROVE  \E r, k : Asks(l, r, k)'
      BY <1>0, <3>1
    <3>3. PICK r, k : Asks(l, r, k)
      BY <1>2, <3>2
    <3>4. InLoop(request) /\ frames[k].kind = "loop" /\ k \in 1 .. Depth /\ ~stop
      <4>1. r \in DOMAIN frames /\ IsLoop(frames[r]) /\ frames[r].owner = request
        BY <3>3, Frames DEF Asks, IsLoop
      <4>2. ~stop
        BY <3>2, <1>1 DEF Ends
      <4> QED BY <4>1, <4>2, <3>3 DEF Asks, InLoop
    <3>5. \/ pc' = pc /\ flow' = flow
          \/ pc' \in {"step", "busy", "commit"} /\ pc \in {"step", "busy", "commit"}
          \/ pc' = "return" /\ flow' = "continue" /\ Top.kind # "loop"
      <4>1. CASE StopAtStep
        BY <4>1, <3>2 DEF StopAtStep, Returns, Ends
      <4>2. CASE \E s \in Steps : BeginLeaf(s)
        BY <4>2 DEF BeginLeaf, Begins
      <4>3. CASE EndBlock
        BY <4>3 DEF EndBlock, Returns
      <4>4. CASE CommitRow
        BY <4>4, <3>2 DEF CommitRow, Returns, Ends
      <4>5. CASE CommitEnds
        <5>1. request' = None
          BY <4>5, <3>4 DEF CommitEnds, StopsLoop
        <5> QED BY <5>1, <3>2
      <4>6. CASE ReturnRoot
        BY <4>6, <3>2 DEF ReturnRoot, Ends
      <4>7. CASE RequestStop \/ SignalFailure \/ UNCHANGED vars
        BY <4>7 DEF RequestStop, SignalFailure, vars
      <4> QED BY <1>8, <2>3, <4>1, <4>2, <4>3, <4>4, <4>5, <4>6, <4>7 DEF Idles, Finished
    <3>6. k = Depth => frames[k].kind = Top.kind
      BY <1>0
    <3>7. /\ k = Depth => pc' \in {"step", "busy", "commit"}
          /\ pc' = "return" => flow' \notin Loops
      BY <3>3, <3>4, <3>5, <3>6, Outcomes DEF Asks
    <3>8. r \in 1 .. Depth' /\ k \in 1 .. Depth' /\ Fixed(frames[r], frames'[r]) /\ Fixed(frames[k], frames'[k])
      BY <2>1, <3>3 DEF Asks
    <3>9. Asks(l, r, k)'
      BY <2>1, <3>2, <3>3, <3>7, <3>8 DEF Asks, Fixed
    <3> QED BY <3>9
  <2> QED BY <2>2, <2>3
<1> QED BY <1>3, <1>4, <1>5, <1>6, <1>7, <1>8 DEF Moves

-----------------------------------------------------------------------------
(* How a run ends.                                                          *)

(* The log when the step that block d is at has ended. *)
LEMMA LogGrows ==
  ASSUME TypeOK, NEW d, NEW ending, NEW cause, CompletesAt(d, ending, cause)
  PROVE  /\ Len(executions) \in Nat /\ DOMAIN executions = 1 .. Len(executions)
         /\ DOMAIN executions' = 1 .. Len(executions) + 1
         /\ \A k \in 1 .. Len(executions) : executions'[k] = executions[k]
         /\ executions'[Len(executions) + 1].step = frames[d].steps[frames[d].at]
         /\ executions'[Len(executions) + 1].path = Place(frames[d])
         /\ executions'[Len(executions) + 1].outcome = Outcome(ending)
         /\ frames[d].steps[frames[d].at] \in Steps
         /\ frames[d].steps[frames[d].at] \in Range(frames[d].steps)
<1> DEFINE e == [step |-> frames[d].steps[frames[d].at], path |-> Place(frames[d]),
                 outcome |-> Outcome(ending)]
<1>1. executions \in Seq(Execution) /\ executions' = Append(executions, e)
  BY DEF TypeOK, CompletesAt
<1>2. /\ e.step = frames[d].steps[frames[d].at] /\ e.path = Place(frames[d])
      /\ e.outcome = Outcome(ending)
  OBVIOUS
<1> HIDE DEF e
<1>3. /\ Len(executions) \in Nat /\ DOMAIN executions = 1 .. Len(executions)
      /\ DOMAIN executions' = 1 .. Len(executions) + 1
      /\ \A k \in 1 .. Len(executions) : executions'[k] = executions[k]
      /\ executions'[Len(executions) + 1] = e
  BY <1>1
<1>4. d \in 1 .. Depth /\ frames[d].at <= Len(frames[d].steps)
  BY DEF CompletesAt
<1>5. /\ frames[d].steps \in Seq(Steps) /\ frames[d].at \in Nat /\ frames[d].at > 0
      /\ Len(frames[d].steps) \in Nat
  BY <1>4, Frames
<1>6. frames[d].at \in DOMAIN frames[d].steps
  BY <1>4, <1>5
<1>7. frames[d].steps[frames[d].at] \in Steps
  BY <1>5, <1>6
<1>8. frames[d].steps[frames[d].at] \in Range(frames[d].steps)
  BY <1>6 DEF Range
<1> QED BY <1>2, <1>3, <1>7, <1>8

(* The root's step that has ended is the one the root was at. *)
RootPassed == \A j \in 1 .. Len(Root) : Succeeded(Root[j]) <=> j < frames[1].at

(* What the end of a step leaves to prove of the verdict. *)
LEMMA VerdictCompletes ==
  ASSUME TypeOK, TypeOK', Stack, Verdict, NEW d, NEW ending, NEW cause, CompletesAt(d, ending, cause),
         signal' = signal,
         failure # None => ending = "err",
         ending = "err" /\ failure = None =>
            /\ cause \in {frames[d].steps[frames[d].at], "signal"}
            /\ cause = "signal" => signal
  PROVE  Verdict'
<1> DEFINE n == Len(executions)
           s == frames[d].steps[frames[d].at]
           e == executions'[n + 1]
<1>1. /\ n \in Nat /\ DOMAIN executions = 1 .. n /\ DOMAIN executions' = 1 .. n + 1
      /\ \A k \in 1 .. n : executions'[k] = executions[k]
      /\ e.step = s /\ e.outcome = Outcome(ending) /\ s \in Steps
  BY LogGrows
<1>2. /\ flow' = ending /\ pc' = IF ending = "continue" THEN "step" ELSE "return"
      /\ failure' = IF ending = "err" /\ failure = None THEN cause ELSE failure
      /\ d \in 1 .. Depth /\ ending \in Endings /\ frames[d].at <= Len(frames[d].steps)
  BY DEF CompletesAt
<1>3. None \notin Steps /\ None # "signal" /\ "signal" \notin Steps
  BY MarksAreFresh
<1>4. failure' # None <=> pc' \in {"return", "done"} /\ flow' = "err"
  BY <1>1, <1>2, <1>3
<1>5. failure' = "signal" => signal'
  BY <1>1, <1>2, <1>3 DEF Verdict
<1>6. ending # "err" => Outcome(ending) # "failed"
  BY DEF Outcome
<1>7. ending = "err" => Outcome(ending) = "failed"
  BY DEF Outcome
<1> HIDE DEF n, s, e
<1>8. failure' = None => \A k \in DOMAIN executions' : executions'[k].outcome # "failed"
  <2>1. SUFFICES ASSUME failure' = None, NEW k \in 1 .. n + 1
                 PROVE  executions'[k].outcome # "failed"
    BY <1>1
  <2>2. failure = None /\ ending # "err"
    BY <2>1, <1>2, <1>3, <1>1 DEF s
  <2>3. CASE k = n + 1
    BY <2>3, <2>2, <1>1, <1>6 DEF e
  <2>4. CASE k # n + 1
    <3>1. k \in 1 .. n
      BY <2>4, <1>1
    <3> QED BY <3>1, <2>2, <1>1 DEF Verdict
  <2> QED BY <2>3, <2>4
<1>9. failure' \in Steps => FirstFailed(failure)'
  <2>1. SUFFICES ASSUME failure' \in Steps
        PROVE \E k \in 1 .. n + 1 :
                /\ executions'[k].outcome = "failed" /\ executions'[k].step = failure'
                /\ \A h \in 1 .. k - 1 : executions'[h].outcome # "failed"
    BY <1>1 DEF FirstFailed
  <2>2. CASE failure = None
    <3>1. ending = "err" /\ failure' = s
      BY <2>1, <2>2, <1>2, <1>3 DEF s
    <3>2. \A h \in 1 .. n : executions'[h].outcome # "failed"
      BY <2>2, <1>1 DEF Verdict
    <3>3. n + 1 \in 1 .. n + 1 /\ (n + 1) - 1 = n
      BY <1>1
    <3> QED BY <3>1, <3>2, <3>3, <1>1, <1>7 DEF e
  <2>3. CASE failure # None
    <3>1. failure' = failure
      BY <2>3, <1>2
    <3>2. PICK k \in 1 .. n :
                /\ executions[k].outcome = "failed" /\ executions[k].step = failure
                /\ \A h \in 1 .. k - 1 : executions[h].outcome # "failed"
      BY <3>1, <2>1, <1>1 DEF Verdict, FirstFailed
    <3>3. k \in 1 .. n + 1 /\ \A h \in 1 .. k - 1 : h \in 1 .. n
      BY <1>1
    <3> QED BY <3>1, <3>2, <3>3, <1>1
  <2> QED BY <2>2, <2>3
<1>10. RootPassed'
  <2>0. /\ Depth \in Nat /\ 1 \in 1 .. Depth /\ frames[1].steps = Root /\ frames[1].at \in Nat
        /\ frames[1].at > 0 /\ Root \in Seq(Steps) /\ Len(Root) \in Nat
    BY Frames, Tree DEF Stack, Chain
  <2>1. ASSUME NEW j \in 1 .. Len(Root) PROVE Succeeded(Root[j])' <=> j < frames'[1].at
    <3>1. Succeeded(Root[j])' <=> Succeeded(Root[j]) \/ (s = Root[j] /\ Done(ending))
      <4>1. Succeeded(Root[j])' <=> \E k \in 1 .. n + 1 :
                executions'[k].step = Root[j] /\ executions'[k].outcome = "succeeded"
        BY <1>1 DEF Succeeded
      <4>2. Succeeded(Root[j]) <=> \E k \in 1 .. n :
                executions[k].step = Root[j] /\ executions[k].outcome = "succeeded"
        BY <1>1 DEF Succeeded
      <4>3. \A k \in 1 .. n + 1 : k \in 1 .. n \/ k = n + 1
        BY <1>1
      <4>4. n + 1 \in 1 .. n + 1 /\ \A k \in 1 .. n : k \in 1 .. n + 1
        BY <1>1
      <4> QED BY <4>1, <4>2, <4>3, <4>4, <1>1 DEF e, Done
    <3>2. Succeeded(Root[j]) <=> j < frames[1].at
      BY DEF Verdict
    <3>3. Root[j] \in Range(Root)
      BY <2>0 DEF Range
    <3>4. CASE d = 1
      <4>1. s = Root[frames[1].at] /\ frames[1].at <= Len(Root)
        BY <3>4, <1>2, <2>0 DEF s
      <4>2. s = Root[j] <=> j = frames[1].at
        <5>1. Root \in Blocks /\ j \in Nat \ {0} /\ j <= Len(Root) /\ frames[1].at \in Nat \ {0}
          BY <2>0 DEF Blocks
        <5> QED BY <5>1, <4>1, Tree
      <4>3. frames'[1].at = IF Done(ending) THEN frames[1].at + 1 ELSE frames[1].at
        BY <3>4 DEF CompletesAt
      <4> QED BY <3>1, <3>2, <4>2, <4>3, <2>0
    <3>5. CASE d # 1
      <4>1. d > 1 /\ 1 < d /\ 1 \in 1 .. d
        BY <3>5, <1>2, <2>0
      <4>2. s \in Range(frames[d].steps)
        BY LogGrows DEF s
      <4>3. Range(frames[1].steps) \cap Range(frames[d].steps) = {}
        BY <4>1, <2>0, <1>2, Apart
      <4>4. s # Root[j]
        BY <4>2, <4>3, <3>3, <2>0
      <4>5. frames'[1].at = frames[1].at
        BY <4>1 DEF CompletesAt
      <4> QED BY <3>1, <3>2, <4>4, <4>5
    <3> QED BY <3>4, <3>5
  <2> QED BY <2>1 DEF RootPassed
<1> QED BY <1>4, <1>5, <1>8, <1>9, <1>10 DEF Verdict, RootPassed

(* Where no step ends, the log and the root stay. *)
LEMMA VerdictStays ==
  ASSUME Verdict, frames'[1].at = frames[1].at, executions' = executions,
         failure' # None <=> pc' \in {"return", "done"} /\ flow' = "err",
         failure' = failure \/ (failure = None /\ failure' = "signal" /\ signal'),
         signal => signal'
  PROVE  Verdict'
<1>1. RootPassed'
  BY DEF Verdict, RootPassed, Succeeded
<1>2. failure' = "signal" => signal'
  BY DEF Verdict
<1>3. failure' \in Steps => failure' = failure
  BY MarksAreFresh
<1>4. failure' = None => \A k \in DOMAIN executions' : executions'[k].outcome # "failed"
  BY MarksAreFresh DEF Verdict
<1>5. failure' \in Steps => FirstFailed(failure)'
  BY <1>3 DEF Verdict, FirstFailed
<1> QED BY <1>1, <1>2, <1>4, <1>5 DEF Verdict, RootPassed

(* The failure that is kept says how the run goes. *)
LEMMA VerdictStep ==
  ASSUME TypeOK, TypeOK', Stack, Stack', Control, Moves, Verdict
  PROVE  Verdict'
<1>0. /\ Depth \in 1 .. Depth /\ Top = frames[Depth] /\ Depth \in Nat /\ 1 \in 1 .. Depth
      /\ failure # None <=> pc \in {"return", "done"} /\ flow = "err"
  BY TopFacts, Frames DEF Verdict
<1>1. CASE Leaf
  <2>1. PICK ending \in Endings, cause \in Steps \cup {None} : Logs(ending, cause)
    BY <1>1 DEF Leaf
  <2>2. /\ CompletesAt(Depth, ending, cause) /\ signal' = signal /\ pc \in {"step", "busy"}
        /\ ending = "err" => cause = Current
    BY <2>1 DEF Logs, world
  <2>3. Current = frames[Depth].steps[frames[Depth].at]
    BY <1>0 DEF Current
  <2>4. Current \in Steps
    BY <2>2, <2>3, LogGrows
  <2>5. Current # "signal"
    BY <2>4, MarksAreFresh
  <2> QED BY <1>0, <2>2, <2>3, <2>5, VerdictCompletes
<1>2. CASE \E g \in Block : Enters(g)
  <2>1. /\ frames'[1] = frames[1] /\ executions' = executions /\ failure' = failure /\ signal' = signal
        /\ flow' = flow /\ pc' \in {"step", "next"} /\ pc = "step"
    BY <1>0, <1>2 DEF Enters, Pushes, world
  <2> QED BY <2>1, <1>0, VerdictStays
<1>3. CASE \E ending \in Endings, cause \in Steps \cup {"signal", None} :
                PopsBranch(ending, cause) \/ PopsLoop(ending, cause)
  <2>1. PICK ending \in Endings, cause \in Steps \cup {"signal", None} :
            PopsBranch(ending, cause) \/ PopsLoop(ending, cause)
    BY <1>3
  <2>2. PICK data, outputs : Pops(ending, cause, data, outputs)
    BY <2>1 DEF PopsBranch, PopsLoop
  <2>3. /\ CompletesAt(Depth - 1, ending, cause) /\ signal' = signal /\ Depth > 1
        /\ ending = "err" => \/ pc = "return" /\ flow = "err"
                             \/ cause \in {Top.owner, "signal"} /\ (cause = "signal" => signal)
    BY <2>2 DEF Pops, world
  <2>4. Top.owner = frames[Depth - 1].steps[frames[Depth - 1].at]
    <3>1. Depth \in 2 .. Depth
      BY <1>0, <2>3
    <3> QED BY <3>1, <1>0 DEF Stack, Chain, Opens
  <2>5. failure # None => ending = "err"
    <3>1. Top.kind = "loop" => Top.owner \in Loops
      BY <1>0, Places
    <3>2. Top.owner \in Loops => Ending(Top.owner, "err") = "err"
      BY Outcomes DEF Ending
    <3> QED BY <1>0, <2>1, <3>1, <3>2 DEF PopsBranch, PopsLoop
  <2> QED BY <1>0, <2>3, <2>4, <2>5, VerdictCompletes
<1>4. CASE Continues
  <2>1. /\ frames'[1].at = frames[1].at /\ executions' = executions /\ failure' = failure /\ signal' = signal
        /\ flow' = flow /\ pc' = "next" /\ flow = "continue"
    BY <1>0, <1>4 DEF Continues, world
  <2> QED BY <2>1, <1>0, VerdictStays
<1>5. CASE Iterates
  <2>1. Depth # 1
    BY <1>0, <1>5, Places DEF Iterates
  <2>2. /\ frames'[1].at = frames[1].at /\ executions' = executions /\ failure' = failure /\ signal' = signal
        /\ flow' = flow /\ pc' = "step" /\ pc = "next"
    BY <1>0, <2>1, <1>5 DEF Iterates, world
  <2> QED BY <2>2, <1>0, VerdictStays
<1>6. CASE Idles /\ Stays
  <2>1. frames'[1].at = frames[1].at /\ executions' = executions
    BY <1>0, <1>6 DEF Stays, Same
  <2>2. pc \in {"step", "busy", "commit"} => flow = "continue" /\ failure = None
    BY <1>0 DEF Control
  <2>3. CASE StopAtStep \/ (\E s \in Steps : BeginLeaf(s)) \/ EndBlock
    <3>1. failure' = failure /\ signal' = signal /\ failure = None /\ flow' # "err"
      BY <2>2, <2>3 DEF StopAtStep, BeginLeaf, Begins, EndBlock, Returns, world
    <3> QED BY <2>1, <3>1, VerdictStays
  <2>4. CASE CommitRow
    <3>1. /\ \/ failure' = failure /\ flow' = flow /\ pc' = pc
             \/ failure' = "signal" /\ flow' = "err" /\ pc' = "return" /\ signal
          /\ signal' = signal /\ failure = None /\ flow = "continue"
      BY <2>2, <2>4 DEF CommitRow, CommitFailure, Returns, world
    <3>2. None # "signal"
      BY MarksAreFresh
    <3>3. failure' # None <=> pc' \in {"return", "done"} /\ flow' = "err"
      BY <3>1, <3>2
    <3> QED BY <2>1, <3>1, <3>3, VerdictStays
  <2>5. CASE CommitEnds
    <3>1. failure' = failure /\ signal' = signal /\ failure = None /\ (flow' = "continue" \/ InLoop(flow'))
      BY <2>2, <2>5 DEF CommitEnds, StopsLoop, Returns
    <3>2. InLoop(flow') => flow' # "err"
      <4>1. ASSUME InLoop(flow') PROVE flow' # "err"
        <5>1. PICK k \in DOMAIN frames : IsLoop(frames[k]) /\ frames[k].owner = flow'
          BY <4>1 DEF InLoop
        <5>2. frames[k].owner \in Loops
          BY <5>1, Frames, Places DEF IsLoop
        <5> QED BY <5>1, <5>2, Outcomes
      <4> QED BY <4>1
    <3> QED BY <2>1, <3>1, <3>2, VerdictStays
  <2>6. CASE ReturnRoot
    <3>1. failure' = failure /\ signal' = signal /\ flow' = flow /\ pc' = "done" /\ pc = "return"
      BY <2>6 DEF ReturnRoot, world
    <3> QED BY <1>0, <2>1, <3>1, VerdictStays
  <2>7. CASE RequestStop \/ SignalFailure \/ (\E l \in Loops : RequestLoopStop(l)) \/ UNCHANGED vars
    <3>1. failure' = failure /\ (signal => signal') /\ flow' = flow /\ pc' = pc
      BY <2>7 DEF RequestStop, SignalFailure, RequestLoopStop, vars
    <3> QED BY <1>0, <2>1, <3>1, VerdictStays
  <2> QED BY <1>6, <2>3, <2>4, <2>5, <2>6, <2>7 DEF Idles, Finished
<1> QED BY <1>1, <1>2, <1>3, <1>4, <1>5, <1>6 DEF Moves

-----------------------------------------------------------------------------
(* The outputs that can be read.                                            *)

(* The step a block is at is nowhere else on the stack. *)
LEMMA Here ==
  ASSUME TypeOK, Stack, NEW d \in 1 .. Depth, frames[d].at <= Len(frames[d].steps)
  PROVE  \A k \in 1 .. d : \A j \in 1 .. Len(frames[k].steps) :
            frames[k].steps[j] = frames[d].steps[frames[d].at] => k = d /\ j = frames[d].at
<1> SUFFICES ASSUME NEW k \in 1 .. d, NEW j \in 1 .. Len(frames[k].steps),
                    frames[k].steps[j] = frames[d].steps[frames[d].at]
             PROVE  k = d /\ j = frames[d].at
  OBVIOUS
<1>1. /\ Depth \in Nat /\ d \in Nat /\ k \in 1 .. Depth /\ k <= d
      /\ frames[d].steps \in Seq(Steps) /\ frames[k].steps \in Seq(Steps)
      /\ frames[d].at \in Nat /\ frames[d].at > 0
  BY Frames
<1>2. frames[k].steps[j] \in Range(frames[k].steps)
  <2>1. j \in DOMAIN frames[k].steps
    BY <1>1
  <2> QED BY <2>1 DEF Range
<1>3. frames[d].steps[frames[d].at] \in Range(frames[d].steps)
  <2>1. frames[d].at \in DOMAIN frames[d].steps
    BY <1>1
  <2> QED BY <2>1 DEF Range
<1>4. k = d
  <2>1. k < d => Range(frames[k].steps) \cap Range(frames[d].steps) = {}
    BY <1>1, Apart
  <2>2. ~(k < d)
    BY <2>1, <1>2, <1>3
  <2> QED BY <2>2, <1>1
<1>5. j = frames[d].at
  <2>1. frames[d].steps \in Blocks
    BY Places
  <2>2. j \in Nat \ {0} /\ frames[d].at \in Nat \ {0} /\ j <= Len(frames[d].steps)
    BY <1>1, <1>4
  <2> QED BY <2>1, <2>2, <1>4, Tree
<1> QED BY <1>4, <1>5

(* What is left of the stack when block d has completed a step. *)
LEMMA Completing ==
  ASSUME TypeOK, NEW d, NEW ending, NEW cause, CompletesAt(d, ending, cause)
  PROVE  /\ Depth \in Nat /\ d \in Nat /\ d > 0 /\ d \in 1 .. Depth /\ Depth' = d /\ d \in 1 .. d
         /\ pc' # "next" /\ frames[d].at \in Nat /\ frames[d].at > 0
         /\ frames[d].at <= Len(frames[d].steps)
         /\ frames'[d].at = IF Done(ending) THEN frames[d].at + 1 ELSE frames[d].at
         /\ \A k \in 1 .. d : /\ k \in 1 .. Depth /\ Fixed(frames[k], frames'[k])
                              /\ frames'[k].index = frames[k].index
                              /\ frames'[k].inherited = frames[k].inherited
                              /\ Place(frames'[k]) = Place(frames[k])
                              /\ k < d => frames'[k].at = frames[k].at
<1>1. d \in 1 .. Depth /\ Len(frames') = d /\ Depth \in Nat
  BY Frames DEF CompletesAt
<1>2. d \in Nat /\ d > 0 /\ d \in 1 .. d /\ Depth' = d /\ \A k \in 1 .. d : k \in 1 .. Depth
  BY <1>1 DEF Depth
<1>3. frames[d].at \in Nat /\ frames[d].at > 0
  BY <1>1, Frames
<1>4. \A k \in 1 .. d : /\ Fixed(frames[k], frames'[k])
                        /\ frames'[k].index = frames[k].index
                        /\ frames'[k].inherited = frames[k].inherited
                        /\ k < d => frames'[k].at = frames[k].at
  BY DEF CompletesAt
<1>5. \A k \in 1 .. d : Place(frames'[k]) = Place(frames[k])
  BY <1>4 DEF Place, IsLoop, Fixed
<1>6. /\ frames'[d].at = IF Done(ending) THEN frames[d].at + 1 ELSE frames[d].at
      /\ pc' # "next" /\ frames[d].at <= Len(frames[d].steps)
  BY DEF CompletesAt
<1> QED BY <1>1, <1>2, <1>3, <1>4, <1>5, <1>6

(* A step that a block has passed is one of its steps. *)
LEMMA PassedSteps ==
  ASSUME TypeOK, Stack
  PROVE  \A k \in 1 .. Depth : \A j \in 1 .. frames[k].at - 1 :
            /\ j \in 1 .. Len(frames[k].steps) /\ j < frames[k].at
            /\ frames[k].steps[j] \in Steps /\ frames[k].steps[j] \in Range(frames[k].steps)
<1> SUFFICES ASSUME NEW k \in 1 .. Depth, NEW j \in 1 .. frames[k].at - 1
             PROVE  /\ j \in 1 .. Len(frames[k].steps) /\ j < frames[k].at
                    /\ frames[k].steps[j] \in Steps /\ frames[k].steps[j] \in Range(frames[k].steps)
  OBVIOUS
<1>1. /\ frames[k].steps \in Seq(Steps) /\ Len(frames[k].steps) \in Nat /\ frames[k].at \in Nat
      /\ frames[k].at <= Len(frames[k].steps) + 1
  BY Frames DEF Stack, Chain
<1> DEFINE a == frames[k].at
           n == Len(frames[k].steps)
<1>2. j \in 1 .. n /\ j < a
  <2>1. a \in Nat /\ n \in Nat /\ a <= n + 1 /\ j \in 1 .. a - 1
    BY <1>1
  <2> HIDE DEF a, n
  <2> QED BY <2>1
<1>3. j \in DOMAIN frames[k].steps
  BY <1>1, <1>2
<1> QED BY <1>1, <1>2, <1>3 DEF Range

(* When block d has completed a step, the outputs of the blocks above are   *)
(* gone.                                                                    *)
LEMMA KeptCompletes ==
  ASSUME TypeOK, TypeOK', Stack, Kept, NEW d, NEW ending, NEW cause, CompletesAt(d, ending, cause),
         NEW S,
         \A k \in 1 .. d : Live(k) /\ Range(frames[k].steps) \cap S = {},
         \A k \in 1 .. Depth : k > d => Range(frames[k].steps) \subseteq S,
         \A s \in Steps : step_outputs'[s] =
            IF Done(ending) /\ s = frames[d].steps[frames[d].at] THEN Place(frames[d])
            ELSE IF s \in S THEN None ELSE step_outputs[s]
  PROVE  Kept'
<1> DEFINE c == frames[d].steps[frames[d].at]
<1>0. /\ Depth \in Nat /\ d \in 1 .. Depth /\ d \in Nat /\ Depth' = d /\ c \in Steps
      /\ frames[d].at \in Nat /\ frames[d].at > 0
      /\ frames[d].at <= Len(frames[d].steps)
      /\ pc' # "next"
  BY Frames, LogGrows DEF CompletesAt, Depth
<1>1. \A k \in 1 .. d : /\ k \in 1 .. Depth /\ Fixed(frames[k], frames'[k])
                        /\ Place(frames'[k]) = Place(frames[k])
                        /\ k < d => frames'[k].at = frames[k].at
  <2>1. ASSUME NEW k \in 1 .. d
        PROVE  /\ k \in 1 .. Depth /\ Fixed(frames[k], frames'[k])
               /\ frames'[k].index = frames[k].index
               /\ k < d => frames'[k].at = frames[k].at
    BY <1>0 DEF CompletesAt
  <2>2. \A k \in 1 .. d : Place(frames'[k]) = Place(frames[k])
    BY <2>1 DEF Place, IsLoop, Fixed
  <2> QED BY <2>1, <2>2
<1>2. frames'[d].at = IF Done(ending) THEN frames[d].at + 1 ELSE frames[d].at
  BY DEF CompletesAt
<1>3. \A s \in Steps : step_outputs'[s] =
            IF Done(ending) /\ s = c THEN Place(frames[d])
            ELSE IF s \in S THEN None ELSE step_outputs[s]
  OBVIOUS
<1> HIDE DEF c
<1>4. ASSUME NEW s \in Steps, step_outputs'[s] # None
      PROVE  \E k \in 1 .. d : \E j \in 1 .. frames'[k].at - 1 : frames'[k].steps[j] = s
  <2>1. CASE Done(ending) /\ s = c
    <3>1. d \in 1 .. d /\ frames[d].at \in 1 .. frames'[d].at - 1
      BY <1>0, <1>2, <2>1
    <3>2. frames'[d].steps[frames[d].at] = s
      BY <3>1, <2>1, <1>1 DEF Fixed, c
    <3> QED BY <3>1, <3>2
  <2>2. CASE ~(Done(ending) /\ s = c)
    <3>1. s \notin S /\ step_outputs[s] # None
      BY <1>3, <1>4, <2>2
    <3>2. PICK k \in 1 .. Depth : \E j \in 1 .. frames[k].at - 1 : frames[k].steps[j] = s
      BY <3>1 DEF Kept
    <3>3. PICK j \in 1 .. frames[k].at - 1 : frames[k].steps[j] = s
      BY <3>2
    <3>4. s \in Range(frames[k].steps)
      BY <3>3, PassedSteps
    <3>5. k \in 1 .. d
      BY <3>1, <3>4, <1>0
    <3>6. frames[k].at \in Nat /\ frames'[k].at \in Nat /\ frames'[k].at >= frames[k].at
      BY SMTT(30), <3>5, <1>0, <1>1, <1>2, Frames
    <3>7. j \in 1 .. frames'[k].at - 1 /\ frames'[k].steps[j] = s
      BY <3>3, <3>5, <3>6, <1>1 DEF Fixed
    <3> QED BY <3>5, <3>7
  <2> QED BY <2>1, <2>2
<1>5. ASSUME NEW k \in 1 .. d, NEW j \in 1 .. frames'[k].at - 1
      PROVE  step_outputs'[frames'[k].steps[j]] = Place(frames'[k])
  <2>1. frames'[k].steps = frames[k].steps /\ Place(frames'[k]) = Place(frames[k])
    BY <1>1 DEF Fixed
  <2>2. CASE k = d /\ Done(ending) /\ j = frames[d].at
    BY <2>1, <2>2, <1>0, <1>3 DEF c
  <2>3. CASE ~(k = d /\ Done(ending) /\ j = frames[d].at)
    <3>1. j \in 1 .. frames[k].at - 1 /\ k \in 1 .. Depth
      BY <2>3, <1>0, <1>1, <1>2, Frames
    <3>2. step_outputs[frames[k].steps[j]] = Place(frames[k])
      BY <3>1 DEF Kept
    <3>3. /\ j \in 1 .. Len(frames[k].steps) /\ j < frames[k].at
          /\ frames[k].steps[j] \in Steps /\ frames[k].steps[j] \in Range(frames[k].steps)
      BY <3>1, PassedSteps
    <3>4. frames[k].steps[j] # c
      BY <3>3, <1>0, Here DEF c
    <3>5. frames[k].steps[j] \notin S
      BY <3>3
    <3> QED BY <2>1, <3>2, <3>3, <3>4, <3>5, <1>3
  <2> QED BY <2>2, <2>3
<1> QED BY <1>0, <1>4, <1>5 DEF Kept

(* Where no step ends and no block does. *)
LEMMA KeptStays ==
  ASSUME TypeOK, Kept, Depth' = Depth, step_outputs' = step_outputs,
         \A k \in 1 .. Depth : /\ frames'[k].steps = frames[k].steps /\ frames'[k].at = frames[k].at
                               /\ Live(k)' => Live(k) /\ Place(frames'[k]) = Place(frames[k])
  PROVE  Kept'
BY DEF Kept

(* What begins an iteration or waits for one is never taken for the other.  *)
LEMMA IdlesNext ==
  ASSUME Idles
  PROVE  pc' = "next" <=> pc = "next"
BY DEF Idles, StopAtStep, BeginLeaf, Begins, EndBlock, CommitRow, CommitEnds, ReturnRoot,
       RequestStop, SignalFailure, RequestLoopStop, Finished, Returns, vars

(* Every output that can be read is of the iteration that runs. *)
LEMMA KeptStep ==
  ASSUME TypeOK, TypeOK', Stack, Stack', Control, Moves, Kept
  PROVE  Kept'
<1>0. /\ Depth \in 1 .. Depth /\ Top = frames[Depth] /\ Depth \in Nat /\ Depth' = Len(frames')
      /\ step_outputs \in [Steps -> Occurrence \cup {None}]
  BY TopFacts, Frames DEF TypeOK, Depth
<1>1. CASE Leaf
  <2>1. PICK ending \in Endings, cause \in Steps \cup {None} : Logs(ending, cause)
    BY <1>1 DEF Leaf
  <2>2. /\ CompletesAt(Depth, ending, cause) /\ pc \in {"step", "busy"}
        /\ step_outputs' = IF Done(ending) THEN [step_outputs EXCEPT ![Current] = Place(Top)]
                           ELSE step_outputs
    BY <2>1 DEF Logs
  <2>3. Current = frames[Depth].steps[frames[Depth].at]
    BY <1>0 DEF Current
  <2>4. \A k \in 1 .. Depth : Live(k) /\ Range(frames[k].steps) \cap {} = {}
    BY <2>2 DEF Live
  <2>5. \A k \in 1 .. Depth : k > Depth => Range(frames[k].steps) \subseteq {}
    BY <1>0
  <2>6. \A s \in Steps : step_outputs'[s] =
            IF Done(ending) /\ s = frames[Depth].steps[frames[Depth].at] THEN Place(frames[Depth])
            ELSE IF s \in {} THEN None ELSE step_outputs[s]
    BY <1>0, <2>2, <2>3
  <2> QED BY <1>0, <2>2, <2>4, <2>5, <2>6, KeptCompletes
<1>2. CASE \E g \in Block : Enters(g)
  <2>1. PICK g \in Block : Enters(g)
    BY <1>2
  <2>2. /\ Depth' = Depth + 1 /\ step_outputs' = step_outputs /\ pc = "step"
        /\ \A k \in 1 .. Depth : frames'[k] = frames[k]
        /\ frames'[Depth + 1].at = 1
    BY <1>0, <2>1 DEF Enters, Pushes
  <2>3. \A k \in 1 .. Depth : Live(k)
    BY <2>2 DEF Live
  <2>4. \A k \in 1 .. Depth' : k \in 1 .. Depth \/ k = Depth + 1
    BY <2>2, <1>0
  <2>5. \A k \in 1 .. Depth : k \in 1 .. Depth'
    BY <2>2, <1>0
  <2>6. ASSUME NEW k \in 1 .. Depth', NEW j \in 1 .. frames'[k].at - 1
        PROVE  k \in 1 .. Depth /\ j \in 1 .. frames[k].at - 1
    BY <2>2, <2>4
  <2> QED BY <2>2, <2>3, <2>5, <2>6 DEF Kept
<1>3. CASE \E ending \in Endings, cause \in Steps \cup {"signal", None} :
                PopsBranch(ending, cause) \/ PopsLoop(ending, cause)
  <2>1. PICK ending \in Endings, cause \in Steps \cup {"signal", None} :
            PopsBranch(ending, cause) \/ PopsLoop(ending, cause)
    BY <1>3
  <2>2. PICK data, S : /\ S \in {Inside(Top.steps, Ifs), Range(Top.steps)}
                       /\ Pops(ending, cause, data, clear_step_outputs(step_outputs, S))
    BY <2>1 DEF PopsBranch, PopsLoop
  <2> DEFINE outputs == clear_step_outputs(step_outputs, S)
  <2>3. /\ CompletesAt(Depth - 1, ending, cause) /\ Depth > 1
        /\ step_outputs' = IF Done(ending)
                           THEN [outputs EXCEPT ![Top.owner] = Place(frames[Depth - 1])] ELSE outputs
    BY <2>2 DEF Pops
  <2>4. Top.owner = frames[Depth - 1].steps[frames[Depth - 1].at]
    <3>1. Depth \in 2 .. Depth
      BY <1>0, <2>3
    <3> QED BY <3>1, <1>0 DEF Stack, Chain, Opens
  <2>5. /\ outputs \in [Steps -> Occurrence \cup {None}]
        /\ \A s \in Steps : outputs[s] = IF s \in S THEN None ELSE step_outputs[s]
    BY <1>0 DEF clear_step_outputs
  <2>6. S \subseteq Inside(Top.steps, Steps) /\ Range(Top.steps) \subseteq S
    <3>1. Top.steps \in Blocks
      BY <1>0, Places
    <3>2. Inside(Top.steps, Ifs) \subseteq Inside(Top.steps, Steps)
      BY <3>1, InsideBlocks
    <3> QED BY <2>2, <3>2, InsideFacts
  <2> HIDE DEF outputs
  <2>7. \A k \in 1 .. Depth - 1 : Live(k) /\ Range(frames[k].steps) \cap S = {}
    <3>1. \A k \in 1 .. Depth - 1 : k \in 1 .. Depth /\ k < Depth
      BY <1>0
    <3> QED BY <3>1, <1>0, <2>6, Apart DEF Live
  <2>8. \A k \in 1 .. Depth : k > Depth - 1 => Range(frames[k].steps) \subseteq S
    <3>1. \A k \in 1 .. Depth : k > Depth - 1 => k = Depth
      BY <1>0
    <3> QED BY <3>1, <2>6, <1>0
  <2> DEFINE d == Depth - 1
  <2>9. /\ CompletesAt(d, ending, cause) /\ \A k \in 1 .. d : Live(k) /\ Range(frames[k].steps) \cap S = {}
        /\ \A k \in 1 .. Depth : k > d => Range(frames[k].steps) \subseteq S
        /\ \A s \in Steps : step_outputs'[s] =
            IF Done(ending) /\ s = frames[d].steps[frames[d].at] THEN Place(frames[d])
            ELSE IF s \in S THEN None ELSE step_outputs[s]
    BY <2>3, <2>4, <2>5, <2>7, <2>8
  <2> HIDE DEF d
  <2> QED BY <2>9, KeptCompletes
<1>4. CASE Continues
  <2>1. /\ Depth' = Depth /\ pc' = "next" /\ \A k \in 1 .. Depth : k # Depth => frames'[k] = frames[k]
        /\ frames'[Depth].steps = frames[Depth].steps /\ frames'[Depth].at = frames[Depth].at
        /\ step_outputs' = step_outputs
    BY <1>0, <1>4 DEF Continues, Fixed
  <2>2. \A k \in 1 .. Depth : Live(k)' => k # Depth
    BY <2>1, <1>0 DEF Live
  <2>3. \A k \in 1 .. Depth : k # Depth => Live(k)
    BY <1>0 DEF Live
  <2> QED BY <2>1, <2>2, <2>3, KeptStays
<1>5. CASE Iterates
  <2>1. /\ Depth' = Depth /\ \A k \in 1 .. Depth : k # Depth => frames'[k] = frames[k]
        /\ frames'[Depth].steps = frames[Depth].steps /\ frames'[Depth].at = 1
        /\ step_outputs' = clear_step_outputs(step_outputs, Range(frames[Depth].steps))
    BY <1>0, <1>5 DEF Iterates, Fixed
  <2>2. \A s \in Steps : step_outputs'[s] =
            IF s \in Range(frames[Depth].steps) THEN None ELSE step_outputs[s]
    BY <2>1 DEF clear_step_outputs
  <2>3. ASSUME NEW s \in Steps, step_outputs'[s] # None
        PROVE  \E k \in 1 .. Depth : \E j \in 1 .. frames'[k].at - 1 : frames'[k].steps[j] = s
    <3>1. s \notin Range(frames[Depth].steps) /\ step_outputs[s] # None
      BY <2>2, <2>3
    <3>2. PICK k \in 1 .. Depth : \E j \in 1 .. frames[k].at - 1 : frames[k].steps[j] = s
      BY <3>1 DEF Kept
    <3>3. k # Depth
      BY <3>1, <3>2, PassedSteps
    <3> QED BY <3>2, <3>3, <2>1
  <2>4. ASSUME NEW k \in 1 .. Depth, NEW j \in 1 .. frames'[k].at - 1
        PROVE  step_outputs'[frames'[k].steps[j]] = Place(frames'[k])
    <3>1. k # Depth
      BY <2>1, <2>4
    <3>2. k < Depth /\ frames'[k] = frames[k] /\ Live(k)
      BY <3>1, <1>0, <2>1 DEF Live
    <3>3. j \in 1 .. frames[k].at - 1
      BY <3>2
    <3>4. step_outputs[frames[k].steps[j]] = Place(frames[k])
      BY <3>2, <3>3 DEF Kept
    <3>5. frames[k].steps[j] \in Steps /\ frames[k].steps[j] \in Range(frames[k].steps)
      BY <3>3, PassedSteps
    <3>6. frames[k].steps[j] \notin Range(frames[Depth].steps)
      <4>1. Range(frames[k].steps) \cap Range(frames[Depth].steps) = {}
        BY <3>2, <1>0, Apart
      <4> QED BY <4>1, <3>5
    <3> QED BY <2>2, <3>2, <3>4, <3>5, <3>6
  <2> QED BY <2>1, <2>3, <2>4 DEF Kept
<1>6. CASE Idles /\ Stays
  <2>1. Depth' = Depth /\ step_outputs' = step_outputs /\ \A k \in 1 .. Depth : Same(frames[k], frames'[k])
    BY <1>0, <1>6 DEF Stays
  <2>2. ASSUME NEW k \in 1 .. Depth
        PROVE  /\ frames'[k].steps = frames[k].steps /\ frames'[k].at = frames[k].at
               /\ Place(frames'[k]) = Place(frames[k])
    BY <2>1 DEF Same, Fixed, Place, IsLoop
  <2>3. \A k \in 1 .. Depth : Live(k)' => Live(k)
    BY <2>1, <1>6, IdlesNext DEF Live
  <2> QED BY <2>1, <2>2, <2>3, KeptStays
<1> QED BY <1>1, <1>2, <1>3, <1>4, <1>5, <1>6 DEF Moves

-----------------------------------------------------------------------------
(* The variables, as lexical scopes have them.                              *)

(* The variable of a For is one. *)
LEMMA ForVars ==
  ASSUME TypeOK, Stack
  PROVE  /\ \A k \in 1 .. Depth : ForVar(frames[k]) \subseteq Variables
         /\ \A k \in 1 .. Depth : SetVars(frames[k]) \subseteq Variables
         /\ ForVar(frames[1]) = {}
         /\ \A k \in 1 .. Depth : frames[k].kind = "branch" => ForVar(frames[k]) = {}
<1>1. ASSUME NEW k \in 1 .. Depth PROVE ForVar(frames[k]) \subseteq Variables
  <2>1. SUFFICES ASSUME frames[k].kind = "loop", Kind[frames[k].owner] = "for"
                 PROVE  Variable[frames[k].owner] \in Variables
    BY DEF ForVar
  <2>2. frames[k].owner \in Steps
    BY <2>1, Places, Outcomes
  <2> QED BY <2>1, <2>2, ProgramAssumption
<1>2. ASSUME NEW k \in 1 .. Depth PROVE SetVars(frames[k]) \subseteq Variables
  <2>1. ASSUME NEW j \in 1 .. frames[k].at - 1, Kind[frames[k].steps[j]] = "set"
        PROVE  Variable[frames[k].steps[j]] \in Variables
    <3>1. frames[k].steps[j] \in Steps
      BY PassedSteps
    <3> QED BY <3>1, <2>1, ProgramAssumption
  <2> QED BY <2>1 DEF SetVars
<1>3. frames[1].kind = "root"
  BY DEF Stack, Chain
<1>4. "root" # "loop" /\ "branch" # "loop"
  OBVIOUS
<1> QED BY <1>1, <1>2, <1>3, <1>4 DEF ForVar

(* A binding is one of the blocks it is sought in, and of no others.        *)
LEMMA BindingSame ==
  ASSUME NEW s, NEW t, NEW d \in Nat, NEW v, NEW x,
         \A k \in 1 .. d : t[k].scope[v] = s[k].scope[v], Binding(s, d, v, x)
  PROVE  Binding(t, d, v, x)
<1>1. \A k \in 1 .. d : \A j \in k + 1 .. d : j \in 1 .. d
  OBVIOUS
<1> QED BY <1>1 DEF Binding

(* A block without the variable does not count. *)
LEMMA BindingBelow ==
  ASSUME NEW s, NEW d \in Nat, d > 0, NEW v, NEW x, s[d].scope[v] = None
  PROVE  Binding(s, d, v, x) <=> Binding(s, d - 1, v, x)
<1>1. \A k \in 1 .. d : k \in 1 .. d - 1 \/ k = d
  OBVIOUS
<1>2. \A k \in 1 .. d - 1 : k \in 1 .. d /\ \A j \in k + 1 .. d : j \in k + 1 .. d - 1 \/ j = d
  OBVIOUS
<1>3. \A k \in 1 .. d - 1 : \A j \in k + 1 .. d - 1 : j \in k + 1 .. d
  OBVIOUS
<1> QED BY <1>1, <1>2, <1>3 DEF Binding

(* A variable is bound when some block has it. *)
LEMMA BindingBound ==
  ASSUME NEW s, NEW d \in Nat, NEW v, NEW x, Binding(s, d, v, x)
  PROVE  x # None <=> \E k \in 1 .. d : s[k].scope[v] # None
BY DEF Binding

(* The top block binds. *)
LEMMA BindingTop ==
  ASSUME NEW s, NEW d \in Nat, NEW home \in 1 .. d, NEW v, NEW x, x # None,
         s[home].scope[v] = x, \A j \in home + 1 .. d : s[j].scope[v] = None
  PROVE  Binding(s, d, v, x)
BY DEF Binding

(* The variables a block leaves are those of the blocks around it.          *)
LEMMA Leaving ==
  ASSUME TypeOK, Stack, Scopes, Depth > 1, NEW v \in Variables
  PROVE  /\ v \notin ForVar(frames[Depth]) /\ Live(Depth) =>
                Binding(frames, Depth - 1, v, leave_variable_scope(variables, Top.inherited)[v])
         /\ v \notin ForVar(frames[Depth]) /\ pc = "next" =>
                Binding(frames, Depth - 1, v, variables[v])
         /\ v \in ForVar(frames[Depth]) => Binding(frames, Depth - 1, v, Top.previous)
         /\ v \notin Top.inherited /\ Live(Depth) =>
                \A j \in 1 .. Depth - 1 : frames[j].scope[v] = None
<1>1. /\ Depth \in Nat /\ Depth \in 1 .. Depth /\ Depth \in 2 .. Depth /\ Top = frames[Depth]
      /\ Depth - 1 \in Nat
  BY Frames, TopFacts
<1>2. Live(Depth) => ( v \in Top.inherited <=>
            v \in ForVar(frames[Depth]) \/ \E j \in 1 .. Depth - 1 : frames[j].scope[v] # None )
  BY <1>1 DEF Scopes
<1>3. Binding(frames, Depth, v, variables[v])
  BY DEF Scopes
<1>4. frames[Depth].scope[v] = None => Binding(frames, Depth - 1, v, variables[v])
  BY <1>1, <1>3, BindingBelow
<1>5. ASSUME v \notin ForVar(frames[Depth]), Live(Depth)
      PROVE  Binding(frames, Depth - 1, v, leave_variable_scope(variables, Top.inherited)[v])
  <2>1. CASE v \in Top.inherited
    <3>1. PICK j \in 1 .. Depth - 1 : frames[j].scope[v] # None
      BY <2>1, <1>2, <1>5
    <3>2. frames[Depth].scope[v] = None
      BY <3>1, <1>1, <1>5 DEF Scopes
    <3>3. leave_variable_scope(variables, Top.inherited)[v] = variables[v]
      BY <2>1 DEF leave_variable_scope
    <3> QED BY <3>2, <3>3, <1>4
  <2>2. CASE v \notin Top.inherited
    <3>1. \A j \in 1 .. Depth - 1 : frames[j].scope[v] = None
      BY <2>2, <1>2, <1>5
    <3>2. leave_variable_scope(variables, Top.inherited)[v] = None
      BY <2>2 DEF leave_variable_scope
    <3> QED BY <3>1, <3>2 DEF Binding
  <2> QED BY <2>1, <2>2
<1>6. ASSUME v \notin ForVar(frames[Depth]), pc = "next" PROVE Binding(frames, Depth - 1, v, variables[v])
  <2>1. frames[Depth].scope[v] = None
    BY <1>6 DEF Scopes
  <2> QED BY <2>1, <1>4
<1>7. v \in ForVar(frames[Depth]) => Binding(frames, Depth - 1, v, Top.previous)
  BY <1>1 DEF Scopes
<1>8. v \notin Top.inherited /\ Live(Depth) => \A j \in 1 .. Depth - 1 : frames[j].scope[v] = None
  BY <1>2
<1> QED BY <1>5, <1>6, <1>7, <1>8

(* A step that ends and sets no variable. *)
LEMMA ScopesCompletes ==
  ASSUME TypeOK, TypeOK', Stack, Scopes, NEW d, NEW ending, NEW cause, CompletesAt(d, ending, cause),
         \A k \in 1 .. d : Live(k) /\ frames'[k].scope = frames[k].scope,
         Done(ending) => Kind[frames[d].steps[frames[d].at]] # "set",
         \A v \in Variables : Binding(frames, d, v, variables'[v])
  PROVE  Scopes'
<1>0. /\ Depth \in Nat /\ d \in 1 .. Depth /\ d \in Nat /\ Depth' = d /\ pc' # "next"
      /\ \A k \in 1 .. d : k \in 1 .. Depth
      /\ frames[d].at \in Nat /\ frames[d].at > 0
  BY Completing
<1>1. \A k \in 1 .. d : /\ Fixed(frames[k], frames'[k]) /\ ForVar(frames'[k]) = ForVar(frames[k])
                        /\ frames'[k].inherited = frames[k].inherited
                        /\ frames'[k].previous = frames[k].previous
  BY DEF CompletesAt, ForVar, Fixed
<1>2. ASSUME NEW k \in 1 .. d PROVE SetVars(frames'[k]) = SetVars(frames[k])
  <2>0. frames'[k].steps = frames[k].steps
    BY <1>1 DEF Fixed
  <2>1. CASE frames'[k].at = frames[k].at
    BY <2>0, <2>1 DEF SetVars
  <2>2. CASE frames'[k].at # frames[k].at
    <3>1. k = d /\ Done(ending) /\ frames'[d].at = frames[d].at + 1
      BY <2>2, <1>0 DEF CompletesAt
    <3>2. \A i \in 1 .. frames'[d].at - 1 : Kind[frames[d].steps[i]] = "set" => i \in 1 .. frames[d].at - 1
      BY <3>1, <1>0
    <3>3. \A i \in 1 .. frames[d].at - 1 : i \in 1 .. frames'[d].at - 1
      BY <3>1, <1>0
    <3> QED BY <3>1, <3>2, <3>3, <2>0 DEF SetVars
  <2> QED BY <2>1, <2>2
<1>3. \A v \in Variables : Binding(frames', d, v, variables'[v])
  <2>1. ASSUME NEW v \in Variables PROVE Binding(frames', d, v, variables'[v])
    <3>1. \A k \in 1 .. d : frames'[k].scope[v] = frames[k].scope[v]
      OBVIOUS
    <3> QED BY <3>1, <1>0, BindingSame
  <2> QED BY <2>1
<1>4. ASSUME NEW k \in 2 .. d, NEW v \in ForVar(frames'[k])
      PROVE  Binding(frames', k - 1, v, frames'[k].previous)
  <2>1. k \in 1 .. d /\ k \in 2 .. Depth /\ k - 1 \in Nat /\ \A j \in 1 .. k - 1 : j \in 1 .. d
    BY <1>0
  <2>2. Binding(frames, k - 1, v, frames[k].previous)
    BY <2>1, <1>1, <1>4 DEF Scopes
  <2>3. \A j \in 1 .. k - 1 : frames'[j].scope[v] = frames[j].scope[v]
    BY <2>1
  <2> QED BY <2>1, <2>2, <2>3, <1>1, BindingSame
<1>5. ASSUME NEW k \in 2 .. d, NEW v \in Variables
      PROVE  v \in frames'[k].inherited <=>
                v \in ForVar(frames'[k]) \/ \E j \in 1 .. k - 1 : frames'[j].scope[v] # None
  <2>1. k \in 1 .. d /\ k \in 2 .. Depth /\ \A j \in 1 .. k - 1 : j \in 1 .. d
    BY <1>0
  <2>2. v \in frames[k].inherited <=>
            v \in ForVar(frames[k]) \/ \E j \in 1 .. k - 1 : frames[j].scope[v] # None
    BY <2>1 DEF Scopes
  <2> QED BY <2>1, <2>2, <1>1
<1>6. ASSUME NEW k \in 1 .. d, NEW v \in Variables, NEW j \in 1 .. k - 1,
             frames'[k].scope[v] # None, frames'[j].scope[v] # None
      PROVE  v \in ForVar(frames'[k])
  <2>1. j \in 1 .. d /\ k \in 1 .. Depth
    BY <1>0
  <2> QED BY <2>1, <1>1, <1>6 DEF Scopes
<1>7. ASSUME NEW k \in 1 .. d
      PROVE  /\ \A v \in Variables : frames'[k].scope[v] # None
                                        => v \in ForVar(frames'[k]) \cup SetVars(frames'[k])
             /\ \A v \in ForVar(frames'[k]) \cup SetVars(frames'[k]) :
                    \E j \in 1 .. k : frames'[j].scope[v] # None
  <2>1. k \in 1 .. Depth /\ \A j \in 1 .. k : j \in 1 .. d
    BY <1>0
  <2> QED BY <2>1, <1>1, <1>2 DEF Scopes
<1> QED BY <1>0, <1>3, <1>4, <1>5, <1>6, <1>7 DEF Scopes

(* Nothing in the scopes changes. *)
LEMMA ScopesStay ==
  ASSUME TypeOK, Scopes, Depth' = Depth, variables' = variables, pc' = "next" <=> pc = "next",
         \A k \in 1 .. Depth : Same(frames[k], frames'[k]) /\ frames'[k].scope = frames[k].scope
  PROVE  Scopes'
<1>1. \A k \in 1 .. Depth : /\ ForVar(frames'[k]) = ForVar(frames[k])
                            /\ SetVars(frames'[k]) = SetVars(frames[k])
                            /\ frames'[k].inherited = frames[k].inherited
                            /\ frames'[k].previous = frames[k].previous
                            /\ frames'[k].scope = frames[k].scope
                            /\ Live(k)' <=> Live(k)
  <2>1. \A k \in 1 .. Depth : /\ ForVar(frames'[k]) = ForVar(frames[k])
                              /\ SetVars(frames'[k]) = SetVars(frames[k])
                              /\ frames'[k].inherited = frames[k].inherited
                              /\ frames'[k].previous = frames[k].previous
    <3>1. \A k \in 1 .. Depth : /\ frames'[k].kind = frames[k].kind /\ frames'[k].owner = frames[k].owner
                                /\ frames'[k].steps = frames[k].steps /\ frames'[k].at = frames[k].at
                                /\ frames'[k].inherited = frames[k].inherited
                                /\ frames'[k].previous = frames[k].previous
      BY DEF Same, Fixed
    <3>2. \A k \in 1 .. Depth : ForVar(frames'[k]) = ForVar(frames[k])
      BY <3>1 DEF ForVar
    <3>3. \A k \in 1 .. Depth : SetVars(frames'[k]) = SetVars(frames[k])
      BY <3>1 DEF SetVars
    <3> QED BY <3>1, <3>2, <3>3
  <2>2. \A k : Live(k)' <=> Live(k)
    BY DEF Live
  <2> QED BY <2>1, <2>2
<1>0. Depth \in Nat /\ Depth \in 1 .. Depth /\ \A k \in 1 .. Depth : \A j \in 1 .. k : j \in 1 .. Depth
  BY Frames
<1>2. \A v \in Variables : Binding(frames', Depth, v, variables'[v])
  BY <1>0, <1>1, BindingSame DEF Scopes
<1>3. ASSUME NEW k \in 2 .. Depth, NEW v \in ForVar(frames'[k])
      PROVE  Binding(frames', k - 1, v, frames'[k].previous)
  <2>1. k \in 1 .. Depth /\ k - 1 \in Nat /\ \A j \in 1 .. k - 1 : j \in 1 .. Depth
    BY <1>0
  <2>2. Binding(frames, k - 1, v, frames[k].previous)
    BY <2>1, <1>1, <1>3 DEF Scopes
  <2>3. \A j \in 1 .. k - 1 : frames'[j].scope[v] = frames[j].scope[v]
    BY <2>1, <1>1
  <2> QED BY <2>1, <2>2, <2>3, <1>1, BindingSame
<1>4. ASSUME NEW k \in 2 .. Depth, Live(k)', NEW v \in Variables
      PROVE  v \in frames'[k].inherited <=>
                v \in ForVar(frames'[k]) \/ \E j \in 1 .. k - 1 : frames'[j].scope[v] # None
  <2>1. k \in 1 .. Depth /\ \A j \in 1 .. k - 1 : j \in 1 .. Depth
    BY <1>0
  <2> QED BY <2>1, <1>1, <1>4 DEF Scopes
<1>5. ASSUME NEW k \in 1 .. Depth, NEW v \in Variables, NEW j \in 1 .. k - 1,
             frames'[k].scope[v] # None, frames'[j].scope[v] # None
      PROVE  v \in ForVar(frames'[k])
  <2>1. j \in 1 .. Depth
    BY <1>0
  <2> QED BY <2>1, <1>1, <1>5 DEF Scopes
<1>6. ASSUME NEW k \in 1 .. Depth, Live(k)'
      PROVE  /\ \A v \in Variables : frames'[k].scope[v] # None
                                        => v \in ForVar(frames'[k]) \cup SetVars(frames'[k])
             /\ \A v \in ForVar(frames'[k]) \cup SetVars(frames'[k]) :
                    \E j \in 1 .. k : frames'[j].scope[v] # None
  BY <1>0, <1>1, <1>6 DEF Scopes
<1>7. pc' = "next" => \A v \in Variables : frames'[Depth].scope[v] # None => v \in ForVar(frames'[Depth])
  BY <1>0, <1>1 DEF Scopes
<1> QED BY <1>2, <1>3, <1>4, <1>5, <1>6, <1>7 DEF Scopes

(* No block around a set step binds its variable by a For. *)
LEMMA SetIsFree ==
  ASSUME TypeOK, Stack, ~AtEnd, Kind[Current] = "set"
  PROVE  \A k \in 1 .. Depth : Variable[Current] \notin ForVar(frames[k])
<1> SUFFICES ASSUME NEW k \in 1 .. Depth, Variable[Current] \in ForVar(frames[k]) PROVE FALSE
  OBVIOUS
<1>1. /\ Depth \in Nat /\ Depth \in 1 .. Depth /\ Current \in Steps
      /\ Current = frames[Depth].steps[frames[Depth].at] /\ frames[Depth].at <= Len(frames[Depth].steps)
      /\ frames[Depth].at \in Nat /\ frames[Depth].at > 0 /\ frames[Depth].steps \in Seq(Steps)
  BY Frames, TopFacts
<1>2. frames[k].kind = "loop" /\ Kind[frames[k].owner] = "for"
      /\ Variable[Current] = Variable[frames[k].owner]
  BY DEF ForVar
<1>3. frames[k].owner \in Loops /\ k # 1 /\ frames[k].owner \in Steps
  BY <1>2, Places, Outcomes
<1>4. k \in 2 .. Depth
  BY <1>3, <1>1
<1>5. frames[k].steps = Body[frames[k].owner]
  <2>1. Opens(frames[k - 1], frames[k])
    BY <1>4 DEF Stack, Chain
  <2> QED BY <2>1, <1>2 DEF Opens
<1>6. Current \in Range(frames[Depth].steps)
  <2>1. frames[Depth].at \in DOMAIN frames[Depth].steps
    BY <1>1
  <2> QED BY <2>1, <1>1 DEF Range
<1>7. Range(frames[Depth].steps) \subseteq Inside(frames[k].steps, Steps)
  <2>1. k <= Depth
    BY <1>1
  <2> QED BY <2>1, <1>1 DEF Stack, Nested
<1>8. frames[k].owner \in Ancestors(Current)
  BY <1>3, <1>5, <1>6, <1>7 DEF Ancestors
<1> QED BY <1>1, <1>2, <1>3, <1>8, ProgramAssumption

(* A set step assigns in the innermost scope that has its variable, or in   *)
(* its own.                                                                 *)
LEMMA ScopesAssign ==
  ASSUME TypeOK, TypeOK', Stack, Scopes, ~AtEnd, pc \in {"step", "busy"}, Assigns,
         NEW cause, CompletesAt(Depth, "continue", cause)
  PROVE  Scopes'
<1> DEFINE w == Variable[Current]
<1>0. /\ Depth \in Nat /\ Depth \in 1 .. Depth /\ Depth' = Depth /\ pc' # "next"
      /\ frames[Depth].at \in Nat /\ frames[Depth].at > 0
      /\ Current = frames[Depth].steps[frames[Depth].at] /\ w \in Variables
      /\ frames'[Depth].at = frames[Depth].at + 1
      /\ \A k \in 1 .. Depth : \A j \in 1 .. k : j \in 1 .. Depth
  <2>1. Current \in Steps /\ Kind[Current] = "set" /\ Current = frames[Depth].steps[frames[Depth].at]
    BY TopFacts DEF Assigns
  <2>2. w \in Variables
    BY <2>1, ProgramAssumption
  <2>3. Done("continue")
    BY Outcomes DEF Endings
  <2>4. /\ Depth \in Nat /\ Depth \in 1 .. Depth /\ Depth' = Depth /\ pc' # "next"
        /\ frames[Depth].at \in Nat /\ frames[Depth].at > 0
        /\ frames'[Depth].at = frames[Depth].at + 1
    BY <2>3, Completing
  <2> QED BY <2>1, <2>2, <2>4
<1>1. \A k \in 1 .. Depth : /\ ForVar(frames'[k]) = ForVar(frames[k]) /\ frames'[k].steps = frames[k].steps
                            /\ frames'[k].inherited = frames[k].inherited
                            /\ frames'[k].previous = frames[k].previous
                            /\ Live(k)
  BY DEF CompletesAt, ForVar, Fixed, Live
<1>2. \A k \in 1 .. Depth : k # Depth => SetVars(frames'[k]) = SetVars(frames[k])
  <2>1. \A k \in 1 .. Depth : k # Depth => frames'[k].at = frames[k].at
    <3>1. \A k \in 1 .. Depth : k # Depth => k < Depth
      BY <1>0
    <3> QED BY <3>1 DEF CompletesAt
  <2> QED BY <2>1, <1>1 DEF SetVars
<1>3. SetVars(frames'[Depth]) = SetVars(frames[Depth]) \cup {w}
  <2>1. \A i : i \in 1 .. frames'[Depth].at - 1 <=> i \in 1 .. frames[Depth].at - 1 \/ i = frames[Depth].at
    BY <1>0
  <2>2. Kind[Current] = "set" /\ frames'[Depth].steps = frames[Depth].steps
    <3>1. Kind[Current] = "set"
      BY DEF Assigns
    <3> QED BY <3>1, <1>0, <1>1
  <2> QED BY <2>1, <2>2, <1>0 DEF SetVars
<1>4. \A k \in 1 .. Depth : w \notin ForVar(frames[k])
  BY SetIsFree DEF Assigns
<1>5. PICK value \in Value \ {None}, home \in 1 .. Depth :
        /\ variables' = [variables EXCEPT ![w] = value]
        /\ \A k \in 1 .. Depth : k # home => frames'[k].scope = frames[k].scope
        /\ frames'[home].scope = [frames[home].scope EXCEPT ![w] = value]
        /\ \/ /\ frames[home].scope[w] # None
              /\ \A j \in home + 1 .. Depth : frames[j].scope[w] = None
           \/ home = Depth /\ \A j \in 1 .. Depth : frames[j].scope[w] = None
  BY DEF Assigns
<1>6. /\ \A k \in 1 .. Depth, v \in Variables : v # w => frames'[k].scope[v] = frames[k].scope[v]
      /\ \A k \in 1 .. Depth : k # home => frames'[k].scope[w] = frames[k].scope[w]
      /\ frames'[home].scope[w] = value /\ value # None
  <2>1. frames[home].scope \in [Variables -> Value]
    BY Frames
  <2>2. \A v \in Variables : frames'[home].scope[v] = IF v = w THEN value ELSE frames[home].scope[v]
    BY <2>1, <1>5
  <2>3. \A k \in 1 .. Depth : k # home => frames'[k].scope = frames[k].scope
    BY <1>5
  <2>4. ASSUME NEW k \in 1 .. Depth, NEW v \in Variables, v # w
        PROVE  frames'[k].scope[v] = frames[k].scope[v]
    BY <2>2, <2>3, <2>4
  <2>5. frames'[home].scope[w] = value
    BY <2>2, <1>0
  <2> HIDE DEF w
  <2> QED BY <2>3, <2>4, <2>5
<1>7. \A v \in Variables : variables'[v] = IF v = w THEN value ELSE variables[v]
  BY <1>5 DEF TypeOK
<1> HIDE DEF w
<1>8. \A j \in home + 1 .. Depth : j \in 1 .. Depth /\ j # home
  BY <1>0
<1>9. \A j \in home + 1 .. Depth : frames'[j].scope[w] = None
  <2>1. \A j \in home + 1 .. Depth : frames[j].scope[w] = None
    BY <1>5, <1>8
  <2> QED BY <2>1, <1>6, <1>8
(* What was bound still is; what is bound now was, but for w in the top. *)
<1>a. \A k \in 1 .. Depth, v \in Variables :
        frames[k].scope[v] # None => frames'[k].scope[v] # None
  BY <1>6
<1>b. \A k \in 1 .. Depth, v \in Variables :
        frames'[k].scope[v] # None => \/ frames[k].scope[v] # None
                                      \/ /\ k = Depth /\ v = w
                                         /\ \A j \in 1 .. Depth : frames[j].scope[w] = None
  BY <1>5, <1>6
<1>10. ASSUME NEW v \in Variables PROVE Binding(frames', Depth, v, variables'[v])
  <2>1. CASE v = w
    <3>1. variables'[v] = value
      BY <2>1, <1>7
    <3>2. frames'[home].scope[v] = value /\ \A j \in home + 1 .. Depth : frames'[j].scope[v] = None
      BY <2>1, <1>6, <1>9
    <3> QED BY <3>1, <3>2, <1>0, <1>6, BindingTop
  <2>2. CASE v # w
    <3>1. Binding(frames, Depth, v, variables'[v])
      BY <2>2, <1>7 DEF Scopes
    <3>2. \A k \in 1 .. Depth : frames'[k].scope[v] = frames[k].scope[v]
      BY <2>2, <1>6
    <3> QED BY <3>1, <3>2, <1>0, BindingSame
  <2> QED BY <2>1, <2>2
<1>11. ASSUME NEW k \in 2 .. Depth, NEW v \in ForVar(frames'[k])
       PROVE  Binding(frames', k - 1, v, frames'[k].previous)
  <2>1. k \in 1 .. Depth /\ k - 1 \in Nat /\ \A j \in 1 .. k - 1 : j \in 1 .. Depth
    BY <1>0
  <2>2. Binding(frames, k - 1, v, frames[k].previous)
    BY <2>1, <1>1, <1>11 DEF Scopes
  <2>3. v # w /\ v \in Variables
    BY <2>1, <1>1, <1>4, <1>11, ForVars
  <2>4. \A j \in 1 .. k - 1 : frames'[j].scope[v] = frames[j].scope[v]
    BY <2>1, <2>3, <1>6
  <2> QED BY <2>1, <2>2, <2>4, <1>1, BindingSame
<1>12. ASSUME NEW k \in 2 .. Depth, NEW v \in Variables
       PROVE  v \in frames'[k].inherited <=>
                v \in ForVar(frames'[k]) \/ \E j \in 1 .. k - 1 : frames'[j].scope[v] # None
  <2>1. k \in 1 .. Depth /\ \A j \in 1 .. k - 1 : j \in 1 .. Depth /\ j # Depth
    BY <1>0
  <2>2. v \in frames[k].inherited <=>
            v \in ForVar(frames[k]) \/ \E j \in 1 .. k - 1 : frames[j].scope[v] # None
    BY <2>1, <1>1 DEF Scopes
  <2>3. \A j \in 1 .. k - 1 : frames'[j].scope[v] # None <=> frames[j].scope[v] # None
    BY <2>1, <1>a, <1>b
  <2> QED BY <2>1, <2>2, <2>3, <1>1
<1>13. ASSUME NEW k \in 1 .. Depth, NEW v \in Variables, NEW j \in 1 .. k - 1,
              frames'[k].scope[v] # None, frames'[j].scope[v] # None
       PROVE  v \in ForVar(frames'[k])
  <2>1. j \in 1 .. Depth /\ j # Depth
    BY <1>0
  <2>2. frames[j].scope[v] # None
    BY <2>1, <1>b, <1>13
  <2>3. frames[k].scope[v] # None
    BY <2>1, <2>2, <1>b, <1>13
  <2> QED BY <2>2, <2>3, <1>1 DEF Scopes
<1>14. ASSUME NEW k \in 1 .. Depth
       PROVE  /\ \A v \in Variables : frames'[k].scope[v] # None
                                         => v \in ForVar(frames'[k]) \cup SetVars(frames'[k])
              /\ \A v \in ForVar(frames'[k]) \cup SetVars(frames'[k]) :
                     \E j \in 1 .. k : frames'[j].scope[v] # None
  <2>1. ASSUME NEW v \in Variables, frames'[k].scope[v] # None
        PROVE  v \in ForVar(frames'[k]) \cup SetVars(frames'[k])
    <3>1. CASE frames[k].scope[v] # None
      <4>1. v \in ForVar(frames[k]) \cup SetVars(frames[k])
        BY <3>1, <1>1 DEF Scopes
      <4> QED BY <4>1, <1>1, <1>2, <1>3
    <3>2. CASE k = Depth /\ v = w
      BY <3>2, <1>3
    <3> QED BY <3>1, <3>2, <2>1, <1>b
  <2>2. ASSUME NEW v \in ForVar(frames'[k]) \cup SetVars(frames'[k])
        PROVE  \E j \in 1 .. k : frames'[j].scope[v] # None
    <3>1. CASE v \in ForVar(frames[k]) \cup SetVars(frames[k])
      <4>1. PICK j \in 1 .. k : frames[j].scope[v] # None
        BY <3>1, <1>1 DEF Scopes
      <4>2. v \in Variables /\ j \in 1 .. Depth
        BY <3>1, <1>0, ForVars
      <4> QED BY <4>1, <4>2, <1>a
    <3>2. CASE k = Depth /\ v = w
      BY <3>2, <1>0, <1>6
    <3> QED BY <3>1, <3>2, <2>2, <1>1, <1>2, <1>3
  <2> QED BY <2>1, <2>2
<1> QED BY <1>0, <1>10, <1>11, <1>12, <1>13, <1>14 DEF Scopes

(* A block that begins has declared nothing yet. *)
LEMMA ScopesEnter ==
  ASSUME TypeOK, TypeOK', Stack, Stack', Scopes, NEW g \in Block, Enters(g)
  PROVE  Scopes'
<1>0. /\ Depth \in Nat /\ Depth \in 1 .. Depth /\ Depth' = Depth + 1 /\ pc = "step" /\ pc' \in {"step", "next"}
      /\ \A k \in 1 .. Depth : frames'[k] = frames[k]
      /\ frames'[Depth + 1] = g /\ g.at = 1 /\ g.scope = Nothing /\ variables' = variables
      /\ g.kind = "branch" => g.inherited = variable_scope(variables)
      /\ g.kind # "branch" => /\ pc' = "next" /\ g.kind = "loop"
                              /\ g.previous = IF Kind[g.owner] = "for"
                                              THEN variables[Variable[g.owner]] ELSE None
  BY Frames DEF Enters, Pushes, Depth
<1>1. /\ \A k \in 1 .. Depth + 1 : k \in 1 .. Depth \/ k = Depth + 1
      /\ \A k \in 1 .. Depth : Live(k) /\ k # Depth + 1 /\ \A j \in 1 .. k : j \in 1 .. Depth
      /\ \A k \in 2 .. Depth + 1 : k \in 2 .. Depth \/ k = Depth + 1
      /\ (Depth + 1) - 1 = Depth /\ Depth + 1 \in Nat /\ Depth + 1 > 0
  BY <1>0 DEF Live
<1>2. \A v \in Variables : g.scope[v] = None
  BY <1>0 DEF Nothing
<1>3. g.kind = "branch" => ForVar(g) = {}
  BY DEF ForVar
<1>4. SetVars(g) = {}
  BY <1>0 DEF SetVars
<1>5. ForVar(g) \subseteq Variables
  <2>1. Depth' \in 1 .. Depth' /\ frames'[Depth'].owner \in Steps \cup {None}
    BY NewFrames
  <2>2. g.owner \in Steps
    <3>1. Opens(Top, g) /\ frames[Depth].steps \in Seq(Steps) /\ frames[Depth].at \in Nat
          /\ frames[Depth].at > 0 /\ Top = frames[Depth]
      BY <1>0, Frames, TopFacts DEF Enters, Pushes
    <3> QED BY <3>1 DEF Opens
  <2> QED BY <2>2, ProgramAssumption DEF ForVar
<1>6. ASSUME NEW v \in Variables PROVE Binding(frames', Depth, v, variables[v])
  <2>1. Binding(frames, Depth, v, variables[v])
    BY DEF Scopes
  <2>2. \A k \in 1 .. Depth : frames'[k].scope[v] = frames[k].scope[v]
    BY <1>0
  <2> QED BY <2>1, <2>2, <1>0, BindingSame
<1>7. ASSUME NEW v \in Variables PROVE Binding(frames', Depth + 1, v, variables'[v])
  <2>1. Binding(frames', (Depth + 1) - 1, v, variables[v])
    BY <1>1, <1>6
  <2>2. frames'[Depth + 1].scope[v] = None
    BY <1>0, <1>2
  <2> QED BY <2>1, <2>2, <1>0, <1>1, BindingBelow
<1>8. ASSUME NEW k \in 2 .. Depth + 1, NEW v \in ForVar(frames'[k])
      PROVE  Binding(frames', k - 1, v, frames'[k].previous)
  <2>1. CASE k = Depth + 1
    <3>1. g.kind # "branch" /\ v \in Variables /\ v \in ForVar(g)
      BY <2>1, <1>0, <1>3, <1>5, <1>8
    <3>2. g.previous = variables[v]
      BY <3>1, <1>0 DEF ForVar
    <3>3. Binding(frames', Depth, v, g.previous)
      BY <3>1, <3>2, <1>6
    <3> QED BY <3>3, <2>1, <1>0, <1>1
  <2>2. CASE k \in 2 .. Depth
    <3>1. k \in 1 .. Depth /\ k - 1 \in Nat /\ \A j \in 1 .. k - 1 : j \in 1 .. Depth
      BY <2>2, <1>0
    <3>2. Binding(frames, k - 1, v, frames[k].previous)
      BY <2>2, <3>1, <1>0, <1>8 DEF Scopes
    <3>3. \A j \in 1 .. k - 1 : frames'[j].scope[v] = frames[j].scope[v]
      BY <3>1, <1>0
    <3> QED BY <3>1, <3>2, <3>3, <1>0, BindingSame
  <2> QED BY <2>1, <2>2, <1>1
<1>9. ASSUME NEW k \in 2 .. Depth + 1, Live(k)', NEW v \in Variables
      PROVE  v \in frames'[k].inherited <=>
                v \in ForVar(frames'[k]) \/ \E j \in 1 .. k - 1 : frames'[j].scope[v] # None
  <2>1. CASE k = Depth + 1
    <3>1. g.kind = "branch"
      BY <2>1, <1>0, <1>9 DEF Live
    <3>2. v \in g.inherited <=> variables[v] # None
      BY <3>1, <1>0 DEF variable_scope
    <3>3. variables[v] # None <=> \E j \in 1 .. Depth : frames'[j].scope[v] # None
      BY <1>0, <1>6, BindingBound
    <3> QED BY <3>1, <3>2, <3>3, <2>1, <1>0, <1>1, <1>3
  <2>2. CASE k \in 2 .. Depth
    <3>1. k \in 1 .. Depth /\ Live(k) /\ \A j \in 1 .. k - 1 : j \in 1 .. Depth
      BY <2>2, <1>0, <1>1
    <3>2. v \in frames[k].inherited <=>
            v \in ForVar(frames[k]) \/ \E j \in 1 .. k - 1 : frames[j].scope[v] # None
      BY <2>2, <3>1 DEF Scopes
    <3> QED BY <3>1, <3>2, <1>0
  <2> QED BY <2>1, <2>2, <1>1
<1>10. ASSUME NEW k \in 1 .. Depth + 1, NEW v \in Variables, NEW j \in 1 .. k - 1,
              frames'[k].scope[v] # None, frames'[j].scope[v] # None
       PROVE  v \in ForVar(frames'[k])
  <2>1. k \in 1 .. Depth
    BY <1>0, <1>1, <1>2, <1>10
  <2>2. j \in 1 .. Depth
    BY <2>1, <1>0
  <2> QED BY <2>1, <2>2, <1>0, <1>10 DEF Scopes
<1>11. \A v \in Variables : frames'[Depth + 1].scope[v] # None => v \in ForVar(frames'[Depth + 1])
  BY <1>0, <1>2
<1>12. ASSUME NEW k \in 1 .. Depth + 1, Live(k)'
       PROVE  /\ \A v \in Variables : frames'[k].scope[v] # None
                                         => v \in ForVar(frames'[k]) \cup SetVars(frames'[k])
              /\ \A v \in ForVar(frames'[k]) \cup SetVars(frames'[k]) :
                     \E j \in 1 .. k : frames'[j].scope[v] # None
  <2>1. CASE k = Depth + 1
    <3>1. g.kind = "branch"
      BY <2>1, <1>0, <1>12 DEF Live
    <3> QED BY <3>1, <2>1, <1>0, <1>2, <1>3, <1>4
  <2>2. CASE k \in 1 .. Depth
    <3>1. Live(k) /\ frames'[k] = frames[k] /\ \A j \in 1 .. k : frames'[j] = frames[j]
      BY <2>2, <1>0, <1>1
    <3> QED BY <2>2, <3>1 DEF Scopes
  <2> QED BY <2>1, <2>2, <1>1
<1> QED BY <1>0, <1>7, <1>8, <1>9, <1>10, <1>11, <1>12 DEF Scopes

(* A loop whose body has ended has only what it shadows. *)
LEMMA ScopesContinue ==
  ASSUME TypeOK, TypeOK', Stack, Scopes, Continues
  PROVE  Scopes'
<1>0. /\ Depth \in Nat /\ Depth \in 1 .. Depth /\ Depth' = Depth /\ pc = "return" /\ pc' = "next"
      /\ \A k \in 1 .. Depth : k # Depth => frames'[k] = frames[k]
      /\ Fixed(frames[Depth], frames'[Depth])
      /\ frames'[Depth].scope = leave_variable_scope(frames[Depth].scope, Top.inherited)
      /\ variables' = leave_variable_scope(variables, Top.inherited)
      /\ Top = frames[Depth] /\ Depth # 1
  <2>1. Depth \in Nat /\ Depth \in 1 .. Depth /\ Top = frames[Depth] /\ Depth' = Len(frames')
    BY Frames, TopFacts DEF Depth
  <2>2. Depth # 1
    BY <2>1, Places DEF Continues
  <2> QED BY <2>1, <2>2 DEF Continues
<1>1. /\ Depth \in 2 .. Depth /\ Depth > 1 /\ \A k \in 1 .. Depth : Live(k)
      /\ \A k \in 1 .. Depth : Live(k)' => k # Depth
      /\ \A k \in 1 .. Depth : \A j \in 1 .. k - 1 : j \in 1 .. Depth /\ j # Depth
  BY <1>0 DEF Live
<1>2. \A v \in Variables : frames'[Depth].scope[v] =
            IF v \in Top.inherited THEN frames[Depth].scope[v] ELSE None
  BY <1>0 DEF leave_variable_scope
<1>3. \A k \in 1 .. Depth : ForVar(frames'[k]) = ForVar(frames[k]) /\ frames'[k].previous = frames[k].previous
  <2>1. \A k \in 1 .. Depth : Fixed(frames[k], frames'[k])
    BY <1>0 DEF Fixed
  <2> QED BY <2>1 DEF Fixed, ForVar
<1>4. \A k \in 1 .. Depth, v \in Variables : frames'[k].scope[v] # None => frames[k].scope[v] # None
  BY <1>0, <1>2
<1>5. ASSUME NEW v \in Variables PROVE Binding(frames', Depth, v, variables'[v])
  <2>1. CASE v \in Top.inherited
    <3>1. Binding(frames, Depth, v, variables'[v])
      BY <2>1, <1>0 DEF Scopes, leave_variable_scope
    <3>2. \A k \in 1 .. Depth : frames'[k].scope[v] = frames[k].scope[v]
      BY <2>1, <1>0, <1>2
    <3> QED BY <3>1, <3>2, <1>0, BindingSame
  <2>2. CASE v \notin Top.inherited
    <3>1. variables'[v] = None
      BY <2>2, <1>0 DEF leave_variable_scope
    <3>2. \A j \in 1 .. Depth - 1 : frames[j].scope[v] = None
      BY <2>2, <1>0, <1>1, Leaving
    <3>3. \A j \in 1 .. Depth : j # Depth => j \in 1 .. Depth - 1
      BY <1>0
    <3>4. \A j \in 1 .. Depth : frames'[j].scope[v] = None
      BY <3>2, <3>3, <2>2, <1>0, <1>2
    <3> QED BY <3>1, <3>4 DEF Binding
  <2> QED BY <2>1, <2>2
<1>6. ASSUME NEW k \in 2 .. Depth, NEW v \in ForVar(frames'[k])
      PROVE  Binding(frames', k - 1, v, frames'[k].previous)
  <2>1. k \in 1 .. Depth /\ k - 1 \in Nat
    BY <1>0
  <2>2. Binding(frames, k - 1, v, frames[k].previous)
    BY <2>1, <1>3, <1>6 DEF Scopes
  <2>3. \A j \in 1 .. k - 1 : frames'[j].scope[v] = frames[j].scope[v]
    BY <2>1, <1>0, <1>1
  <2> QED BY <2>1, <2>2, <2>3, <1>3, BindingSame
<1>7. ASSUME NEW k \in 2 .. Depth, Live(k)', NEW v \in Variables
      PROVE  v \in frames'[k].inherited <=>
                v \in ForVar(frames'[k]) \/ \E j \in 1 .. k - 1 : frames'[j].scope[v] # None
  <2>1. k \in 1 .. Depth /\ k # Depth /\ frames'[k] = frames[k]
        /\ \A j \in 1 .. k - 1 : frames'[j] = frames[j]
    BY <1>0, <1>1, <1>7
  <2> QED BY <2>1, <1>1 DEF Scopes
<1>8. ASSUME NEW k \in 1 .. Depth, NEW v \in Variables, NEW j \in 1 .. k - 1,
             frames'[k].scope[v] # None, frames'[j].scope[v] # None
      PROVE  v \in ForVar(frames'[k])
  <2>1. frames[k].scope[v] # None /\ frames[j].scope[v] # None
    BY <1>1, <1>4, <1>8
  <2> QED BY <2>1, <1>3 DEF Scopes
<1>9. ASSUME NEW v \in Variables, frames'[Depth].scope[v] # None PROVE v \in ForVar(frames'[Depth])
  <2>1. v \in Top.inherited /\ frames[Depth].scope[v] # None
    BY <1>2, <1>9
  <2>2. v \in ForVar(frames[Depth]) \/ \E j \in 1 .. Depth - 1 : frames[j].scope[v] # None
    BY <2>1, <1>0, <1>1 DEF Scopes
  <2>3. v \in ForVar(frames[Depth])
    BY <2>1, <2>2, <1>0 DEF Scopes
  <2> QED BY <2>3, <1>0, <1>3
<1>10. ASSUME NEW k \in 1 .. Depth, Live(k)'
       PROVE  /\ \A v \in Variables : frames'[k].scope[v] # None
                                         => v \in ForVar(frames'[k]) \cup SetVars(frames'[k])
              /\ \A v \in ForVar(frames'[k]) \cup SetVars(frames'[k]) :
                     \E j \in 1 .. k : frames'[j].scope[v] # None
  <2>1. k # Depth /\ frames'[k] = frames[k] /\ \A j \in 1 .. k : frames'[j] = frames[j]
    <3>1. k # Depth /\ \A j \in 1 .. k : j \in 1 .. Depth /\ j # Depth
      BY <1>0, <1>1, <1>10
    <3> QED BY <3>1, <1>0
  <2> QED BY <2>1, <1>1 DEF Scopes
<1> QED BY <1>0, <1>5, <1>6, <1>7, <1>8, <1>9, <1>10 DEF Scopes

(* A new iteration starts from the variables around the loop, and its own.  *)
LEMMA ScopesIterate ==
  ASSUME TypeOK, TypeOK', Stack, Scopes, Iterates
  PROVE  Scopes'
<1> DEFINE f == frames[Depth]
           g == frames'[Depth]
           l == Top.owner
<1>1. /\ Depth \in Nat /\ Depth \in 1 .. Depth /\ Depth' = Depth /\ pc = "next" /\ pc' = "step"
      /\ \A k \in 1 .. Depth : k # Depth => frames'[k] = frames[k]
      /\ Fixed(f, g) /\ g.at = 1 /\ Top = f /\ Depth # 1 /\ f.kind = "loop" /\ l \in Loops
  <2>1. Depth \in Nat /\ Depth \in 1 .. Depth /\ Top = frames[Depth] /\ Depth' = Len(frames')
    BY Frames, TopFacts DEF Depth
  <2>2. Depth # 1 /\ Top.owner \in Loops
    BY <2>1, Places DEF Iterates
  <2> QED BY <2>1, <2>2 DEF Iterates
<1>2. PICK value \in Value \ {None} :
        /\ variables' = Binds(l, value) /\ g.inherited = variable_scope(Binds(l, value))
        /\ g.scope = IF Kind[l] = "for" THEN [Nothing EXCEPT ![Variable[l]] = value] ELSE Nothing
  BY DEF Iterates
<1>3. ForVar(g) = ForVar(f) /\ ForVar(f) = (IF Kind[l] = "for" THEN {Variable[l]} ELSE {})
      /\ ForVar(f) \subseteq Variables /\ SetVars(g) = {} /\ g.previous = f.previous
  <2>1. ForVar(f) \subseteq Variables
    BY <1>1, ForVars
  <2>2. SetVars(g) = {}
    BY <1>1 DEF SetVars
  <2> QED BY <2>1, <2>2, <1>1 DEF Fixed, ForVar
<1>4. \A v \in Variables : /\ variables'[v] = IF v \in ForVar(f) THEN value ELSE variables[v]
                           /\ g.scope[v] = IF v \in ForVar(f) THEN value ELSE None
                           /\ v \in g.inherited <=> variables'[v] # None
  <2>1. variables \in [Variables -> Value]
    BY DEF TypeOK
  <2>2. \A v \in Variables : v \in g.inherited <=> variables'[v] # None
    BY <1>2 DEF variable_scope
  <2>3. CASE Kind[l] = "for"
    <3>1. ForVar(f) = {Variable[l]} /\ Variable[l] \in Variables
      BY <2>3, <1>3
    <3>2. variables' = [variables EXCEPT ![Variable[l]] = value]
      BY <2>3, <1>2 DEF Binds
    <3>3. g.scope = [Nothing EXCEPT ![Variable[l]] = value]
      BY <2>3, <1>2
    <3>4. \A v \in Variables : g.scope[v] = IF v = Variable[l] THEN value ELSE None
      BY <3>1, <3>3 DEF Nothing
    <3> QED BY <2>1, <2>2, <3>1, <3>2, <3>4
  <2>4. CASE Kind[l] # "for"
    BY <2>2, <2>4, <1>2, <1>3 DEF Binds, Nothing
  <2> QED BY <2>3, <2>4
<1> HIDE DEF f, g, l
<1>5. /\ Depth \in 2 .. Depth /\ Depth > 0 /\ Depth - 1 \in Nat
      /\ \A k \in 1 .. Depth : k # Depth => Live(k)
      /\ \A k \in 1 .. Depth : \A j \in 1 .. k - 1 : j \in 1 .. Depth /\ j # Depth
      /\ \A k \in 1 .. Depth : k # Depth => \A j \in 1 .. k : j \in 1 .. Depth /\ j # Depth
  BY <1>1 DEF Live
<1>6. \A v \in Variables : v \notin ForVar(f) => f.scope[v] = None
  BY <1>1 DEF Scopes, f
<1>7. ASSUME NEW v \in Variables PROVE Binding(frames', Depth, v, variables'[v])
  <2>1. CASE v \in ForVar(f)
    <3>1. variables'[v] = value /\ frames'[Depth].scope[v] = value /\ value # None
      BY <2>1, <1>4 DEF g
    <3>2. \A j \in Depth + 1 .. Depth : frames'[j].scope[v] = None
      BY <1>1
    <3> QED BY <3>1, <3>2, <1>1, BindingTop
  <2>2. CASE v \notin ForVar(f)
    <3>1. variables'[v] = variables[v] /\ frames'[Depth].scope[v] = None /\ frames[Depth].scope[v] = None
      BY <2>2, <1>4, <1>6 DEF f, g
    <3>2. \A k \in 1 .. Depth : frames'[k].scope[v] = frames[k].scope[v]
      BY <3>1, <1>1
    <3>3. Binding(frames, Depth, v, variables'[v])
      BY <3>1 DEF Scopes
    <3> QED BY <3>2, <3>3, <1>1, BindingSame
  <2> QED BY <2>1, <2>2
<1>8. ASSUME NEW k \in 2 .. Depth, NEW v \in ForVar(frames'[k])
      PROVE  Binding(frames', k - 1, v, frames'[k].previous)
  <2>1. k \in 1 .. Depth /\ k - 1 \in Nat
    BY <1>1
  <2>2. ForVar(frames'[k]) = ForVar(frames[k]) /\ frames'[k].previous = frames[k].previous
    <3>1. CASE k = Depth
      BY <3>1, <1>3 DEF f, g
    <3>2. CASE k # Depth
      BY <3>2, <2>1, <1>1
    <3> QED BY <3>1, <3>2
  <2>3. Binding(frames, k - 1, v, frames[k].previous)
    BY <2>2, <1>8 DEF Scopes
  <2>4. \A j \in 1 .. k - 1 : frames'[j].scope[v] = frames[j].scope[v]
    BY <2>1, <1>1, <1>5
  <2> QED BY <2>1, <2>2, <2>3, <2>4, BindingSame
<1>9. ASSUME NEW k \in 2 .. Depth, NEW v \in Variables
      PROVE  v \in frames'[k].inherited <=>
                v \in ForVar(frames'[k]) \/ \E j \in 1 .. k - 1 : frames'[j].scope[v] # None
  <2>0. k \in 1 .. Depth /\ \A j \in 1 .. k - 1 : frames'[j] = frames[j]
    BY <1>1, <1>5
  <2>1. CASE k # Depth
    <3>1. frames'[k] = frames[k] /\ Live(k)
      BY <2>0, <2>1, <1>1, <1>5
    <3> QED BY <3>1, <2>0 DEF Scopes
  <2>2. CASE k = Depth
    <3>1. v \in g.inherited <=> variables'[v] # None
      BY <1>4
    <3>2. CASE v \in ForVar(f)
      BY <2>2, <3>1, <3>2, <1>3, <1>4 DEF g
    <3>3. CASE v \notin ForVar(f)
      <4>1. variables'[v] = variables[v] /\ f.scope[v] = None
        BY <3>3, <1>4, <1>6
      <4>2. Binding(frames, Depth, v, variables[v])
        BY DEF Scopes
      <4>3. Binding(frames, Depth - 1, v, variables[v])
        BY <4>1, <4>2, <1>1, <1>5, BindingBelow DEF f
      <4>4. variables[v] # None <=> \E j \in 1 .. Depth - 1 : frames[j].scope[v] # None
        BY <4>3, <1>5, BindingBound
      <4>5. \A j \in 1 .. Depth - 1 : frames'[j] = frames[j]
        BY <2>0, <2>2
      <4> QED BY <2>2, <3>1, <3>3, <4>1, <4>4, <4>5, <1>3 DEF g
    <3> QED BY <3>2, <3>3
  <2> QED BY <2>1, <2>2
<1>10. ASSUME NEW k \in 1 .. Depth, NEW v \in Variables, NEW j \in 1 .. k - 1,
              frames'[k].scope[v] # None, frames'[j].scope[v] # None
       PROVE  v \in ForVar(frames'[k])
  <2>1. CASE k # Depth
    <3>1. frames'[k] = frames[k] /\ frames'[j] = frames[j]
      BY <2>1, <1>1, <1>5
    <3> QED BY <3>1, <1>10 DEF Scopes
  <2>2. CASE k = Depth
    BY <2>2, <1>3, <1>4, <1>10 DEF g
  <2> QED BY <2>1, <2>2
<1>11. ASSUME NEW k \in 1 .. Depth
       PROVE  /\ \A v \in Variables : frames'[k].scope[v] # None
                                         => v \in ForVar(frames'[k]) \cup SetVars(frames'[k])
              /\ \A v \in ForVar(frames'[k]) \cup SetVars(frames'[k]) :
                     \E j \in 1 .. k : frames'[j].scope[v] # None
  <2>1. CASE k # Depth
    <3>1. Live(k) /\ frames'[k] = frames[k] /\ \A j \in 1 .. k : frames'[j] = frames[j]
      BY <2>1, <1>1, <1>5
    <3> QED BY <3>1 DEF Scopes
  <2>2. CASE k = Depth
    <3>1. \A v \in Variables : frames'[k].scope[v] # None => v \in ForVar(frames'[k])
      BY <2>2, <1>3, <1>4 DEF g
    <3>2. \A v \in ForVar(frames'[k]) : v \in Variables /\ frames'[k].scope[v] = value /\ value # None
      BY <2>2, <1>3, <1>4 DEF g
    <3>3. SetVars(frames'[k]) = {} /\ k \in 1 .. k
      BY <2>2, <1>1, <1>3 DEF g
    <3> QED BY <3>1, <3>2, <3>3
  <2> QED BY <2>1, <2>2
<1> QED BY <1>1, <1>7, <1>8, <1>9, <1>10, <1>11 DEF Scopes

(* The flat map of variables is at every step the one of the scopes.        *)
LEMMA ScopesStep ==
  ASSUME TypeOK, TypeOK', Stack, Stack', Control, Moves, Scopes
  PROVE  Scopes'
<1>0. /\ Depth \in 1 .. Depth /\ Top = frames[Depth] /\ Depth \in Nat /\ Depth' = Len(frames')
  BY TopFacts, Frames DEF Depth
<1>1. CASE Leaf
  <2>1. PICK ending \in Endings, cause \in Steps \cup {None} :
            /\ Logs(ending, cause)
            /\ Plain(ending) \/ (ending = "continue" /\ (Assigns \/ StagesOutput))
    BY <1>1 DEF Leaf
  <2>2. CompletesAt(Depth, ending, cause) /\ pc \in {"step", "busy"}
    BY <2>1 DEF Logs
  <2>3. /\ Current = frames[Depth].steps[frames[Depth].at] /\ \A k \in 1 .. Depth : Live(k)
        /\ ~AtEnd
    BY <1>0, <2>2, TopFacts DEF Current, Live, CompletesAt
  <2>4. ASSUME variables' = variables, \A k \in 1 .. Depth : frames'[k].scope = frames[k].scope,
               Done(ending) => Kind[Current] # "set"
        PROVE  Scopes'
    <3>1. \A v \in Variables : Binding(frames, Depth, v, variables'[v])
      BY <2>4 DEF Scopes
    <3> QED BY <2>2, <2>3, <2>4, <3>1, ScopesCompletes
  <2>5. CASE Plain(ending)
    BY <2>4, <2>5 DEF Plain
  <2>6. CASE StagesOutput
    BY <2>4, <2>6 DEF StagesOutput
  <2>7. CASE ending = "continue" /\ Assigns
    BY <2>2, <2>3, <2>7, ScopesAssign
  <2> QED BY <2>1, <2>5, <2>6, <2>7
<1>2. CASE \E g \in Block : Enters(g)
  BY <1>2, ScopesEnter
<1>3. CASE \E ending \in Endings, cause \in Steps \cup {"signal", None} :
                PopsBranch(ending, cause) \/ PopsLoop(ending, cause)
  <2>1. PICK ending \in Endings, cause \in Steps \cup {"signal", None} :
            PopsBranch(ending, cause) \/ PopsLoop(ending, cause)
    BY <1>3
  <2> DEFINE left == leave_variable_scope(variables, Top.inherited)
             d == Depth - 1
  <2>2. PICK data, outputs :
            /\ Pops(ending, cause, data, outputs)
            /\ \/ pc = "return" /\ Top.kind = "branch" /\ data = left
               \/ pc = "return" /\ Top.kind = "loop" /\ data = restored(left, Top)
               \/ pc = "next" /\ Top.kind = "loop" /\ data = restored(variables, Top)
    BY <2>1 DEF PopsBranch, PopsLoop
  <2>3. /\ CompletesAt(d, ending, cause) /\ Depth > 1 /\ variables' = data
        /\ \A k \in 1 .. d : frames'[k].scope = frames[k].scope
    BY <2>2 DEF Pops
  <2>4. /\ Top.owner = frames[d].steps[frames[d].at]
        /\ Kind[Top.owner] # "set"
    <3>1. Depth \in 2 .. Depth
      BY <1>0, <2>3
    <3>2. Opens(frames[d], frames[Depth])
      BY <3>1 DEF Stack, Chain
    <3> QED BY <3>2, <1>0 DEF Opens, Loops
  <2>5. \A k \in 1 .. d : Live(k)
    BY <1>0 DEF Live
  <2>a. variables \in [Variables -> Value] /\ left \in [Variables -> Value]
    BY LeftTypes DEF TypeOK
  <2>b. \A v \in Variables : v \notin ForVar(frames[Depth]) =>
            /\ restored(left, Top)[v] = left[v] /\ restored(variables, Top)[v] = variables[v]
    <3> HIDE DEF left
    <3>1. CASE Kind[Top.owner] = "for" /\ Top.kind = "loop"
      BY <3>1, <2>a, <1>0 DEF restored, ForVar
    <3>2. CASE Kind[Top.owner] # "for"
      BY <3>2 DEF restored
    <3>3. CASE Top.kind = "branch"
      <4>1. Depth \in 2 .. Depth
        BY <1>0, <2>3
      <4>2. Kind[Top.owner] = "if"
        BY <3>3, <4>1, <1>0 DEF Stack, Chain, Opens
      <4> QED BY <4>2 DEF restored
    <3> QED BY <2>2, <3>1, <3>2, <3>3
  <2>c. \A v \in Variables : v \in ForVar(frames[Depth]) =>
            /\ Top.kind = "loop"
            /\ restored(left, Top)[v] = Top.previous /\ restored(variables, Top)[v] = Top.previous
    <3> HIDE DEF left
    <3> QED BY <2>a, <1>0 DEF restored, ForVar
  <2> HIDE DEF left
  <2>6. ASSUME NEW v \in Variables PROVE Binding(frames, d, v, variables'[v])
    <3>1. /\ v \notin ForVar(frames[Depth]) /\ Live(Depth) => Binding(frames, d, v, left[v])
          /\ v \notin ForVar(frames[Depth]) /\ pc = "next" => Binding(frames, d, v, variables[v])
          /\ v \in ForVar(frames[Depth]) => Binding(frames, d, v, Top.previous)
      BY <2>3, Leaving DEF left
    <3>2. pc = "return" => Live(Depth)
      BY DEF Live
    <3>3. CASE v \in ForVar(frames[Depth])
      <4>1. variables'[v] = Top.previous
        BY <3>3, <2>2, <2>3, <2>c
      <4> QED BY <3>1, <3>3, <4>1
    <3>4. CASE v \notin ForVar(frames[Depth])
      <4>1. /\ pc = "return" => variables'[v] = left[v]
            /\ pc = "next" => variables'[v] = variables[v]
        BY <3>4, <2>2, <2>3, <2>b
      <4> QED BY <3>1, <3>2, <3>4, <4>1, <2>2
    <3> QED BY <3>3, <3>4
  <2> HIDE DEF d
  <2>7. Done(ending) => Kind[frames[d].steps[frames[d].at]] # "set"
    BY <2>4
  <2>8. \A k \in 1 .. d : Live(k) /\ frames'[k].scope = frames[k].scope
    BY <2>3, <2>5
  <2> QED BY <2>3, <2>6, <2>7, <2>8, ScopesCompletes
<1>4. CASE Continues
  BY <1>4, ScopesContinue
<1>5. CASE Iterates
  BY <1>5, ScopesIterate
<1>6. CASE Idles /\ Stays
  <2>1. /\ Depth' = Depth /\ variables' = variables
        /\ \A k \in 1 .. Depth : Same(frames[k], frames'[k]) /\ frames'[k].scope = frames[k].scope
    BY <1>0, <1>6 DEF Stays
  <2> QED BY <2>1, <1>6, IdlesNext, ScopesStay
<1> QED BY <1>1, <1>2, <1>3, <1>4, <1>5, <1>6 DEF Moves

(* What may be referred to, block by block. *)
LEMMA Priors ==
  ASSUME NEW d \in Nat
  PROVE  /\ \A s : s \in prior(d) <=> \E k \in 1 .. d : \E j \in 1 .. frames[k].at - 1 : s = frames[k].steps[j]
         /\ \A v : v \in prior_variables(d) <=>
                \E k \in 1 .. d : v \in ForVar(frames[k]) \cup SetVars(frames[k])
<1>1. \A s : s \in prior(d) <=> \E k \in 1 .. d : \E j \in 1 .. frames[k].at - 1 : s = frames[k].steps[j]
  BY DEF prior
<1>2. ASSUME NEW v
      PROVE  v \in {Variable[s] : s \in {t \in prior(d) : Kind[t] = "set"}} <=>
                \E k \in 1 .. d : v \in SetVars(frames[k])
  BY <1>1 DEF SetVars
<1>3. ASSUME NEW v
      PROVE  v \in {Variable[frames[k].owner] :
                        k \in {j \in 1 .. d : IsLoop(frames[j]) /\ Kind[frames[j].owner] = "for"}} <=>
                \E k \in 1 .. d : v \in ForVar(frames[k])
  BY DEF ForVar, IsLoop
<1> QED BY <1>1, <1>2, <1>3 DEF prior_variables

(* The innermost binding is what a lookup through the scopes finds. *)
LEMMA LookupFinds ==
  ASSUME TypeOK, Scopes, NEW v \in Variables
  PROVE  variables[v] = Lookup(v)
<1>1. Depth \in Nat /\ DOMAIN frames = 1 .. Depth
  BY Frames
<1>2. Binding(frames, Depth, v, variables[v])
  BY DEF Scopes
<1> DEFINE declaring == {k \in DOMAIN frames : frames[k].scope[v] # None}
<1>3. Lookup(v) = IF declaring = {} THEN None ELSE frames[Max(declaring)].scope[v]
  BY DEF Lookup
<1>4. CASE variables[v] = None /\ \A k \in 1 .. Depth : frames[k].scope[v] = None
  <2>1. declaring = {}
    BY <1>1, <1>4
  <2> QED BY <2>1, <1>3, <1>4
<1>5. CASE variables[v] # None /\ \E k \in 1 .. Depth :
            /\ frames[k].scope[v] = variables[v]
            /\ \A j \in k + 1 .. Depth : frames[j].scope[v] = None
  <2>1. PICK k \in 1 .. Depth : /\ frames[k].scope[v] = variables[v]
                                /\ \A j \in k + 1 .. Depth : frames[j].scope[v] = None
    BY <1>5
  <2>2. k \in declaring /\ declaring \subseteq 1 .. Depth
    BY <2>1, <1>1, <1>5
  <2>3. ASSUME NEW j \in declaring PROVE k >= j
    <3>1. j \in 1 .. Depth /\ frames[j].scope[v] # None
      BY <2>2
    <3>2. j \notin k + 1 .. Depth
      BY <3>1, <2>1
    <3> QED BY <3>1, <3>2, <1>1
  <2> HIDE DEF declaring
  <2>4. Max(declaring) = k
    <3>1. ASSUME NEW x \in declaring, \A y \in declaring : x >= y PROVE x = k
      <4>1. x >= k /\ k >= x /\ x \in 1 .. Depth
        BY <3>1, <2>2, <2>3
      <4> QED BY <4>1, <1>1
    <3>2. Max(declaring) = CHOOSE x \in declaring : \A y \in declaring : x >= y
      BY DEF Max
    <3> QED BY <3>1, <3>2, <2>2, <2>3
  <2>5. declaring # {}
    BY <2>2
  <2> QED BY <2>1, <2>4, <2>5, <1>3
<1> QED BY <1>2, <1>4, <1>5 DEF Binding

(* A step reads what its Template means it to. *)
LEMMA SoundReads ==
  ASSUME TypeOK, Stack, Scopes, Kept
  PROVE  ReadsAreSound
<1>0. /\ Depth \in Nat /\ Depth - 1 \in Nat
      /\ \A k \in 1 .. Depth - 1 : k \in 1 .. Depth /\ Live(k)
      /\ pc # "next" => \A k \in 1 .. Depth : Live(k)
  BY Frames DEF Live
<1>1. \A k \in 1 .. Depth : Place(frames[k]) # None
  <2>1. \A k \in 1 .. Depth : Place(frames[k]) \in Occurrence
    BY Places
  <2> QED BY <2>1, MarksAreFresh
<1>2. \A s \in Available : s \in prior(Depth)
  <2>1. ASSUME NEW s \in Available PROVE s \in prior(Depth)
    <3>1. s \in Steps /\ step_outputs[s] # None
      BY DEF Available
    <3>2. \E k \in 1 .. Depth : \E j \in 1 .. frames[k].at - 1 : s = frames[k].steps[j]
      BY <3>1 DEF Kept
    <3> QED BY <3>2, <1>0, Priors
  <2> QED BY <2>1
<1>3. ASSUME NEW d \in Nat, \A k \in 1 .. d : k \in 1 .. Depth /\ Live(k)
      PROVE  /\ prior(d) \subseteq Available
             /\ prior_variables(d) \subseteq variable_scope(variables)
  <2>1. ASSUME NEW s \in prior(d) PROVE s \in Available
    <3>1. PICK k \in 1 .. d : \E j \in 1 .. frames[k].at - 1 : s = frames[k].steps[j]
      BY Priors
    <3>2. PICK j \in 1 .. frames[k].at - 1 : s = frames[k].steps[j]
      BY <3>1
    <3>3. k \in 1 .. Depth /\ Live(k)
      BY <1>3
    <3>4. s \in Steps
      BY <3>2, <3>3, PassedSteps
    <3>5. step_outputs[s] = Place(frames[k])
      BY <3>2, <3>3 DEF Kept
    <3> QED BY <3>3, <3>4, <3>5, <1>1 DEF Available
  <2>2. ASSUME NEW v \in prior_variables(d) PROVE v \in variable_scope(variables)
    <3>1. PICK k \in 1 .. d : v \in ForVar(frames[k]) \cup SetVars(frames[k])
      BY Priors
    <3>2. k \in 1 .. Depth /\ Live(k)
      BY <1>3
    <3>3. PICK j \in 1 .. k : frames[j].scope[v] # None
      BY <3>1, <3>2 DEF Scopes
    <3>4. v \in Variables
      BY <3>1, <3>2, ForVars
    <3>5. Binding(frames, Depth, v, variables[v])
      BY <3>4 DEF Scopes
    <3>6. j \in 1 .. Depth
      BY <3>2, <1>0
    <3>7. variables[v] # None
      BY <3>3, <3>5, <3>6, <1>0, BindingBound
    <3> QED BY <3>4, <3>7 DEF variable_scope
  <2> QED BY <2>1, <2>2
<1>4. ASSUME pc # "next", NEW v \in variable_scope(variables) PROVE v \in prior_variables(Depth)
  <2>1. v \in Variables /\ variables[v] # None
    BY DEF variable_scope
  <2>2. Binding(frames, Depth, v, variables[v])
    BY <2>1 DEF Scopes
  <2>3. PICK k \in 1 .. Depth : frames[k].scope[v] # None
    BY <2>1, <2>2, <1>0, BindingBound
  <2>4. v \in ForVar(frames[k]) \cup SetVars(frames[k])
    BY <2>1, <2>3, <1>0, <1>4 DEF Scopes
  <2> QED BY <2>4, <1>0, Priors
<1>5. ReferencesResolve
  <2>1. ASSUME pc \in {"step", "busy"}
        PROVE  variable_scope(variables) = prior_variables(Depth) /\ Available = prior(Depth)
    <3>1. pc # "next" /\ \A k \in 1 .. Depth : k \in 1 .. Depth /\ Live(k)
      BY <2>1, <1>0
    <3>2. prior(Depth) \subseteq Available /\ prior_variables(Depth) \subseteq variable_scope(variables)
      BY <3>1, <1>0, <1>3
    <3>3. variable_scope(variables) \subseteq prior_variables(Depth)
      BY <3>1, <1>4
    <3>4. Available \subseteq prior(Depth)
      BY <1>2
    <3> QED BY <3>2, <3>3, <3>4
  <2>2. /\ prior_variables(Depth - 1) \subseteq variable_scope(variables)
        /\ prior(Depth - 1) \subseteq Available
    <3> DEFINE d == Depth - 1
    <3>1. d \in Nat /\ \A k \in 1 .. d : k \in 1 .. Depth /\ Live(k)
      BY <1>0
    <3> HIDE DEF d
    <3>2. prior_variables(d) \subseteq variable_scope(variables) /\ prior(d) \subseteq Available
      BY <3>1, <1>3
    <3> QED BY <3>2 DEF d
  <2> QED BY <2>1, <2>2 DEF ReferencesResolve
<1>6. DataIsLexical
  <2>1. \A v \in Variables : variables[v] = Lookup(v)
    BY LookupFinds
  <2>2. ASSUME NEW k \in 1 .. IF pc = "next" THEN Depth - 1 ELSE Depth, NEW j \in 1 .. frames[k].at - 1
        PROVE  step_outputs[frames[k].steps[j]] = Place(frames[k])
    <3>1. k \in 1 .. Depth /\ Live(k)
      BY <1>0
    <3> QED BY <3>1 DEF Kept
  <2> QED BY <2>1, <2>2 DEF DataIsLexical
<1> QED BY <1>5, <1>6 DEF ReadsAreSound

(* The workflow begins with its root, and with nothing in its data. *)
LEMMA InitData == Init => DataInv
<1> SUFFICES ASSUME Init PROVE DataInv
  OBVIOUS
<1> DEFINE f == Frame("root", None, Root, <<>>, None, {})
<1>1. /\ f.kind = "root" /\ f.owner = None /\ f.steps = Root /\ f.path = <<>>
      /\ f.at = 1 /\ f.index = 0 /\ f.staged = <<>> /\ f.previous = None
      /\ f.inherited = {} /\ f.scope = Nothing
  BY DEF Frame
<1>2. f = [x \in Fields |-> f[x]]
  BY DEF Frame, Fields
<1>3. /\ frames = <<f>> /\ pc = "step" /\ flow = "continue" /\ variables = Nothing
      /\ step_outputs = [s \in Steps |-> None]
      /\ executions = <<>> /\ rows = <<>> /\ failure = None
      /\ stop = FALSE /\ signal = FALSE /\ request = None
      /\ late = 0 /\ again = [l \in Loops |-> 0]
  BY DEF Init
<1> HIDE DEF f
<1>4. Depth = 1 /\ Top = f /\ frames[1] = f /\ 1 .. Depth = {1}
  BY <1>3 DEF Depth, Top
<1>5. Nothing \in [Variables -> Value] /\ \A v \in Variables : Nothing[v] = None
  BY DEF Nothing, Value
<1>6. f \in Block
  <2>1. None \in Value /\ <<>> \in Occurrence
    BY DEF Value, Occurrence
  <2>2. /\ f.kind \in {"root", "branch", "loop"} /\ f.owner \in Steps \cup {None}
        /\ f.steps \in Seq(Steps) /\ f.path \in Occurrence
        /\ f.at \in Nat \ {0} /\ f.index \in Nat
        /\ f.staged \in Seq([page : Pages \cup {None}, outputs : Seq(Steps)])
        /\ f.previous \in Value /\ f.inherited \in SUBSET Variables
        /\ f.scope \in [Variables -> Value]
    BY <1>1, <1>5, <2>1, Tree
  <2> QED BY <1>2, <2>2, IsBlock
<1>7. TypeOK
  <2>1. frames \in Seq(Block) /\ frames # <<>>
    BY <1>3, <1>6
  <2>2. executions \in Seq(Execution)
        /\ rows \in Seq([page : Pages \cup {None}, path : Occurrence, outputs : Seq(Steps)])
    BY <1>3
  <2>3. step_outputs \in [Steps -> Occurrence \cup {None}]
    BY <1>3
  <2>4. variables \in [Variables -> Value]
    BY <1>3, <1>5
  <2>5. again \in [Loops -> Nat]
    BY <1>3
  <2> QED BY <2>1, <2>2, <2>3, <2>4, <2>5, <1>3 DEF TypeOK
<1>8. Stack
  <2>1. Chain
    BY <1>1, <1>4, Tree DEF Chain
  <2>2. Nested
    <3>1. Range(Root) \subseteq Inside(Root, Steps)
      BY InsideFacts
    <3> QED BY <3>1, <1>1, <1>4 DEF Nested
  <2>3. Placed
    BY <1>1, <1>4 DEF Placed
  <2>4. Scoped
    <3>1. Place(f) = <<>>
      BY <1>1 DEF Place, IsLoop
    <3> QED BY <3>1, <1>1, <1>4 DEF Scoped
  <2> QED BY <2>1, <2>2, <2>3, <2>4 DEF Stack
<1>9. Control
  BY <1>3, Outcomes DEF Control
<1>10. Prompt
  BY <1>3 DEF Prompt
<1>11. Asked
  BY <1>3 DEF Asked
<1>12. Verdict
  <2>1. \A j \in 1 .. Len(Root) : ~Succeeded(Root[j]) /\ ~(j < 1)
    BY <1>3, Tree DEF Succeeded
  <2> QED BY <2>1, <1>1, <1>3, <1>4, MarksAreFresh DEF Verdict
<1>13. Scopes
  <2>0. \A v \in Variables : frames[1].scope[v] = None /\ variables[v] = None
    BY <1>1, <1>3, <1>4, <1>5
  <2>1. \A v \in Variables : Binding(frames, Depth, v, variables[v])
    BY <2>0, <1>4 DEF Binding
  <2>2. 2 .. Depth = {}
    BY <1>4
  <2>3. ForVar(frames[1]) = {} /\ SetVars(frames[1]) = {}
    BY <1>1, <1>4 DEF ForVar, SetVars
  <2> QED BY <2>0, <2>1, <2>2, <2>3, <1>3, <1>4 DEF Scopes
<1>14. Kept
  BY <1>1, <1>3, <1>4 DEF Kept
<1> QED BY <1>7, <1>8, <1>9, <1>10, <1>11, <1>12, <1>13, <1>14 DEF DataInv

(* Every step keeps the stack, the data and the ways to end. *)
LEMMA DataStep == DataInv /\ [Next]_vars => DataInv' /\ Moves
<1> SUFFICES ASSUME DataInv, [Next]_vars PROVE DataInv' /\ Moves
  OBVIOUS
<1>1. TypeOK /\ Stack /\ Control /\ Prompt /\ Asked /\ Verdict /\ Scopes /\ Kept
  BY DEF DataInv
<1>2. TypeOK' /\ Moves
  BY <1>1, StepMoves
<1>3. Stack'
  BY <1>1, <1>2, StackStep
<1>4. Control'
  BY <1>1, <1>2, <1>3, ControlStep
<1>5. Prompt'
  BY <1>1, <1>2, PromptStep
<1>6. Asked'
  BY <1>1, <1>2, <1>3, AskedStep
<1>7. Verdict'
  BY <1>1, <1>2, <1>3, VerdictStep
<1>8. Scopes'
  BY <1>1, <1>2, <1>3, ScopesStep
<1>9. Kept'
  BY <1>1, <1>2, <1>3, KeptStep
<1> QED BY <1>2, <1>3, <1>4, <1>5, <1>6, <1>7, <1>8, <1>9 DEF DataInv

(* The executor's stack and data are right in every state. *)
LEMMA DataIsKept == Spec => []DataInv
BY InitData, DataStep, PTL DEF Spec

(* Every variable of the executor keeps its type, whatever the workflow.    *)
THEOREM ExecutorTypeCorrect == Spec => []TypeOK
<1>1. DataInv => TypeOK
  BY DEF DataInv
<1> QED BY <1>1, DataIsKept, PTL

(* Whenever a step runs or a While condition is evaluated, what it may      *)
(* refer to is there and is the value that lexical scopes would give it, of *)
(* the iteration that runs (enter_variable_scope, leave_variable_scope,     *)
(* restore_step_outputs_recursive).                                         *)
THEOREM ReadsAreSoundHolds == Spec => []ReadsAreSound
<1>1. DataInv => ReadsAreSound
  BY SoundReads DEF DataInv
<1> QED BY <1>1, DataIsKept, PTL

(* After a request to stop at most the step that runs still ends, and under *)
(* a request to stop a loop neither that loop nor one inside it begins a    *)
(* second iteration (run_steps, consume_loop_stop).                         *)
THEOREM StopIsPromptHolds == Spec => []StopIsPrompt
<1>1. DataInv => StopIsPrompt
  BY DEF DataInv, Prompt, Asked, StopIsPrompt
<1> QED BY <1>1, DataIsKept, PTL

-----------------------------------------------------------------------------
(* ... and the log and the rows.                                            *)
Failing == pc \in {"return", "done"} /\ flow \in {"err", "stopped"}

Logged(s, p) == \E k \in DOMAIN executions : executions[k].step = s /\ executions[k].path = p

Visits == {executions[k].path : k \in DOMAIN executions} \cup {rows[i].path : i \in DOMAIN rows}

Up(q, n) == [i \in 1 .. n |-> q[i]]

(* A step a block has yet to execute has not been executed in its place.    *)
Unlogged ==
    ~Failing => \A k \in 1 .. Depth : Live(k) => \A j \in 1 .. Len(frames[k].steps) :
        j >= frames[k].at => ~Logged(frames[k].steps[j], Place(frames[k]))

(* An iteration that left an entry or a row is one of a loop that has ended *)
(* in that place, or of one that runs there, and then none to come.         *)
Iterated ==
    \A q \in Visits : \A n \in 1 .. Len(q) :
        \/ Logged(q[n][1], Up(q, n - 1))
        \/ \E m \in 1 .. Depth : /\ frames[m].kind = "loop" /\ frames[m].owner = q[n][1]
                                 /\ frames[m].path = Up(q, n - 1)

Past ==
    \A q \in Visits, m \in 1 .. Depth : \A i \in Nat :
        frames[m].kind = "loop" /\ Within(q, frames[m].path, <<frames[m].owner, i>>) =>
            i <= frames[m].index /\ (i = frames[m].index => Live(m))

(* An entry of a branch is one of an If that has ended there, or runs.      *)
Branched ==
    \A k \in DOMAIN executions, s \in Ifs : executions[k].step \in Children(s) =>
        \/ Logged(s, executions[k].path)
        \/ \E m \in 1 .. Depth : /\ frames[m].kind = "branch" /\ frames[m].owner = s
                                 /\ frames[m].path = executions[k].path

(* Every block that runs has executed the steps it has passed, and as long  *)
(* as it may commit, they ended well and their outputs are staged.          *)
Passed ==
    \A k \in 1 .. Depth : Live(k) => \A j \in 1 .. frames[k].at - 1 :
        Logged(frames[k].steps[j], Place(frames[k]))

Well ==
    ~Failing => \A k \in 1 .. Depth : Live(k) => \A h \in DOMAIN executions :
        executions[h].path = Place(frames[k]) => executions[h].outcome = "succeeded"

Committing(k) == k = Depth /\ pc \in {"commit", "return", "done"}

(* st has the Outputs that log has for the iteration q, but for those of    *)
(* the Pages that are gone.                                                 *)
StagesWell(st, log, q, gone) ==
    /\ \A g \in DOMAIN st, h \in DOMAIN st : st[g].page = st[h].page => g = h
    /\ \A h \in DOMAIN st : st[h].outputs = OutputsIn(log, st[h].page, q)
    /\ \A p \in Pages : OutputsIn(log, p, q) # <<>> =>
            (\E h \in DOMAIN st : st[h].page = p) \/ p \in gone

(* The Pages of which a block that commits has committed its rows. *)
Gone(k) == {p \in Pages : Committing(k) /\ \E i \in DOMAIN rows :
                                rows[i].page = p /\ rows[i].path = Place(frames[k])}

StagedWell ==
    ~Failing => \A k \in 1 .. Depth : Live(k) /\ frames[k].kind # "branch" =>
        /\ StagesWell(frames[k].staged, executions, Place(frames[k]), Gone(k))
        /\ k = Depth /\ pc \in {"return", "done"} /\ flow = "continue" => frames[k].staged = <<>>

(* A row was committed where no more will be executed. *)
Final ==
    \A i \in DOMAIN rows, k \in 1 .. Depth : rows[i].path = Place(frames[k]) =>
        /\ Committing(k) /\ frames[k].kind # "branch"
        /\ pc = "commit" => \A h \in DOMAIN frames[k].staged :
                                frames[k].staged[h].page # rows[i].page

Entries == Unlogged /\ Iterated /\ Past /\ Branched /\ Passed /\ Well

RowInv == Entries /\ StagedWell /\ Final /\ RowsAreWhole

-----------------------------------------------------------------------------
(* The log.                                                                 *)

(* A step ends in block d: the one on top where it runs, or the one below   *)
(* it, when the block of an If or of a loop has ended.                      *)
EndsAt(d, ending, cause) ==
    /\ CompletesAt(d, ending, cause)
    /\ \A k \in 1 .. d : Live(k) /\ ~Committing(k)
    /\ Failing => ~Done(ending)
    /\ \A m \in 1 .. Depth : m > d =>
        /\ m = Depth /\ frames[m].owner = frames[d].steps[frames[d].at]
        /\ frames[m].path = Place(frames[d])

(* A leaf step ends in the block on top. *)
LEMMA LeafEnds ==
  ASSUME TypeOK, Stack, NEW ending \in Endings, NEW cause, Logs(ending, cause)
  PROVE  EndsAt(Depth, ending, cause)
<1>1. CompletesAt(Depth, ending, cause) /\ pc \in {"step", "busy"} /\ Depth \in Nat
  BY Frames DEF Logs
<1>2. \A m \in 1 .. Depth : ~(m > Depth)
  BY <1>1
<1> QED BY <1>1, <1>2 DEF EndsAt, Live, Committing, Failing

(* An If or a loop ends in the block below its own. *)
LEMMA PopEnds ==
  ASSUME TypeOK, Stack, NEW ending \in Endings, NEW cause,
         PopsBranch(ending, cause) \/ PopsLoop(ending, cause)
  PROVE  EndsAt(Depth - 1, ending, cause)
<1>0. Depth \in Nat /\ Depth \in 1 .. Depth /\ Top = frames[Depth]
  BY Frames, TopFacts
<1>1. CompletesAt(Depth - 1, ending, cause) /\ Depth > 1
  BY DEF PopsBranch, PopsLoop, Pops
<1>2. Opens(frames[Depth - 1], frames[Depth])
  <2>1. Depth \in 2 .. Depth
    BY <1>0, <1>1
  <2> QED BY <2>1 DEF Stack, Chain
<1>3. \A k \in 1 .. Depth - 1 : Live(k) /\ ~Committing(k)
  BY <1>0 DEF Live, Committing
<1>4. \A m \in 1 .. Depth : m > Depth - 1 => m = Depth
  BY <1>0
<1>5. Failing => ~Done(ending)
  <2>1. SUFFICES ASSUME Failing PROVE ending \in {"err", "stopped"}
    BY Outcomes
  <2>2. pc = "return" /\ flow \in {"err", "stopped"}
    BY <2>1 DEF Failing, PopsBranch, PopsLoop
  <2>3. Top.kind = "loop" => Top.owner \notin {"err", "stopped"}
    <3>1. Top.kind = "loop" => Top.owner \in Loops
      BY <1>0, Places
    <3> QED BY <3>1, Outcomes
  <2> QED BY <2>2, <2>3 DEF PopsBranch, PopsLoop, Ending
<1> QED BY <1>1, <1>2, <1>3, <1>4, <1>5 DEF EndsAt, Opens

(* What is logged after it. *)
LEMMA Logging ==
  ASSUME TypeOK, NEW d, NEW ending, NEW cause, CompletesAt(d, ending, cause), NEW s, NEW p
  PROVE  Logged(s, p)' <=> \/ Logged(s, p)
                           \/ s = frames[d].steps[frames[d].at] /\ p = Place(frames[d])
<1> DEFINE n == Len(executions)
<1>1. /\ n \in Nat /\ DOMAIN executions = 1 .. n /\ DOMAIN executions' = 1 .. n + 1
      /\ \A k \in 1 .. n : executions'[k] = executions[k]
      /\ executions'[n + 1].step = frames[d].steps[frames[d].at]
      /\ executions'[n + 1].path = Place(frames[d])
  BY LogGrows
<1>2. /\ \A k \in 1 .. n + 1 : k \in 1 .. n \/ k = n + 1
      /\ \A k \in 1 .. n : k \in 1 .. n + 1
      /\ n + 1 \in 1 .. n + 1
  BY <1>1
<1>3. Logged(s, p)' <=> \E k \in 1 .. n + 1 : executions'[k].step = s /\ executions'[k].path = p
  BY <1>1 DEF Logged
<1>4. Logged(s, p) <=> \E k \in 1 .. n : executions[k].step = s /\ executions[k].path = p
  BY <1>1 DEF Logged
<1> HIDE DEF n
<1> QED BY <1>1, <1>2, <1>3, <1>4

(* What has been visited after it. *)
LEMMA Visiting ==
  ASSUME TypeOK, NEW d, NEW ending, NEW cause, CompletesAt(d, ending, cause), NEW q \in Visits'
  PROVE  q \in Visits \/ q = Place(frames[d])
<1> DEFINE n == Len(executions)
<1>1. /\ n \in Nat /\ DOMAIN executions = 1 .. n /\ DOMAIN executions' = 1 .. n + 1
      /\ \A k \in 1 .. n : executions'[k] = executions[k]
      /\ executions'[n + 1].path = Place(frames[d])
  BY LogGrows
<1>2. rows' = rows
  BY DEF CompletesAt
<1>3. \A k \in 1 .. n + 1 : k \in 1 .. n \/ k = n + 1
  BY <1>1
<1>4. CASE \E i \in DOMAIN rows : q = rows[i].path
  BY <1>4 DEF Visits
<1>5. CASE \E k \in 1 .. n + 1 : q = executions'[k].path
  BY <1>1, <1>3, <1>5 DEF Visits
<1> QED BY <1>1, <1>2, <1>4, <1>5 DEF Visits

(* Visits are places. *)
LEMMA VisitsArePlaces ==
  ASSUME TypeOK
  PROVE  \A q \in Visits : q \in Occurrence /\ q \in Seq(Loops \X Nat) /\ Len(q) \in Nat
<1>1. \A k \in DOMAIN executions : executions[k].path \in Occurrence
  <2>1. executions \in Seq(Execution)
    BY DEF TypeOK
  <2>2. \A k \in DOMAIN executions : executions[k] \in Execution
    BY <2>1
  <2> QED BY <2>2 DEF Execution
<1>2. \A i \in DOMAIN rows : rows[i].path \in Occurrence
  <2> DEFINE R == [page : Pages \cup {None}, path : Occurrence, outputs : Seq(Steps)]
  <2>1. rows \in Seq(R)
    BY DEF TypeOK
  <2>2. \A r \in R : r.path \in Occurrence
    OBVIOUS
  <2> HIDE DEF R
  <2>3. \A k \in DOMAIN rows : rows[k] \in R
    BY <2>1
  <2> QED BY <2>2, <2>3
<1> QED BY <1>1, <1>2 DEF Visits, Occurrence

(* Every iteration of the place of a block is that of a loop that runs.     *)
LEMMA PlacesRun ==
  ASSUME TypeOK, Stack, NEW d \in 1 .. Depth, NEW q, q = Place(frames[d])
  PROVE  /\ \A n \in 1 .. Len(q) : \E m \in 1 .. d :
                /\ frames[m].kind = "loop" /\ frames[m].owner = q[n][1] /\ frames[m].path = Up(q, n - 1)
         /\ \A m \in 1 .. d, i \in Nat :
                frames[m].kind = "loop" /\ Within(q, frames[m].path, <<frames[m].owner, i>>)
                    => i = frames[m].index
<1> DEFINE p == frames[d].path
<1>0. /\ Depth \in Nat /\ d \in Nat /\ d > 0 /\ p \in Seq(Loops \X Nat) /\ Len(p) \in Nat
      /\ q \in Seq(Loops \X Nat) /\ Len(q) \in Nat
      /\ frames[d].kind # "loop" => q = p
      /\ frames[d].kind = "loop" => Len(q) = Len(p) + 1 /\ q[Len(p) + 1] = <<frames[d].owner, frames[d].index>>
      /\ \A i \in 1 .. Len(p) : q[i] = p[i]
  <2>1. Depth \in Nat /\ d \in Nat /\ d > 0 /\ p \in Seq(Loops \X Nat) /\ Len(p) \in Nat
    BY Frames DEF Occurrence
  <2>2. /\ Place(frames[d]) \in Occurrence /\ Len(Place(frames[d])) \in Nat
        /\ frames[d].kind # "loop" => Place(frames[d]) = frames[d].path
        /\ frames[d].kind = "loop" => /\ Len(Place(frames[d])) = Len(frames[d].path) + 1
                                      /\ Within(Place(frames[d]), frames[d].path,
                                                <<frames[d].owner, frames[d].index>>)
        /\ \A i \in 1 .. Len(frames[d].path) : Place(frames[d])[i] = frames[d].path[i]
    BY Places
  <2> QED BY <2>1, <2>2 DEF Occurrence, Within
<1> HIDE DEF p
<1>1. ASSUME NEW m \in 1 .. d, Len(frames[m].path) <= Len(q),
             \A i \in 1 .. Len(frames[m].path) : q[i] = frames[m].path[i]
      PROVE  frames[m].path = Up(q, Len(frames[m].path))
  <2>1. m \in 1 .. Depth
    BY <1>0
  <2>2. frames[m].path \in Seq(Loops \X Nat)
    BY <2>1, Frames DEF Occurrence
  <2> DEFINE t == frames[m].path
  <2>3. t \in Seq(Loops \X Nat) /\ \A i \in 1 .. Len(t) : q[i] = t[i]
    BY <2>2, <1>1
  <2> HIDE DEF t
  <2>4. t = [i \in 1 .. Len(t) |-> q[i]]
    <3>1. t = [i \in 1 .. Len(t) |-> t[i]]
      BY <2>3
    <3> QED BY <3>1, <2>3
  <2>5. t = Up(q, Len(t))
    BY <2>4 DEF Up
  <2> QED BY <2>5 DEF t
<1>2. ASSUME NEW n \in 1 .. Len(p)
      PROVE  \E m \in 1 .. d - 1 :
                /\ frames[m].kind = "loop" /\ Len(frames[m].path) = n - 1
                /\ q[n] = <<frames[m].owner, frames[m].index>>
                /\ \A i \in 1 .. n - 1 : q[i] = frames[m].path[i]
  <2>1. PICK m \in 1 .. d - 1 :
            /\ IsLoop(frames[m]) /\ Len(frames[m].path) = n - 1
            /\ Within(p, frames[m].path, <<frames[m].owner, frames[m].index>>)
    BY DEF Stack, Placed, p
  <2>2. p[n] = <<frames[m].owner, frames[m].index>> /\ \A i \in 1 .. n - 1 : p[i] = frames[m].path[i]
    <3>1. Len(frames[m].path) + 1 = n
      BY <2>1, <1>0
    <3> QED BY <2>1, <3>1 DEF Within
  <2>3. q[n] = p[n] /\ \A i \in 1 .. n - 1 : q[i] = p[i]
    <3>1. \A i \in 1 .. n - 1 : i \in 1 .. Len(p)
      BY <1>0
    <3> QED BY <3>1, <1>0
  <2> QED BY <2>1, <2>2, <2>3 DEF IsLoop
<1>3. ASSUME NEW n \in 1 .. Len(q)
      PROVE  \E m \in 1 .. d : /\ frames[m].kind = "loop" /\ frames[m].owner = q[n][1]
                               /\ frames[m].path = Up(q, n - 1)
  <2>1. CASE n \in 1 .. Len(p)
    <3>1. PICK m \in 1 .. d - 1 :
                /\ frames[m].kind = "loop" /\ Len(frames[m].path) = n - 1
                /\ q[n] = <<frames[m].owner, frames[m].index>>
                /\ \A i \in 1 .. n - 1 : q[i] = frames[m].path[i]
      BY <2>1, <1>2
    <3>2. m \in 1 .. d /\ n - 1 <= Len(q)
      BY <1>0
    <3>3. frames[m].path = Up(q, n - 1)
      BY <3>1, <3>2, <1>1
    <3>4. q[n][1] = frames[m].owner
      BY <3>1
    <3> QED BY <3>1, <3>2, <3>3, <3>4
  <2>2. CASE n \notin 1 .. Len(p)
    <3>1. frames[d].kind = "loop" /\ n = Len(p) + 1
      BY <2>2, <1>0
    <3>2. q[n][1] = frames[d].owner
      BY <3>1, <1>0
    <3>3. d \in 1 .. d /\ Len(frames[d].path) = n - 1 /\ n - 1 <= Len(q)
          /\ \A i \in 1 .. Len(frames[d].path) : q[i] = frames[d].path[i]
      BY <3>1, <1>0 DEF p
    <3>4. frames[d].path = Up(q, n - 1)
      BY <3>3, <1>1
    <3> QED BY <3>1, <3>2, <3>3, <3>4
  <2> QED BY <2>1, <2>2
<1>4. ASSUME NEW m \in 1 .. d, NEW i \in Nat, frames[m].kind = "loop",
             Within(q, frames[m].path, <<frames[m].owner, i>>)
      PROVE  i = frames[m].index
  <2>0. m \in 1 .. Depth /\ Len(frames[m].path) \in Nat
    BY <1>0, Frames
  <2>1. CASE m = d
    <3>1. q[Len(p) + 1] = <<frames[d].owner, i>>
      BY <2>1, <1>4 DEF Within, p
    <3>2. q[Len(p) + 1] = <<frames[d].owner, frames[d].index>>
      BY <2>1, <1>0, <1>4
    <3> QED BY <2>1, <3>1, <3>2
  <2>2. CASE m # d
    <3>0. m < d
      BY <2>2, <1>0
    <3>1. Len(Place(frames[m])) <= Len(p) /\ Len(Place(frames[m])) = Len(frames[m].path) + 1
      BY <3>0, <2>0, <1>4, Places DEF Stack, Nested, p
    <3> DEFINE n == Len(frames[m].path) + 1
    <3>2. n \in 1 .. Len(p) /\ q[n] = <<frames[m].owner, i>>
      BY SMTT(30), <3>1, <2>0, <1>0, <1>4 DEF Within
    <3> HIDE DEF n
    <3>3. PICK x \in 1 .. d - 1 :
                /\ frames[x].kind = "loop" /\ Len(frames[x].path) = n - 1
                /\ q[n] = <<frames[x].owner, frames[x].index>>
                /\ \A j \in 1 .. n - 1 : q[j] = frames[x].path[j]
      BY <3>2, <1>2
    <3>4. frames[x].owner = frames[m].owner /\ frames[x].index = i
      BY <3>2, <3>3
    <3>5. x \in 1 .. Depth /\ x \in Nat /\ m \in Nat
      BY <1>0
    <3>6. ~(x < m) /\ ~(m < x)
      BY <3>4, <3>5, <2>0, Apart
    <3> QED BY <3>4, <3>5, <3>6
  <2> QED BY <2>1, <2>2
<1> QED BY <1>3, <1>4

-----------------------------------------------------------------------------
(* What every move of the executor leaves as it is.                         *)

(* Every move ends a step, begins a block or an iteration, or does neither. *)
LEMMA MovesMean ==
  ASSUME TypeOK, Stack, Moves
  PROVE  \/ \E d, cause : \E ending \in Endings : EndsAt(d, ending, cause)
         \/ \E g \in Block : Enters(g)
         \/ Continues \/ Iterates \/ (Idles /\ Stays)
<1>1. CASE Leaf
  <2>1. PICK ending \in Endings, cause \in Steps \cup {None} : Logs(ending, cause)
    BY <1>1 DEF Leaf
  <2>2. EndsAt(Depth, ending, cause)
    BY <2>1, LeafEnds
  <2> QED BY <2>2
<1>2. CASE \E ending \in Endings, cause \in Steps \cup {"signal", None} :
                PopsBranch(ending, cause) \/ PopsLoop(ending, cause)
  <2>1. PICK ending \in Endings, cause \in Steps \cup {"signal", None} :
            PopsBranch(ending, cause) \/ PopsLoop(ending, cause)
    BY <1>2
  <2>2. EndsAt(Depth - 1, ending, cause)
    BY <2>1, PopEnds
  <2> QED BY <2>2
<1> QED BY <1>1, <1>2 DEF Moves

(* The end of a step. *)
LEMMA EndFacts ==
  ASSUME TypeOK, NEW d, NEW cause, NEW ending \in Endings, EndsAt(d, ending, cause)
  PROVE  /\ CompletesAt(d, ending, cause) /\ rows' = rows
         /\ Depth' = d /\ d \in 1 .. Depth /\ Depth \in Nat
         /\ \A k \in 1 .. d : /\ k \in 1 .. Depth /\ Live(k) /\ ~Committing(k)
                              /\ Live(k)'
                              /\ frames'[k].kind = frames[k].kind
                              /\ frames'[k].owner = frames[k].owner
                              /\ frames'[k].steps = frames[k].steps
                              /\ frames'[k].path = frames[k].path
                              /\ frames'[k].index = frames[k].index
                              /\ Place(frames'[k]) = Place(frames[k])
                              /\ frames[k].at \in Nat /\ frames'[k].at \in Nat
                              /\ frames[k].at <= frames'[k].at
                              /\ k # d => frames'[k].at = frames[k].at
         /\ Done(ending) => frames'[d].at = frames[d].at + 1
         /\ ~Done(ending) => frames'[d].at = frames[d].at
         /\ ~Failing' => Done(ending) /\ ~Failing
         /\ \A k \in 1 .. Depth : k \notin 1 .. d =>
                /\ frames[k].owner = frames[d].steps[frames[d].at]
                /\ frames[k].path = Place(frames[d])
<1>1. CompletesAt(d, ending, cause)
  BY DEF EndsAt
<1>2. /\ Depth \in Nat /\ d \in Nat /\ d > 0 /\ d \in 1 .. Depth /\ Depth' = d /\ d \in 1 .. d
      /\ pc' # "next" /\ frames[d].at \in Nat /\ frames[d].at > 0
      /\ frames'[d].at = IF Done(ending) THEN frames[d].at + 1 ELSE frames[d].at
      /\ \A k \in 1 .. d : /\ k \in 1 .. Depth /\ Fixed(frames[k], frames'[k])
                           /\ frames'[k].index = frames[k].index
                           /\ Place(frames'[k]) = Place(frames[k])
                           /\ k < d => frames'[k].at = frames[k].at
  BY <1>1, Completing
<1>3. /\ rows' = rows /\ flow' = ending /\ pc' = IF ending = "continue" THEN "step" ELSE "return"
  BY <1>1 DEF CompletesAt
<1>4. ~Failing' => Done(ending) /\ ~Failing
  <2>1. ~Done(ending) => Failing'
    BY <1>3, Outcomes DEF Failing
  <2> QED BY <2>1 DEF EndsAt
<1>5. \A k \in 1 .. d : Live(k)'
  BY <1>2 DEF Live
<1>6. \A k \in 1 .. d : Live(k) /\ ~Committing(k)
  BY DEF EndsAt
<1>7. \A k \in 1 .. Depth : k \notin 1 .. d =>
                /\ frames[k].owner = frames[d].steps[frames[d].at]
                /\ frames[k].path = Place(frames[d])
  <2>1. \A k \in 1 .. Depth : k \notin 1 .. d => k > d
    BY <1>2
  <2> QED BY <2>1 DEF EndsAt
<1>8. ASSUME NEW k \in 1 .. d
      PROVE  /\ frames[k].at \in Nat /\ frames'[k].at \in Nat
             /\ frames[k].at <= frames'[k].at
             /\ k # d => frames'[k].at = frames[k].at
  <2>1. frames[k].at \in Nat
    BY <1>2, Frames
  <2>2. CASE k = d
    BY <2>1, <2>2, <1>2
  <2>3. CASE k # d
    <3>1. k < d
      BY <2>3, <1>2
    <3> QED BY <2>1, <3>1, <1>2
  <2> QED BY <2>2, <2>3
<1> QED BY <1>1, <1>2, <1>3, <1>4, <1>5, <1>6, <1>7, <1>8 DEF Fixed

(* An entry of the log is an old one, or that of the step that has ended.   *)
LEMMA Entry ==
  ASSUME TypeOK, NEW d, NEW ending, NEW cause, CompletesAt(d, ending, cause),
         NEW k \in DOMAIN executions'
  PROVE  \/ k \in DOMAIN executions /\ executions'[k] = executions[k]
         \/ /\ executions'[k].step = frames[d].steps[frames[d].at]
            /\ executions'[k].path = Place(frames[d])
            /\ executions'[k].outcome = Outcome(ending)
<1> DEFINE n == Len(executions)
<1>1. /\ n \in Nat /\ DOMAIN executions = 1 .. n /\ DOMAIN executions' = 1 .. n + 1
      /\ \A i \in 1 .. n : executions'[i] = executions[i]
      /\ executions'[n + 1].step = frames[d].steps[frames[d].at]
      /\ executions'[n + 1].path = Place(frames[d])
      /\ executions'[n + 1].outcome = Outcome(ending)
  BY LogGrows
<1> HIDE DEF n
<1>2. k \in 1 .. n \/ k = n + 1
  BY <1>1
<1> QED BY <1>1, <1>2

(* A block begins. *)
LEMMA EnterFacts ==
  ASSUME TypeOK, NEW g \in Block, Enters(g)
  PROVE  /\ Depth' = Depth + 1 /\ Depth \in 1 .. Depth /\ Depth \in Nat
         /\ executions' = executions /\ rows' = rows
         /\ \A k \in 1 .. Depth' : k \in 1 .. Depth \/ k = Depth + 1
         /\ Depth + 1 \in 1 .. Depth'
         /\ \A k \in 1 .. Depth : k \in 1 .. Depth' /\ frames'[k] = frames[k] /\ Live(k) /\ Live(k)'
         /\ frames'[Depth + 1] = g /\ Opens(frames[Depth], g) /\ g.at = 1 /\ g.index = 0
         /\ g.staged = <<>>
         /\ \A k \in 1 .. Depth' : k = Depth + 1 => (Live(k)' <=> g.kind # "loop")
         /\ ~Failing /\ pc = "step" /\ pc' \in {"step", "next"}
<1>1. Depth \in 1 .. Depth /\ Depth \in Nat /\ Top = frames[Depth]
  BY Frames, TopFacts
<1>2. /\ Depth' = Depth + 1 /\ executions' = executions /\ rows' = rows
      /\ \A k \in 1 .. Depth : frames'[k] = frames[k]
      /\ frames'[Depth + 1] = g /\ Opens(Top, g) /\ g.at = 1 /\ g.index = 0
      /\ g.staged = <<>> /\ pc = "step"
      /\ g.kind = "branch" => pc' = "step"
      /\ g.kind = "loop" => pc' = "next"
      /\ pc' \in {"step", "next"}
  BY DEF Enters, Pushes, Depth
<1>3. \A k \in 1 .. Depth : Live(k)
  BY <1>2 DEF Live
<1>4. /\ \A k \in 1 .. Depth' : k \in 1 .. Depth \/ k = Depth + 1
      /\ Depth + 1 \in 1 .. Depth'
      /\ \A k \in 1 .. Depth : k \in 1 .. Depth' /\ k < Depth'
      /\ ~(Depth + 1 < Depth')
  BY <1>1, <1>2
<1>5. \A k \in 1 .. Depth : Live(k)'
  BY <1>4 DEF Live
<1>6. \A k \in 1 .. Depth' : k = Depth + 1 => (Live(k)' <=> g.kind # "loop")
  <2>1. g.kind # "loop" => pc' = "step"
    BY DEF Enters
  <2> QED BY <2>1, <1>2, <1>4 DEF Live
<1>7. ~Failing
  BY <1>2 DEF Failing
<1> QED BY <1>1, <1>2, <1>3, <1>4, <1>5, <1>6, <1>7

(* An iteration has ended. *)
LEMMA ContinueFacts ==
  ASSUME TypeOK, Continues
  PROVE  /\ Depth' = Depth /\ Depth \in 1 .. Depth /\ Depth \in Nat
         /\ executions' = executions /\ rows' = rows
         /\ \A k \in 1 .. Depth : /\ Live(k) /\ (Live(k)' <=> k # Depth)
                                  /\ k # Depth => frames'[k] = frames[k]
                                  /\ frames'[k].kind = frames[k].kind
                                  /\ frames'[k].owner = frames[k].owner
                                  /\ frames'[k].path = frames[k].path
                                  /\ frames[k].index \in Nat
         /\ frames'[Depth].index = frames[Depth].index + 1
         /\ frames[Depth].kind = "loop"
         /\ ~Failing /\ pc = "return" /\ flow = "continue" /\ pc' = "next"
<1>1. Depth \in 1 .. Depth /\ Depth \in Nat /\ Top = frames[Depth]
  BY Frames, TopFacts
<1>2. /\ Depth' = Depth /\ executions' = executions /\ rows' = rows
      /\ \A k \in 1 .. Depth : k # Depth => frames'[k] = frames[k]
      /\ Fixed(frames[Depth], frames'[Depth]) /\ frames'[Depth].index = frames[Depth].index + 1
      /\ frames[Depth].kind = "loop" /\ pc = "return" /\ flow = "continue" /\ pc' = "next"
  BY <1>1 DEF Continues, Depth
<1>3. \A k \in 1 .. Depth : Live(k) /\ (Live(k)' <=> k # Depth)
  BY <1>1, <1>2 DEF Live
<1>4. ~Failing
  BY <1>2 DEF Failing
<1>5. \A k \in 1 .. Depth : frames[k].index \in Nat
  BY Frames
<1> QED BY <1>1, <1>2, <1>3, <1>4, <1>5 DEF Fixed

(* An iteration begins. *)
LEMMA IterateFacts ==
  ASSUME TypeOK, Iterates
  PROVE  /\ Depth' = Depth /\ Depth \in 1 .. Depth /\ Depth \in Nat
         /\ executions' = executions /\ rows' = rows
         /\ \A k \in 1 .. Depth : /\ (Live(k) <=> k # Depth) /\ Live(k)'
                                  /\ k # Depth => frames'[k] = frames[k]
                                  /\ frames'[k].kind = frames[k].kind
                                  /\ frames'[k].owner = frames[k].owner
                                  /\ frames'[k].steps = frames[k].steps
                                  /\ frames'[k].path = frames[k].path
                                  /\ frames'[k].index = frames[k].index
                                  /\ Place(frames'[k]) = Place(frames[k])
         /\ frames'[Depth].at = 1 /\ frames'[Depth].staged = <<>>
         /\ frames[Depth].kind = "loop"
         /\ ~Failing /\ pc = "next" /\ pc' = "step"
<1>1. Depth \in 1 .. Depth /\ Depth \in Nat /\ Top = frames[Depth]
  BY Frames, TopFacts
<1>2. /\ Depth' = Depth /\ executions' = executions /\ rows' = rows
      /\ \A k \in 1 .. Depth : k # Depth => frames'[k] = frames[k]
      /\ Fixed(frames[Depth], frames'[Depth]) /\ frames'[Depth].index = frames[Depth].index
      /\ frames'[Depth].at = 1 /\ frames'[Depth].staged = <<>>
      /\ frames[Depth].kind = "loop" /\ pc = "next" /\ pc' = "step"
  BY <1>1 DEF Iterates, Depth
<1>3. \A k \in 1 .. Depth : (Live(k) <=> k # Depth) /\ Live(k)'
  BY <1>1, <1>2 DEF Live
<1>4. ~Failing
  BY <1>2 DEF Failing
<1>5. \A k \in 1 .. Depth : Fixed(frames[k], frames'[k]) /\ frames'[k].index = frames[k].index
  BY <1>2 DEF Fixed
<1>6. \A k \in 1 .. Depth : Place(frames'[k]) = Place(frames[k])
  BY <1>5 DEF Place, IsLoop, Fixed
<1> QED BY <1>1, <1>2, <1>3, <1>4, <1>5, <1>6 DEF Fixed

(* None of the two. *)
LEMMA IdleFacts ==
  ASSUME TypeOK, Idles, Stays
  PROVE  /\ Depth' = Depth /\ Depth \in 1 .. Depth /\ Depth \in Nat /\ executions' = executions
         /\ \A k \in 1 .. Depth : /\ Live(k) <=> Live(k)'
                                  /\ frames'[k].kind = frames[k].kind
                                  /\ frames'[k].owner = frames[k].owner
                                  /\ frames'[k].steps = frames[k].steps
                                  /\ frames'[k].path = frames[k].path
                                  /\ frames'[k].index = frames[k].index
                                  /\ frames'[k].at = frames[k].at
                                  /\ Place(frames'[k]) = Place(frames[k])
         /\ Failing => Failing'
<1>1. Depth \in 1 .. Depth /\ Depth \in Nat
  BY Frames
<1>2. Depth' = Depth /\ executions' = executions /\ \A k \in 1 .. Depth : Same(frames[k], frames'[k])
  BY DEF Stays, Depth
<1>3. \A k \in 1 .. Depth : Place(frames'[k]) = Place(frames[k])
  BY <1>2 DEF Same, Fixed, Place, IsLoop
<1>4. \A k \in 1 .. Depth : Live(k) <=> Live(k)'
  BY <1>2, IdlesNext DEF Live
<1>5. Failing => Failing'
  BY DEF Failing, Idles, StopAtStep, BeginLeaf, Begins, EndBlock, CommitRow, CommitEnds,
         ReturnRoot, RequestStop, SignalFailure, RequestLoopStop, Finished, Returns, vars
<1> QED BY <1>1, <1>2, <1>3, <1>4, <1>5 DEF Same, Fixed

(* A commit alone leaves something, in the place of the block on top. *)
LEMMA IdleVisits ==
  ASSUME TypeOK, Idles, Stays, NEW q \in Visits'
  PROVE  q \in Visits \/ (q = Place(frames[Depth]) /\ pc = "commit")
<1>1. executions' = executions
  BY DEF Stays
<1>2. CASE rows' = rows
  BY <1>1, <1>2 DEF Visits
<1>3. CASE CommitRow
  <2> DEFINE r == [page |-> Head(Top.staged).page, path |-> Path(frames),
                   outputs |-> Head(Top.staged).outputs]
  <2>1. rows' = Append(rows, r) /\ pc = "commit"
    BY <1>3 DEF CommitRow
  <2>2. r.path = Place(frames[Depth])
    BY DEF Path, Depth
  <2> HIDE DEF r
  <2>3. rows \in Seq([page : Pages \cup {None}, path : Occurrence, outputs : Seq(Steps)])
    BY DEF TypeOK
  <2>4. \A i \in DOMAIN rows' : (i \in DOMAIN rows /\ rows'[i] = rows[i]) \/ rows'[i] = r
    BY <2>1, <2>3
  <2> QED BY <1>1, <2>1, <2>2, <2>4 DEF Visits
<1>4. CommitRow \/ rows' = rows
  BY DEF Idles, StopAtStep, BeginLeaf, EndBlock, CommitEnds, ReturnRoot, RequestStop,
         SignalFailure, RequestLoopStop, Finished, vars
<1> QED BY <1>2, <1>3, <1>4

-----------------------------------------------------------------------------
(* What is logged once, and where.                                          *)

(* A step that a block is at is none that has a block on the stack. *)
LEMMA OwnerIsNew ==
  ASSUME TypeOK, Stack, frames[Depth].at <= Len(frames[Depth].steps)
  PROVE  /\ frames[Depth].steps[frames[Depth].at] \in Steps
         /\ \A m \in 1 .. Depth : frames[m].owner # frames[Depth].steps[frames[Depth].at]
<1> DEFINE s == frames[Depth].steps[frames[Depth].at]
<1>1. /\ Depth \in Nat /\ Depth \in 1 .. Depth /\ 1 \in 1 .. Depth
      /\ frames[Depth].steps \in Seq(Steps) /\ Len(frames[Depth].steps) \in Nat
      /\ frames[Depth].at \in Nat /\ frames[Depth].at > 0
  BY Frames
<1>2. frames[Depth].at \in DOMAIN frames[Depth].steps
  BY <1>1
<1>3. s \in Steps /\ s \in Range(frames[Depth].steps)
  BY <1>1, <1>2 DEF Range
<1>4. ASSUME NEW m \in 1 .. Depth PROVE frames[m].owner # s
  <2>1. CASE m = 1
    BY <2>1, <1>3, MarksAreFresh DEF Stack, Chain
  <2>2. CASE m # 1
    <3>1. frames[m].owner \notin Inside(frames[m].steps, Steps)
      <4>1. 1 < m
        BY <2>2
      <4> QED BY <4>1, <1>1, Apart
    <3>2. Range(frames[Depth].steps) \subseteq Inside(frames[m].steps, Steps)
      <4>1. m <= Depth
        BY <1>1
      <4> QED BY <4>1, <1>1 DEF Stack, Nested
    <3> QED BY <3>1, <3>2, <1>3
  <2> QED BY <2>1, <2>2
<1> QED BY <1>3, <1>4

(* Nothing is logged in the iteration that has yet to begin. *)
LEMMA NotVisited ==
  ASSUME TypeOK, Stack, Past, pc = "next", frames[Depth].kind = "loop"
  PROVE  /\ Place(frames[Depth]) \notin Visits
         /\ \A k \in DOMAIN executions : executions[k].path # Place(frames[Depth])
         /\ \A i \in DOMAIN rows : rows[i].path # Place(frames[Depth])
<1>1. Depth \in 1 .. Depth /\ Depth \in Nat /\ frames[Depth].index \in Nat
  BY Frames
<1>2. Within(Place(frames[Depth]), frames[Depth].path, <<frames[Depth].owner, frames[Depth].index>>)
  BY <1>1, Places
<1>3. ~Live(Depth)
  BY <1>1 DEF Live
<1>4. Place(frames[Depth]) \notin Visits
  BY <1>1, <1>2, <1>3 DEF Past
<1> QED BY <1>4 DEF Visits

(* A step is executed once in an iteration. *)
LEMMA UnloggedStep ==
  ASSUME TypeOK, TypeOK', Stack, Moves, Unlogged, Past, Branched
  PROVE  Unlogged'
<1> SUFFICES ASSUME ~Failing', NEW k \in 1 .. Depth', Live(k)',
                    NEW j \in 1 .. Len(frames'[k].steps), j >= frames'[k].at,
                    NEW x \in DOMAIN executions', executions'[x].step = frames'[k].steps[j],
                    executions'[x].path = Place(frames'[k])
             PROVE  FALSE
  BY DEF Unlogged, Logged
<1>1. ASSUME NEW d, NEW cause, NEW ending \in Endings, EndsAt(d, ending, cause) PROVE FALSE
  <2>1. /\ CompletesAt(d, ending, cause) /\ d \in 1 .. Depth /\ Depth' = d
        /\ k \in 1 .. d /\ k \in 1 .. Depth /\ Live(k)
        /\ frames'[k].steps = frames[k].steps /\ Place(frames'[k]) = Place(frames[k])
        /\ frames[k].at \in Nat /\ frames'[k].at \in Nat /\ frames[k].at <= frames'[k].at
        /\ ~Failing /\ frames'[d].at = frames[d].at + 1
    BY <1>1, EndFacts
  <2>2. j \in 1 .. Len(frames[k].steps) /\ j \in Nat /\ j >= frames[k].at
    BY <2>1
  <2>3. CASE x \in DOMAIN executions /\ executions'[x] = executions[x]
    <3>1. Logged(frames[k].steps[j], Place(frames[k]))
      BY <2>1, <2>3 DEF Logged
    <3> QED BY <2>1, <2>2, <3>1 DEF Unlogged
  <2>4. CASE executions'[x].step = frames[d].steps[frames[d].at]
    <3>1. frames[k].steps[j] = frames[d].steps[frames[d].at]
      BY <2>1, <2>4
    <3>2. frames[d].at <= Len(frames[d].steps)
      BY <2>1 DEF CompletesAt
    <3>3. k = d /\ j = frames[d].at
      BY <2>1, <2>2, <3>1, <3>2, Here
    <3> QED BY <2>1, <3>3
  <2> QED BY <2>1, <2>3, <2>4, Entry
<1>2. ASSUME NEW g \in Block, Enters(g) PROVE FALSE
  <2> DEFINE c == frames[Depth].steps[frames[Depth].at]
  <2>1. /\ Depth' = Depth + 1 /\ Depth \in 1 .. Depth /\ executions' = executions /\ ~Failing
        /\ k \in 1 .. Depth \/ k = Depth + 1
        /\ \A i \in 1 .. Depth : frames'[i] = frames[i] /\ Live(i)
        /\ frames'[Depth + 1] = g /\ Opens(frames[Depth], g)
        /\ k = Depth + 1 => g.kind # "loop"
    BY <1>2, EnterFacts
  <2>2. CASE k \in 1 .. Depth
    <3>1. Logged(frames[k].steps[j], Place(frames[k]))
      BY <2>1, <2>2 DEF Logged
    <3>2. j \in 1 .. Len(frames[k].steps) /\ j >= frames[k].at
      BY <2>1, <2>2
    <3> QED BY <2>1, <2>2, <3>1, <3>2 DEF Unlogged
  <2>3. CASE k = Depth + 1
    <3>1. g.kind = "branch" /\ frames'[k] = g
      BY <2>3, <2>1 DEF Opens
    <3>2. /\ g.owner = c /\ Kind[c] = "if" /\ g.steps \in {Body[c], Else[c]}
          /\ Place(g) = Place(frames[Depth]) /\ frames[Depth].at <= Len(frames[Depth].steps)
      BY <3>1, <2>1 DEF Opens, Place, IsLoop
    <3>3. c \in Ifs /\ c \in Steps /\ \A m \in 1 .. Depth : frames[m].owner # c
      BY <3>2, OwnerIsNew DEF Ifs
    <3>4. g.steps[j] \in Children(c)
      <4>1. g.steps \in Seq(Steps)
        BY <3>2, <3>3, Tree
      <4>2. j \in DOMAIN g.steps
        BY <4>1, <3>1
      <4> QED BY <4>2, <3>2 DEF Children, Range
    <3>5. Logged(c, Place(frames[Depth]))
      <4>1. /\ x \in DOMAIN executions /\ executions[x].step = g.steps[j]
            /\ executions[x].path = Place(frames[Depth])
        BY <3>1, <3>2, <2>1
      <4> QED BY <4>1, <3>3, <3>4 DEF Branched
    <3>6. frames[Depth].at \in 1 .. Len(frames[Depth].steps) /\ frames[Depth].at >= frames[Depth].at
      BY <3>2, <2>1, Frames
    <3> QED BY <3>5, <3>6, <2>1 DEF Unlogged
  <2> QED BY <2>1, <2>2, <2>3
<1>3. ASSUME Continues PROVE FALSE
  <2>1. /\ k \in 1 .. Depth /\ frames'[k] = frames[k] /\ Live(k) /\ executions' = executions
        /\ ~Failing
    BY <1>3, ContinueFacts
  <2> QED BY <2>1 DEF Unlogged, Logged
<1>4. ASSUME Iterates PROVE FALSE
  <2>1. /\ k \in 1 .. Depth /\ executions' = executions /\ pc = "next" /\ ~Failing
        /\ frames[Depth].kind = "loop"
        /\ Live(k) <=> k # Depth
        /\ k # Depth => frames'[k] = frames[k]
        /\ Place(frames'[k]) = Place(frames[k])
    BY <1>4, IterateFacts
  <2>2. executions[x].path # Place(frames[Depth])
    BY <2>1, NotVisited
  <2> QED BY <2>1, <2>2 DEF Unlogged, Logged
<1>5. ASSUME Idles, Stays PROVE FALSE
  <2>1. /\ k \in 1 .. Depth /\ Live(k) /\ executions' = executions /\ ~Failing
        /\ frames'[k].steps = frames[k].steps /\ frames'[k].at = frames[k].at
        /\ Place(frames'[k]) = Place(frames[k])
    BY <1>5, IdleFacts
  <2> QED BY <2>1 DEF Unlogged, Logged
<1> QED BY <1>1, <1>2, <1>3, <1>4, <1>5, MovesMean

(* An iteration that left an entry or a row is one of a loop that is on the *)
(* stack, or has ended.                                                     *)
LEMMA IteratedStep ==
  ASSUME TypeOK, TypeOK', Stack, Moves, Iterated
  PROVE  Iterated'
<1> SUFFICES ASSUME NEW q \in Visits', NEW n \in 1 .. Len(q)
             PROVE  \/ \E x \in DOMAIN executions' :
                            executions'[x].step = q[n][1] /\ executions'[x].path = Up(q, n - 1)
                    \/ \E m \in 1 .. Depth' :
                            /\ frames'[m].kind = "loop" /\ frames'[m].owner = q[n][1]
                            /\ frames'[m].path = Up(q, n - 1)
  BY DEF Iterated, Logged
<1> DEFINE s == q[n][1]
           p == Up(q, n - 1)
<1>a. q \in Visits => \/ Logged(s, p)
                      \/ \E m \in 1 .. Depth : /\ frames[m].kind = "loop" /\ frames[m].owner = s
                                               /\ frames[m].path = p
  BY DEF Iterated
<1>b. ASSUME NEW d \in 1 .. Depth, q = Place(frames[d])
      PROVE  \E m \in 1 .. d : /\ frames[m].kind = "loop" /\ frames[m].owner = s
                               /\ frames[m].path = p
  BY <1>b, PlacesRun
<1> HIDE DEF s, p
<1>1. CASE \E d, cause : \E ending \in Endings : EndsAt(d, ending, cause)
  <2>1. PICK d, cause : \E ending \in Endings : EndsAt(d, ending, cause)
    BY <1>1
  <2>2. PICK ending \in Endings : EndsAt(d, ending, cause)
    BY <2>1
  <2>3. /\ CompletesAt(d, ending, cause) /\ d \in 1 .. Depth /\ Depth' = d
        /\ \A k \in 1 .. d : /\ frames'[k].kind = frames[k].kind /\ frames'[k].owner = frames[k].owner
                             /\ frames'[k].path = frames[k].path
        /\ \A k \in 1 .. Depth : k \notin 1 .. d =>
                frames[k].owner = frames[d].steps[frames[d].at] /\ frames[k].path = Place(frames[d])
    BY <2>2, EndFacts
  <2>4. CASE q = Place(frames[d])
    BY <2>3, <2>4, <1>b DEF s, p
  <2>5. CASE Logged(s, p)'
    BY <2>5 DEF Logged, s, p
  <2>6. CASE q \in Visits
    <3>1. Logged(s, p) => Logged(s, p)'
      BY <2>3, Logging
    <3>2. ASSUME NEW m \in 1 .. Depth, frames[m].kind = "loop", frames[m].owner = s,
                 frames[m].path = p
          PROVE  Logged(s, p)' \/ m \in 1 .. d
      <4>1. m \notin 1 .. d => s = frames[d].steps[frames[d].at] /\ p = Place(frames[d])
        BY <3>2, <2>3
      <4> QED BY <4>1, <2>3, Logging
    <3> QED BY <3>1, <3>2, <2>3, <2>5, <2>6, <1>a DEF s, p
  <2> QED BY <2>3, <2>4, <2>6, Visiting
<1>2. CASE \E g \in Block : Enters(g)
  <2>1. PICK g \in Block : Enters(g)
    BY <1>2
  <2>2. /\ executions' = executions /\ rows' = rows
        /\ \A k \in 1 .. Depth : k \in 1 .. Depth' /\ frames'[k] = frames[k]
    BY <2>1, EnterFacts
  <2>3. q \in Visits
    BY <2>2 DEF Visits
  <2> QED BY <2>2, <2>3, <1>a DEF s, p, Logged
<1>3. CASE Continues \/ Iterates
  <2>1. /\ executions' = executions /\ rows' = rows /\ Depth' = Depth
        /\ \A k \in 1 .. Depth : /\ frames'[k].kind = frames[k].kind
                                 /\ frames'[k].owner = frames[k].owner
                                 /\ frames'[k].path = frames[k].path
    BY <1>3, ContinueFacts, IterateFacts
  <2>2. q \in Visits
    BY <2>1 DEF Visits
  <2> QED BY <2>1, <2>2, <1>a DEF s, p, Logged
<1>4. CASE Idles /\ Stays
  <2>1. /\ executions' = executions /\ Depth' = Depth /\ Depth \in 1 .. Depth
        /\ \A k \in 1 .. Depth : /\ frames'[k].kind = frames[k].kind
                                 /\ frames'[k].owner = frames[k].owner
                                 /\ frames'[k].path = frames[k].path
    BY <1>4, IdleFacts
  <2>2. q \in Visits \/ q = Place(frames[Depth])
    BY <1>4, IdleVisits
  <2> QED BY <2>1, <2>2, <1>a, <1>b DEF s, p, Logged
<1> QED BY <1>1, <1>2, <1>3, <1>4, MovesMean

(* An iteration that has left something is not one to come. *)
LEMMA PastStep ==
  ASSUME TypeOK, TypeOK', Stack, Moves, Past, Iterated, Unlogged
  PROVE  Past'
<1> SUFFICES ASSUME NEW q \in Visits', NEW m \in 1 .. Depth', NEW i \in Nat,
                    frames'[m].kind = "loop",
                    Within(q, frames'[m].path, <<frames'[m].owner, i>>)
             PROVE  i <= frames'[m].index /\ (i = frames'[m].index => Live(m)')
  BY DEF Past
<1>a. ASSUME q \in Visits, m \in 1 .. Depth,
             frames'[m].kind = frames[m].kind, frames'[m].owner = frames[m].owner,
             frames'[m].path = frames[m].path
      PROVE  i <= frames[m].index /\ (i = frames[m].index => Live(m))
  BY <1>a DEF Past
<1>b. ASSUME NEW d \in 1 .. Depth, q = Place(frames[d]), m \in 1 .. d,
             frames'[m].kind = frames[m].kind, frames'[m].owner = frames[m].owner,
             frames'[m].path = frames[m].path
      PROVE  i = frames[m].index
  BY <1>b, PlacesRun
<1>1. CASE \E d, cause : \E ending \in Endings : EndsAt(d, ending, cause)
  <2>1. PICK d, cause : \E ending \in Endings : EndsAt(d, ending, cause)
    BY <1>1
  <2>2. PICK ending \in Endings : EndsAt(d, ending, cause)
    BY <2>1
  <2>3. /\ CompletesAt(d, ending, cause) /\ d \in 1 .. Depth
        /\ m \in 1 .. d /\ m \in 1 .. Depth /\ Live(m)' /\ frames'[m].index = frames[m].index
        /\ frames'[m].kind = frames[m].kind /\ frames'[m].owner = frames[m].owner
        /\ frames'[m].path = frames[m].path
    BY <2>2, EndFacts
  <2>4. CASE q \in Visits
    BY <2>3, <2>4, <1>a
  <2>5. CASE q = Place(frames[d])
    BY <2>3, <2>5, <1>b
  <2> QED BY <2>3, <2>4, <2>5, Visiting
<1>2. CASE \E g \in Block : Enters(g)
  <2>1. PICK g \in Block : Enters(g)
    BY <1>2
  <2>2. /\ executions' = executions /\ rows' = rows /\ Depth \in 1 .. Depth /\ ~Failing
        /\ m \in 1 .. Depth \/ m = Depth + 1
        /\ \A k \in 1 .. Depth : frames'[k] = frames[k] /\ Live(k) /\ Live(k)'
        /\ frames'[Depth + 1] = g /\ Opens(frames[Depth], g) /\ g.index = 0
    BY <2>1, EnterFacts
  <2>3. q \in Visits
    BY <2>2 DEF Visits
  <2>4. CASE m \in 1 .. Depth
    BY <2>2, <2>3, <2>4, <1>a
  <2>5. CASE m = Depth + 1
    <3> DEFINE n == Len(g.path) + 1
               s == frames[Depth].steps[frames[Depth].at]
    <3>1. /\ g.owner = s /\ g.path = Place(frames[Depth])
          /\ frames[Depth].at <= Len(frames[Depth].steps)
          /\ Within(q, g.path, <<s, i>>)
      BY <2>2, <2>5 DEF Opens
    <3>2. Len(g.path) \in Nat /\ g.path \in Seq(Loops \X Nat) /\ Len(q) \in Nat
      BY ZenonT(40), <2>2, <2>3, <3>1, Places, VisitsArePlaces DEF Occurrence
    <3>3. n \in 1 .. Len(q) /\ q[n][1] = s
      BY <3>1, <3>2 DEF Within
    <3>4. Up(q, n - 1) = g.path
      <4> DEFINE t == g.path
      <4>1. t \in Seq(Loops \X Nat) /\ \A x \in 1 .. Len(t) : q[x] = t[x]
        BY <3>1, <3>2 DEF Within
      <4>2. n - 1 = Len(t)
        BY <3>2
      <4> HIDE DEF t, n
      <4>3. t = [x \in 1 .. Len(t) |-> q[x]]
        <5>1. t = [x \in 1 .. Len(t) |-> t[x]]
          BY <4>1
        <5> QED BY <5>1, <4>1
      <4>4. Up(q, n - 1) = t
        BY <4>2, <4>3 DEF Up
      <4> QED BY <4>4 DEF t
    <3> HIDE DEF n, s
    <3>5. ~Logged(s, Place(frames[Depth]))
      <4>1. frames[Depth].at \in 1 .. Len(frames[Depth].steps) /\ frames[Depth].at >= frames[Depth].at
        BY <3>1, <2>2, Frames
      <4> QED BY <4>1, <2>2 DEF Unlogged, s
    <3>6. \A k \in 1 .. Depth : frames[k].owner # s
      BY <3>1, OwnerIsNew DEF s
    <3>7. \/ Logged(q[n][1], Up(q, n - 1))
          \/ \E k \in 1 .. Depth : frames[k].owner = q[n][1]
      BY <2>3, <3>3 DEF Iterated
    <3> QED BY <3>1, <3>3, <3>4, <3>5, <3>6, <3>7
  <2> QED BY <2>2, <2>4, <2>5
<1>3. CASE Continues
  <2>1. /\ executions' = executions /\ rows' = rows /\ m \in 1 .. Depth
        /\ m # Depth => Live(m)' /\ frames'[m].index = frames[m].index
        /\ m = Depth => frames'[m].index = frames[m].index + 1
        /\ frames'[m].kind = frames[m].kind /\ frames'[m].owner = frames[m].owner
        /\ frames'[m].path = frames[m].path /\ frames[m].index \in Nat
    BY <1>3, ContinueFacts
  <2>2. q \in Visits
    BY <2>1 DEF Visits
  <2>3. i <= frames[m].index
    BY <2>1, <2>2, <1>a
  <2> QED BY <2>1, <2>3
<1>4. CASE Iterates
  <2>1. /\ executions' = executions /\ rows' = rows /\ m \in 1 .. Depth
        /\ Live(m)' /\ frames'[m].index = frames[m].index
        /\ frames'[m].kind = frames[m].kind /\ frames'[m].owner = frames[m].owner
        /\ frames'[m].path = frames[m].path
    BY <1>4, IterateFacts
  <2>2. q \in Visits
    BY <2>1 DEF Visits
  <2> QED BY <2>1, <2>2, <1>a
<1>5. CASE Idles /\ Stays
  <2>1. /\ m \in 1 .. Depth /\ Depth \in 1 .. Depth
        /\ Live(m)' <=> Live(m)
        /\ frames'[m].index = frames[m].index
        /\ frames'[m].kind = frames[m].kind /\ frames'[m].owner = frames[m].owner
        /\ frames'[m].path = frames[m].path
    BY <1>5, IdleFacts
  <2>2. CASE q \in Visits
    BY <2>1, <2>2, <1>a
  <2>3. CASE q = Place(frames[Depth]) /\ pc = "commit"
    <3>1. i = frames[m].index
      BY <2>1, <2>3, <1>b
    <3>2. Live(m) /\ frames[m].index \in Nat
      BY <2>1, <2>3, Frames DEF Live
    <3> QED BY <2>1, <3>1, <3>2
  <2> QED BY <1>5, <2>2, <2>3, IdleVisits
<1> QED BY <1>1, <1>2, <1>3, <1>4, <1>5, MovesMean

(* An entry of a branch is one of an If that is on the stack, or has ended. *)
LEMMA BranchedStep ==
  ASSUME TypeOK, TypeOK', Stack, Moves, Branched
  PROVE  Branched'
<1> SUFFICES ASSUME NEW x \in DOMAIN executions', NEW s \in Ifs,
                    executions'[x].step \in Children(s)
             PROVE  \/ \E y \in DOMAIN executions' :
                            executions'[y].step = s /\ executions'[y].path = executions'[x].path
                    \/ \E m \in 1 .. Depth' :
                            /\ frames'[m].kind = "branch" /\ frames'[m].owner = s
                            /\ frames'[m].path = executions'[x].path
  BY DEF Branched, Logged
<1>a. ASSUME x \in DOMAIN executions, executions'[x] = executions[x]
      PROVE  \/ Logged(s, executions[x].path)
             \/ \E m \in 1 .. Depth : /\ frames[m].kind = "branch" /\ frames[m].owner = s
                                      /\ frames[m].path = executions[x].path
  BY <1>a DEF Branched
<1>1. CASE \E d, cause : \E ending \in Endings : EndsAt(d, ending, cause)
  <2>1. PICK d, cause : \E ending \in Endings : EndsAt(d, ending, cause)
    BY <1>1
  <2>2. PICK ending \in Endings : EndsAt(d, ending, cause)
    BY <2>1
  <2>3. /\ CompletesAt(d, ending, cause) /\ d \in 1 .. Depth /\ Depth' = d /\ d \in 1 .. d
        /\ \A k \in 1 .. d : /\ frames'[k].kind = frames[k].kind /\ frames'[k].owner = frames[k].owner
                             /\ frames'[k].path = frames[k].path
        /\ \A k \in 1 .. Depth : k \notin 1 .. d =>
                frames[k].owner = frames[d].steps[frames[d].at] /\ frames[k].path = Place(frames[d])
    <3>1. CompletesAt(d, ending, cause)
      BY <2>2, EndFacts
    <3>2. d \in 1 .. d
      BY <3>1, Completing
    <3> QED BY <2>2, <3>2, EndFacts
  <2>4. CASE x \in DOMAIN executions /\ executions'[x] = executions[x]
    <3> DEFINE p == executions[x].path
    <3>1. Logged(s, p) \/ \E m \in 1 .. Depth : /\ frames[m].kind = "branch" /\ frames[m].owner = s
                                                /\ frames[m].path = p
      BY <2>4, <1>a
    <3>2. executions'[x].path = p
      BY <2>4
    <3> HIDE DEF p
    <3>3. PICK z : z = p
      OBVIOUS
    <3>4. Logged(s, z) => Logged(s, z)'
      BY <2>3, Logging
    <3>5. ASSUME NEW m \in 1 .. Depth, frames[m].owner = s, frames[m].path = z
          PROVE  Logged(s, z)' \/ m \in 1 .. d
      <4>1. m \notin 1 .. d => s = frames[d].steps[frames[d].at] /\ z = Place(frames[d])
        BY <3>5, <2>3
      <4> QED BY <4>1, <2>3, Logging
    <3>6. Logged(s, z)' => \E y \in DOMAIN executions' :
                executions'[y].step = s /\ executions'[y].path = executions'[x].path
      BY <3>2, <3>3 DEF Logged
    <3> QED BY <3>1, <3>2, <3>3, <3>4, <3>5, <3>6, <2>3
  <2>5. CASE /\ executions'[x].step = frames[d].steps[frames[d].at]
             /\ executions'[x].path = Place(frames[d])
    <3>1. frames[d].steps[frames[d].at] \in Range(frames[d].steps)
      BY <2>3, LogGrows
    <3>2. s \in Steps /\ Kind[s] = "if"
      BY DEF Ifs
    <3>3. d # 1
      <4>1. Children(s) \cap Range(Root) = {}
        BY <3>2, Tree
      <4> QED BY <4>1, <3>1, <2>5 DEF Stack, Chain
    <3>4. /\ frames[d].owner \in Steps /\ Range(frames[d].steps) \subseteq Children(frames[d].owner)
          /\ frames[d].kind \in {"branch", "loop"}
          /\ frames[d].kind = "loop" => frames[d].owner \in Loops
          /\ frames[d].kind # "loop" => Place(frames[d]) = frames[d].path
      <4>1. d > 1
        BY <3>3, <2>3
      <4> QED BY <4>1, <2>3, Places
    <3>5. frames[d].owner = s
      BY <3>1, <3>2, <3>4, <2>5, Tree
    <3>6. frames[d].kind = "branch"
      BY <3>2, <3>4, <3>5 DEF Loops
    <3> QED BY <2>3, <2>5, <3>4, <3>5, <3>6
  <2> QED BY <2>3, <2>4, <2>5, Entry
<1>2. CASE \E g \in Block : Enters(g)
  <2>1. PICK g \in Block : Enters(g)
    BY <1>2
  <2>2. /\ executions' = executions
        /\ \A k \in 1 .. Depth : k \in 1 .. Depth' /\ frames'[k] = frames[k]
    BY <2>1, EnterFacts
  <2> QED BY <2>2, <1>a DEF Logged
<1>3. CASE Continues \/ Iterates \/ (Idles /\ Stays)
  <2>1. /\ executions' = executions /\ Depth' = Depth
        /\ \A k \in 1 .. Depth : /\ frames'[k].kind = frames[k].kind
                                 /\ frames'[k].owner = frames[k].owner
                                 /\ frames'[k].path = frames[k].path
    BY <1>3, ContinueFacts, IterateFacts, IdleFacts
  <2> QED BY <2>1, <1>a DEF Logged
<1> QED BY <1>1, <1>2, <1>3, MovesMean

(* A block has executed every step it has passed. *)
LEMMA PassedStep ==
  ASSUME TypeOK, TypeOK', Stack, Moves, Passed
  PROVE  Passed'
<1> SUFFICES ASSUME NEW k \in 1 .. Depth', Live(k)', NEW j \in 1 .. frames'[k].at - 1
             PROVE  \E y \in DOMAIN executions' : /\ executions'[y].step = frames'[k].steps[j]
                                                  /\ executions'[y].path = Place(frames'[k])
  BY DEF Passed, Logged
<1>1. CASE \E d, cause : \E ending \in Endings : EndsAt(d, ending, cause)
  <2>1. PICK d, cause : \E ending \in Endings : EndsAt(d, ending, cause)
    BY <1>1
  <2>2. PICK ending \in Endings : EndsAt(d, ending, cause)
    BY <2>1
  <2>3. /\ CompletesAt(d, ending, cause) /\ k \in 1 .. d /\ k \in 1 .. Depth /\ Live(k)
        /\ frames'[k].steps = frames[k].steps /\ Place(frames'[k]) = Place(frames[k])
        /\ frames[k].at \in Nat /\ frames'[k].at \in Nat
        /\ k # d => frames'[k].at = frames[k].at
        /\ frames'[d].at \in {frames[d].at, frames[d].at + 1}
    BY <2>2, EndFacts
  <2> DEFINE s == frames[k].steps[j]
             p == Place(frames[k])
  <2>4. Logged(s, p) \/ (s = frames[d].steps[frames[d].at] /\ p = Place(frames[d]))
    <3>1. CASE j \in 1 .. frames[k].at - 1
      BY <2>3, <3>1 DEF Passed
    <3>2. CASE ~(j \in 1 .. frames[k].at - 1)
      <4>1. k = d /\ j = frames[d].at
        BY <2>3, <3>2
      <4> QED BY <4>1
    <3> QED BY <3>1, <3>2
  <2>5. PICK t, z : t = s /\ z = p
    OBVIOUS
  <2>6. Logged(t, z)'
    BY <2>3, <2>4, <2>5, Logging
  <2> QED BY <2>3, <2>5, <2>6 DEF Logged
<1>2. CASE \E g \in Block : Enters(g)
  <2>1. PICK g \in Block : Enters(g)
    BY <1>2
  <2>2. /\ k \in 1 .. Depth \/ k = Depth + 1
        /\ \A i \in 1 .. Depth : frames'[i] = frames[i] /\ Live(i)
        /\ frames'[Depth + 1] = g /\ g.at = 1
    BY <2>1, EnterFacts
  <2>3. k \in 1 .. Depth /\ executions' = executions
    <3>1. k # Depth + 1
      BY <2>2
    <3> QED BY <2>1, <3>1, EnterFacts
  <2> QED BY <2>2, <2>3 DEF Passed, Logged
<1>3. CASE Continues
  <2>1. k \in 1 .. Depth /\ frames'[k] = frames[k] /\ Live(k) /\ executions' = executions
    BY <1>3, ContinueFacts
  <2> QED BY <2>1 DEF Passed, Logged
<1>4. CASE Iterates
  <2>1. /\ k \in 1 .. Depth /\ executions' = executions
        /\ k # Depth => frames'[k] = frames[k] /\ Live(k)
        /\ frames'[Depth].at = 1
    BY <1>4, IterateFacts
  <2>2. k # Depth
    BY <2>1
  <2> QED BY <2>1, <2>2 DEF Passed, Logged
<1>5. CASE Idles /\ Stays
  <2>1. /\ k \in 1 .. Depth /\ Live(k) /\ executions' = executions
        /\ frames'[k].steps = frames[k].steps /\ frames'[k].at = frames[k].at
        /\ Place(frames'[k]) = Place(frames[k])
    BY <1>5, IdleFacts
  <2> QED BY <2>1 DEF Passed, Logged
<1> QED BY <1>1, <1>2, <1>3, <1>4, <1>5, MovesMean

(* As long as a block may commit, all its steps have ended well. *)
LEMMA WellStep ==
  ASSUME TypeOK, TypeOK', Stack, Moves, Well, Past
  PROVE  Well'
<1> SUFFICES ASSUME ~Failing', NEW k \in 1 .. Depth', Live(k)', NEW x \in DOMAIN executions',
                    executions'[x].path = Place(frames'[k])
             PROVE  executions'[x].outcome = "succeeded"
  BY DEF Well
<1>1. CASE \E d, cause : \E ending \in Endings : EndsAt(d, ending, cause)
  <2>1. PICK d, cause : \E ending \in Endings : EndsAt(d, ending, cause)
    BY <1>1
  <2>2. PICK ending \in Endings : EndsAt(d, ending, cause)
    BY <2>1
  <2>3. /\ CompletesAt(d, ending, cause) /\ k \in 1 .. Depth /\ Live(k)
        /\ Place(frames'[k]) = Place(frames[k]) /\ ~Failing /\ Done(ending)
    BY <2>2, EndFacts
  <2>4. CASE x \in DOMAIN executions /\ executions'[x] = executions[x]
    BY <2>3, <2>4 DEF Well
  <2>5. CASE executions'[x].outcome = Outcome(ending)
    BY <2>3, <2>5 DEF Done
  <2> QED BY <2>3, <2>4, <2>5, Entry
<1>2. CASE \E g \in Block : Enters(g)
  <2>1. PICK g \in Block : Enters(g)
    BY <1>2
  <2>2. /\ executions' = executions /\ Depth \in 1 .. Depth /\ ~Failing
        /\ k \in 1 .. Depth \/ k = Depth + 1
        /\ k = Depth + 1 => g.kind # "loop"
        /\ \A i \in 1 .. Depth : frames'[i] = frames[i] /\ Live(i)
        /\ frames'[Depth + 1] = g /\ Opens(frames[Depth], g)
    BY <2>1, EnterFacts
  <2>3. PICK i \in 1 .. Depth : Place(frames'[k]) = Place(frames[i])
    <3>1. CASE k \in 1 .. Depth
      BY <3>1, <2>2
    <3>2. CASE k = Depth + 1
      <4>1. Place(g) = Place(frames[Depth])
        BY <3>2, <2>2 DEF Place, IsLoop, Opens
      <4> QED BY <3>2, <4>1, <2>2
    <3> QED BY <3>1, <3>2, <2>2
  <2> QED BY <2>2, <2>3 DEF Well
<1>3. CASE Continues
  <2>1. k \in 1 .. Depth /\ frames'[k] = frames[k] /\ Live(k) /\ executions' = executions /\ ~Failing
    BY <1>3, ContinueFacts
  <2> QED BY <2>1 DEF Well
<1>4. CASE Iterates
  <2>1. /\ k \in 1 .. Depth /\ executions' = executions /\ pc = "next" /\ ~Failing
        /\ frames[Depth].kind = "loop" /\ Place(frames'[k]) = Place(frames[k])
        /\ Live(k) <=> k # Depth
    BY <1>4, IterateFacts
  <2>2. executions[x].path # Place(frames[Depth])
    BY <2>1, NotVisited
  <2> QED BY <2>1, <2>2 DEF Well
<1>5. CASE Idles /\ Stays
  <2>1. /\ k \in 1 .. Depth /\ Live(k) /\ executions' = executions /\ ~Failing
        /\ Place(frames'[k]) = Place(frames[k])
    BY <1>5, IdleFacts
  <2> QED BY <2>1 DEF Well
<1> QED BY <1>1, <1>2, <1>3, <1>4, <1>5, MovesMean

(* What is logged is logged once, and in its own iteration. *)
LEMMA EntriesStep ==
  ASSUME TypeOK, TypeOK', Stack, Moves, Entries
  PROVE  Entries'
<1>1. Unlogged /\ Iterated /\ Past /\ Branched /\ Passed /\ Well
  BY DEF Entries
<1> QED BY <1>1, UnloggedStep, IteratedStep, PastStep, BranchedStep, PassedStep, WellStep
        DEF Entries

-----------------------------------------------------------------------------
(* The staged rows.                                                         *)

(* An entry of another iteration, or of no Output, changes nothing.         *)
LEMMA StagesOn ==
  ASSUME NEW st, NEW log \in Seq(Execution), NEW e \in Execution, NEW q, NEW gone, NEW more,
         gone \subseteq more, StagesWell(st, log, q, gone),
         e.path # q \/ Kind[e.step] # "output"
  PROVE  StagesWell(st, Append(log, e), q, more)
<1>1. \A page : ~Counts(e, page, q)
  BY DEF Counts
<1>2. \A page : OutputsIn(Append(log, e), page, q) = OutputsIn(log, page, q)
  BY <1>1, OutputsGrow
<1> QED BY <1>2 DEF StagesWell

(* Nor does a row that is gone. *)
LEMMA StagesGone ==
  ASSUME NEW st, NEW log, NEW q, NEW gone, NEW more, gone \subseteq more,
         StagesWell(st, log, q, gone)
  PROVE  StagesWell(st, log, q, more)
BY DEF StagesWell

(* An iteration without entries stages nothing. *)
LEMMA StagesNothing ==
  ASSUME NEW log \in Seq(Execution), NEW q, NEW gone,
         \A k \in DOMAIN log : log[k].path # q
  PROVE  StagesWell(<<>>, log, q, gone)
<1>1. ASSUME NEW page PROVE OutputsIn(log, page, q) = <<>>
  <2>1. \A k \in DOMAIN log : ~Counts(log[k], page, q)
    BY DEF Counts
  <2> QED BY <2>1, NoOutputs
<1> QED BY <1>1 DEF StagesWell

(* An Output that ends is staged for its Page. *)
LEMMA StagesAnOutput ==
  ASSUME NEW st \in Rows, NEW log \in Seq(Execution), NEW e \in Execution, NEW more,
         NEW s \in Steps, e.step = s, Kind[s] = "output", StagesWell(st, log, e.path, {})
  PROVE  StagesWell(Staged(st, s), Append(log, e), e.path, more)
<1> DEFINE q == e.path
           b == Page[s]
           new == Append(log, e)
<1>0. b \in Pages
  BY ProgramAssumption
<1>1. /\ OutputsIn(new, b, q) = Append(OutputsIn(log, b, q), s)
      /\ \A page : page # b => OutputsIn(new, page, q) = OutputsIn(log, page, q)
  <2>1. Counts(e, b, q) /\ \A page : page # b => ~Counts(e, page, q)
    BY DEF Counts
  <2> QED BY <2>1, OutputsGrow
<1>2. /\ \A g \in DOMAIN st, h \in DOMAIN st : st[g].page = st[h].page => g = h
      /\ \A h \in DOMAIN st : st[h].outputs = OutputsIn(log, st[h].page, q)
      /\ \A p \in Pages : OutputsIn(log, p, q) # <<>> => \E h \in DOMAIN st : st[h].page = p
  BY DEF StagesWell
<1>3. /\ Len(st) \in Nat /\ DOMAIN st = 1 .. Len(st)
      /\ \A h \in DOMAIN st : st[h] \in [page : Pages \cup {None}, outputs : Seq(Steps)]
  <2> DEFINE R == [page : Pages \cup {None}, outputs : Seq(Steps)]
  <2>1. st \in Seq(R)
    BY DEF Rows
  <2> HIDE DEF R
  <2>2. Len(st) \in Nat /\ DOMAIN st = 1 .. Len(st) /\ \A h \in DOMAIN st : st[h] \in R
    BY <2>1
  <2> QED BY <2>2 DEF R
<1> HIDE DEF q, new
<1>4. CASE \E k \in DOMAIN st : st[k].page = b
  <2> DEFINE t == [k \in DOMAIN st |-> IF st[k].page = b
                                       THEN [st[k] EXCEPT !.outputs = Append(@, s)] ELSE st[k]]
  <2>1. Staged(st, s) = t
    BY <1>4 DEF Staged
  <2>2. DOMAIN t = DOMAIN st
    OBVIOUS
  <2>3. \A k \in DOMAIN st :
            /\ t[k].page = st[k].page
            /\ st[k].page = b => t[k].outputs = Append(st[k].outputs, s)
            /\ st[k].page # b => t[k].outputs = st[k].outputs
    BY <1>3
  <2> HIDE DEF t
  <2>4. \A g \in DOMAIN t, h \in DOMAIN t : t[g].page = t[h].page => g = h
    BY <1>2, <2>2, <2>3
  <2>5. ASSUME NEW h \in DOMAIN t PROVE t[h].outputs = OutputsIn(new, t[h].page, q)
    <3>1. st[h].outputs = OutputsIn(log, st[h].page, q) /\ t[h].page = st[h].page
      BY <1>2, <2>2, <2>3
    <3>2. CASE st[h].page = b
      <4>1. t[h].outputs = Append(st[h].outputs, s)
        BY <3>2, <2>2, <2>3
      <4> QED BY <4>1, <3>1, <3>2, <1>1
    <3>3. CASE st[h].page # b
      <4>1. t[h].outputs = st[h].outputs
        BY <3>3, <2>2, <2>3
      <4> QED BY <4>1, <3>1, <3>3, <1>1
    <3> QED BY <3>2, <3>3
  <2>6. ASSUME NEW p \in Pages, OutputsIn(new, p, q) # <<>>
        PROVE  \E h \in DOMAIN t : t[h].page = p
    <3>1. \E h \in DOMAIN st : st[h].page = p
      <4>1. CASE p = b
        BY <4>1, <1>4
      <4>2. CASE p # b
        BY <4>2, <2>6, <1>1, <1>2
      <4> QED BY <4>1, <4>2
    <3> QED BY <3>1, <2>2, <2>3
  <2>7. StagesWell(t, new, q, more)
    BY <2>4, <2>5, <2>6 DEF StagesWell
  <2> QED BY <2>1, <2>7 DEF q, new
<1>5. CASE ~ \E k \in DOMAIN st : st[k].page = b
  <2> DEFINE r == [page |-> b, outputs |-> <<s>>]
             t == Append(st, r)
             n == Len(st) + 1
  <2>1. Staged(st, s) = t
    BY <1>5 DEF Staged
  <2>2. r.page = b /\ r.outputs = <<s>>
    OBVIOUS
  <2> HIDE DEF r
  <2>3. /\ DOMAIN t = 1 .. n /\ t[n] = r /\ n \in 1 .. n
        /\ \A k \in 1 .. n : k \in DOMAIN st \/ k = n
        /\ \A k \in DOMAIN st : k \in 1 .. n /\ t[k] = st[k]
    BY <1>3 DEF Rows
  <2> HIDE DEF t, n
  <2>4. OutputsIn(new, b, q) = <<s>>
    <3>1. OutputsIn(log, b, q) = <<>>
      BY <1>0, <1>2, <1>5
    <3> QED BY <3>1, <1>1
  <2>5. \A g \in 1 .. n, h \in 1 .. n : t[g].page = t[h].page => g = h
    BY <1>2, <1>5, <2>2, <2>3
  <2>6. \A h \in 1 .. n : t[h].outputs = OutputsIn(new, t[h].page, q)
    <3>1. ASSUME NEW h \in DOMAIN st PROVE t[h].outputs = OutputsIn(new, t[h].page, q)
      BY <1>1, <1>2, <1>5, <2>3
    <3>2. t[n].outputs = OutputsIn(new, t[n].page, q)
      BY <2>2, <2>3, <2>4
    <3> QED BY <3>1, <3>2, <2>3
  <2>7. \A p \in Pages : OutputsIn(new, p, q) # <<>> => \E h \in 1 .. n : t[h].page = p
    <3>1. ASSUME NEW p \in Pages, OutputsIn(new, p, q) # <<>>, p # b
          PROVE  \E h \in 1 .. n : t[h].page = p
      BY <3>1, <1>1, <1>2, <2>3
    <3> QED BY <3>1, <2>2, <2>3
  <2>8. StagesWell(t, new, q, more)
    BY <2>3, <2>5, <2>6, <2>7 DEF StagesWell
  <2> QED BY <2>1, <2>8 DEF q, new
<1> QED BY <1>4, <1>5

(* The first row is committed. *)
LEMMA StagesRest ==
  ASSUME NEW st \in Rows, st # <<>>, NEW log, NEW q, NEW gone, NEW more,
         StagesWell(st, log, q, gone),
         gone \subseteq more, Head(st).page \in Pages => Head(st).page \in more
  PROVE  /\ StagesWell(Tail(st), log, q, more)
         /\ Head(st).outputs = OutputsIn(log, Head(st).page, q)
         /\ \A h \in DOMAIN Tail(st) : Tail(st)[h].page # Head(st).page
         /\ \A h \in DOMAIN Tail(st) : \E g \in DOMAIN st : Tail(st)[h] = st[g]
         /\ Tail(st) \in Rows /\ 1 \in DOMAIN st /\ Head(st) = st[1]
<1> DEFINE n == Len(st)
           t == Tail(st)
<1>1. /\ n \in Nat /\ n > 0 /\ DOMAIN st = 1 .. n /\ Head(st) = st[1] /\ t \in Rows
      /\ DOMAIN t = 1 .. n - 1 /\ \A h \in 1 .. n - 1 : t[h] = st[h + 1]
  BY DEF Rows
<1>2. /\ \A g \in DOMAIN st, h \in DOMAIN st : st[g].page = st[h].page => g = h
      /\ \A h \in DOMAIN st : st[h].outputs = OutputsIn(log, st[h].page, q)
      /\ \A p \in Pages : OutputsIn(log, p, q) # <<>> =>
            (\E h \in DOMAIN st : st[h].page = p) \/ p \in gone
  BY DEF StagesWell
<1> HIDE DEF n, t
<1>3. /\ \A h \in 1 .. n - 1 : h + 1 \in 1 .. n /\ h + 1 # 1
      /\ \A g \in 1 .. n - 1, h \in 1 .. n - 1 : g + 1 = h + 1 => g = h
      /\ \A h \in 1 .. n : h = 1 \/ (h - 1 \in 1 .. n - 1 /\ (h - 1) + 1 = h)
      /\ 1 \in 1 .. n
  BY <1>1
<1>4. \A g \in DOMAIN t, h \in DOMAIN t : t[g].page = t[h].page => g = h
  <2>1. ASSUME NEW g \in 1 .. n - 1, NEW h \in 1 .. n - 1, t[g].page = t[h].page PROVE g = h
    <3>1. st[g + 1].page = st[h + 1].page /\ g + 1 \in 1 .. n /\ h + 1 \in 1 .. n
      BY <2>1, <1>1, <1>3
    <3>2. g + 1 = h + 1
      BY <3>1, <1>1, <1>2
    <3> QED BY <3>2, <1>3
  <2> QED BY <2>1, <1>1
<1>5. \A h \in DOMAIN t : t[h].outputs = OutputsIn(log, t[h].page, q)
  BY <1>1, <1>2, <1>3
<1>6. ASSUME NEW p \in Pages, OutputsIn(log, p, q) # <<>>
      PROVE  (\E h \in DOMAIN t : t[h].page = p) \/ p \in more
  <2>1. CASE p \in gone
    BY <2>1
  <2>2. CASE \E h \in 1 .. n : st[h].page = p
    <3>1. PICK h \in 1 .. n : st[h].page = p
      BY <2>2
    <3>2. CASE h = 1
      BY <3>1, <3>2, <1>1
    <3>3. CASE h # 1
      <4>1. h - 1 \in 1 .. n - 1 /\ t[h - 1] = st[h]
        BY <3>3, <1>1, <1>3
      <4> QED BY <4>1, <3>1, <1>1
    <3> QED BY <3>2, <3>3
  <2> QED BY <2>1, <2>2, <1>1, <1>2, <1>6
<1>7. \A h \in 1 .. n - 1 : t[h].page # st[1].page
  BY <1>1, <1>2, <1>3
<1>8. \A h \in DOMAIN t : \E g \in DOMAIN st : t[h] = st[g]
  BY <1>1, <1>3
<1>9. st[1].outputs = OutputsIn(log, st[1].page, q)
  BY <1>1, <1>2, <1>3
<1>10. StagesWell(t, log, q, more)
  BY <1>4, <1>5, <1>6 DEF StagesWell
<1> QED BY <1>1, <1>3, <1>7, <1>8, <1>9, <1>10 DEF t

(* No two blocks with rows of their own are in one place.                   *)
LEMMA ScopesApart ==
  ASSUME TypeOK, Stack, NEW j \in 1 .. Depth, NEW k \in 1 .. Depth, j # k,
         frames[j].kind # "branch", frames[k].kind # "branch"
  PROVE  Place(frames[j]) # Place(frames[k])
<1>0. Depth \in Nat /\ j \in Nat /\ k \in Nat
  BY Frames
<1>1. ASSUME NEW a \in 1 .. Depth, NEW b \in 1 .. Depth, a < b, frames[b].kind # "branch"
      PROVE  Place(frames[a]) # Place(frames[b])
  <2>1. Len(Place(frames[a])) <= Len(frames[b].path)
    BY <1>1 DEF Stack, Nested
  <2>2. frames[b].kind = "loop"
    <3>1. b > 1
      BY <1>1
    <3> QED BY <3>1, <1>1, Places
  <2>3. /\ Len(Place(frames[b])) = Len(frames[b].path) + 1 /\ Len(frames[b].path) \in Nat
        /\ Len(Place(frames[a])) \in Nat
    BY <2>2, Places, Frames
  <2> QED BY <2>1, <2>3
<1> QED BY <1>0, <1>1

(* What a move that ends nothing does to the staged rows.                   *)
LeavesStaged ==
    /\ rows' = rows /\ \A k \in 1 .. Depth : frames'[k].staged = frames[k].staged
    /\ pc \in {"commit", "return", "done"} => pc' \in {"commit", "return", "done"}
    /\ pc' = "commit" => pc \in {"step", "commit"}
    /\ pc' \in {"return", "done"} /\ flow' = "continue" =>
            \/ pc \in {"return", "done"} /\ flow = "continue"
            \/ frames[Depth].staged = <<>> \/ frames[Depth].kind = "branch"

StagesEmptyRow ==
    /\ rows' = rows /\ Pages = {} /\ pc = "step" /\ pc' = "commit"
    /\ frames'[Depth].staged = <<[page |-> None, outputs |-> <<>>]>>

CommitsRow ==
    /\ pc = "commit" /\ pc' \in {"commit", "return"}
    /\ ~Failing' => pc' = "commit"
    /\ frames[Depth].staged # <<>> /\ frames[Depth].staged \in Rows
    /\ frames'[Depth].staged = Tail(frames[Depth].staged)
    /\ rows' = Append(rows, [page |-> Head(frames[Depth].staged).page,
                             path |-> Place(frames[Depth]),
                             outputs |-> Head(frames[Depth].staged).outputs])

(* It leaves them, or is the commit of one, or readies a root without Pages. *)
LEMMA IdlesRows ==
  ASSUME TypeOK, Stack, Idles
  PROVE  LeavesStaged \/ StagesEmptyRow \/ CommitsRow
<1>0. /\ Depth \in 1 .. Depth /\ Top = frames[Depth] /\ Depth \in Nat
      /\ pc \in {"step", "busy", "commit", "return", "next", "done"}
  BY TopFacts, Frames DEF TypeOK
<1>a. frames[Depth].staged \in Rows
  BY <1>0, Frames, BlockFields DEF Rows
<1>1. CASE StopAtStep
  BY <1>1 DEF StopAtStep, Returns, LeavesStaged
<1>2. CASE \E s \in Steps : BeginLeaf(s)
  BY <1>2 DEF BeginLeaf, Begins, LeavesStaged
<1>3. CASE EndBlock
  <2>1. CASE Top.kind = "branch"
    BY <1>0, <1>3, <2>1 DEF EndBlock, Returns, LeavesStaged
  <2>2. CASE Top.kind # "branch" /\ Pages = {} /\ Top.kind = "root"
    <3> DEFINE st == <<[page |-> None, outputs |-> <<>>]>>
    <3>1. /\ frames' = [frames EXCEPT ![Depth].staged = st] /\ rows' = rows
          /\ pc = "step" /\ pc' = "commit"
          /\ UNCHANGED <<variables, step_outputs, executions>>
      BY <1>3, <2>2 DEF EndBlock
    <3>2. st \in Rows
      <4>1. [page |-> None, outputs |-> <<>>] \in [page : Pages \cup {None}, outputs : Seq(Steps)]
        OBVIOUS
      <4> QED BY <4>1 DEF Rows
    <3> HIDE DEF st
    <3>3. frames'[Depth].staged = st
      BY <3>1, <3>2, StagedFrames
    <3> QED BY <2>2, <3>1, <3>3 DEF StagesEmptyRow, st
  <2>3. CASE Top.kind # "branch" /\ ~(Pages = {} /\ Top.kind = "root")
    BY <1>3, <2>3 DEF EndBlock, LeavesStaged
  <2> QED BY <2>1, <2>2, <2>3
<1>4. CASE CommitRow
  <2> DEFINE st == Tail(Top.staged)
  <2>1. /\ frames' = [frames EXCEPT ![Depth].staged = st] /\ Top.staged # <<>>
        /\ UNCHANGED <<variables, step_outputs, executions>>
        /\ pc = "commit" /\ pc' \in {"commit", "return"}
        /\ pc' = "return" => flow' = "err"
        /\ rows' = Append(rows, [page |-> Head(Top.staged).page, path |-> Path(frames),
                                 outputs |-> Head(Top.staged).outputs])
    BY <1>0, <1>4 DEF CommitRow, Returns
  <2>2. st \in Rows
    <3> DEFINE Row == [page : Pages \cup {None}, outputs : Seq(Steps)]
    <3>1. Top.staged \in Seq(Row)
      BY <1>0, <1>a DEF Rows
    <3> HIDE DEF Row
    <3>2. st \in Seq(Row)
      BY <3>1, <2>1
    <3> QED BY <3>2 DEF Rows, Row
  <2> HIDE DEF st
  <2>3. frames'[Depth].staged = st
    BY <2>1, <2>2, StagedFrames
  <2>4. Path(frames) = Place(frames[Depth])
    BY DEF Path, Depth
  <2>5. ~Failing' => pc' = "commit"
    BY <2>1 DEF Failing
  <2> QED BY <1>0, <1>a, <2>1, <2>3, <2>4, <2>5 DEF CommitsRow, st
<1>5. CASE CommitEnds
  BY <1>0, <1>5 DEF CommitEnds, Returns, LeavesStaged
<1>6. CASE ReturnRoot
  BY <1>6 DEF ReturnRoot, LeavesStaged
<1>7. CASE RequestStop \/ SignalFailure \/ (\E l \in Loops : RequestLoopStop(l))
  BY <1>0, <1>7 DEF RequestStop, SignalFailure, RequestLoopStop, LeavesStaged
<1>8. CASE Finished \/ UNCHANGED vars
  BY <1>0, <1>8 DEF Finished, vars, LeavesStaged
<1> QED BY <1>1, <1>2, <1>3, <1>4, <1>5, <1>6, <1>7, <1>8 DEF Idles

(* What StagedWell leaves to show when no row is committed. *)
LEMMA StagedSo ==
  ASSUME \A k \in 1 .. Depth' : ~Failing' /\ Live(k)' /\ frames'[k].kind # "branch" =>
            /\ StagesWell(frames'[k].staged, executions', Place(frames'[k]), {})
            /\ k = Depth' /\ pc' \in {"return", "done"} /\ flow' = "continue" =>
                    frames'[k].staged = <<>>
  PROVE  StagedWell'
<1> SUFFICES ASSUME ~Failing', NEW k \in 1 .. Depth', Live(k)', frames'[k].kind # "branch"
             PROVE  /\ StagesWell(frames'[k].staged, executions', Place(frames'[k]), Gone(k)')
                    /\ k = Depth' /\ pc' \in {"return", "done"} /\ flow' = "continue" =>
                            frames'[k].staged = <<>>
  BY DEF StagedWell
<1>1. StagesWell(frames'[k].staged, executions', Place(frames'[k]), {})
  OBVIOUS
<1> QED BY <1>1, StagesGone

(* The rows staged before a block comes to its end are whole. *)
LEMMA StagedBefore ==
  ASSUME StagedWell, ~Failing, NEW k \in 1 .. Depth, Live(k), frames[k].kind # "branch",
         ~Committing(k)
  PROVE  StagesWell(frames[k].staged, executions, Place(frames[k]), {})
<1>1. StagesWell(frames[k].staged, executions, Place(frames[k]), Gone(k))
  BY DEF StagedWell
<1>2. Gone(k) = {}
  BY DEF Gone
<1> QED BY <1>1, <1>2

(* The entry of a step that ends. *)
LEMMA NewEntry ==
  ASSUME TypeOK, Stack, NEW d, NEW ending \in Endings, NEW cause, CompletesAt(d, ending, cause)
  PROVE  /\ frames[d].steps[frames[d].at] \in Steps
         /\ [step |-> frames[d].steps[frames[d].at], path |-> Place(frames[d]),
             outcome |-> Outcome(ending)] \in Execution
         /\ executions' = Append(executions, [step |-> frames[d].steps[frames[d].at],
                                              path |-> Place(frames[d]), outcome |-> Outcome(ending)])
         /\ executions \in Seq(Execution)
<1>1. frames[d].steps[frames[d].at] \in Steps
  BY LogGrows
<1>2. Place(frames[d]) \in Occurrence
  BY Places DEF CompletesAt
<1>3. Outcome(ending) \in {"succeeded", "failed", "cancelled"}
  BY Outcomes
<1> QED BY <1>1, <1>2, <1>3 DEF CompletesAt, Execution, TypeOK

(* A step that ends and stages nothing. *)
LEMMA StagedCompletes ==
  ASSUME TypeOK, TypeOK', Stack, StagedWell, NEW d, NEW ending \in Endings, NEW cause,
         EndsAt(d, ending, cause),
         \A k \in 1 .. d : frames'[k].staged = frames[k].staged,
         Done(ending) => Kind[frames[d].steps[frames[d].at]] # "output"
  PROVE  StagedWell'
<1> DEFINE e == [step |-> frames[d].steps[frames[d].at], path |-> Place(frames[d]),
                 outcome |-> Outcome(ending)]
<1>1. CompletesAt(d, ending, cause) /\ Depth' = d
  BY EndFacts
<1>2. /\ e \in Execution /\ executions' = Append(executions, e) /\ executions \in Seq(Execution)
      /\ e.step = frames[d].steps[frames[d].at]
  BY <1>1, NewEntry
<1> HIDE DEF e
<1>3. ASSUME NEW k \in 1 .. d, ~Failing', frames'[k].kind # "branch"
      PROVE  /\ StagesWell(frames'[k].staged, executions', Place(frames'[k]), {})
             /\ ~(pc' \in {"return", "done"} /\ flow' = "continue")
  <2>1. /\ k \in 1 .. Depth /\ Live(k) /\ ~Committing(k) /\ ~Failing /\ Done(ending)
        /\ frames[k].kind # "branch" /\ Place(frames'[k]) = Place(frames[k])
    BY <1>3, EndFacts
  <2>2. StagesWell(frames[k].staged, executions, Place(frames[k]), {})
    BY <2>1, StagedBefore
  <2>3. Kind[e.step] # "output"
    BY <1>2, <2>1
  <2>4. StagesWell(frames[k].staged, executions', Place(frames[k]), {})
    BY <1>2, <2>2, <2>3, StagesOn
  <2>5. ~(pc' \in {"return", "done"} /\ flow' = "continue")
    BY <1>1 DEF CompletesAt
  <2> QED BY <2>1, <2>4, <2>5
<1> QED BY <1>1, <1>3, StagedSo

(* A step that ends and stages its output. *)
LEMMA StagedOutput ==
  ASSUME TypeOK, TypeOK', Stack, StagedWell, NEW cause, Logs("continue", cause), StagesOutput
  PROVE  StagedWell'
<1> DEFINE s == frames[Depth].steps[frames[Depth].at]
           e == [step |-> s, path |-> Place(frames[Depth]), outcome |-> Outcome("continue")]
<1>0. Depth \in 1 .. Depth /\ Depth \in Nat /\ Top = frames[Depth] /\ "continue" \in Endings
  BY TopFacts, Frames DEF Endings
<1>1. EndsAt(Depth, "continue", cause) /\ CompletesAt(Depth, "continue", cause) /\ Depth' = Depth
  <2>1. EndsAt(Depth, "continue", cause)
    BY <1>0, LeafEnds
  <2> QED BY <2>1, <1>0, EndFacts
<1>2. /\ e \in Execution /\ executions' = Append(executions, e) /\ executions \in Seq(Execution)
      /\ e.step = s /\ e.path = Place(frames[Depth]) /\ s \in Steps
  BY <1>0, <1>1, NewEntry
<1>3. Kind[s] = "output"
  BY <1>0 DEF StagesOutput, Current
<1>4. PICK c \in 1 .. Depth :
        /\ frames[c].kind # "branch" /\ \A j \in c + 1 .. Depth : frames[j].kind = "branch"
        /\ Place(frames[c]) = Place(frames[Depth])
        /\ frames'[c].staged = Staged(frames[c].staged, s)
        /\ \A k \in 1 .. Depth : k # c => frames'[k].staged = frames[k].staged
  BY <1>0 DEF StagesOutput, Current
<1> HIDE DEF e, s
<1>5. ASSUME NEW k \in 1 .. Depth, ~Failing', frames'[k].kind # "branch"
      PROVE  /\ StagesWell(frames'[k].staged, executions', Place(frames'[k]), {})
             /\ ~(pc' \in {"return", "done"} /\ flow' = "continue")
  <2>1. /\ Live(k) /\ ~Committing(k) /\ ~Failing
        /\ frames[k].kind # "branch" /\ Place(frames'[k]) = Place(frames[k])
    BY <1>0, <1>1, <1>5, EndFacts
  <2>2. StagesWell(frames[k].staged, executions, Place(frames[k]), {})
    BY <2>1, StagedBefore
  <2>3. StagesWell(frames'[k].staged, executions', Place(frames[k]), {})
    <3>1. CASE k = c
      <4>1. frames[k].staged \in Rows
        BY Frames, BlockFields DEF Rows
      <4>2. StagesWell(frames[k].staged, executions, e.path, {})
        BY <2>2, <3>1, <1>2, <1>4
      <4>3. StagesWell(Staged(frames[k].staged, s), Append(executions, e), e.path, {})
        BY <4>1, <4>2, <1>2, <1>3, StagesAnOutput
      <4> QED BY <4>3, <3>1, <1>2, <1>4
    <3>2. CASE k # c
      <4>1. Place(frames[k]) # e.path
        BY <2>1, <3>2, <1>2, <1>4, ScopesApart
      <4>2. StagesWell(frames[k].staged, Append(executions, e), Place(frames[k]), {})
        BY <2>2, <4>1, <1>2, StagesOn
      <4> QED BY <4>2, <3>2, <1>2, <1>4
    <3> QED BY <3>1, <3>2
  <2>4. ~(pc' \in {"return", "done"} /\ flow' = "continue")
    BY <1>1 DEF CompletesAt
  <2> QED BY <2>1, <2>3, <2>4
<1> QED BY <1>1, <1>5, StagedSo

(* A move that ends no step. *)
LEMMA StagedIdles ==
  ASSUME TypeOK, TypeOK', Stack, StagedWell, Idles, Stays
  PROVE  StagedWell'
<1> SUFFICES ASSUME ~Failing', NEW k \in 1 .. Depth', Live(k)', frames'[k].kind # "branch"
             PROVE  /\ StagesWell(frames'[k].staged, executions', Place(frames'[k]), Gone(k)')
                    /\ k = Depth' /\ pc' \in {"return", "done"} /\ flow' = "continue" =>
                            frames'[k].staged = <<>>
  BY DEF StagedWell
<1>1. /\ Depth' = Depth /\ Depth \in 1 .. Depth /\ Depth \in Nat /\ executions' = executions
      /\ k \in 1 .. Depth /\ Live(k) /\ frames[k].kind # "branch" /\ ~Failing
      /\ Place(frames'[k]) = Place(frames[k])
      /\ k # Depth => frames'[k].staged = frames[k].staged
  <2>1. k # Depth => frames'[k].staged = frames[k].staged
    BY Frames DEF Stays, Depth
  <2> QED BY <2>1, IdleFacts
<1>2. /\ StagesWell(frames[k].staged, executions, Place(frames[k]), Gone(k))
      /\ k = Depth /\ pc \in {"return", "done"} /\ flow = "continue" => frames[k].staged = <<>>
  BY <1>1 DEF StagedWell
<1>3. executions \in Seq(Execution)
  BY DEF TypeOK
<1>4. CASE LeavesStaged
  <2>1. Gone(k) \subseteq Gone(k)'
    BY <1>1, <1>4 DEF Gone, LeavesStaged, Committing
  <2>2. StagesWell(frames[k].staged, executions, Place(frames[k]), Gone(k)')
    BY <1>2, <2>1, StagesGone
  <2> QED BY <1>1, <1>2, <1>4, <2>2 DEF LeavesStaged
<1>5. CASE k # Depth
  <2>1. Gone(k) = {}
    BY <1>5 DEF Gone, Committing
  <2>2. StagesWell(frames[k].staged, executions, Place(frames[k]), Gone(k)')
    BY <1>2, <2>1, StagesGone
  <2> QED BY <1>1, <1>5, <2>2
<1>6. CASE StagesEmptyRow /\ k = Depth
  <2> DEFINE st == frames'[k].staged
  <2>1. st = <<[page |-> None, outputs |-> <<>>]>> /\ Pages = {} /\ pc' = "commit"
    BY <1>6 DEF StagesEmptyRow
  <2>2. OutputsIn(executions, None, Place(frames[k])) = <<>>
    <3>1. \A e \in Execution : ~Counts(e, None, Place(frames[k]))
      BY <2>1, ProgramAssumption DEF Counts, Execution
    <3>2. \A x \in DOMAIN executions : ~Counts(executions[x], None, Place(frames[k]))
      BY <3>1, <1>3
    <3> QED BY <3>2, <1>3, NoOutputs
  <2>3. DOMAIN st = {1} /\ st[1].page = None /\ st[1].outputs = <<>>
    BY <2>1
  <2> HIDE DEF st
  <2>4. StagesWell(st, executions, Place(frames[k]), Gone(k)')
    BY <2>1, <2>2, <2>3 DEF StagesWell
  <2> QED BY <1>1, <2>1, <2>4 DEF st
<1>7. CASE CommitsRow /\ k = Depth
  <2> DEFINE st == frames[Depth].staged
             r == [page |-> Head(st).page, path |-> Place(frames[Depth]), outputs |-> Head(st).outputs]
  <2>1. /\ pc = "commit" /\ pc' = "commit" /\ st # <<>> /\ st \in Rows
        /\ frames'[k].staged = Tail(st) /\ rows' = Append(rows, r)
    BY <1>7 DEF CommitsRow
  <2>2. r.page = Head(st).page /\ r.path = Place(frames[k])
    BY <1>7
  <2>3. StagesWell(st, executions, Place(frames[k]), Gone(k))
    BY <1>2, <1>7
  <2> HIDE DEF st, r
  <2>4. rows \in Seq([page : Pages \cup {None}, path : Occurrence, outputs : Seq(Steps)])
    BY DEF TypeOK
  <2>5. /\ \A i \in DOMAIN rows : i \in DOMAIN rows' /\ rows'[i] = rows[i]
        /\ \E i \in DOMAIN rows' : rows'[i] = r
    <3>1. Len(rows) + 1 \in DOMAIN rows' /\ rows'[Len(rows) + 1] = r
      BY <2>1, <2>4
    <3>2. \A i \in DOMAIN rows : i \in DOMAIN rows' /\ rows'[i] = rows[i]
      BY <2>1, <2>4
    <3> QED BY <3>1, <3>2
  <2>6. Committing(k)' /\ Committing(k)
    BY <1>1, <1>7, <2>1 DEF Committing
  <2>7. Gone(k) \subseteq Gone(k)' /\ (Head(st).page \in Pages => Head(st).page \in Gone(k)')
    BY <1>1, <2>2, <2>5, <2>6 DEF Gone
  <2>8. StagesWell(Tail(st), executions, Place(frames[k]), Gone(k)')
    BY <2>1, <2>3, <2>7, StagesRest
  <2> QED BY <1>1, <2>1, <2>8
<1> QED BY <1>4, <1>5, <1>6, <1>7, IdlesRows

(* The rows a block stages are those of its iteration. *)
LEMMA StagedStep ==
  ASSUME TypeOK, TypeOK', Stack, Moves, StagedWell, Past
  PROVE  StagedWell'
<1>1. CASE Leaf
  <2>1. PICK ending \in Endings, cause \in Steps \cup {None} :
            /\ Logs(ending, cause)
            /\ Plain(ending) \/ (ending = "continue" /\ (Assigns \/ StagesOutput))
    BY <1>1 DEF Leaf
  <2>2. CASE ending = "continue" /\ StagesOutput
    BY <2>1, <2>2, StagedOutput
  <2>3. CASE Plain(ending) \/ Assigns
    <3>1. EndsAt(Depth, ending, cause)
      BY <2>1, LeafEnds
    <3>2. Current = frames[Depth].steps[frames[Depth].at]
      BY DEF Current, Top
    <3>3. /\ \A k \in 1 .. Depth : frames'[k].staged = frames[k].staged
          /\ Done(ending) => Kind[frames[Depth].steps[frames[Depth].at]] # "output"
      BY <2>3, <3>2 DEF Plain, Assigns
    <3> QED BY <3>1, <3>3, StagedCompletes
  <2> QED BY <2>1, <2>2, <2>3
<1>2. CASE \E g \in Block : Enters(g)
  <2>1. PICK g \in Block : Enters(g)
    BY <1>2
  <2>2. /\ executions' = executions /\ ~Failing /\ pc = "step" /\ pc' \in {"step", "next"}
        /\ \A k \in 1 .. Depth' : k \in 1 .. Depth \/ k = Depth + 1
        /\ \A k \in 1 .. Depth : frames'[k] = frames[k] /\ Live(k)
        /\ frames'[Depth + 1] = g /\ Opens(frames[Depth], g)
        /\ \A k \in 1 .. Depth' : k = Depth + 1 => (Live(k)' <=> g.kind # "loop")
    BY <2>1, EnterFacts
  <2>3. ASSUME NEW k \in 1 .. Depth', Live(k)', frames'[k].kind # "branch"
        PROVE  StagesWell(frames'[k].staged, executions', Place(frames'[k]), {})
    <3>1. k \in 1 .. Depth /\ frames[k].kind # "branch"
      BY <2>2, <2>3 DEF Opens
    <3>2. ~Committing(k)
      BY <2>2 DEF Committing
    <3>3. StagesWell(frames[k].staged, executions, Place(frames[k]), {})
      BY <2>2, <3>1, <3>2, StagedBefore
    <3> QED BY <2>2, <3>1, <3>3
  <2> QED BY <2>2, <2>3, StagedSo
<1>3. CASE \E ending \in Endings, cause \in Steps \cup {"signal", None} :
                PopsBranch(ending, cause) \/ PopsLoop(ending, cause)
  <2>1. PICK ending \in Endings, cause \in Steps \cup {"signal", None} :
            PopsBranch(ending, cause) \/ PopsLoop(ending, cause)
    BY <1>3
  <2>2. Depth > 1 /\ \A k \in 1 .. Depth - 1 : frames'[k].staged = frames[k].staged
    BY <2>1 DEF PopsBranch, PopsLoop, Pops
  <2> DEFINE d == Depth - 1
  <2>3. EndsAt(d, ending, cause) /\ \A k \in 1 .. d : frames'[k].staged = frames[k].staged
    BY <2>1, <2>2, PopEnds
  <2>4. Kind[frames[d].steps[frames[d].at]] # "output"
    <3>1. Depth \in 2 .. Depth
      BY <2>2, Frames
    <3>2. Opens(frames[d], frames[Depth])
      BY <3>1 DEF Stack, Chain
    <3> QED BY <3>2 DEF Opens, Loops
  <2> HIDE DEF d
  <2> QED BY <2>3, <2>4, StagedCompletes
<1>4. CASE Continues
  <2>1. /\ Depth' = Depth /\ executions' = executions /\ ~Failing /\ pc' = "next"
        /\ \A k \in 1 .. Depth : /\ Live(k) /\ (Live(k)' <=> k # Depth)
                                 /\ k # Depth => frames'[k] = frames[k]
    BY <1>4, ContinueFacts
  <2>2. ASSUME NEW k \in 1 .. Depth, k # Depth, frames'[k].kind # "branch"
        PROVE  StagesWell(frames'[k].staged, executions', Place(frames'[k]), {})
    <3>1. ~Committing(k)
      BY <2>2 DEF Committing
    <3>2. StagesWell(frames[k].staged, executions, Place(frames[k]), {})
      BY <2>1, <2>2, <3>1, StagedBefore
    <3> QED BY <2>1, <2>2, <3>2
  <2> QED BY <2>1, <2>2, StagedSo
<1>5. CASE Iterates
  <2>1. /\ Depth' = Depth /\ executions' = executions /\ ~Failing /\ pc = "next" /\ pc' = "step"
        /\ frames[Depth].kind = "loop" /\ frames'[Depth].staged = <<>>
        /\ \A k \in 1 .. Depth : /\ Live(k) <=> k # Depth
                                 /\ k # Depth => frames'[k] = frames[k]
                                 /\ Place(frames'[k]) = Place(frames[k])
    BY <1>5, IterateFacts
  <2>2. ASSUME NEW k \in 1 .. Depth, frames'[k].kind # "branch"
        PROVE  StagesWell(frames'[k].staged, executions', Place(frames'[k]), {})
    <3>1. CASE k # Depth
      <4>1. ~Committing(k)
        BY <3>1 DEF Committing
      <4>2. StagesWell(frames[k].staged, executions, Place(frames[k]), {})
        BY <2>1, <2>2, <3>1, <4>1, StagedBefore
      <4> QED BY <2>1, <3>1, <4>2
    <3>2. CASE k = Depth
      <4>1. \A x \in DOMAIN executions : executions[x].path # Place(frames[Depth])
        BY <2>1, NotVisited
      <4>2. executions \in Seq(Execution)
        BY DEF TypeOK
      <4>3. StagesWell(<<>>, executions, Place(frames[Depth]), {})
        BY <4>1, <4>2, StagesNothing
      <4> QED BY <2>1, <3>2, <4>3
    <3> QED BY <3>1, <3>2
  <2> QED BY <2>1, <2>2, StagedSo
<1>6. CASE Idles /\ Stays
  BY <1>6, StagedIdles
<1> QED BY <1>1, <1>2, <1>3, <1>4, <1>5, <1>6 DEF Moves

-----------------------------------------------------------------------------
(* The rows.                                                                *)

(* A row is an old one, or that of the commit. *)
LEMMA NewRow ==
  ASSUME TypeOK, CommitsRow, NEW i \in DOMAIN rows'
  PROVE  \/ i \in DOMAIN rows /\ rows'[i] = rows[i]
         \/ /\ i \notin DOMAIN rows
            /\ rows'[i].page = Head(frames[Depth].staged).page
            /\ rows'[i].path = Place(frames[Depth])
            /\ rows'[i].outputs = Head(frames[Depth].staged).outputs
<1> DEFINE r == [page |-> Head(frames[Depth].staged).page, path |-> Place(frames[Depth]),
                 outputs |-> Head(frames[Depth].staged).outputs]
<1>1. rows' = Append(rows, r)
  BY DEF CommitsRow
<1>2. /\ r.page = Head(frames[Depth].staged).page /\ r.path = Place(frames[Depth])
      /\ r.outputs = Head(frames[Depth].staged).outputs
  OBVIOUS
<1> HIDE DEF r
<1>3. rows \in Seq([page : Pages \cup {None}, path : Occurrence, outputs : Seq(Steps)])
  BY DEF TypeOK
<1>4. (i \in DOMAIN rows /\ rows'[i] = rows[i]) \/ (i \notin DOMAIN rows /\ rows'[i] = r)
  BY <1>1, <1>3
<1> QED BY <1>2, <1>4

(* Where a row was committed nothing more is executed. *)
LEMMA FinalStep ==
  ASSUME TypeOK, TypeOK', Stack, Stack', Control, Moves, Past', StagedWell, Final
  PROVE  Final'
<1> SUFFICES ASSUME NEW i \in DOMAIN rows', NEW k \in 1 .. Depth',
                    rows'[i].path = Place(frames'[k])
             PROVE  /\ k = Depth' /\ pc' \in {"commit", "return", "done"}
                    /\ frames'[k].kind # "branch"
                    /\ pc' = "commit" => \A h \in DOMAIN frames'[k].staged :
                                            frames'[k].staged[h].page # rows'[i].page
  BY DEF Final, Committing
<1>a. ASSUME NEW m \in 1 .. Depth, i \in DOMAIN rows, rows'[i] = rows[i],
             Place(frames'[k]) = Place(frames[m])
      PROVE  Committing(m) /\ frames[m].kind # "branch"
             /\ (pc = "commit" => \A h \in DOMAIN frames[m].staged :
                                      frames[m].staged[h].page # rows[i].page)
  BY <1>a DEF Final
<1>b. ASSUME frames'[k].kind = "loop", frames'[k].owner \in Loops, ~Live(k)' PROVE FALSE
  <2>1. frames'[k].path \in Occurrence /\ frames'[k].index \in Nat
    BY NewFrames
  <2>2. Within(Place(frames'[k]), frames'[k].path, <<frames'[k].owner, frames'[k].index>>)
    <3>1. PICK f : f = frames'[k]
      OBVIOUS
    <3>2. f.path \in Occurrence /\ f.kind = "loop" /\ f.owner \in Loops /\ f.index \in Nat
      BY <3>1, <2>1, <1>b
    <3>3. Within(Place(f), f.path, <<f.owner, f.index>>)
      BY <3>2, PlaceFacts
    <3> QED BY <3>1, <3>3
  <2>3. rows'[i].path \in Visits'
    BY DEF Visits
  <2> QED BY <2>1, <2>2, <2>3, <1>b DEF Past
<1>1. CASE \E d, cause : \E ending \in Endings : EndsAt(d, ending, cause)
  <2>1. PICK d, cause : \E ending \in Endings : EndsAt(d, ending, cause)
    BY <1>1
  <2>2. PICK ending \in Endings : EndsAt(d, ending, cause)
    BY <2>1
  <2>3. k \in 1 .. Depth /\ rows' = rows /\ Place(frames'[k]) = Place(frames[k]) /\ ~Committing(k)
    BY <2>2, EndFacts
  <2> QED BY <2>3, <1>a
<1>2. CASE \E g \in Block : Enters(g)
  <2>1. PICK g \in Block : Enters(g)
    BY <1>2
  <2>2. /\ rows' = rows /\ pc = "step" /\ Depth \in 1 .. Depth
        /\ k \in 1 .. Depth \/ k = Depth + 1
        /\ \A m \in 1 .. Depth : frames'[m] = frames[m]
        /\ frames'[Depth + 1] = g /\ Opens(frames[Depth], g)
        /\ k = Depth + 1 => (Live(k)' <=> g.kind # "loop")
    BY <2>1, EnterFacts
  <2>3. \A m \in 1 .. Depth : ~Committing(m)
    BY <2>2 DEF Committing
  <2>4. CASE k \in 1 .. Depth
    BY <2>2, <2>3, <2>4, <1>a
  <2>5. CASE k = Depth + 1 /\ g.kind = "branch"
    <3>1. Place(g) = Place(frames[Depth])
      BY <2>2, <2>5 DEF Place, IsLoop, Opens
    <3> QED BY <2>2, <2>3, <2>5, <3>1, <1>a
  <2>6. CASE k = Depth + 1 /\ g.kind = "loop"
    BY <2>2, <2>6, <1>b DEF Opens
  <2> QED BY <2>2, <2>4, <2>5, <2>6 DEF Opens
<1>3. CASE Continues
  <2>1. /\ Depth' = Depth /\ k \in 1 .. Depth /\ rows' = rows
        /\ k # Depth => frames'[k] = frames[k]
        /\ frames[Depth].kind = "loop" /\ ~(k # Depth /\ Committing(k))
        /\ Live(k)' <=> k # Depth
        /\ frames'[k].kind = frames[k].kind /\ frames'[k].owner = frames[k].owner
    BY <1>3, ContinueFacts DEF Committing
  <2>2. CASE k # Depth
    BY <2>1, <2>2, <1>a
  <2>3. CASE k = Depth
    BY <2>1, <2>3, <1>b, Places
  <2> QED BY <2>2, <2>3
<1>4. CASE Iterates
  <2>1. /\ k \in 1 .. Depth /\ rows' = rows /\ Place(frames'[k]) = Place(frames[k])
        /\ pc = "next"
    BY <1>4, IterateFacts
  <2>2. ~Committing(k)
    BY <2>1 DEF Committing
  <2> QED BY <2>1, <2>2, <1>a
<1>5. CASE Idles /\ Stays
  <2>1. /\ Depth' = Depth /\ Depth \in 1 .. Depth /\ k \in 1 .. Depth
        /\ Place(frames'[k]) = Place(frames[k]) /\ frames'[k].kind = frames[k].kind
    BY <1>5, IdleFacts
  <2>2. CASE LeavesStaged
    <3>1. rows' = rows /\ frames'[k].staged = frames[k].staged
      BY <2>1, <2>2 DEF LeavesStaged
    <3>2. /\ Committing(k) /\ frames[k].kind # "branch"
          /\ pc = "commit" => \A h \in DOMAIN frames[k].staged :
                                      frames[k].staged[h].page # rows[i].page
      BY <2>1, <3>1, <1>a
    <3> QED BY <2>1, <2>2, <3>1, <3>2 DEF LeavesStaged, Committing
  <2>3. CASE StagesEmptyRow
    <3>1. rows' = rows /\ ~Committing(k)
      BY <2>3 DEF StagesEmptyRow, Committing
    <3> QED BY <2>1, <3>1, <1>a
  <2>4. CASE CommitsRow
    <3> DEFINE st == frames[Depth].staged
    <3>1. /\ pc = "commit" /\ pc' \in {"commit", "return"} /\ st # <<>> /\ st \in Rows
          /\ frames'[Depth].staged = Tail(st)
      BY <2>4 DEF CommitsRow
    <3>2. frames[Depth].kind # "branch" /\ Live(Depth) /\ ~Failing
      BY <3>1 DEF Control, Top, Live, Failing
    <3>3. StagesWell(st, executions, Place(frames[Depth]), Gone(Depth))
      BY <2>1, <3>2 DEF StagedWell
    <3>4. /\ \A h \in DOMAIN Tail(st) : Tail(st)[h].page # Head(st).page
          /\ \A h \in DOMAIN Tail(st) : \E x \in DOMAIN st : Tail(st)[h] = st[x]
      <4> DEFINE more == Gone(Depth) \cup {Head(st).page}
      <4>1. Gone(Depth) \subseteq more /\ (Head(st).page \in Pages => Head(st).page \in more)
        OBVIOUS
      <4> HIDE DEF st, more
      <4> QED BY <3>1, <3>3, <4>1, StagesRest
    <3>5. CASE i \in DOMAIN rows /\ rows'[i] = rows[i]
      <4>1. /\ Committing(k) /\ frames[k].kind # "branch"
            /\ \A h \in DOMAIN frames[k].staged : frames[k].staged[h].page # rows[i].page
        BY <2>1, <3>1, <3>5, <1>a
      <4>2. k = Depth
        BY <4>1 DEF Committing
      <4>3. \A h \in DOMAIN Tail(st) : Tail(st)[h].page # rows'[i].page
        BY <3>4, <3>5, <4>1, <4>2
      <4> QED BY <2>1, <3>1, <4>1, <4>2, <4>3
    <3>6. CASE rows'[i].path = Place(frames[Depth]) /\ rows'[i].page = Head(st).page
      <4>1. ASSUME k # Depth PROVE FALSE
        <5>1. Place(frames[k]) = Place(frames[Depth])
          BY <2>1, <3>6
        <5>2. k < Depth /\ Depth > 1 /\ Depth \in Nat
          BY <2>1, <4>1
        <5>3. frames[Depth].kind = "loop"
          BY <2>1, <3>2, <5>2, Places
        <5>4. Len(Place(frames[k])) <= Len(frames[Depth].path)
          BY <2>1, <5>2 DEF Stack, Nested
        <5>5. Len(Place(frames[Depth])) = Len(frames[Depth].path) + 1 /\ Len(frames[Depth].path) \in Nat
          BY <2>1, <5>3, Places, Frames
        <5> QED BY <5>1, <5>4, <5>5
      <4>2. k = Depth
        BY <4>1
      <4> QED BY <2>1, <3>1, <3>2, <3>4, <3>6, <4>2
    <3> QED BY <2>4, <3>5, <3>6, NewRow
  <2> QED BY <1>5, <2>2, <2>3, <2>4, IdlesRows
<1> QED BY <1>1, <1>2, <1>3, <1>4, <1>5, MovesMean

(* One row is whole: what RowsAreWhole says of it, in a log. *)
Whole(r, log) ==
    /\ r.outputs = OutputsIn(log, r.page, r.path)
    /\ \A k \in DOMAIN log : log[k].path = r.path => log[k].outcome = "succeeded"
    /\ \A s \in Range(BlockAt(r.path)) :
            \E k \in DOMAIN log : log[k].path = r.path /\ log[k].step = s

(* Every row is, and no two are of one Page and one iteration. *)
LEMMA WholeRows ==
  /\ RowsAreWhole <=> \A i \in DOMAIN rows :
        /\ Whole(rows[i], executions)
        /\ \A j \in DOMAIN rows : j # i =>
                <<rows[j].page, rows[j].path>> # <<rows[i].page, rows[i].path>>
<1>1. \A S, p : S \subseteq StepsAt(p) <=>
        \A s \in S : \E k \in DOMAIN executions : executions[k].path = p /\ executions[k].step = s
  BY DEF StepsAt
<1>2. ASSUME NEW i \in DOMAIN rows
      PROVE  Whole(rows[i], executions) <=>
                /\ rows[i].outputs = OutputsAt(rows[i].page, rows[i].path)
                /\ \A k \in DOMAIN executions :
                        executions[k].path = rows[i].path => executions[k].outcome = "succeeded"
                /\ Range(BlockAt(rows[i].path)) \subseteq StepsAt(rows[i].path)
  <2>1. Range(BlockAt(rows[i].path)) \subseteq StepsAt(rows[i].path) <=>
            \A s \in Range(BlockAt(rows[i].path)) : \E k \in DOMAIN executions :
                    executions[k].path = rows[i].path /\ executions[k].step = s
    BY <1>1
  <2> QED BY <2>1 DEF Whole, OutputsAt
<1> QED BY <1>2 DEF RowsAreWhole

(* A row stays whole when a step ends in another place. *)
LEMMA StaysWhole ==
  ASSUME NEW r, NEW log \in Seq(Execution), NEW e \in Execution, e.path # r.path, Whole(r, log)
  PROVE  Whole(r, Append(log, e))
<1> DEFINE new == Append(log, e)
           n == Len(log)
<1>1. /\ n \in Nat /\ DOMAIN log = 1 .. n /\ DOMAIN new = 1 .. n + 1
      /\ \A k \in 1 .. n : new[k] = log[k] /\ k \in 1 .. n + 1
      /\ new[n + 1] = e /\ \A k \in 1 .. n + 1 : k \in 1 .. n \/ k = n + 1
  OBVIOUS
<1>2. OutputsIn(new, r.page, r.path) = OutputsIn(log, r.page, r.path)
  <2>1. ~Counts(e, r.page, r.path)
    BY DEF Counts
  <2> QED BY <2>1, OutputsGrow
<1> HIDE DEF new, n
<1>3. \A k \in DOMAIN new : new[k].path = r.path => new[k].outcome = "succeeded"
  BY <1>1 DEF Whole
<1>4. \A s \in Range(BlockAt(r.path)) :
            \E k \in DOMAIN new : new[k].path = r.path /\ new[k].step = s
  BY <1>1 DEF Whole
<1>5. Whole(r, new)
  BY <1>2, <1>3, <1>4 DEF Whole
<1> QED BY <1>5 DEF new

(* The place of a block names the block: its steps are those of the loop    *)
(* whose iteration it is, or the workflow's.                                *)
LEMMA BlockOfPlace ==
  ASSUME TypeOK, Stack, NEW k \in 1 .. Depth, frames[k].kind # "branch"
  PROVE  BlockAt(Place(frames[k])) = frames[k].steps
<1>0. Depth \in Nat /\ k \in Nat
  BY Frames
<1>1. CASE k = 1
  <2>1. Place(frames[1]) = <<>> /\ frames[1].steps = Root
    BY DEF Stack, Chain, Place, IsLoop
  <2> QED BY <1>1, <2>1 DEF BlockAt
<1>2. CASE k # 1
  <2>1. k > 1 /\ k \in 2 .. Depth
    BY <1>0, <1>2
  <2>2. frames[k].kind = "loop"
    BY <2>1, Places
  <2>3. Opens(frames[k - 1], frames[k])
    BY <2>1 DEF Stack, Chain
  <2>4. frames[k].steps = Body[frames[k].owner]
    BY <2>2, <2>3 DEF Opens
  <2> DEFINE q == Place(frames[k])
             n == Len(frames[k].path) + 1
  <2>5. /\ Len(q) = n /\ Within(q, frames[k].path, <<frames[k].owner, frames[k].index>>)
        /\ Len(frames[k].path) \in Nat /\ q \in Occurrence
    BY <2>2, Places, Frames
  <2> HIDE DEF q
  <2>6. q[Len(q)] = <<frames[k].owner, frames[k].index>> /\ q # <<>>
    BY <2>5 DEF Within
  <2> HIDE DEF n
  <2>7. q[Len(q)][1] = frames[k].owner
    BY <2>6
  <2>8. BlockAt(q) = Body[frames[k].owner]
    BY <2>6, <2>7 DEF BlockAt
  <2> QED BY <2>4, <2>8 DEF q
<1> QED BY <1>1, <1>2

(* What is committed is a whole iteration, and stays one.                   *)
LEMMA RowsStep ==
  ASSUME TypeOK, TypeOK', Stack, Control, Moves, Entries, StagedWell, Final, RowsAreWhole
  PROVE  RowsAreWhole'
<1>0. /\ executions \in Seq(Execution) /\ Depth \in 1 .. Depth /\ Top = frames[Depth]
  BY TopFacts DEF TypeOK
<1>1. \A i \in DOMAIN rows :
        /\ Whole(rows[i], executions)
        /\ \A j \in DOMAIN rows : j # i =>
                <<rows[j].page, rows[j].path>> # <<rows[i].page, rows[i].path>>
  BY WholeRows
<1>2. SUFFICES \A i \in DOMAIN rows' :
        /\ Whole(rows'[i], executions')
        /\ \A j \in DOMAIN rows' : j # i =>
                <<rows'[j].page, rows'[j].path>> # <<rows'[i].page, rows'[i].path>>
  BY DEF RowsAreWhole, Whole, OutputsAt, StepsAt
<1>3. CASE \E d, cause : \E ending \in Endings : EndsAt(d, ending, cause)
  <2>1. PICK d, cause : \E ending \in Endings : EndsAt(d, ending, cause)
    BY <1>3
  <2>2. PICK ending \in Endings : EndsAt(d, ending, cause)
    BY <2>1
  <2> DEFINE e == [step |-> frames[d].steps[frames[d].at], path |-> Place(frames[d]),
                   outcome |-> Outcome(ending)]
  <2>3. /\ CompletesAt(d, ending, cause) /\ rows' = rows /\ d \in 1 .. Depth /\ d \in 1 .. d
        /\ ~Committing(d)
    <3>1. CompletesAt(d, ending, cause)
      BY <2>2, EndFacts
    <3>2. d \in 1 .. d
      BY <3>1, Completing
    <3> QED BY <2>2, <3>2, EndFacts
  <2>4. /\ e \in Execution /\ executions' = Append(executions, e) /\ e.path = Place(frames[d])
    BY <2>3, NewEntry
  <2> HIDE DEF e
  <2>5. \A i \in DOMAIN rows : rows[i].path # e.path
    BY <2>3, <2>4 DEF Final
  <2> QED BY <1>0, <1>1, <2>3, <2>4, <2>5, StaysWhole
<1>4. CASE (\E g \in Block : Enters(g)) \/ Continues \/ Iterates
  <2>1. rows' = rows /\ executions' = executions
    BY <1>4, EnterFacts, ContinueFacts, IterateFacts
  <2> QED BY <1>1, <2>1
<1>5. CASE Idles /\ Stays
  <2>1. executions' = executions
    BY <1>5, IdleFacts
  <2>2. CASE LeavesStaged \/ StagesEmptyRow
    <3>1. rows' = rows
      BY <2>2 DEF LeavesStaged, StagesEmptyRow
    <3> QED BY <1>1, <2>1, <3>1
  <2>3. CASE CommitsRow
    <3> DEFINE st == frames[Depth].staged
               q == Place(frames[Depth])
    <3>1. pc = "commit" /\ st # <<>> /\ st \in Rows
      BY <2>3 DEF CommitsRow
    <3>2. /\ frames[Depth].kind # "branch" /\ Live(Depth) /\ ~Failing
          /\ ~(frames[Depth].at <= Len(frames[Depth].steps))
      BY <1>0, <3>1, TopFacts DEF Control, Live, Failing
    <3>3. StagesWell(st, executions, q, Gone(Depth))
      BY <1>0, <3>2 DEF StagedWell
    <3>4. Head(st).outputs = OutputsIn(executions, Head(st).page, q) /\ 1 \in DOMAIN st /\ Head(st) = st[1]
      <4> DEFINE more == Gone(Depth) \cup {Head(st).page}
      <4>1. Gone(Depth) \subseteq more /\ (Head(st).page \in Pages => Head(st).page \in more)
        OBVIOUS
      <4> HIDE DEF st, more, q
      <4>2. 1 \in DOMAIN st /\ Head(st) = st[1]
        BY <3>1, <3>3, <4>1, StagesRest
      <4>3. st[1].outputs = OutputsIn(executions, st[1].page, q)
        BY <3>3, <4>2 DEF StagesWell
      <4> QED BY <4>2, <4>3
    <3>5. \A x \in DOMAIN executions : executions[x].path = q => executions[x].outcome = "succeeded"
      BY <1>0, <3>2 DEF Entries, Well
    <3>6. ASSUME NEW s \in Range(BlockAt(q))
          PROVE  \E x \in DOMAIN executions : executions[x].path = q /\ executions[x].step = s
      <4>1. BlockAt(q) = frames[Depth].steps
        BY <1>0, <3>2, BlockOfPlace
      <4>2. PICK j \in DOMAIN frames[Depth].steps : s = frames[Depth].steps[j]
        BY <3>6, <4>1 DEF Range
      <4>3. /\ frames[Depth].steps \in Seq(Steps) /\ frames[Depth].at \in Nat
            /\ Len(frames[Depth].steps) \in Nat
        BY <1>0, Frames
      <4>4. j \in 1 .. frames[Depth].at - 1
        <5> DEFINE a == frames[Depth].at
                   n == Len(frames[Depth].steps)
        <5>1. j \in 1 .. n /\ a \in Nat /\ n \in Nat /\ ~(a <= n)
          BY <4>2, <4>3, <3>2
        <5> HIDE DEF a, n
        <5>2. j \in 1 .. a - 1
          BY <5>1
        <5> QED BY <5>2 DEF a
      <4>5. Logged(frames[Depth].steps[j], q)
        BY <1>0, <3>2, <4>4 DEF Entries, Passed
      <4> QED BY <4>2, <4>5 DEF Logged
    <3>7. \A j \in DOMAIN rows : <<rows[j].page, rows[j].path>> # <<Head(st).page, q>>
      <4>1. ASSUME NEW j \in DOMAIN rows, rows[j].path = q PROVE rows[j].page # Head(st).page
        BY <1>0, <3>1, <3>4, <4>1 DEF Final
      <4> QED BY <4>1
    <3>8. ASSUME NEW i \in DOMAIN rows', i \notin DOMAIN rows
          PROVE  /\ rows'[i].page = Head(st).page /\ rows'[i].path = q
                 /\ rows'[i].outputs = Head(st).outputs
      BY <2>3, <3>8, NewRow
    <3>9. \A i \in DOMAIN rows' : i \in DOMAIN rows => rows'[i] = rows[i]
      BY <2>3, NewRow
    <3>10. ASSUME NEW i \in DOMAIN rows', NEW j \in DOMAIN rows', i \notin DOMAIN rows, j \notin DOMAIN rows
           PROVE  i = j
      <4> DEFINE r == [page |-> Head(st).page, path |-> q, outputs |-> Head(st).outputs]
      <4>1. rows' = Append(rows, r)
        BY <2>3 DEF CommitsRow
      <4> HIDE DEF r
      <4>2. rows \in Seq([page : Pages \cup {None}, path : Occurrence, outputs : Seq(Steps)])
        BY DEF TypeOK
      <4> QED BY <4>1, <4>2, <3>10
    <3> HIDE DEF st, q
    <3>11. ASSUME NEW i \in DOMAIN rows' PROVE Whole(rows'[i], executions')
      <4>1. CASE i \in DOMAIN rows
        BY <1>1, <2>1, <3>9, <4>1
      <4>2. CASE i \notin DOMAIN rows
        BY <2>1, <3>4, <3>5, <3>6, <3>8, <4>2 DEF Whole
      <4> QED BY <4>1, <4>2
    <3>12. ASSUME NEW i \in DOMAIN rows', NEW j \in DOMAIN rows', j # i
           PROVE  <<rows'[j].page, rows'[j].path>> # <<rows'[i].page, rows'[i].path>>
      <4>1. CASE i \in DOMAIN rows /\ j \in DOMAIN rows
        BY <1>1, <3>9, <3>12, <4>1
      <4>2. CASE i \notin DOMAIN rows /\ j \in DOMAIN rows
        BY <3>7, <3>8, <3>9, <4>2
      <4>3. CASE i \in DOMAIN rows /\ j \notin DOMAIN rows
        BY <3>7, <3>8, <3>9, <4>3
      <4>4. CASE i \notin DOMAIN rows /\ j \notin DOMAIN rows
        BY <3>10, <3>12, <4>4
      <4> QED BY <4>1, <4>2, <4>3, <4>4
    <3> QED BY <3>11, <3>12
  <2> QED BY <1>5, <2>2, <2>3, IdlesRows
<1> QED BY <1>3, <1>4, <1>5, MovesMean

(* Nothing is logged or staged before the workflow begins. *)
LEMMA InitRows == Init => RowInv
<1> SUFFICES ASSUME Init PROVE RowInv
  OBVIOUS
<1>1. /\ executions = <<>> /\ rows = <<>> /\ pc = "step"
      /\ Depth = 1 /\ frames[1] = Frame("root", None, Root, <<>>, None, {})
  BY DEF Init, Depth
<1>2. frames[1].kind = "root" /\ frames[1].staged = <<>> /\ frames[1].at = 1
  BY <1>1 DEF Frame
<1>3. /\ DOMAIN executions = {} /\ DOMAIN rows = {} /\ 1 .. Depth = {1} /\ ~Failing
      /\ executions \in Seq(Execution)
  BY <1>1 DEF Failing
<1>4. Visits = {} /\ \A s, p : ~Logged(s, p)
  BY <1>3 DEF Visits, Logged
<1>5. Entries
  <2>1. Unlogged /\ Iterated /\ Past
    BY <1>4 DEF Unlogged, Iterated, Past
  <2>2. Branched /\ Well
    BY <1>3 DEF Branched, Well
  <2>3. Passed
    BY <1>2, <1>3 DEF Passed
  <2> QED BY <2>1, <2>2, <2>3 DEF Entries
<1>6. StagedWell
  <2>1. StagesWell(<<>>, executions, Place(frames[1]), Gone(1))
    BY <1>3, StagesNothing
  <2> QED BY <1>1, <1>2, <1>3, <2>1 DEF StagedWell
<1>7. Final /\ RowsAreWhole
  BY <1>3 DEF Final, RowsAreWhole
<1> QED BY <1>5, <1>6, <1>7 DEF RowInv

(* Every step keeps the log and the rows right. *)
LEMMA RowStep == DataInv /\ RowInv /\ [Next]_vars => RowInv'
<1> SUFFICES ASSUME DataInv, RowInv, [Next]_vars PROVE RowInv'
  OBVIOUS
<1>1. DataInv' /\ Moves
  BY DataStep
<1>2. /\ TypeOK /\ Stack /\ Control /\ TypeOK' /\ Stack'
      /\ Entries /\ StagedWell /\ Final /\ RowsAreWhole
  BY <1>1 DEF DataInv, RowInv
<1>3. Entries'
  BY <1>1, <1>2, EntriesStep
<1>4. Past /\ Past'
  BY <1>2, <1>3 DEF Entries
<1>5. StagedWell'
  BY <1>1, <1>2, <1>4, StagedStep
<1>6. Final'
  BY <1>1, <1>2, <1>4, FinalStep
<1>7. RowsAreWhole'
  BY <1>1, <1>2, RowsStep
<1> QED BY <1>3, <1>5, <1>6, <1>7 DEF RowInv

(* The log and the rows are right in every state. *)
LEMMA RowsAreKept == Spec => [](DataInv /\ RowInv)
BY InitData, InitRows, DataStep, RowStep, PTL DEF Spec

(* A committed row holds just the Outputs of its Page that one iteration    *)
(* executed, all the steps of that iteration ended well, and no iteration   *)
(* commits two rows to a Page (stage_output, commit_staged_outputs).        *)
THEOREM RowsAreWholeHolds == Spec => []RowsAreWhole
<1>1. RowInv => RowsAreWhole
  BY DEF RowInv
<1> QED BY <1>1, RowsAreKept, PTL

(* What a run that is over says. *)
LEMMA VerdictIsHonest ==
  ASSUME DataInv, RowInv
  PROVE  HonestVerdict
<1> SUFFICES ASSUME pc = "done"
             PROVE  /\ (flow = "err") = (failure # None)
                    /\ flow = "stopped" => stop /\ ~RootDone
                    /\ flow = "continue" =>
                        /\ RootDone
                        /\ \A p \in Pages : OutputsAt(p, <<>>) # <<>> =>
                            \E i \in DOMAIN rows : rows[i].page = p /\ rows[i].path = <<>>
                    /\ failure = "signal" => signal
                    /\ failure \in Steps =>
                        LET k == CHOOSE j \in DOMAIN executions :
                                    /\ executions[j].outcome = "failed"
                                    /\ \A h \in 1 .. j - 1 : executions[h].outcome # "failed"
                        IN executions[k].step = failure
  BY DEF HonestVerdict
<1>1. TypeOK /\ Stack /\ Control /\ Verdict /\ StagedWell
  BY DEF DataInv, RowInv
<1>2. /\ Depth = 1 /\ 1 \in 1 .. Depth /\ Top = frames[1] /\ frames[1].kind = "root"
      /\ frames[1].steps = Root /\ Place(frames[1]) = <<>>
      /\ frames[1].at \in Nat /\ Root \in Seq(Steps) /\ Len(Root) \in Nat
  <2>1. Depth \in 1 .. Depth /\ Depth \in Nat /\ Top = frames[Depth]
    BY <1>1, TopFacts, Frames
  <2>2. Depth = 1
    <3>1. Top.kind = "root"
      BY <1>1 DEF Control
    <3>2. ~(Depth > 1)
      BY <1>1, <2>1, <3>1, Places
    <3> QED BY <2>1, <3>2
  <2>3. frames[1].kind = "root" /\ frames[1].steps = Root /\ frames[1].path = <<>>
    BY <1>1 DEF Stack, Chain
  <2>4. Place(frames[1]) = <<>>
    BY <2>3 DEF Place, IsLoop
  <2>5. frames[1].at \in Nat
    BY <1>1, <2>1, <2>2, Frames
  <2> QED BY <2>1, <2>2, <2>3, <2>4, <2>5, Tree
<1>3. RootDone <=> \A j \in 1 .. Len(Root) : Succeeded(Root[j])
  <2>1. Range(Root) = {Root[j] : j \in 1 .. Len(Root)}
    BY <1>2 DEF Range
  <2> QED BY <2>1 DEF RootDone, Succeeded
<1>4. RootDone <=> \A j \in 1 .. Len(Root) : j < frames[1].at
  BY <1>1, <1>3 DEF Verdict
<1>5. (flow = "err") = (failure # None)
  BY <1>1 DEF Verdict
<1>6. ASSUME flow = "stopped" PROVE stop /\ ~RootDone
  <2>1. stop /\ frames[1].at <= Len(Root)
    BY <1>1, <1>2, <1>6 DEF Control, AtEnd
  <2>2. frames[1].at > 0
    BY <1>1, <1>2, Frames
  <2> QED BY <1>2, <1>4, <2>1, <2>2
<1>7. ASSUME flow = "continue"
      PROVE  /\ RootDone
             /\ \A p \in Pages : OutputsAt(p, <<>>) # <<>> =>
                    \E i \in DOMAIN rows : rows[i].page = p /\ rows[i].path = <<>>
  <2>1. frames[1].at > Len(Root)
    BY <1>1, <1>2, <1>7 DEF Control, AtEnd
  <2>2. RootDone
    BY <1>2, <1>4, <2>1
  <2>3. ~Failing /\ Live(1)
    BY <1>7 DEF Failing, Live
  <2>4. StagesWell(frames[1].staged, executions, <<>>, Gone(1)) /\ frames[1].staged = <<>>
    BY <1>1, <1>2, <1>7, <2>3 DEF StagedWell
  <2>5. \A p \in Pages : OutputsAt(p, <<>>) # <<>> => p \in Gone(1)
    BY <2>4 DEF StagesWell, OutputsAt
  <2>6. \A p \in Gone(1) : \E i \in DOMAIN rows : rows[i].page = p /\ rows[i].path = <<>>
    BY <1>2 DEF Gone
  <2> QED BY <2>2, <2>5, <2>6
<1>8. failure = "signal" => signal
  BY <1>1 DEF Verdict
<1>9. ASSUME failure \in Steps
      PROVE  LET k == CHOOSE j \in DOMAIN executions :
                        /\ executions[j].outcome = "failed"
                        /\ \A h \in 1 .. j - 1 : executions[h].outcome # "failed"
             IN executions[k].step = failure
  <2> DEFINE First(j) == /\ executions[j].outcome = "failed"
                         /\ \A h \in 1 .. j - 1 : executions[h].outcome # "failed"
             k == CHOOSE j \in DOMAIN executions : First(j)
  <2>1. DOMAIN executions = 1 .. Len(executions) /\ Len(executions) \in Nat
    BY <1>1 DEF TypeOK
  <2>2. PICK x \in DOMAIN executions : First(x) /\ executions[x].step = failure
    BY <1>1, <1>9 DEF Verdict, FirstFailed
  <2>3. k \in DOMAIN executions /\ First(k)
    BY <2>2
  <2>4. k = x
    <3>1. ~(x \in 1 .. k - 1) /\ ~(k \in 1 .. x - 1)
      BY <2>2, <2>3
    <3>2. x \in Nat /\ k \in Nat /\ x > 0 /\ k > 0
      BY <2>1, <2>2, <2>3
    <3> HIDE DEF k
    <3> QED BY <3>1, <3>2
  <2> QED BY <2>2, <2>4
<1> QED BY <1>5, <1>6, <1>7, <1>8, <1>9

(* However deep an error, a stop or a loop stop unwinds, the run ends as it *)
(* went: no failure is lost, a success has executed the whole workflow and  *)
(* committed its root rows, a stop fell short of that, and the failure that *)
(* is reported is the first (Execution::run, run_steps, record_failure).    *)
THEOREM HonestVerdictHolds == Spec => []HonestVerdict
<1>1. DataInv /\ RowInv => HonestVerdict
  BY VerdictIsHonest
<1> QED BY <1>1, RowsAreKept, PTL
=============================================================================
