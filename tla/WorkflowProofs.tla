--------------------------- MODULE WorkflowProofs ---------------------------
(***************************************************************************)
(* The validator of documents, which reads a document once and keeps a     *)
(* frame for every open block, accepts exactly the documents that are well *)
(* formed by lexical scope; for documents of any length and depth, with    *)
(* any ids, variables, pages and ranges.                                   *)
(*                                                                         *)
(* The invariant says what the frames are: the blocks around the position  *)
(* that is read next, from the outside in (Nested), each with what is      *)
(* visible at the position it has come to (Fitting), a position in the     *)
(* innermost block and the next inner block in the others; and what is     *)
(* remembered of all that was read (Remembered).  From it follows that a   *)
(* step is accepted exactly when it is well formed where it stands         *)
(* (StepIsJudged), and that a step, a second branch or an end keeps it     *)
(* (ReadIsExact, ElseIsExact, EndIsExact).                                 *)
(*                                                                         *)
(* Then of the template: a file that is written and read again is what it  *)
(* was (FileIsRead), what a binding can be worth (Dispatched), and that a  *)
(* setup sets nothing twice (PowersSetOnce, ScopesSetOnce).                *)
(***************************************************************************)
EXTENDS Template, Expressions, TLAPS, SequenceTheorems, FiniteSetTheorems, WellFoundedInduction

(* What has happened whenever position i of doc is reached.                *)
Before(doc, i) == {j \in 1 .. i - 1 : IsStep(doc, j) /\ Precedes(doc, j, i)}

Ids(doc, places) == {doc[j].id : j \in places}
OfKind(doc, kind, places) == {j \in places : doc[j].kind = kind}
Variables(doc, places) == {doc[j].variable : j \in places}

Prior(doc, i) == Ids(doc, Before(doc, i))
OutputIds(doc, i) == Ids(doc, OfKind(doc, "output", Before(doc, i)))
ForVariables(doc, i) == Variables(doc, OfKind(doc, "for", Enclosing(doc, i)))
InScope(doc, i) == Variables(doc, OfKind(doc, "set-variable", Before(doc, i))) \cup ForVariables(doc, i)

(* A path names the loops around a position, from the outside in: a loop   *)
(* stands behind as many as are around it.                                 *)
Rank(doc, j) == Cardinality(LoopsAround(doc, j)) + 1

IsPath(doc, path, loops) ==
    /\ \E S : path \in Seq(S)
    /\ Len(path) = Cardinality(loops)
    /\ \A j \in loops : Rank(doc, j) \in 1 .. Len(path) /\ path[Rank(doc, j)] = doc[j].id
    /\ \A r \in 1 .. Len(path) : \E j \in loops : Rank(doc, j) = r

(* What frame f allows is what is visible at position i.                   *)
FrameFields == {"opens", "second", "prior", "outputs", "variables", "before", "bindings", "path", "depth"}

Describes(f, doc, i) ==
    /\ DOMAIN f = FrameFields
    /\ f.prior = Prior(doc, i) /\ f.outputs = OutputIds(doc, i)
    /\ f.variables = InScope(doc, i) /\ f.bindings = ForVariables(doc, i)
    /\ f.depth = Cardinality(Enclosing(doc, i))
    /\ IsPath(doc, f.path, LoopsAround(doc, i))

(* Where a frame has come to: the block that is open in it, or the end.    *)
Reached(doc, frames, k) == IF k = Len(frames) THEN Len(doc) + 1 ELSE frames[k + 1].opens

(* The frames are the blocks that are open, one inside the other.          *)
Nested(doc, frames) ==
    /\ Len(frames) >= 1 /\ Level(doc, Len(doc) + 1) = Len(frames) - 1
    /\ \A p \in 1 .. Len(doc) + 1 : Level(doc, p) >= 0
    /\ \A k \in 2 .. Len(frames) :
          /\ frames[k].opens \in 1 .. Len(doc) /\ doc[frames[k].opens].kind \in Blocks
          /\ Level(doc, frames[k].opens) = k - 2
          /\ \A p \in frames[k].opens + 1 .. Len(doc) + 1 : Level(doc, p) >= k - 1
          /\ frames[k].second \in BOOLEAN
          /\ frames[k].second <=> InElse(doc, frames[k].opens, Len(doc) + 1)

Fitting(doc, frames) ==
    /\ \A k \in 1 .. Len(frames) : Describes(frames[k], doc, Reached(doc, frames, k))
    /\ \A k \in 2 .. Len(frames) :
          doc[frames[k].opens].kind = "if" =>
              frames[k].before = <<Prior(doc, frames[k].opens + 1), OutputIds(doc, frames[k].opens + 1),
                                   InScope(doc, frames[k].opens + 1)>>

(* What is remembered of all that was read.                                *)
Places(doc) == {j \in 1 .. Len(doc) : IsStep(doc, j)}

Outs(doc) == OfKind(doc, "output", Places(doc))

Paged(doc, pages, outs) ==
    /\ \A p \in 1 .. Len(pages) :
          \E j \in outs :
              /\ pages[p].name = doc[j].page.name /\ pages[p].folded = doc[j].page.folded
              /\ IsPath(doc, pages[p].row_scope, LoopsAround(doc, j))
    /\ \A j \in outs : \E p \in 1 .. Len(pages) : pages[p].name = doc[j].page.name

Remembered(doc, memory) ==
    /\ memory.seen = Ids(doc, Places(doc))
    /\ memory.names = {doc[j].name : j \in Outs(doc)}
    /\ Paged(doc, memory.pages, Outs(doc))

PagesAgree(doc) ==
    \A i, j \in Places(doc) : doc[i].page.name = doc[j].page.name => doc[i].page = doc[j].page

MemoryFields == {"ok", "seen", "names", "pages", "frames"}
PageFields == {"name", "folded", "row_scope", "headers"}

Understood(doc, memory) ==
    /\ \E S : doc \in Seq(S)
    /\ DOMAIN memory = MemoryFields
    /\ \E S : memory.frames \in Seq(S)
    /\ \E S : memory.pages \in Seq(S)
    /\ \A p \in 1 .. Len(memory.pages) : DOMAIN memory.pages[p] = PageFields
    /\ Nested(doc, memory.frames) /\ Fitting(doc, memory.frames) /\ Remembered(doc, memory)

(* The validator has accepted what is well formed and nothing else.        *)
Exact(doc, memory) ==
    /\ memory.ok \in BOOLEAN /\ (memory.ok <=> WellFormed(doc))
    /\ memory.ok => Understood(doc, memory)

ReadInv == Exact(steps, check)

-----------------------------------------------------------------------------
(* What is said of a position depends on what comes before it only.        *)
SameUpTo(doc, more, n) == \A j \in 1 .. n : doc[j] = more[j]

\* The level is a number.
LEMMA LevelIsInt ==
    ASSUME NEW doc, NEW i \in Int
    PROVE  Level(doc, i) \in Int
<1>. DEFINE opened == {j \in 1 .. i - 1 : doc[j].kind \in Blocks}
            closed == {j \in 1 .. i - 1 : doc[j].kind = "end"}
<1>1. 1 \in Int /\ i - 1 \in Int
    OBVIOUS
<1>2. IsFiniteSet(1 .. i - 1)
    BY <1>1, FS_Interval
<1>3. opened \subseteq 1 .. i - 1 /\ closed \subseteq 1 .. i - 1
    OBVIOUS
<1>4. IsFiniteSet(opened) /\ IsFiniteSet(closed)
    BY <1>2, <1>3, FS_Subset
<1>5. Cardinality(opened) \in Nat /\ Cardinality(closed) \in Nat
    BY <1>4, FS_CardinalityType
<1>6. Level(doc, i) = Cardinality(opened) - Cardinality(closed)
    BY DEF Level
<1>. HIDE DEF opened, closed
<1>. QED
    BY <1>5, <1>6

(* A block or an end changes the level of what follows.                    *)
LEMMA LevelNext ==
    ASSUME NEW doc, NEW i \in Nat \ {0}
    PROVE  Level(doc, i + 1) = IF doc[i].kind \in Blocks THEN Level(doc, i) + 1
                               ELSE IF doc[i].kind = "end" THEN Level(doc, i) - 1
                               ELSE Level(doc, i)
<1>. DEFINE opened == {j \in 1 .. i - 1 : doc[j].kind \in Blocks}
            closed == {j \in 1 .. i - 1 : doc[j].kind = "end"}
            opened1 == {j \in 1 .. i : doc[j].kind \in Blocks}
            closed1 == {j \in 1 .. i : doc[j].kind = "end"}
<1>1. 1 \in Int /\ i - 1 \in Int
    OBVIOUS
<1>2. IsFiniteSet(1 .. i - 1)
    BY <1>1, FS_Interval
<1>3. opened \subseteq 1 .. i - 1 /\ closed \subseteq 1 .. i - 1
    OBVIOUS
<1>4. IsFiniteSet(opened) /\ IsFiniteSet(closed)
    BY <1>2, <1>3, FS_Subset
<1>5. Cardinality(opened) \in Nat /\ Cardinality(closed) \in Nat
    BY <1>4, FS_CardinalityType
<1>6. i \notin opened /\ i \notin closed
    OBVIOUS
<1>7. /\ Cardinality(opened \cup {i}) = Cardinality(opened) + 1
      /\ Cardinality(closed \cup {i}) = Cardinality(closed) + 1
    BY <1>4, <1>6, FS_AddElement
<1>8. /\ opened1 = IF doc[i].kind \in Blocks THEN opened \cup {i} ELSE opened
      /\ closed1 = IF doc[i].kind = "end" THEN closed \cup {i} ELSE closed
    <2>1. \A j : j \in 1 .. i <=> j \in 1 .. i - 1 \/ j = i
        OBVIOUS
    <2>. QED
        BY <2>1
<1>9. /\ Level(doc, i) = Cardinality(opened) - Cardinality(closed)
      /\ Level(doc, i + 1) = Cardinality(opened1) - Cardinality(closed1)
    <2>1. (i + 1) - 1 = i
        OBVIOUS
    <2>. QED
        BY <2>1 DEF Level
<1>10. ~(doc[i].kind \in Blocks /\ doc[i].kind = "end")
    BY DEF Blocks, Loops
<1>. HIDE DEF opened, closed, opened1, closed1
<1>. QED
    BY <1>5, <1>7, <1>8, <1>9, <1>10

\* The level at a position is that of any longer document.
LEMMA SameLevel ==
    ASSUME NEW doc, NEW more, NEW n \in Nat, SameUpTo(doc, more, n), NEW i \in 1 .. n + 1
    PROVE  Level(more, i) = Level(doc, i)
<1>1. \A j \in 1 .. i - 1 : j \in 1 .. n
    OBVIOUS
<1>2. /\ {j \in 1 .. i - 1 : more[j].kind \in Blocks} = {j \in 1 .. i - 1 : doc[j].kind \in Blocks}
      /\ {j \in 1 .. i - 1 : more[j].kind = "end"} = {j \in 1 .. i - 1 : doc[j].kind = "end"}
    BY <1>1 DEF SameUpTo
<1>. QED
    BY <1>2 DEF Level

\* So are the blocks around it,
LEMMA SameEnclosing ==
    ASSUME NEW doc, NEW more, NEW n \in Nat, SameUpTo(doc, more, n), NEW i \in 1 .. n + 1
    PROVE  Enclosing(more, i) = Enclosing(doc, i)
<1>1. \A k \in 1 .. i : Level(more, k) = Level(doc, k)
    <2>1. \A k \in 1 .. i : k \in 1 .. n + 1
        OBVIOUS
    <2>. QED
        BY <2>1, SameLevel
<1>2. \A j \in 1 .. i - 1 : more[j] = doc[j] /\ j \in 1 .. i /\ (\A k \in j + 1 .. i : k \in 1 .. i)
    BY DEF SameUpTo
<1>. QED
    BY <1>1, <1>2 DEF Enclosing

\* and the loops among them,
LEMMA SameLoops ==
    ASSUME NEW doc, NEW more, NEW n \in Nat, SameUpTo(doc, more, n), NEW i \in 1 .. n + 1
    PROVE  LoopsAround(more, i) = LoopsAround(doc, i)
<1>1. \A j \in Enclosing(doc, i) : j \in 1 .. n
    BY DEF Enclosing
<1>. QED
    BY <1>1, SameEnclosing DEF LoopsAround, SameUpTo

\* and whether a second branch has begun,
LEMMA SameElse ==
    ASSUME NEW doc, NEW more, NEW n \in Nat, SameUpTo(doc, more, n), NEW i \in 1 .. n + 1,
           NEW block \in 1 .. i
    PROVE  InElse(more, block, i) <=> InElse(doc, block, i)
<1>1. \A k \in block + 1 .. i - 1 : k \in 1 .. n /\ k \in 1 .. n + 1
    OBVIOUS
<1>2. block \in 1 .. n + 1
    OBVIOUS
<1>3. /\ Level(more, block) = Level(doc, block)
      /\ \A k \in block + 1 .. i - 1 : Level(more, k) = Level(doc, k) /\ more[k] = doc[k]
    BY <1>1, <1>2, SameLevel DEF SameUpTo
<1>. QED
    BY <1>3 DEF InElse

\* and what precedes it,
LEMMA SamePrecedes ==
    ASSUME NEW doc, NEW more, NEW n \in Nat, SameUpTo(doc, more, n), NEW i \in 1 .. n + 1,
           NEW j \in 1 .. n + 1
    PROVE  Precedes(more, j, i) <=> Precedes(doc, j, i)
<1>1. Enclosing(more, i) = Enclosing(doc, i) /\ Enclosing(more, j) = Enclosing(doc, j)
    BY SameEnclosing
<1>2. ASSUME j < i, NEW b \in Enclosing(doc, j)
      PROVE  /\ more[b] = doc[b]
             /\ InElse(more, b, j) <=> InElse(doc, b, j)
             /\ InElse(more, b, i) <=> InElse(doc, b, i)
    <2>1. b \in 1 .. j /\ b \in 1 .. i /\ b \in 1 .. n
        BY <1>2 DEF Enclosing
    <2>. QED
        BY <2>1, SameElse DEF SameUpTo
<1>. QED
    BY <1>1, <1>2 DEF Precedes

\* and the steps that do.
LEMMA SameBefore ==
    ASSUME NEW doc, NEW more, NEW n \in Nat, SameUpTo(doc, more, n), NEW i \in 1 .. n + 1
    PROVE  Before(more, i) = Before(doc, i)
<1>1. \A j \in 1 .. i - 1 : j \in 1 .. n /\ j \in 1 .. n + 1
    OBVIOUS
<1>2. \A j \in 1 .. i - 1 : more[j] = doc[j]
    BY <1>1 DEF SameUpTo
<1>3. ASSUME NEW j \in 1 .. i - 1, IsStep(more, j), Precedes(more, j, i) PROVE j \in Before(doc, i)
    <2>1. IsStep(doc, j)
        BY <1>2, <1>3 DEF IsStep
    <2>2. Precedes(doc, j, i)
        BY <1>1, <1>3, SamePrecedes
    <2>. QED
        BY <2>1, <2>2 DEF Before
<1>4. ASSUME NEW j \in 1 .. i - 1, IsStep(doc, j), Precedes(doc, j, i) PROVE j \in Before(more, i)
    <2>1. IsStep(more, j)
        BY <1>2, <1>4 DEF IsStep
    <2>2. Precedes(more, j, i)
        BY <1>1, <1>4, SamePrecedes
    <2>. QED
        BY <2>1, <2>2 DEF Before
<1>5. Before(more, i) \subseteq Before(doc, i) /\ Before(doc, i) \subseteq Before(more, i)
    BY <1>3, <1>4 DEF Before
<1>. QED
    BY <1>5

-----------------------------------------------------------------------------
(* From one position to the next.                                          *)

\* A block is around what follows it.
LEMMA EnclosingNext ==
    ASSUME NEW doc, NEW i \in Nat \ {0}, doc[i].kind # "end"
    PROVE  Enclosing(doc, i + 1) = IF doc[i].kind \in Blocks THEN Enclosing(doc, i) \cup {i}
                                   ELSE Enclosing(doc, i)
<1>1. /\ Level(doc, i) \in Int /\ Level(doc, i + 1) \in Int
      /\ Level(doc, i + 1) = IF doc[i].kind \in Blocks THEN Level(doc, i) + 1 ELSE Level(doc, i)
    BY LevelIsInt, LevelNext
<1>2. ASSUME NEW j \in Enclosing(doc, i) PROVE j \in Enclosing(doc, i + 1)
    <2>1. /\ j \in 1 .. i - 1 /\ doc[j].kind \in Blocks
          /\ \A k \in j + 1 .. i : Level(doc, k) > Level(doc, j)
        BY DEF Enclosing
    <2>2. Level(doc, j) \in Int /\ i \in j + 1 .. i
        BY <2>1, LevelIsInt
    <2>3. Level(doc, i + 1) > Level(doc, j)
        BY <1>1, <2>1, <2>2
    <2>4. \A k \in j + 1 .. i + 1 : k \in j + 1 .. i \/ k = i + 1
        BY <2>1
    <2>5. j \in 1 .. (i + 1) - 1
        BY <2>1
    <2>. QED
        BY <2>1, <2>3, <2>4, <2>5 DEF Enclosing
<1>3. ASSUME NEW j \in Enclosing(doc, i + 1), j # i PROVE j \in Enclosing(doc, i)
    <2>1. j \in 1 .. i - 1 /\ \A k \in j + 1 .. i : k \in j + 1 .. i + 1
        BY <1>3 DEF Enclosing
    <2>. QED
        BY <2>1 DEF Enclosing
<1>4. i \in Enclosing(doc, i + 1) <=> doc[i].kind \in Blocks
    <2>1. i \in 1 .. (i + 1) - 1 /\ \A k \in i + 1 .. i + 1 : k = i + 1
        OBVIOUS
    <2>. QED
        BY <1>1, <2>1 DEF Enclosing
<1>. QED
    BY <1>2, <1>3, <1>4

\* What is around a position or precedes it stands before it.
LEMMA EnclosingIsBefore ==
    ASSUME NEW doc, NEW i \in Int
    PROVE  /\ Enclosing(doc, i) \subseteq 1 .. i - 1 /\ Before(doc, i) \subseteq 1 .. i - 1
           /\ \A j \in Enclosing(doc, i) : doc[j].kind \in Blocks /\ IsStep(doc, j)
           /\ \A j \in Before(doc, i) : IsStep(doc, j) /\ j \notin Enclosing(doc, i)
    BY DEF Enclosing, Before, IsStep, Blocks, Loops, Precedes

\* Only the mark of a second branch begins one.
LEMMA ElseNext ==
    ASSUME NEW doc, NEW i \in Nat \ {0}, doc[i].kind # "else", NEW block \in 1 .. i
    PROVE  InElse(doc, block, i + 1) <=> InElse(doc, block, i)
<1>1. \A k : k \in block + 1 .. (i + 1) - 1 <=> k \in block + 1 .. i - 1 \/ (k = i /\ block # i)
    OBVIOUS
<1>. QED
    BY <1>1 DEF InElse

\* A step does not change what else has happened.
LEMMA PrecedesNext ==
    ASSUME NEW doc, NEW i \in Nat \ {0}, IsStep(doc, i), NEW j \in 1 .. i - 1
    PROVE  Precedes(doc, j, i + 1) <=> Precedes(doc, j, i)
<1>1. doc[i].kind # "end" /\ doc[i].kind # "else"
    BY DEF IsStep
<1>2. /\ Enclosing(doc, i) \subseteq Enclosing(doc, i + 1)
      /\ Enclosing(doc, i + 1) \subseteq Enclosing(doc, i) \cup {i}
    BY <1>1, EnclosingNext
<1>3. Enclosing(doc, j) \subseteq 1 .. j - 1 /\ i \notin Enclosing(doc, j)
    BY DEF Enclosing
<1>4. \A b \in Enclosing(doc, j) : InElse(doc, b, i + 1) <=> InElse(doc, b, i)
    <2>1. \A b \in Enclosing(doc, j) : b \in 1 .. i
        BY <1>3
    <2>. QED
        BY <1>1, <2>1, ElseNext
<1>5. Enclosing(doc, j) \subseteq Enclosing(doc, i + 1) <=> Enclosing(doc, j) \subseteq Enclosing(doc, i)
    BY <1>2, <1>3
<1>6. j \in Enclosing(doc, i + 1) <=> j \in Enclosing(doc, i)
    BY <1>2
<1>. QED
    BY <1>4, <1>5, <1>6 DEF Precedes

\* A step has happened when the next one is reached, unless it opens a block.
LEMMA BeforeNext ==
    ASSUME NEW doc, NEW i \in Nat \ {0}, IsStep(doc, i)
    PROVE  Before(doc, i + 1) = IF doc[i].kind \in Blocks THEN Before(doc, i) ELSE Before(doc, i) \cup {i}
<1>1. doc[i].kind # "end" /\ doc[i].kind # "else"
    BY DEF IsStep
<1>2. ASSUME NEW j \in Before(doc, i) PROVE j \in Before(doc, i + 1)
    <2>1. j \in 1 .. i - 1 /\ IsStep(doc, j) /\ Precedes(doc, j, i)
        BY DEF Before
    <2>2. Precedes(doc, j, i + 1) /\ j \in 1 .. (i + 1) - 1
        BY <2>1, PrecedesNext
    <2>. QED
        BY <2>1, <2>2 DEF Before
<1>3. ASSUME NEW j \in Before(doc, i + 1), j # i PROVE j \in Before(doc, i)
    <2>1. j \in 1 .. i - 1 /\ IsStep(doc, j) /\ Precedes(doc, j, i + 1)
        BY <1>3 DEF Before
    <2>2. Precedes(doc, j, i)
        BY <2>1, PrecedesNext
    <2>. QED
        BY <2>1, <2>2 DEF Before
<1>4. CASE doc[i].kind \in Blocks
    <2>1. i \in Enclosing(doc, i + 1)
        BY <1>1, <1>4, EnclosingNext
    <2>2. i \notin Before(doc, i + 1)
        BY <2>1 DEF Before, Precedes
    <2>. QED
        BY <1>2, <1>3, <1>4, <2>2
<1>5. CASE doc[i].kind \notin Blocks
    <2>1. Enclosing(doc, i + 1) = Enclosing(doc, i) /\ Enclosing(doc, i) \subseteq 1 .. i - 1
        <3>1. Enclosing(doc, i) \subseteq 1 .. i - 1
            BY DEF Enclosing
        <3>. QED
            BY <1>1, <1>5, <3>1, EnclosingNext
    <2>2. \A b \in Enclosing(doc, i) : InElse(doc, b, i) <=> InElse(doc, b, i + 1)
        <3>1. \A b \in Enclosing(doc, i) : b \in 1 .. i
            BY <2>1
        <3>. QED
            BY <1>1, <3>1, ElseNext
    <2>3. i \notin Enclosing(doc, i + 1) /\ i < i + 1 /\ i \in 1 .. (i + 1) - 1
        BY <2>1
    <2>4. Precedes(doc, i, i + 1)
        BY <2>1, <2>2, <2>3 DEF Precedes
    <2>5. i \in Before(doc, i + 1)
        BY <2>3, <2>4 DEF Before
    <2>. QED
        BY <1>2, <1>3, <1>5, <2>5
<1>. QED
    BY <1>4, <1>5

-----------------------------------------------------------------------------
(* The blocks that are open are those around the position.                 *)
OpenAt(frames, k) == {frames[l].opens : l \in 2 .. k}

\* An inner block was opened later.
LEMMA OpensGrow ==
    ASSUME NEW doc, NEW frames, Len(frames) \in Nat, Len(doc) \in Nat, Nested(doc, frames),
           NEW k \in 2 .. Len(frames), NEW l \in 2 .. Len(frames), k < l
    PROVE  frames[k].opens < frames[l].opens
<1>1. /\ frames[k].opens \in 1 .. Len(doc) /\ frames[l].opens \in 1 .. Len(doc)
      /\ Level(doc, frames[k].opens) = k - 2 /\ Level(doc, frames[l].opens) = l - 2
      /\ \A p \in frames[l].opens + 1 .. Len(doc) + 1 : Level(doc, p) >= l - 1
    BY DEF Nested
<1>. SUFFICES ASSUME frames[l].opens <= frames[k].opens PROVE FALSE
    BY <1>1
<1>2. CASE frames[l].opens = frames[k].opens
    BY <1>1, <1>2
<1>3. CASE frames[l].opens < frames[k].opens
    <2>1. frames[k].opens \in frames[l].opens + 1 .. Len(doc) + 1
        BY SMTT(30), <1>1, <1>3
    <2>2. Level(doc, frames[k].opens) >= l - 1
        BY <1>1, <2>1
    <2>. QED
        BY <1>1, <2>2
<1>. QED
    BY <1>1, <1>2, <1>3

\* At the level of a frame its block and the outer ones are around.
LEMMA EnclosingOpen ==
    ASSUME NEW doc, NEW frames, Len(frames) \in Nat, Len(doc) \in Nat, Nested(doc, frames),
           NEW k \in 1 .. Len(frames), NEW i \in 1 .. Len(doc) + 1, Level(doc, i) = k - 1,
           \A l \in 2 .. k : frames[l].opens < i
    PROVE  Enclosing(doc, i) = OpenAt(frames, k)
<1>1. ASSUME NEW l \in 2 .. k PROVE frames[l].opens \in Enclosing(doc, i)
    <2>1. l \in 2 .. Len(frames)
        OBVIOUS
    <2>2. /\ frames[l].opens \in 1 .. Len(doc) /\ doc[frames[l].opens].kind \in Blocks
          /\ Level(doc, frames[l].opens) = l - 2
          /\ \A p \in frames[l].opens + 1 .. Len(doc) + 1 : Level(doc, p) >= l - 1
        BY <2>1 DEF Nested
    <2>3. \A p \in frames[l].opens + 1 .. i : p \in frames[l].opens + 1 .. Len(doc) + 1 /\ p \in Int
        BY <2>2
    <2>4. \A p \in frames[l].opens + 1 .. i : Level(doc, p) > Level(doc, frames[l].opens)
        BY <2>2, <2>3, LevelIsInt
    <2>5. frames[l].opens \in 1 .. i - 1
        BY <2>2
    <2>. QED
        BY <2>2, <2>4, <2>5 DEF Enclosing
<1>2. ASSUME NEW j \in Enclosing(doc, i) PROVE \E l \in 2 .. k : j = frames[l].opens
    <2>1. /\ j \in 1 .. i - 1 /\ \A p \in j + 1 .. i : Level(doc, p) > Level(doc, j)
        BY DEF Enclosing
    <2>2. i \in j + 1 .. i /\ j \in 1 .. Len(doc) + 1 /\ j \in Int
        BY <2>1
    <2>3. Level(doc, j) \in Int /\ Level(doc, j) >= 0 /\ Level(doc, j) < k - 1
        <3>1. Level(doc, j) >= 0 /\ Level(doc, j) \in Int
            BY <2>2, LevelIsInt DEF Nested
        <3>. QED
            BY <2>1, <2>2, <3>1
    <2>. DEFINE l == Level(doc, j) + 2
    <2>4. l \in 2 .. k /\ l \in 2 .. Len(frames) /\ Level(doc, j) = l - 2
        BY <2>3
    <2>. HIDE DEF l
    <2>5. /\ frames[l].opens \in 1 .. Len(doc) /\ Level(doc, frames[l].opens) = l - 2 /\ frames[l].opens < i
          /\ \A p \in frames[l].opens + 1 .. Len(doc) + 1 : Level(doc, p) >= l - 1
        BY <2>4 DEF Nested
    <2>6. ~(j < frames[l].opens)
        <3>1. j < frames[l].opens => frames[l].opens \in j + 1 .. i
            BY <2>1, <2>5
        <3>2. j < frames[l].opens => Level(doc, frames[l].opens) > Level(doc, j)
            BY <2>1, <3>1
        <3>. QED
            BY <2>4, <2>5, <3>2
    <2>7. ~(frames[l].opens < j)
        <3>1. frames[l].opens < j => j \in frames[l].opens + 1 .. Len(doc) + 1
            BY <2>1, <2>5
        <3>2. frames[l].opens < j => Level(doc, j) >= l - 1
            BY <2>5, <3>1
        <3>. QED
            BY <2>4, <3>2
    <2>. QED
        BY <2>1, <2>4, <2>5, <2>6, <2>7
<1>. QED
    BY <1>1, <1>2 DEF OpenAt

(* The position a frame has come to is that far inside.                    *)
LEMMA ReachedIsOpen ==
    ASSUME NEW doc, NEW frames, Len(frames) \in Nat, Len(doc) \in Nat, Nested(doc, frames),
           NEW k \in 1 .. Len(frames)
    PROVE  /\ Reached(doc, frames, k) \in 1 .. Len(doc) + 1
           /\ Enclosing(doc, Reached(doc, frames, k)) = OpenAt(frames, k)
<1>1. CASE k = Len(frames)
    <2>1. \A l \in 2 .. k : frames[l].opens < Len(doc) + 1
        BY <1>1 DEF Nested
    <2>2. Level(doc, Len(doc) + 1) = k - 1 /\ Len(doc) + 1 \in 1 .. Len(doc) + 1
        BY <1>1 DEF Nested
    <2>. QED
        BY <1>1, <2>1, <2>2, EnclosingOpen DEF Reached
<1>2. CASE k # Len(frames)
    <2>. DEFINE i == frames[k + 1].opens
    <2>1. k + 1 \in 2 .. Len(frames) /\ \A l \in 2 .. k : l \in 2 .. Len(frames) /\ l < k + 1
        BY <1>2
    <2>2. i \in 1 .. Len(doc) /\ Level(doc, i) = (k + 1) - 2
        BY <2>1 DEF Nested
    <2>3. \A l \in 2 .. k : frames[l].opens < i
        BY <2>1, OpensGrow
    <2>4. i \in 1 .. Len(doc) + 1 /\ Level(doc, i) = k - 1
        BY <2>2
    <2>5. Reached(doc, frames, k) = i
        BY <1>2 DEF Reached
    <2>. HIDE DEF i
    <2>. QED
        BY <2>3, <2>4, <2>5, EnclosingOpen
<1>. QED
    BY <1>1, <1>2

(* Just inside the innermost block the same blocks are around.             *)
LEMMA InnermostIsOpen ==
    ASSUME NEW doc, NEW frames, Len(frames) \in Nat, Len(doc) \in Nat, Nested(doc, frames),
           Len(frames) > 1
    PROVE  Enclosing(doc, frames[Len(frames)].opens + 1) = OpenAt(frames, Len(frames))
<1>. DEFINE m == Len(frames)
            i == frames[m].opens + 1
<1>1. /\ m \in 2 .. Len(frames) /\ frames[m].opens \in 1 .. Len(doc)
      /\ doc[frames[m].opens].kind \in Blocks /\ Level(doc, frames[m].opens) = m - 2
    BY DEF Nested
<1>2. \A l \in 2 .. m : l = m \/ (l \in 2 .. Len(frames) /\ l < m)
    OBVIOUS
<1>3. \A l \in 2 .. m : frames[l].opens < i
    <2>1. \A l \in 2 .. m : frames[l].opens \in Int
        BY DEF Nested
    <2>. QED
        BY <1>1, <1>2, <2>1, OpensGrow
<1>4. Level(doc, i) = m - 1
    <2>1. frames[m].opens \in Nat \ {0}
        BY <1>1
    <2>2. Level(doc, i) = Level(doc, frames[m].opens) + 1
        BY <1>1, <2>1, LevelNext
    <2>. QED
        BY <1>1, <2>2
<1>5. i \in 1 .. Len(doc) + 1 /\ m \in 1 .. Len(frames)
    BY <1>1
<1>. HIDE DEF i
<1>. QED
    BY <1>3, <1>4, <1>5, EnclosingOpen DEF i

-----------------------------------------------------------------------------
(* What precedes a position after a block's second branch or its end.      *)

\* A second branch that begins elsewhere is not one of this block.
LEMMA ElseElsewhere ==
    ASSUME NEW doc, NEW i \in Int, NEW k \in Int, i <= k, NEW block \in Int, block < i,
           \A p \in i .. k - 1 : doc[p].kind # "else" \/ Level(doc, p) # Level(doc, block) + 1
    PROVE  InElse(doc, block, k) <=> InElse(doc, block, i)
<1>1. \A p : p \in block + 1 .. k - 1 <=> p \in block + 1 .. i - 1 \/ p \in i .. k - 1
    OBVIOUS
<1>. QED
    BY <1>1 DEF InElse

\* From inside a block no other branch of what is around it is reached.
LEMMA OuterBranch ==
    ASSUME NEW doc, NEW o \in Nat \ {0}, NEW i \in Nat, o < i, doc[o].kind \in Blocks,
           \A p \in o + 1 .. i : Level(doc, p) >= Level(doc, o) + 1,
           NEW block \in Enclosing(doc, o), NEW from \in {o, o + 1}
    PROVE  InElse(doc, block, i + 1) <=> InElse(doc, block, from)
<1>1. block \in 1 .. o - 1 /\ Level(doc, o) > Level(doc, block)
    <2>1. block \in 1 .. o - 1 /\ \A p \in block + 1 .. o : Level(doc, p) > Level(doc, block)
        BY DEF Enclosing
    <2>2. o \in block + 1 .. o
        BY <2>1
    <2>. QED
        BY <2>1, <2>2
<1>2. Level(doc, o) \in Int /\ Level(doc, block) \in Int
    BY <1>1, LevelIsInt
<1>3. ASSUME NEW p \in from .. i PROVE doc[p].kind # "else" \/ Level(doc, p) # Level(doc, block) + 1
    <2>1. CASE p = o
        BY <2>1 DEF Blocks, Loops
    <2>2. CASE p # o
        <3>1. p \in o + 1 .. i /\ p \in Int
            BY <2>2
        <3>2. Level(doc, p) >= Level(doc, o) + 1 /\ Level(doc, p) \in Int
            BY <3>1, LevelIsInt
        <3>. QED
            BY <1>1, <1>2, <3>2
    <2>. QED
        BY <2>1, <2>2
<1>4. from \in Int /\ i + 1 \in Int /\ from <= i + 1 /\ block \in Int /\ block < from /\ (i + 1) - 1 = i
    BY <1>1
<1>. QED
    BY <1>3, <1>4, ElseElsewhere

\* What stands inside a block is inside of it.
LEMMA InsideOf ==
    ASSUME NEW doc, NEW o \in Nat \ {0}, NEW i \in Nat, doc[o].kind \in Blocks,
           \A p \in o + 1 .. i : Level(doc, p) >= Level(doc, o) + 1,
           NEW j \in o + 1 .. i
    PROVE  o \in Enclosing(doc, j)
<1>1. \A p \in o + 1 .. j : Level(doc, p) > Level(doc, o)
    <2>1. \A p \in o + 1 .. j : p \in o + 1 .. i /\ p \in Int
        OBVIOUS
    <2>. QED
        BY <2>1, LevelIsInt
<1>2. o \in 1 .. j - 1
    OBVIOUS
<1>. QED
    BY <1>1, <1>2 DEF Enclosing

\* The second branch starts from what was visible where the first did.
LEMMA BeforeElse ==
    ASSUME NEW doc, NEW o \in Nat \ {0}, NEW i \in Nat, o < i, doc[o].kind = "if", doc[i].kind = "else",
           \A p \in o + 1 .. i : Level(doc, p) >= Level(doc, o) + 1,
           Level(doc, i) = Level(doc, o) + 1, ~InElse(doc, o, i),
           Enclosing(doc, i) = Enclosing(doc, o + 1)
    PROVE  /\ Enclosing(doc, i + 1) = Enclosing(doc, o + 1)
           /\ Before(doc, i + 1) = Before(doc, o + 1)
<1>1. doc[o].kind \in Blocks /\ doc[o].kind # "end" /\ doc[i].kind \notin Blocks /\ doc[i].kind # "end"
    BY DEF Blocks, Loops
<1>2. Enclosing(doc, i + 1) = Enclosing(doc, o + 1) /\ Enclosing(doc, o + 1) = Enclosing(doc, o) \cup {o}
    <2>1. i \in Nat \ {0}
        OBVIOUS
    <2>. QED
        BY <1>1, <2>1, EnclosingNext
<1>3. ASSUME NEW j \in 1 .. o
      PROVE  Precedes(doc, j, i + 1) <=> Precedes(doc, j, o + 1)
    <2>1. Enclosing(doc, j) \subseteq 1 .. j - 1
        BY DEF Enclosing
    <2>2. ASSUME NEW b \in Enclosing(doc, j), b \in Enclosing(doc, o + 1)
          PROVE  InElse(doc, b, i + 1) <=> InElse(doc, b, o + 1)
        <3>1. b \in Enclosing(doc, o)
            BY <1>2, <2>1, <2>2
        <3>. QED
            BY <1>1, <3>1, OuterBranch
    <2>3. j < i + 1 /\ j < o + 1
        OBVIOUS
    <2>. QED
        BY <1>2, <2>2, <2>3 DEF Precedes
<1>4. ASSUME NEW j \in o + 1 .. i, IsStep(doc, j), Precedes(doc, j, i + 1) PROVE FALSE
    <2>1. j # i
        BY <1>4 DEF IsStep
    <2>2. o \in Enclosing(doc, j)
        BY <1>1, InsideOf
    <2>3. InElse(doc, o, j) <=> InElse(doc, o, i + 1)
        BY <1>4, <2>2 DEF Precedes
    <2>4. InElse(doc, o, i + 1)
        <3>1. i \in o + 1 .. (i + 1) - 1
            OBVIOUS
        <3>. QED
            BY <3>1 DEF InElse
    <2>5. InElse(doc, o, j) => InElse(doc, o, i)
        <3>1. \A k \in o + 1 .. j - 1 : k \in o + 1 .. i - 1
            OBVIOUS
        <3>. QED
            BY <3>1 DEF InElse
    <2>. QED
        BY <2>3, <2>4, <2>5
<1>5. ASSUME NEW j \in Before(doc, i + 1) PROVE j \in Before(doc, o + 1)
    <2>1. j \in 1 .. (i + 1) - 1 /\ IsStep(doc, j) /\ Precedes(doc, j, i + 1)
        BY DEF Before
    <2>2. j \in 1 .. o
        <3>1. j \notin o + 1 .. i
            BY <1>4, <2>1
        <3>. QED
            BY <2>1, <3>1
    <2>3. Precedes(doc, j, o + 1) /\ j \in 1 .. (o + 1) - 1
        BY <1>3, <2>1, <2>2
    <2>. QED
        BY <2>1, <2>3 DEF Before
<1>6. ASSUME NEW j \in Before(doc, o + 1) PROVE j \in Before(doc, i + 1)
    <2>1. j \in 1 .. o /\ IsStep(doc, j) /\ Precedes(doc, j, o + 1)
        BY DEF Before
    <2>2. Precedes(doc, j, i + 1) /\ j \in 1 .. (i + 1) - 1
        BY <1>3, <2>1
    <2>. QED
        BY <2>1, <2>2 DEF Before
<1>. QED
    BY <1>2, <1>5, <1>6

\* A block that has ended leaves itself behind and nothing of its inside.
LEMMA BeforeEnd ==
    ASSUME NEW doc, NEW o \in Nat \ {0}, NEW i \in Nat, o < i, doc[o].kind \in Blocks, doc[i].kind = "end",
           \A p \in o + 1 .. i : Level(doc, p) >= Level(doc, o) + 1,
           Enclosing(doc, i + 1) = Enclosing(doc, o)
    PROVE  Before(doc, i + 1) = Before(doc, o) \cup {o}
<1>1. Enclosing(doc, o) \subseteq 1 .. o - 1
    BY DEF Enclosing
<1>2. ASSUME NEW j \in 1 .. o - 1
      PROVE  Precedes(doc, j, i + 1) <=> Precedes(doc, j, o)
    <2>1. \A b \in Enclosing(doc, o) : InElse(doc, b, i + 1) <=> InElse(doc, b, o)
        BY OuterBranch
    <2>2. j < i + 1 /\ j < o
        OBVIOUS
    <2>. QED
        BY <2>1, <2>2 DEF Precedes
<1>3. ASSUME NEW j \in o + 1 .. i, Precedes(doc, j, i + 1) PROVE FALSE
    <2>1. o \in Enclosing(doc, j)
        BY InsideOf
    <2>. QED
        BY <1>1, <1>3, <2>1 DEF Precedes
<1>4. o \in Before(doc, i + 1)
    <2>1. \A b \in Enclosing(doc, o) : InElse(doc, b, o) <=> InElse(doc, b, i + 1)
        BY OuterBranch
    <2>2. o < i + 1 /\ o \in 1 .. (i + 1) - 1 /\ o \notin Enclosing(doc, i + 1)
        BY <1>1
    <2>3. Precedes(doc, o, i + 1)
        BY <2>1, <2>2 DEF Precedes
    <2>4. IsStep(doc, o)
        BY DEF IsStep, Blocks, Loops
    <2>. QED
        BY <2>2, <2>3, <2>4 DEF Before
<1>5. ASSUME NEW j \in Before(doc, i + 1), j # o PROVE j \in Before(doc, o)
    <2>1. j \in 1 .. (i + 1) - 1 /\ IsStep(doc, j) /\ Precedes(doc, j, i + 1)
        BY DEF Before
    <2>2. j \in 1 .. o - 1
        <3>1. j \notin o + 1 .. i
            BY <1>3, <2>1
        <3>. QED
            BY <1>5, <2>1, <3>1
    <2>3. Precedes(doc, j, o)
        BY <1>2, <2>1, <2>2
    <2>. QED
        BY <2>1, <2>2, <2>3 DEF Before
<1>6. ASSUME NEW j \in Before(doc, o) PROVE j \in Before(doc, i + 1)
    <2>1. j \in 1 .. o - 1 /\ IsStep(doc, j) /\ Precedes(doc, j, o)
        BY DEF Before
    <2>2. Precedes(doc, j, i + 1) /\ j \in 1 .. (i + 1) - 1
        BY <1>2, <2>1
    <2>. QED
        BY <2>1, <2>2 DEF Before
<1>. QED
    BY <1>4, <1>5, <1>6

-----------------------------------------------------------------------------
(* The frames stay the blocks that are open.                               *)

\* A sequence with one more element.
LEMMA OneMoreStep ==
    ASSUME NEW doc, \E S : doc \in Seq(S), NEW e
    PROVE  /\ \E S : Append(doc, e) \in Seq(S)
           /\ Len(doc) \in Nat /\ Len(Append(doc, e)) = Len(doc) + 1
           /\ SameUpTo(doc, Append(doc, e), Len(doc))
           /\ Append(doc, e)[Len(doc) + 1] = e
<1>1. PICK S : doc \in Seq(S)
    OBVIOUS
<1>2. doc \in Seq(S \cup {e}) /\ e \in S \cup {e}
    BY <1>1
<1>. QED
    BY <1>2 DEF SameUpTo

\* What was known of the frames is known of the longer document.
LEMMA FramesKnown ==
    ASSUME NEW doc, NEW more, NEW frames, Len(frames) \in Nat, Len(doc) \in Nat,
           SameUpTo(doc, more, Len(doc)), Nested(doc, frames)
    PROVE  /\ Level(more, Len(doc) + 1) = Len(frames) - 1
           /\ \A p \in 1 .. Len(doc) + 1 : Level(more, p) >= 0
           /\ \A k \in 2 .. Len(frames) :
                 /\ frames[k].opens \in 1 .. Len(doc) /\ more[frames[k].opens].kind \in Blocks
                 /\ Level(more, frames[k].opens) = k - 2
                 /\ \A p \in frames[k].opens + 1 .. Len(doc) + 1 : Level(more, p) >= k - 1
                 /\ frames[k].second \in BOOLEAN
                 /\ frames[k].second <=> InElse(more, frames[k].opens, Len(doc) + 1)
<1>1. \A p \in 1 .. Len(doc) + 1 : Level(more, p) = Level(doc, p)
    BY SameLevel
<1>2. Len(doc) + 1 \in 1 .. Len(doc) + 1
    OBVIOUS
<1>3. ASSUME NEW k \in 2 .. Len(frames)
      PROVE  /\ frames[k].opens \in 1 .. Len(doc) /\ more[frames[k].opens].kind \in Blocks
             /\ Level(more, frames[k].opens) = k - 2
             /\ \A p \in frames[k].opens + 1 .. Len(doc) + 1 : Level(more, p) >= k - 1
             /\ frames[k].second \in BOOLEAN
             /\ frames[k].second <=> InElse(more, frames[k].opens, Len(doc) + 1)
    <2>. DEFINE o == frames[k].opens
    <2>1. /\ o \in 1 .. Len(doc) /\ doc[o].kind \in Blocks /\ Level(doc, o) = k - 2
          /\ \A p \in o + 1 .. Len(doc) + 1 : Level(doc, p) >= k - 1
          /\ frames[k].second \in BOOLEAN
          /\ frames[k].second <=> InElse(doc, o, Len(doc) + 1)
        BY DEF Nested
    <2>2. o \in 1 .. Len(doc) + 1 /\ more[o] = doc[o]
          /\ \A p \in o + 1 .. Len(doc) + 1 : p \in 1 .. Len(doc) + 1
        BY <2>1 DEF SameUpTo
    <2>. HIDE DEF o
    <2>3. InElse(more, o, Len(doc) + 1) <=> InElse(doc, o, Len(doc) + 1)
        BY <1>2, <2>2, SameElse
    <2>4. Level(more, o) = k - 2 /\ \A p \in o + 1 .. Len(doc) + 1 : Level(more, p) >= k - 1
        BY <1>1, <2>1, <2>2
    <2>5. frames[k].second <=> InElse(more, o, Len(doc) + 1)
        BY <2>1, <2>3
    <2>. QED
        BY <2>1, <2>2, <2>4, <2>5 DEF o
<1>4. /\ Level(more, Len(doc) + 1) = Len(frames) - 1
      /\ \A p \in 1 .. Len(doc) + 1 : Level(more, p) >= 0
    BY <1>1, <1>2 DEF Nested
<1>. QED
    BY <1>3, <1>4

\* A step that opens and ends no block.
LEMMA NestedStays ==
    ASSUME NEW doc, NEW more, NEW frames, NEW new, Len(frames) \in Nat, Len(doc) \in Nat,
           Len(more) = Len(doc) + 1, SameUpTo(doc, more, Len(doc)), Nested(doc, frames),
           more[Len(doc) + 1].kind \notin Blocks, more[Len(doc) + 1].kind # "end",
           Len(new) = Len(frames),
           \A k \in 2 .. Len(frames) :
              /\ new[k].opens = frames[k].opens
              /\ new[k].second = IF k = Len(frames) /\ more[Len(doc) + 1].kind = "else"
                                 THEN TRUE ELSE frames[k].second
    PROVE  Nested(more, new)
<1>. DEFINE n == Len(doc)
            m == Len(frames)
<1>1. /\ Level(more, n + 1) = m - 1 /\ \A p \in 1 .. n + 1 : Level(more, p) >= 0
      /\ \A k \in 2 .. m :
            /\ frames[k].opens \in 1 .. n /\ more[frames[k].opens].kind \in Blocks
            /\ Level(more, frames[k].opens) = k - 2
            /\ \A p \in frames[k].opens + 1 .. n + 1 : Level(more, p) >= k - 1
            /\ frames[k].second \in BOOLEAN
            /\ frames[k].second <=> InElse(more, frames[k].opens, n + 1)
    BY FramesKnown
<1>2. m \in Nat /\ m >= 1 /\ n \in Nat
    BY DEF Nested
<1>3. Level(more, (n + 1) + 1) = m - 1
    <2>1. n + 1 \in Nat \ {0}
        BY <1>2
    <2>2. Level(more, (n + 1) + 1) = Level(more, n + 1)
        BY <2>1, LevelNext
    <2>. QED
        BY <1>1, <2>2
<1>4. \A p \in 1 .. (n + 1) + 1 : p \in 1 .. n + 1 \/ p = (n + 1) + 1
    BY <1>2
<1>5. \A p \in 1 .. (n + 1) + 1 : Level(more, p) >= 0
    BY <1>1, <1>2, <1>3, <1>4
<1>6. ASSUME NEW k \in 2 .. m
      PROVE  /\ new[k].opens \in 1 .. n + 1 /\ more[new[k].opens].kind \in Blocks
             /\ Level(more, new[k].opens) = k - 2
             /\ \A p \in new[k].opens + 1 .. (n + 1) + 1 : Level(more, p) >= k - 1
             /\ new[k].second \in BOOLEAN
             /\ new[k].second <=> InElse(more, new[k].opens, (n + 1) + 1)
    <2>. DEFINE o == frames[k].opens
    <2>1. /\ o \in 1 .. n /\ more[o].kind \in Blocks /\ Level(more, o) = k - 2
          /\ \A p \in o + 1 .. n + 1 : Level(more, p) >= k - 1
          /\ frames[k].second \in BOOLEAN
          /\ frames[k].second <=> InElse(more, o, n + 1)
        BY <1>1
    <2>2. new[k].opens = o
        OBVIOUS
    <2>. HIDE DEF o
    <2>3. \A p \in o + 1 .. (n + 1) + 1 : p \in o + 1 .. n + 1 \/ p = (n + 1) + 1
        BY <1>2, <2>1
    <2>4. \A p \in o + 1 .. (n + 1) + 1 : Level(more, p) >= k - 1
        BY <1>2, <1>3, <2>1, <2>3
    <2>5. CASE more[n + 1].kind = "else" /\ k = m
        <3>1. n + 1 \in o + 1 .. ((n + 1) + 1) - 1 /\ Level(more, n + 1) = Level(more, o) + 1
            BY <1>1, <1>2, <2>1, <2>5
        <3>2. InElse(more, o, (n + 1) + 1)
            BY <2>5, <3>1 DEF InElse
        <3>3. new[k].second = TRUE
            BY <2>5
        <3>4. new[k].second \in BOOLEAN /\ (new[k].second <=> InElse(more, o, (n + 1) + 1))
            BY <3>2, <3>3
        <3>5. o \in 1 .. n + 1
            BY <1>2, <2>1
        <3>. QED
            BY <2>1, <2>2, <2>4, <3>4, <3>5
    <2>6. CASE ~(more[n + 1].kind = "else" /\ k = m)
        <3>1. \A p \in n + 1 .. ((n + 1) + 1) - 1 : p = n + 1
            BY <1>2
        <3>2. more[n + 1].kind # "else" \/ Level(more, n + 1) # Level(more, o) + 1
            BY <1>1, <1>2, <2>1, <2>6
        <3>3. /\ n + 1 \in Int /\ (n + 1) + 1 \in Int /\ n + 1 <= (n + 1) + 1 /\ o \in Int /\ o < n + 1
            BY <1>2, <2>1
        <3>4. InElse(more, o, (n + 1) + 1) <=> InElse(more, o, n + 1)
            BY <3>1, <3>2, <3>3, ElseElsewhere
        <3>5. new[k].second = frames[k].second
            BY <2>6
        <3>. QED
            BY <2>1, <2>2, <2>4, <3>4, <3>5
    <2>. QED
        BY <2>5, <2>6
<1>. QED
    BY <1>2, <1>3, <1>5, <1>6 DEF Nested

\* A step that opens a block.
LEMMA NestedOpens ==
    ASSUME NEW doc, NEW more, NEW frames, NEW new, Len(frames) \in Nat, Len(doc) \in Nat,
           Len(more) = Len(doc) + 1, SameUpTo(doc, more, Len(doc)), Nested(doc, frames),
           more[Len(doc) + 1].kind \in Blocks,
           Len(new) = Len(frames) + 1, new[Len(frames) + 1].opens = Len(doc) + 1,
           new[Len(frames) + 1].second = FALSE,
           \A k \in 2 .. Len(frames) : new[k] = frames[k]
    PROVE  Nested(more, new)
<1>. DEFINE n == Len(doc)
            m == Len(frames)
<1>1. /\ Level(more, n + 1) = m - 1 /\ \A p \in 1 .. n + 1 : Level(more, p) >= 0
      /\ \A k \in 2 .. m :
            /\ frames[k].opens \in 1 .. n /\ more[frames[k].opens].kind \in Blocks
            /\ Level(more, frames[k].opens) = k - 2
            /\ \A p \in frames[k].opens + 1 .. n + 1 : Level(more, p) >= k - 1
            /\ frames[k].second \in BOOLEAN
            /\ frames[k].second <=> InElse(more, frames[k].opens, n + 1)
    BY FramesKnown
<1>2. m \in Nat /\ m >= 1 /\ n \in Nat
    BY DEF Nested
<1>3. Level(more, (n + 1) + 1) = m
    <2>1. n + 1 \in Nat \ {0}
        BY <1>2
    <2>2. Level(more, (n + 1) + 1) = Level(more, n + 1) + 1
        BY <2>1, LevelNext
    <2>. QED
        BY <1>1, <1>2, <2>2
<1>4. \A p \in 1 .. (n + 1) + 1 : p \in 1 .. n + 1 \/ p = (n + 1) + 1
    BY <1>2
<1>5. \A p \in 1 .. (n + 1) + 1 : Level(more, p) >= 0
    BY <1>1, <1>2, <1>3, <1>4
<1>6. more[n + 1].kind # "else"
    BY DEF Blocks, Loops
<1>7. ASSUME NEW k \in 2 .. m + 1
      PROVE  /\ new[k].opens \in 1 .. n + 1 /\ more[new[k].opens].kind \in Blocks
             /\ Level(more, new[k].opens) = k - 2
             /\ \A p \in new[k].opens + 1 .. (n + 1) + 1 : Level(more, p) >= k - 1
             /\ new[k].second \in BOOLEAN
             /\ new[k].second <=> InElse(more, new[k].opens, (n + 1) + 1)
    <2>. DEFINE o == frames[k].opens
    <2>1. CASE k = m + 1
        <3>1. new[k].opens = n + 1 /\ new[k].second = FALSE /\ n + 1 \in 1 .. n + 1
              /\ Level(more, n + 1) = k - 2 /\ Level(more, (n + 1) + 1) = k - 1
            BY <1>1, <1>2, <1>3, <2>1
        <3>2. \A p \in (n + 1) + 1 .. (n + 1) + 1 : p = (n + 1) + 1
            BY <1>2
        <3>3. ~InElse(more, n + 1, (n + 1) + 1)
            <4>1. (n + 1) + 1 .. ((n + 1) + 1) - 1 = {}
                BY <1>2
            <4>. QED
                BY <4>1 DEF InElse
        <3>4. \A p \in (n + 1) + 1 .. (n + 1) + 1 : Level(more, p) >= k - 1
            BY <3>1, <3>2
        <3>. QED
            BY <3>1, <3>3, <3>4
    <2>2. CASE k # m + 1
        <3>0. k \in 2 .. m
            BY <1>2, <2>2
        <3>1. /\ o \in 1 .. n /\ more[o].kind \in Blocks /\ Level(more, o) = k - 2
              /\ \A p \in o + 1 .. n + 1 : Level(more, p) >= k - 1
              /\ frames[k].second \in BOOLEAN
              /\ frames[k].second <=> InElse(more, o, n + 1)
            BY <1>1, <3>0
        <3>2. new[k].opens = o /\ new[k].second = frames[k].second
            BY <3>0
        <3>. HIDE DEF o
        <3>3. \A p \in o + 1 .. (n + 1) + 1 : p \in o + 1 .. n + 1 \/ p = (n + 1) + 1
            <4>1. o \in Int /\ n \in Int
                BY <1>2, <3>1
            <4>. QED
                BY <4>1
        <3>4. \A p \in o + 1 .. (n + 1) + 1 : Level(more, p) >= k - 1
            BY <1>2, <1>3, <3>0, <3>1, <3>3
        <3>5. n + 1 \in Nat \ {0} /\ o \in 1 .. n + 1
            BY <1>2, <3>1
        <3>6. InElse(more, o, (n + 1) + 1) <=> InElse(more, o, n + 1)
            BY <1>6, <3>5, ElseNext
        <3>. QED
            BY <3>1, <3>2, <3>4, <3>5, <3>6
    <2>. QED
        BY <2>1, <2>2
<1>8. (m + 1) - 1 = m /\ m + 1 >= 1
    BY <1>2
<1>. QED
    BY <1>3, <1>5, <1>7, <1>8 DEF Nested

\* The innermost block ends.
LEMMA NestedCloses ==
    ASSUME NEW doc, NEW more, NEW frames, NEW new, Len(frames) \in Nat, Len(doc) \in Nat,
           Len(more) = Len(doc) + 1, SameUpTo(doc, more, Len(doc)), Nested(doc, frames),
           more[Len(doc) + 1].kind = "end",
           Len(frames) > 1, Len(new) = Len(frames) - 1,
           \A k \in 2 .. Len(frames) - 1 : /\ new[k].opens = frames[k].opens
                                           /\ new[k].second = frames[k].second
    PROVE  Nested(more, new)
<1>. DEFINE n == Len(doc)
            m == Len(frames)
<1>1. /\ Level(more, n + 1) = m - 1 /\ \A p \in 1 .. n + 1 : Level(more, p) >= 0
      /\ \A k \in 2 .. m :
            /\ frames[k].opens \in 1 .. n /\ more[frames[k].opens].kind \in Blocks
            /\ Level(more, frames[k].opens) = k - 2
            /\ \A p \in frames[k].opens + 1 .. n + 1 : Level(more, p) >= k - 1
            /\ frames[k].second \in BOOLEAN
            /\ frames[k].second <=> InElse(more, frames[k].opens, n + 1)
    BY FramesKnown
<1>2. m \in Nat /\ m > 1 /\ n \in Nat
    BY DEF Nested
<1>3. Level(more, (n + 1) + 1) = (m - 1) - 1
    <2>1. n + 1 \in Nat \ {0} /\ more[n + 1].kind \notin Blocks
        BY <1>2 DEF Blocks, Loops
    <2>2. Level(more, (n + 1) + 1) = Level(more, n + 1) - 1
        BY <2>1, LevelNext
    <2>. QED
        BY <1>1, <1>2, <2>2
<1>4. \A p \in 1 .. (n + 1) + 1 : p \in 1 .. n + 1 \/ p = (n + 1) + 1
    BY <1>2
<1>5. \A p \in 1 .. (n + 1) + 1 : Level(more, p) >= 0
    BY <1>1, <1>2, <1>3, <1>4
<1>6. more[n + 1].kind # "else"
    OBVIOUS
<1>7. ASSUME NEW k \in 2 .. m - 1
      PROVE  /\ new[k].opens \in 1 .. n + 1 /\ more[new[k].opens].kind \in Blocks
             /\ Level(more, new[k].opens) = k - 2
             /\ \A p \in new[k].opens + 1 .. (n + 1) + 1 : Level(more, p) >= k - 1
             /\ new[k].second \in BOOLEAN
             /\ new[k].second <=> InElse(more, new[k].opens, (n + 1) + 1)
    <2>. DEFINE o == frames[k].opens
    <2>0. k \in 2 .. m /\ k <= m - 1
        BY <1>2
    <2>1. /\ o \in 1 .. n /\ more[o].kind \in Blocks /\ Level(more, o) = k - 2
          /\ \A p \in o + 1 .. n + 1 : Level(more, p) >= k - 1
          /\ frames[k].second \in BOOLEAN
          /\ frames[k].second <=> InElse(more, o, n + 1)
        BY <1>1, <2>0
    <2>2. new[k].opens = o /\ new[k].second = frames[k].second
        OBVIOUS
    <2>. HIDE DEF o
    <2>3. \A p \in o + 1 .. (n + 1) + 1 : p \in o + 1 .. n + 1 \/ p = (n + 1) + 1
        <3>1. o \in Int /\ n \in Int
            BY <1>2, <2>1
        <3>. QED
            BY <3>1
    <2>4. \A p \in o + 1 .. (n + 1) + 1 : Level(more, p) >= k - 1
        BY <1>2, <1>3, <2>0, <2>1, <2>3
    <2>5. n + 1 \in Nat \ {0} /\ o \in 1 .. n + 1
        BY <1>2, <2>1
    <2>6. InElse(more, o, (n + 1) + 1) <=> InElse(more, o, n + 1)
        BY <1>6, <2>5, ElseNext
    <2>. QED
        BY <2>1, <2>2, <2>4, <2>5, <2>6
<1>8. m - 1 >= 1
    BY <1>2
<1>. QED
    BY <1>3, <1>5, <1>7, <1>8 DEF Nested

-----------------------------------------------------------------------------
(* What frames allow, from one document to a longer one and from one       *)
(* position to the next.                                                   *)

\* The loops around a position are steps before it, and finitely many.
LEMMA LoopsAreSteps ==
    ASSUME NEW doc, NEW i \in Int
    PROVE  /\ LoopsAround(doc, i) \subseteq 1 .. i - 1
           /\ IsFiniteSet(Enclosing(doc, i)) /\ IsFiniteSet(LoopsAround(doc, i))
           /\ Cardinality(LoopsAround(doc, i)) \in Nat /\ Cardinality(Enclosing(doc, i)) \in Nat
           /\ \A j \in LoopsAround(doc, i) : IsStep(doc, j)
<1>1. Enclosing(doc, i) \subseteq 1 .. i - 1 /\ LoopsAround(doc, i) \subseteq 1 .. i - 1
    BY DEF Enclosing, LoopsAround
<1>2. 1 \in Int /\ i - 1 \in Int
    OBVIOUS
<1>3. IsFiniteSet(1 .. i - 1)
    BY <1>2, FS_Interval
<1>4. IsFiniteSet(Enclosing(doc, i)) /\ IsFiniteSet(LoopsAround(doc, i))
    BY <1>1, <1>3, FS_Subset
<1>5. Cardinality(LoopsAround(doc, i)) \in Nat /\ Cardinality(Enclosing(doc, i)) \in Nat
    BY <1>4, FS_CardinalityType
<1>6. \A j \in LoopsAround(doc, i) : IsStep(doc, j)
    BY DEF LoopsAround, IsStep, Loops
<1>. QED
    BY <1>1, <1>4, <1>5, <1>6

\* A path names the same loops in a longer document.
LEMMA SamePath ==
    ASSUME NEW doc, NEW more, NEW n \in Nat, SameUpTo(doc, more, n), NEW loops \in SUBSET (1 .. n), NEW path,
           IsPath(doc, path, loops)
    PROVE  IsPath(more, path, loops)
<1>1. \A j \in loops : doc[j] = more[j] /\ Rank(more, j) = Rank(doc, j)
    <2>1. \A j \in loops : j \in 1 .. n /\ j \in 1 .. n + 1
        OBVIOUS
    <2>. QED
        BY <2>1, SameLoops DEF SameUpTo, Rank
<1>2. \E S : path \in Seq(S)
    BY DEF IsPath
<1>3. Len(path) = Cardinality(loops)
    BY DEF IsPath
<1>4. \A j \in loops : Rank(more, j) \in 1 .. Len(path) /\ path[Rank(more, j)] = more[j].id
    BY <1>1 DEF IsPath
<1>5. \A r \in 1 .. Len(path) : \E j \in loops : Rank(more, j) = r
    BY <1>1 DEF IsPath
<1>. QED
    BY <1>2, <1>3, <1>4, <1>5 DEF IsPath

\* What is visible at a position is so in a longer document.
LEMMA SameNames ==
    ASSUME NEW doc, NEW more, NEW n \in Nat, SameUpTo(doc, more, n), NEW i \in 1 .. n + 1
    PROVE  /\ Prior(more, i) = Prior(doc, i) /\ OutputIds(more, i) = OutputIds(doc, i)
           /\ ForVariables(more, i) = ForVariables(doc, i) /\ InScope(more, i) = InScope(doc, i)
<1>1. Before(more, i) = Before(doc, i) /\ Enclosing(more, i) = Enclosing(doc, i)
    BY SameBefore, SameEnclosing
<1>2. /\ \A j \in Before(doc, i) : more[j] = doc[j]
      /\ \A j \in Enclosing(doc, i) : more[j] = doc[j]
    BY DEF Before, Enclosing, SameUpTo
<1>. DEFINE before == Before(doc, i)
            around == Enclosing(doc, i)
<1>3. /\ \A kind : OfKind(more, kind, before) = OfKind(doc, kind, before)
      /\ \A kind : OfKind(more, kind, around) = OfKind(doc, kind, around)
    BY <1>2 DEF OfKind
<1>4. /\ OfKind(doc, "output", before) \subseteq before /\ OfKind(doc, "set-variable", before) \subseteq before
      /\ OfKind(doc, "for", around) \subseteq around
    BY DEF OfKind
<1>5. /\ Ids(more, before) = Ids(doc, before)
      /\ Ids(more, OfKind(doc, "output", before)) = Ids(doc, OfKind(doc, "output", before))
      /\ Variables(more, OfKind(doc, "set-variable", before)) = Variables(doc, OfKind(doc, "set-variable", before))
      /\ Variables(more, OfKind(doc, "for", around)) = Variables(doc, OfKind(doc, "for", around))
    BY <1>2, <1>4 DEF Ids, Variables
<1>. QED
    BY <1>1, <1>3, <1>5 DEF Prior, OutputIds, ForVariables, InScope

\* A frame describes a position of a longer document as well.
LEMMA SameDescription ==
    ASSUME NEW doc, NEW more, NEW n \in Nat, SameUpTo(doc, more, n), NEW i \in 1 .. n + 1, NEW f,
           Describes(f, doc, i)
    PROVE  Describes(f, more, i)
<1>1. /\ Prior(more, i) = Prior(doc, i) /\ OutputIds(more, i) = OutputIds(doc, i)
      /\ ForVariables(more, i) = ForVariables(doc, i) /\ InScope(more, i) = InScope(doc, i)
      /\ Enclosing(more, i) = Enclosing(doc, i) /\ LoopsAround(more, i) = LoopsAround(doc, i)
    BY SameNames, SameEnclosing, SameLoops
<1>2. IsPath(more, f.path, LoopsAround(doc, i))
    <2>1. LoopsAround(doc, i) \in SUBSET (1 .. n)
        BY LoopsAreSteps
    <2>2. IsPath(doc, f.path, LoopsAround(doc, i))
        BY DEF Describes
    <2>. QED
        BY <2>1, <2>2, SamePath
<1>. QED
    BY <1>1, <1>2 DEF Describes

(* What a step leaves behind.                                              *)
LEMMA Published ==
    ASSUME NEW doc, NEW i, NEW k, NEW f, Describes(f, doc, i),
           Enclosing(doc, k) = Enclosing(doc, i), Before(doc, k) = Before(doc, i) \cup {i}
    PROVE  Describes(Publish(f, doc[i]), doc, k)
<1>. DEFINE g == Publish(f, doc[i])
            before == Before(doc, i)
            after == Before(doc, k)
<1>1. /\ DOMAIN g = FrameFields
      /\ g.prior = f.prior \cup {doc[i].id}
      /\ g.outputs = IF doc[i].kind = "output" THEN f.outputs \cup {doc[i].id} ELSE f.outputs
      /\ g.variables = IF doc[i].kind = "set-variable" THEN f.variables \cup {doc[i].variable} ELSE f.variables
      /\ g.bindings = f.bindings /\ g.depth = f.depth /\ g.path = f.path
    BY DEF Publish, Describes, FrameFields
<1>. HIDE DEF g
<1>2. ForVariables(doc, k) = ForVariables(doc, i) /\ LoopsAround(doc, k) = LoopsAround(doc, i)
    BY DEF ForVariables, LoopsAround
<1>3. Ids(doc, after) = Ids(doc, before) \cup {doc[i].id}
    BY DEF Ids
<1>4. \A kind : OfKind(doc, kind, after) = IF doc[i].kind = kind THEN OfKind(doc, kind, before) \cup {i}
                                           ELSE OfKind(doc, kind, before)
    BY DEF OfKind
<1>5. OutputIds(doc, k) = IF doc[i].kind = "output" THEN OutputIds(doc, i) \cup {doc[i].id} ELSE OutputIds(doc, i)
    <2>1. CASE doc[i].kind = "output"
        <3>1. OfKind(doc, "output", after) = OfKind(doc, "output", before) \cup {i}
            BY <1>4, <2>1
        <3>. QED
            BY <2>1, <3>1 DEF OutputIds, Ids
    <2>2. CASE doc[i].kind # "output"
        <3>1. OfKind(doc, "output", after) = OfKind(doc, "output", before)
            BY <1>4, <2>2
        <3>. QED
            BY <2>2, <3>1 DEF OutputIds
    <2>. QED
        BY <2>1, <2>2
<1>6. InScope(doc, k) = IF doc[i].kind = "set-variable" THEN InScope(doc, i) \cup {doc[i].variable}
                        ELSE InScope(doc, i)
    <2>1. CASE doc[i].kind = "set-variable"
        <3>1. OfKind(doc, "set-variable", after) = OfKind(doc, "set-variable", before) \cup {i}
            BY <1>4, <2>1
        <3>2. Variables(doc, OfKind(doc, "set-variable", after))
                  = Variables(doc, OfKind(doc, "set-variable", before)) \cup {doc[i].variable}
            BY <3>1 DEF Variables
        <3>. QED
            BY <1>2, <2>1, <3>2 DEF InScope
    <2>2. CASE doc[i].kind # "set-variable"
        <3>1. OfKind(doc, "set-variable", after) = OfKind(doc, "set-variable", before)
            BY <1>4, <2>2
        <3>. QED
            BY <1>2, <2>2, <3>1 DEF InScope
    <2>. QED
        BY <2>1, <2>2
<1>7. g.prior = Prior(doc, k)
    BY <1>1, <1>3 DEF Describes, Prior
<1>8. g.outputs = OutputIds(doc, k)
    BY <1>1, <1>5 DEF Describes
<1>9. g.variables = InScope(doc, k)
    BY <1>1, <1>6 DEF Describes
<1>10. g.bindings = ForVariables(doc, k) /\ g.depth = Cardinality(Enclosing(doc, k))
    BY <1>1, <1>2 DEF Describes
<1>11. IsPath(doc, g.path, LoopsAround(doc, k))
    <2>1. IsPath(doc, f.path, LoopsAround(doc, i))
        BY DEF Describes
    <2>. QED
        BY <1>1, <1>2, <2>1
<1>12. Describes(g, doc, k)
    BY <1>1, <1>7, <1>8, <1>9, <1>10, <1>11 DEF Describes
<1>. QED
    BY <1>12 DEF g

\* Inside a loop the path has one id more.
LEMMA PathGrows ==
    ASSUME NEW doc, NEW i \in Nat \ {0}, NEW path, IsPath(doc, path, LoopsAround(doc, i))
    PROVE  IsPath(doc, Append(path, doc[i].id), LoopsAround(doc, i) \cup {i})
<1>. DEFINE loops == LoopsAround(doc, i)
            longer == Append(path, doc[i].id)
            n == Len(path)
<1>0. i \in Int
    OBVIOUS
<1>1. loops \subseteq 1 .. i - 1 /\ IsFiniteSet(loops) /\ Cardinality(loops) \in Nat
    BY <1>0, LoopsAreSteps
<1>2. i \notin loops
    BY <1>1
<1>3. Cardinality(loops \cup {i}) = Cardinality(loops) + 1
    BY <1>1, <1>2, FS_AddElement
<1>4. n = Cardinality(loops) /\ n \in Nat
    BY <1>1 DEF IsPath
<1>5. /\ \E S : longer \in Seq(S)
      /\ Len(longer) = n + 1 /\ longer[n + 1] = doc[i].id
      /\ \A r \in 1 .. n : longer[r] = path[r]
    <2>1. \E S : path \in Seq(S)
        BY DEF IsPath
    <2>2. /\ \E S : longer \in Seq(S)
          /\ Len(longer) = n + 1 /\ SameUpTo(path, longer, n) /\ longer[n + 1] = doc[i].id
        BY <2>1, OneMoreStep
    <2>. HIDE DEF longer
    <2>. QED
        BY <2>2 DEF SameUpTo
<1>6. Rank(doc, i) = n + 1
    BY <1>4 DEF Rank
<1>7. /\ \A j \in loops : Rank(doc, j) \in 1 .. n /\ path[Rank(doc, j)] = doc[j].id
      /\ \A r \in 1 .. n : \E j \in loops : Rank(doc, j) = r
    BY DEF IsPath
<1>. HIDE DEF loops, longer, n
<1>8. \A j \in loops \cup {i} : Rank(doc, j) \in 1 .. Len(longer) /\ longer[Rank(doc, j)] = doc[j].id
    BY <1>4, <1>5, <1>6, <1>7
<1>9. \A r \in 1 .. Len(longer) : \E j \in loops \cup {i} : Rank(doc, j) = r
    <2>1. \A r \in 1 .. Len(longer) : r \in 1 .. n \/ r = n + 1
        BY <1>4, <1>5
    <2>. QED
        BY <1>6, <1>7, <2>1
<1>10. Len(longer) = Cardinality(loops \cup {i})
    BY <1>3, <1>4, <1>5
<1>11. IsPath(doc, longer, loops \cup {i})
    BY <1>5, <1>8, <1>9, <1>10 DEF IsPath
<1>. QED
    BY <1>11 DEF loops, longer

(* Two steps have the same path when the same loops are around them.       *)
LEMMA PathsTell ==
    ASSUME NEW doc, NEW p, NEW q, NEW L, NEW M, IsPath(doc, p, L), IsPath(doc, q, M),
           \A a \in L, b \in M : doc[a].id = doc[b].id => a = b
    PROVE  p = q <=> L = M
<1>1. ASSUME p = q, NEW a \in L PROVE a \in M
    <2>1. Rank(doc, a) \in 1 .. Len(q) /\ q[Rank(doc, a)] = doc[a].id
        BY <1>1 DEF IsPath
    <2>2. PICK b \in M : Rank(doc, b) = Rank(doc, a)
        BY <2>1 DEF IsPath
    <2>3. doc[b].id = doc[a].id
        BY <2>1, <2>2 DEF IsPath
    <2>. QED
        BY <2>3
<1>2. ASSUME p = q, NEW b \in M PROVE b \in L
    <2>1. Rank(doc, b) \in 1 .. Len(p) /\ p[Rank(doc, b)] = doc[b].id
        BY <1>2 DEF IsPath
    <2>2. PICK a \in L : Rank(doc, a) = Rank(doc, b)
        BY <2>1 DEF IsPath
    <2>3. doc[b].id = doc[a].id
        BY <2>1, <2>2 DEF IsPath
    <2>. QED
        BY <2>3
<1>3. ASSUME L = M PROVE p = q
    <2>1. Len(p) = Len(q)
        BY <1>3 DEF IsPath
    <2>2. \A r \in 1 .. Len(p) : p[r] = q[r]
        <3>. SUFFICES ASSUME NEW r \in 1 .. Len(p) PROVE p[r] = q[r]
            OBVIOUS
        <3>1. PICK a \in L : Rank(doc, a) = r
            BY DEF IsPath
        <3>2. p[r] = doc[a].id
            BY <3>1 DEF IsPath
        <3>3. q[r] = doc[a].id
            BY <1>3, <3>1 DEF IsPath
        <3>. QED
            BY <3>2, <3>3
    <2>3. PICK S : p \in Seq(S)
        BY DEF IsPath
    <2>4. PICK T : q \in Seq(T)
        BY DEF IsPath
    <2>5. p \in Seq(S \cup T) /\ q \in Seq(S \cup T)
        BY <2>3, <2>4
    <2>. QED
        BY <2>1, <2>2, <2>5, SeqEqual
<1>. QED
    BY <1>1, <1>2, <1>3

\* A loop is around what follows it.
LEMMA LoopsNext ==
    ASSUME NEW doc, NEW i \in Nat \ {0}, doc[i].kind # "end"
    PROVE  LoopsAround(doc, i + 1) = IF doc[i].kind \in Loops THEN LoopsAround(doc, i) \cup {i}
                                     ELSE LoopsAround(doc, i)
<1>1. Enclosing(doc, i + 1) = IF doc[i].kind \in Blocks THEN Enclosing(doc, i) \cup {i} ELSE Enclosing(doc, i)
    BY EnclosingNext
<1>2. doc[i].kind \in Loops => doc[i].kind \in Blocks
    BY DEF Blocks
<1>. QED
    BY <1>1, <1>2 DEF LoopsAround

\* What is visible inside a block is what was visible outside, and its variable.
LEMMA BlockNames ==
    ASSUME NEW doc, NEW i \in Nat \ {0}, doc[i].kind \in Blocks
    PROVE  /\ Prior(doc, i + 1) = Prior(doc, i) /\ OutputIds(doc, i + 1) = OutputIds(doc, i)
           /\ ForVariables(doc, i + 1) = IF doc[i].kind = "for" THEN ForVariables(doc, i) \cup {doc[i].variable}
                                         ELSE ForVariables(doc, i)
           /\ InScope(doc, i + 1) = IF doc[i].kind = "for" THEN InScope(doc, i) \cup {doc[i].variable}
                                    ELSE InScope(doc, i)
           /\ Cardinality(Enclosing(doc, i + 1)) = Cardinality(Enclosing(doc, i)) + 1
<1>1. IsStep(doc, i) /\ doc[i].kind # "end"
    BY DEF IsStep, Blocks, Loops
<1>2. Before(doc, i + 1) = Before(doc, i) /\ Enclosing(doc, i + 1) = Enclosing(doc, i) \cup {i}
    BY <1>1, BeforeNext, EnclosingNext
<1>3. Prior(doc, i + 1) = Prior(doc, i) /\ OutputIds(doc, i + 1) = OutputIds(doc, i)
    BY <1>2 DEF Prior, OutputIds
<1>4. ForVariables(doc, i + 1) = IF doc[i].kind = "for" THEN ForVariables(doc, i) \cup {doc[i].variable}
                                 ELSE ForVariables(doc, i)
    <2>1. OfKind(doc, "for", Enclosing(doc, i + 1))
              = IF doc[i].kind = "for" THEN OfKind(doc, "for", Enclosing(doc, i)) \cup {i}
                ELSE OfKind(doc, "for", Enclosing(doc, i))
        BY <1>2 DEF OfKind
    <2>. QED
        BY <2>1 DEF ForVariables, Variables
<1>5. InScope(doc, i + 1) = IF doc[i].kind = "for" THEN InScope(doc, i) \cup {doc[i].variable}
                            ELSE InScope(doc, i)
    BY <1>2, <1>4 DEF InScope
<1>6. i \in Int /\ i \notin Enclosing(doc, i)
    BY EnclosingIsBefore
<1>7. IsFiniteSet(Enclosing(doc, i))
    BY <1>6, LoopsAreSteps
<1>8. Cardinality(Enclosing(doc, i + 1)) = Cardinality(Enclosing(doc, i)) + 1
    BY <1>2, <1>6, <1>7, FS_AddElement
<1>. QED
    BY <1>3, <1>4, <1>5, <1>8

\* The frame of a block says what is visible in it.
LEMMA OpenedFits ==
    ASSUME NEW doc, NEW i \in Nat \ {0}, doc[i].kind \in Blocks, NEW f, Describes(f, doc, i), NEW g,
           DOMAIN g = FrameFields, g.prior = f.prior, g.outputs = f.outputs,
           g.variables = (IF doc[i].kind = "for" THEN f.variables \cup {doc[i].variable} ELSE f.variables),
           g.bindings = (IF doc[i].kind = "for" THEN f.bindings \cup {doc[i].variable} ELSE f.bindings),
           g.path = (IF doc[i].kind \in Loops THEN Append(f.path, doc[i].id) ELSE f.path),
           g.depth = f.depth + 1
    PROVE  Describes(g, doc, i + 1)
<1>1. /\ f.prior = Prior(doc, i) /\ f.outputs = OutputIds(doc, i)
      /\ f.variables = InScope(doc, i) /\ f.bindings = ForVariables(doc, i)
      /\ f.depth = Cardinality(Enclosing(doc, i))
    BY DEF Describes
<1>2. g.prior = Prior(doc, i + 1) /\ g.outputs = OutputIds(doc, i + 1)
    BY <1>1, BlockNames
<1>3. /\ ForVariables(doc, i + 1) = IF doc[i].kind = "for" THEN ForVariables(doc, i) \cup {doc[i].variable}
                                    ELSE ForVariables(doc, i)
      /\ InScope(doc, i + 1) = IF doc[i].kind = "for" THEN InScope(doc, i) \cup {doc[i].variable}
                               ELSE InScope(doc, i)
    BY BlockNames
<1>4. g.variables = InScope(doc, i + 1) /\ g.bindings = ForVariables(doc, i + 1)
    <2>1. CASE doc[i].kind = "for"
        BY <1>1, <1>3, <2>1
    <2>2. CASE doc[i].kind # "for"
        BY <1>1, <1>3, <2>2
    <2>. QED
        BY <2>1, <2>2
<1>5. g.depth = Cardinality(Enclosing(doc, i + 1))
    BY <1>1, BlockNames
<1>6. IsPath(doc, g.path, LoopsAround(doc, i + 1))
    <2>1. doc[i].kind # "end"
        BY DEF Blocks, Loops
    <2>2. IsPath(doc, f.path, LoopsAround(doc, i))
        BY DEF Describes
    <2>3. CASE doc[i].kind \in Loops
        <3>1. IsPath(doc, Append(f.path, doc[i].id), LoopsAround(doc, i) \cup {i})
            BY <2>2, PathGrows
        <3>. QED
            BY <2>1, <2>3, <3>1, LoopsNext
    <2>4. CASE doc[i].kind \notin Loops
        BY <2>1, <2>2, <2>4, LoopsNext
    <2>. QED
        BY <2>3, <2>4
<1>. QED
    BY <1>2, <1>4, <1>5, <1>6 DEF Describes

\* What was visible before an If is visible in its second branch.
LEMMA SecondFits ==
    ASSUME NEW doc, NEW i \in Nat \ {0}, doc[i].kind = "else", NEW start, NEW f, Describes(f, doc, i),
           Enclosing(doc, i + 1) = Enclosing(doc, start), Before(doc, i + 1) = Before(doc, start), NEW g,
           DOMAIN g = FrameFields, g.prior = Prior(doc, start), g.outputs = OutputIds(doc, start),
           g.variables = InScope(doc, start), g.bindings = f.bindings, g.path = f.path, g.depth = f.depth
    PROVE  Describes(g, doc, i + 1)
<1>1. doc[i].kind # "end" /\ doc[i].kind \notin Blocks /\ doc[i].kind \notin Loops
    BY DEF Blocks, Loops
<1>2. Enclosing(doc, i + 1) = Enclosing(doc, i) /\ LoopsAround(doc, i + 1) = LoopsAround(doc, i)
    BY <1>1, EnclosingNext, LoopsNext
<1>3. /\ f.bindings = ForVariables(doc, i) /\ f.depth = Cardinality(Enclosing(doc, i))
      /\ IsPath(doc, f.path, LoopsAround(doc, i))
    BY DEF Describes
<1>4. ForVariables(doc, i + 1) = ForVariables(doc, i) /\ ForVariables(doc, i + 1) = ForVariables(doc, start)
    BY <1>2 DEF ForVariables
<1>5. /\ g.prior = Prior(doc, i + 1) /\ g.outputs = OutputIds(doc, i + 1) /\ g.variables = InScope(doc, i + 1)
    BY <1>4 DEF Prior, OutputIds, InScope
<1>6. g.bindings = ForVariables(doc, i + 1) /\ g.depth = Cardinality(Enclosing(doc, i + 1))
    BY <1>2, <1>3, <1>4
<1>7. IsPath(doc, g.path, LoopsAround(doc, i + 1))
    BY <1>2, <1>3
<1>. QED
    BY <1>5, <1>6, <1>7 DEF Describes

-----------------------------------------------------------------------------
(* The frames go on saying what is visible.                                *)

\* A sequence without its last element.
LEMMA FrontIs ==
    ASSUME NEW seq, \E S : seq \in Seq(S), Len(seq) >= 1
    PROVE  /\ \E S : Front(seq) \in Seq(S)
           /\ Len(seq) \in Nat \ {0} /\ Len(Front(seq)) = Len(seq) - 1
           /\ \A k \in 1 .. Len(seq) - 1 : Front(seq)[k] = seq[k]
<1>1. PICK S : seq \in Seq(S)
    OBVIOUS
<1>2. Len(seq) \in Nat
    BY <1>1
<1>3. 1 \in Int /\ Len(seq) - 1 \in Int /\ \A k \in 1 .. Len(seq) - 1 : seq[k] \in S
    BY <1>1, <1>2
<1>4. /\ SubSeq(seq, 1, Len(seq) - 1) \in Seq(S)
      /\ Len(SubSeq(seq, 1, Len(seq) - 1))
             = IF 1 <= Len(seq) - 1 THEN (Len(seq) - 1) - 1 + 1 ELSE 0
      /\ \A k \in 1 .. (Len(seq) - 1) - 1 + 1 : SubSeq(seq, 1, Len(seq) - 1)[k] = seq[1 + k - 1]
    BY <1>3, SubSeqProperties
<1>5. Front(seq) \in Seq(S)
    BY <1>4 DEF Front
<1>6. Len(Front(seq)) = Len(seq) - 1
    <2>. DEFINE l == Len(SubSeq(seq, 1, Len(seq) - 1))
                n == Len(seq)
    <2>1. l = IF 1 <= n - 1 THEN (n - 1) - 1 + 1 ELSE 0
        BY <1>4
    <2>2. n \in Nat /\ n >= 1
        BY <1>2
    <2>. HIDE DEF l, n
    <2>3. l = n - 1
        BY <2>1, <2>2
    <2>. QED
        BY <2>3 DEF l, n, Front
<1>7. \A k \in 1 .. Len(seq) - 1 : Front(seq)[k] = seq[k]
    <2>1. \A k \in 1 .. Len(seq) - 1 : k \in 1 .. (Len(seq) - 1) - 1 + 1 /\ 1 + k - 1 = k
        BY <1>2
    <2>. QED
        BY <1>4, <2>1 DEF Front
<1>. QED
    BY <1>2, <1>5, <1>6, <1>7

\* A sequence with another last element.
LEMMA LastReplaced ==
    ASSUME NEW seq, \E S : seq \in Seq(S), Len(seq) >= 1, NEW e, NEW longer, longer = Append(Front(seq), e)
    PROVE  /\ \E S : longer \in Seq(S)
           /\ Len(seq) \in Nat \ {0} /\ Len(longer) = Len(seq)
           /\ SameUpTo(seq, longer, Len(seq) - 1) /\ longer[Len(seq)] = e
<1>. DEFINE front == Front(seq)
<1>1. /\ \E S : front \in Seq(S)
      /\ Len(seq) \in Nat \ {0} /\ Len(front) = Len(seq) - 1
      /\ \A k \in 1 .. Len(seq) - 1 : front[k] = seq[k]
    BY FrontIs
<1>. HIDE DEF front
<1>2. /\ \E S : longer \in Seq(S)
      /\ Len(longer) = Len(front) + 1
      /\ SameUpTo(front, longer, Len(front)) /\ longer[Len(front) + 1] = e
    <2>1. longer = Append(front, e)
        BY DEF front
    <2>. QED
        BY <1>1, <2>1, OneMoreStep
<1>3. \A k \in 1 .. Len(seq) - 1 : longer[k] = seq[k]
    BY <1>1, <1>2 DEF SameUpTo
<1>4. Len(front) + 1 = Len(seq)
    BY <1>1
<1>5. SameUpTo(seq, longer, Len(seq) - 1)
    BY <1>3 DEF SameUpTo
<1>. QED
    BY <1>1, <1>2, <1>4, <1>5

\* A frame that is not touched says what it said.
LEMMA FrameStays ==
    ASSUME NEW doc, NEW more, NEW frames, NEW new, Len(frames) \in Nat, Len(doc) \in Nat, Len(new) \in Nat,
           SameUpTo(doc, more, Len(doc)), Nested(doc, frames), Fitting(doc, frames),
           NEW k \in 1 .. Len(frames), new[k] = frames[k],
           Reached(more, new, k) = Reached(doc, frames, k)
    PROVE  Describes(new[k], more, Reached(more, new, k))
<1>1. Describes(frames[k], doc, Reached(doc, frames, k))
    BY DEF Fitting
<1>2. Reached(doc, frames, k) \in 1 .. Len(doc) + 1
    BY ReachedIsOpen
<1>. QED
    BY <1>1, <1>2, SameDescription

\* What was visible before an open If stays so.
LEMMA BeforeStays ==
    ASSUME NEW doc, NEW more, NEW frames, NEW new, Len(frames) \in Nat, Len(doc) \in Nat,
           SameUpTo(doc, more, Len(doc)), Nested(doc, frames), Fitting(doc, frames),
           NEW k \in 2 .. Len(frames), new[k].opens = frames[k].opens, new[k].before = frames[k].before,
           more[new[k].opens].kind = "if"
    PROVE  new[k].before = <<Prior(more, new[k].opens + 1), OutputIds(more, new[k].opens + 1),
                             InScope(more, new[k].opens + 1)>>
<1>. DEFINE o == frames[k].opens
<1>1. o \in 1 .. Len(doc)
    BY DEF Nested
<1>2. doc[o] = more[o] /\ o + 1 \in 1 .. Len(doc) + 1
    BY <1>1 DEF SameUpTo
<1>3. frames[k].before = <<Prior(doc, o + 1), OutputIds(doc, o + 1), InScope(doc, o + 1)>>
    BY <1>2 DEF Fitting
<1>4. /\ Prior(more, o + 1) = Prior(doc, o + 1) /\ OutputIds(more, o + 1) = OutputIds(doc, o + 1)
      /\ InScope(more, o + 1) = InScope(doc, o + 1)
    BY <1>2, SameNames
<1>. HIDE DEF o
<1>5. frames[k].before = <<Prior(more, o + 1), OutputIds(more, o + 1), InScope(more, o + 1)>>
    BY <1>3, <1>4
<1>. QED
    BY <1>5 DEF o

\* A step that opens no block is published in the innermost frame.
LEMMA FittingLeaf ==
    ASSUME NEW doc, NEW more, NEW frames, NEW new, Len(frames) \in Nat, Len(doc) \in Nat,
           Len(more) = Len(doc) + 1, SameUpTo(doc, more, Len(doc)), Nested(doc, frames), Fitting(doc, frames),
           IsStep(more, Len(doc) + 1), more[Len(doc) + 1].kind \notin Blocks,
           Len(new) = Len(frames), \A k \in 1 .. Len(frames) - 1 : new[k] = frames[k],
           new[Len(frames)] = Publish(frames[Len(frames)], more[Len(doc) + 1])
    PROVE  Fitting(more, new)
<1>. DEFINE n == Len(doc)
            m == Len(frames)
<1>1. m \in Nat /\ m >= 1 /\ n \in Nat /\ Len(more) = n + 1 /\ Len(new) = m
    BY DEF Nested
<1>2. m \in 1 .. m /\ n + 1 \in Nat \ {0} /\ n + 1 \in 1 .. n + 1 /\ n + 1 \in 1 .. (n + 1) + 1
    BY <1>1
<1>3. Describes(frames[m], doc, n + 1)
    BY <1>2 DEF Fitting, Reached
<1>4. Describes(frames[m], more, n + 1) /\ DOMAIN frames[m] = FrameFields
    BY <1>2, <1>3, SameDescription DEF Describes
<1>5. new[m].opens = frames[m].opens /\ new[m].before = frames[m].before
    BY <1>4 DEF Publish, FrameFields
<1>6. Describes(new[m], more, (n + 1) + 1)
    <2>1. more[n + 1].kind # "end"
        BY DEF IsStep
    <2>2. Enclosing(more, (n + 1) + 1) = Enclosing(more, n + 1)
        BY <1>2, <2>1, EnclosingNext
    <2>3. Before(more, (n + 1) + 1) = Before(more, n + 1) \cup {n + 1}
        BY <1>2, BeforeNext
    <2>4. Describes(Publish(frames[m], more[n + 1]), more, (n + 1) + 1)
        BY <1>4, <2>2, <2>3, Published
    <2>. QED
        BY <2>4
<1>7. ASSUME NEW k \in 1 .. m, k # m PROVE Describes(new[k], more, Reached(more, new, k))
    <2>1. new[k] = frames[k] /\ k \in 1 .. m - 1 /\ k + 1 \in 1 .. m
        BY <1>1, <1>7
    <2>2. new[k + 1].opens = frames[k + 1].opens
        <3>1. CASE k + 1 = m
            BY <1>5, <3>1
        <3>2. CASE k + 1 # m
            <4>1. k + 1 \in 1 .. m - 1
                BY <1>1, <2>1, <3>2
            <4>. QED
                BY <4>1
        <3>. QED
            BY <3>1, <3>2
    <2>3. Reached(more, new, k) = Reached(doc, frames, k)
        BY <1>1, <1>7, <2>2 DEF Reached
    <2>. QED
        BY <1>1, <2>1, <2>3, FrameStays
<1>8. \A k \in 1 .. m : Describes(new[k], more, Reached(more, new, k))
    <2>1. Reached(more, new, m) = (n + 1) + 1
        BY <1>1 DEF Reached
    <2>. QED
        BY <1>6, <1>7, <2>1
<1>9. ASSUME NEW k \in 2 .. m, more[new[k].opens].kind = "if"
      PROVE  new[k].before = <<Prior(more, new[k].opens + 1), OutputIds(more, new[k].opens + 1),
                               InScope(more, new[k].opens + 1)>>
    <2>1. new[k].opens = frames[k].opens /\ new[k].before = frames[k].before
        <3>1. CASE k = m
            BY <1>5, <3>1
        <3>2. CASE k # m
            <4>1. k \in 1 .. m - 1
                BY <1>1, <3>2
            <4>. QED
                BY <4>1
        <3>. QED
            BY <3>1, <3>2
    <2>. QED
        BY <1>9, <2>1, BeforeStays
<1>. QED
    BY <1>1, <1>8, <1>9 DEF Fitting

\* A block gets a frame of its own.
LEMMA FittingOpens ==
    ASSUME NEW doc, NEW more, NEW frames, NEW new, NEW g, Len(frames) \in Nat, Len(doc) \in Nat,
           Len(more) = Len(doc) + 1, SameUpTo(doc, more, Len(doc)), Nested(doc, frames), Fitting(doc, frames),
           more[Len(doc) + 1].kind \in Blocks,
           Len(new) = Len(frames) + 1, \A k \in 1 .. Len(frames) : new[k] = frames[k],
           new[Len(frames) + 1] = g, g.opens = Len(doc) + 1, g.before = <<g.prior, g.outputs, g.variables>>,
           Describes(frames[Len(frames)], more, Len(doc) + 1)
               => Describes(g, more, (Len(doc) + 1) + 1)
    PROVE  Fitting(more, new)
<1>. DEFINE n == Len(doc)
            m == Len(frames)
<1>1. m \in Nat /\ m >= 1 /\ n \in Nat /\ Len(more) = n + 1 /\ Len(new) = m + 1
    BY DEF Nested
<1>2. m \in 1 .. m /\ n + 1 \in Nat \ {0} /\ n + 1 \in 1 .. n + 1
    BY <1>1
<1>3. Describes(frames[m], doc, n + 1)
    BY <1>2 DEF Fitting, Reached
<1>4. Describes(frames[m], more, n + 1)
    BY <1>2, <1>3, SameDescription
<1>5. Describes(g, more, (n + 1) + 1)
    BY <1>4
<1>6. ASSUME NEW k \in 1 .. m PROVE Describes(new[k], more, Reached(more, new, k))
    <2>1. Reached(more, new, k) = Reached(doc, frames, k)
        <3>1. CASE k = m
            BY <1>1, <3>1 DEF Reached
        <3>2. CASE k # m
            <4>1. k + 1 \in 1 .. m /\ k # m + 1
                BY <1>1, <3>2
            <4>. QED
                BY <1>1, <3>2, <4>1 DEF Reached
        <3>. QED
            BY <3>1, <3>2
    <2>2. new[k] = frames[k]
        OBVIOUS
    <2>3. Len(new) \in Nat
        BY <1>1
    <2>. QED
        BY <1>1, <2>1, <2>2, <2>3, FrameStays
<1>7. \A k \in 1 .. m + 1 : Describes(new[k], more, Reached(more, new, k))
    <2>1. Reached(more, new, m + 1) = (n + 1) + 1 /\ new[m + 1] = g
        BY <1>1 DEF Reached
    <2>2. \A k \in 1 .. m + 1 : k \in 1 .. m \/ k = m + 1
        BY <1>1
    <2>. QED
        BY <1>5, <1>6, <2>1, <2>2
<1>8. ASSUME NEW k \in 2 .. m + 1, more[new[k].opens].kind = "if"
      PROVE  new[k].before = <<Prior(more, new[k].opens + 1), OutputIds(more, new[k].opens + 1),
                               InScope(more, new[k].opens + 1)>>
    <2>1. CASE k = m + 1
        <3>1. new[k] = g /\ g.opens = n + 1
            BY <2>1
        <3>2. g.prior = Prior(more, (n + 1) + 1) /\ g.outputs = OutputIds(more, (n + 1) + 1)
              /\ g.variables = InScope(more, (n + 1) + 1)
            BY <1>5 DEF Describes
        <3>. QED
            BY <3>1, <3>2
    <2>2. CASE k # m + 1
        <3>1. k \in 2 .. m /\ k \in 1 .. m
            BY <1>1, <2>2
        <3>2. new[k].opens = frames[k].opens /\ new[k].before = frames[k].before
            BY <3>1
        <3>. QED
            BY <1>8, <3>1, <3>2, BeforeStays
    <2>. QED
        BY <2>1, <2>2
<1>. QED
    BY <1>1, <1>7, <1>8 DEF Fitting

\* The second branch of the innermost If begins.
LEMMA FittingElse ==
    ASSUME NEW doc, NEW more, NEW frames, NEW new, NEW g, Len(frames) \in Nat, Len(doc) \in Nat,
           Len(more) = Len(doc) + 1, SameUpTo(doc, more, Len(doc)), Nested(doc, frames), Fitting(doc, frames),
           more[Len(doc) + 1].kind = "else", Len(frames) > 1,
           doc[frames[Len(frames)].opens].kind = "if", ~frames[Len(frames)].second,
           Len(new) = Len(frames), \A k \in 1 .. Len(frames) - 1 : new[k] = frames[k],
           new[Len(frames)] = [frames[Len(frames)] EXCEPT !.second = TRUE,
                                                          !.prior = frames[Len(frames)].before[1],
                                                          !.outputs = frames[Len(frames)].before[2],
                                                          !.variables = frames[Len(frames)].before[3]]
    PROVE  Fitting(more, new)
<1>. DEFINE n == Len(doc)
            m == Len(frames)
            o == frames[m].opens
<1>1. m \in Nat /\ m > 1 /\ n \in Nat /\ Len(more) = n + 1 /\ Len(new) = m
    BY DEF Nested
<1>2. m \in 1 .. m /\ m \in 2 .. m /\ n + 1 \in Nat \ {0} /\ n + 1 \in 1 .. n + 1
    BY <1>1
<1>3. Describes(frames[m], doc, n + 1)
    BY <1>2 DEF Fitting, Reached
<1>4. Describes(frames[m], more, n + 1) /\ DOMAIN frames[m] = FrameFields
    BY <1>2, <1>3, SameDescription DEF Describes
<1>5. new[m].opens = o /\ new[m].before = frames[m].before
    BY <1>4 DEF FrameFields
<1>6. /\ o \in 1 .. n /\ Level(more, o) = m - 2 /\ Level(more, n + 1) = m - 1
      /\ \A p \in o + 1 .. n + 1 : Level(more, p) >= m - 1
      /\ ~InElse(more, o, n + 1)
    BY <1>2, FramesKnown
<1>7. more[o] = doc[o] /\ o + 1 \in 1 .. n + 1 /\ o \in Nat \ {0} /\ o < n + 1
    BY <1>6 DEF SameUpTo
<1>8. Enclosing(more, n + 1) = Enclosing(more, o + 1)
    <2>1. Enclosing(doc, n + 1) = OpenAt(frames, m)
        BY <1>2, ReachedIsOpen DEF Reached
    <2>2. Enclosing(doc, o + 1) = OpenAt(frames, m)
        BY <1>1, InnermostIsOpen
    <2>3. Enclosing(more, n + 1) = Enclosing(doc, n + 1)
        BY <1>2, SameEnclosing
    <2>4. Enclosing(more, o + 1) = Enclosing(doc, o + 1)
        BY <1>7, SameEnclosing
    <2>. QED
        BY <2>1, <2>2, <2>3, <2>4
<1>9. frames[m].before = <<Prior(more, o + 1), OutputIds(more, o + 1), InScope(more, o + 1)>>
    <2>1. frames[m].before = <<Prior(doc, o + 1), OutputIds(doc, o + 1), InScope(doc, o + 1)>>
        BY <1>2 DEF Fitting
    <2>2. /\ Prior(more, o + 1) = Prior(doc, o + 1) /\ OutputIds(more, o + 1) = OutputIds(doc, o + 1)
          /\ InScope(more, o + 1) = InScope(doc, o + 1)
        BY <1>7, SameNames
    <2>. QED
        BY <2>1, <2>2
<1>. HIDE DEF o
<1>10. /\ Enclosing(more, (n + 1) + 1) = Enclosing(more, o + 1)
       /\ Before(more, (n + 1) + 1) = Before(more, o + 1)
    <2>1. \A p \in o + 1 .. n + 1 : Level(more, p) >= Level(more, o) + 1
        BY <1>1, <1>6
    <2>2. Level(more, n + 1) = Level(more, o) + 1
        BY <1>1, <1>6
    <2>3. more[o].kind = "if" /\ n + 1 \in Nat
        BY <1>1, <1>7 DEF o
    <2>. DEFINE i == n + 1
    <2>4. /\ o \in Nat \ {0} /\ i \in Nat /\ o < i /\ more[o].kind = "if" /\ more[i].kind = "else"
          /\ \A p \in o + 1 .. i : Level(more, p) >= Level(more, o) + 1
          /\ Level(more, i) = Level(more, o) + 1 /\ ~InElse(more, o, i)
          /\ Enclosing(more, i) = Enclosing(more, o + 1)
        BY <1>6, <1>7, <1>8, <2>1, <2>2, <2>3
    <2>. HIDE DEF i
    <2>5. Enclosing(more, i + 1) = Enclosing(more, o + 1) /\ Before(more, i + 1) = Before(more, o + 1)
        BY <2>4, BeforeElse
    <2>. QED
        BY <2>5 DEF i
<1>11. Describes(new[m], more, (n + 1) + 1)
    <2>. DEFINE f == frames[m]
                g1 == new[m]
    <2>1. /\ DOMAIN g1 = FrameFields /\ g1.prior = Prior(more, o + 1) /\ g1.outputs = OutputIds(more, o + 1)
          /\ g1.variables = InScope(more, o + 1) /\ g1.bindings = f.bindings /\ g1.path = f.path
          /\ g1.depth = f.depth
        BY <1>4, <1>9 DEF FrameFields
    <2>2. Describes(f, more, n + 1)
        BY <1>4
    <2>. HIDE DEF f, g1
    <2>3. Describes(g1, more, (n + 1) + 1)
        BY SMTT(30), <1>2, <1>10, <2>1, <2>2, SecondFits
    <2>. QED
        BY <2>3 DEF g1
<1>12. ASSUME NEW k \in 1 .. m, k # m PROVE Describes(new[k], more, Reached(more, new, k))
    <2>1. new[k] = frames[k] /\ k \in 1 .. m - 1 /\ k + 1 \in 1 .. m
        BY <1>1, <1>12
    <2>2. new[k + 1].opens = frames[k + 1].opens
        <3>1. CASE k + 1 = m
            BY <1>5, <3>1 DEF o
        <3>2. CASE k + 1 # m
            <4>1. k + 1 \in 1 .. m - 1
                BY <1>1, <2>1, <3>2
            <4>. QED
                BY <4>1
        <3>. QED
            BY <3>1, <3>2
    <2>3. Reached(more, new, k) = Reached(doc, frames, k)
        BY <1>1, <1>12, <2>2 DEF Reached
    <2>. QED
        BY <1>1, <2>1, <2>3, FrameStays
<1>13. \A k \in 1 .. m : Describes(new[k], more, Reached(more, new, k))
    <2>1. Reached(more, new, m) = (n + 1) + 1
        BY <1>1 DEF Reached
    <2>. QED
        BY <1>11, <1>12, <2>1
<1>14. ASSUME NEW k \in 2 .. m, more[new[k].opens].kind = "if"
      PROVE  new[k].before = <<Prior(more, new[k].opens + 1), OutputIds(more, new[k].opens + 1),
                               InScope(more, new[k].opens + 1)>>
    <2>1. new[k].opens = frames[k].opens /\ new[k].before = frames[k].before
        <3>1. CASE k = m
            BY <1>5, <3>1 DEF o
        <3>2. CASE k # m
            <4>1. k \in 1 .. m - 1
                BY <1>1, <3>2
            <4>. QED
                BY <4>1
        <3>. QED
            BY <3>1, <3>2
    <2>. QED
        BY <1>14, <2>1, BeforeStays
<1>. QED
    BY <1>1, <1>13, <1>14 DEF Fitting

\* The innermost block ends and leaves its own id behind.
LEMMA FittingCloses ==
    ASSUME NEW doc, NEW more, NEW frames, NEW new, Len(frames) \in Nat, Len(doc) \in Nat,
           Len(more) = Len(doc) + 1, SameUpTo(doc, more, Len(doc)), Nested(doc, frames), Fitting(doc, frames),
           more[Len(doc) + 1].kind = "end", Len(frames) > 1, Nested(more, new),
           Len(new) = Len(frames) - 1, \A k \in 1 .. Len(frames) - 2 : new[k] = frames[k],
           new[Len(frames) - 1] = Publish(frames[Len(frames) - 1], doc[frames[Len(frames)].opens])
    PROVE  Fitting(more, new)
<1>. DEFINE n == Len(doc)
            m == Len(frames)
            o == frames[m].opens
            t == m - 1
<1>1. /\ m \in Nat /\ m > 1 /\ n \in Nat /\ Len(more) = n + 1 /\ Len(new) = t /\ t \in Nat
      /\ t >= 1 /\ m = t + 1 /\ m - 2 = t - 1
    BY DEF Nested
<1>2. /\ m \in 2 .. m /\ t \in 1 .. m /\ t \in 1 .. t /\ t # m /\ n + 1 \in Nat \ {0} /\ n + 1 \in 1 .. n + 1
    BY <1>1
<1>3. Reached(doc, frames, t) = o
    BY <1>1, <1>2 DEF Reached
<1>4. Describes(frames[t], doc, o)
    BY <1>2, <1>3 DEF Fitting
<1>5. /\ o \in 1 .. n /\ more[o].kind \in Blocks /\ Level(more, o) = m - 2
      /\ \A p \in o + 1 .. n + 1 : Level(more, p) >= m - 1
    BY <1>2, FramesKnown
<1>6. more[o] = doc[o] /\ o \in 1 .. n + 1 /\ o \in Nat \ {0} /\ o < n + 1
    BY <1>5 DEF SameUpTo
<1>7. Describes(frames[t], more, o) /\ DOMAIN frames[t] = FrameFields
    BY <1>4, <1>6, SameDescription DEF Describes
<1>8. new[t].opens = frames[t].opens /\ new[t].before = frames[t].before
    BY <1>7 DEF Publish, FrameFields
<1>9. \A k \in 1 .. t : new[k].opens = frames[k].opens /\ new[k].before = frames[k].before
    <2>1. \A k \in 1 .. t : k = t \/ k \in 1 .. m - 2
        BY <1>1
    <2>. QED
        BY <1>8, <2>1
<1>. HIDE DEF o, t
<1>10. Enclosing(more, (n + 1) + 1) = Enclosing(more, o)
    <2>1. Enclosing(doc, o) = OpenAt(frames, t)
        BY <1>2, <1>3, ReachedIsOpen
    <2>2. Enclosing(more, Reached(more, new, t)) = OpenAt(new, t)
        BY <1>1, <1>2, ReachedIsOpen
    <2>3. Reached(more, new, t) = (n + 1) + 1
        BY <1>1 DEF Reached
    <2>4. OpenAt(new, t) = OpenAt(frames, t)
        <3>1. \A l \in 2 .. t : l \in 1 .. t
            OBVIOUS
        <3>. QED
            BY <1>9, <3>1 DEF OpenAt
    <2>5. Enclosing(more, o) = Enclosing(doc, o)
        BY <1>6, SameEnclosing
    <2>. QED
        BY <2>1, <2>2, <2>3, <2>4, <2>5
<1>11. Before(more, (n + 1) + 1) = Before(more, o) \cup {o}
    <2>. DEFINE i == n + 1
    <2>1. /\ o \in Nat \ {0} /\ i \in Nat /\ o < i /\ more[o].kind \in Blocks /\ more[i].kind = "end"
          /\ \A p \in o + 1 .. i : Level(more, p) >= Level(more, o) + 1
          /\ Enclosing(more, i + 1) = Enclosing(more, o)
        <3>1. m - 1 = Level(more, o) + 1
            BY <1>1, <1>5
        <3>. QED
            BY <1>2, <1>5, <1>6, <1>10, <3>1
    <2>. HIDE DEF i
    <2>2. Before(more, i + 1) = Before(more, o) \cup {o}
        BY <2>1, BeforeEnd
    <2>. QED
        BY <2>2 DEF i
<1>12. Describes(new[t], more, (n + 1) + 1)
    <2>1. Describes(Publish(frames[t], more[o]), more, (n + 1) + 1)
        BY <1>7, <1>10, <1>11, Published
    <2>2. new[t] = Publish(frames[t], more[o])
        BY <1>6 DEF t, o
    <2>. QED
        BY <2>1, <2>2
<1>13. ASSUME NEW k \in 1 .. t, k # t PROVE Describes(new[k], more, Reached(more, new, k))
    <2>1. k \in 1 .. m - 2 /\ k \in 1 .. m /\ k + 1 \in 1 .. t /\ k # m
        BY <1>1, <1>13
    <2>2. new[k] = frames[k] /\ new[k + 1].opens = frames[k + 1].opens
        BY <1>9, <2>1
    <2>3. Reached(more, new, k) = Reached(doc, frames, k)
        BY <1>1, <1>13, <2>1, <2>2 DEF Reached
    <2>. QED
        BY <1>1, <2>1, <2>2, <2>3, FrameStays
<1>14. \A k \in 1 .. t : Describes(new[k], more, Reached(more, new, k))
    <2>1. Reached(more, new, t) = (n + 1) + 1
        BY <1>1 DEF Reached
    <2>. QED
        BY <1>12, <1>13, <2>1
<1>15. ASSUME NEW k \in 2 .. t, more[new[k].opens].kind = "if"
       PROVE  new[k].before = <<Prior(more, new[k].opens + 1), OutputIds(more, new[k].opens + 1),
                                InScope(more, new[k].opens + 1)>>
    <2>1. k \in 2 .. m /\ k \in 1 .. t
        BY <1>1
    <2>2. new[k].opens = frames[k].opens /\ new[k].before = frames[k].before
        BY <1>9, <2>1
    <2>3. /\ Len(frames) \in Nat /\ Len(doc) \in Nat /\ k \in 2 .. Len(frames)
          /\ SameUpTo(doc, more, Len(doc)) /\ Nested(doc, frames) /\ Fitting(doc, frames)
        BY <2>1
    <2>. QED
        BY ONLY <1>15, <2>2, <2>3, BeforeStays
<1>. QED
    BY <1>1, <1>14, <1>15 DEF Fitting

-----------------------------------------------------------------------------
(* A step is judged as it should be.                                       *)

\* The steps of a document with one step or mark more.
LEMMA StepsOfMore ==
    ASSUME NEW doc, NEW more, Len(doc) \in Nat, Len(more) = Len(doc) + 1, SameUpTo(doc, more, Len(doc))
    PROVE  /\ \A j \in 1 .. Len(doc) : more[j] = doc[j] /\ (IsStep(more, j) <=> IsStep(doc, j))
           /\ Places(more) = IF IsStep(more, Len(doc) + 1) THEN Places(doc) \cup {Len(doc) + 1} ELSE Places(doc)
           /\ Places(doc) \subseteq 1 .. Len(doc)
<1>1. \A j \in 1 .. Len(doc) : more[j] = doc[j] /\ (IsStep(more, j) <=> IsStep(doc, j))
    BY DEF SameUpTo, IsStep
<1>2. \A j : j \in 1 .. Len(more) <=> j \in 1 .. Len(doc) \/ j = Len(doc) + 1
    OBVIOUS
<1>. QED
    BY <1>1, <1>2 DEF Places

\* Which steps a well-formed step may name as its input.
LEMMA InputResolves ==
    ASSUME NEW more, NEW n \in Nat, DOMAIN more = 1 .. n + 1
    PROVE  /\ \A ref : ref \in Prior(more, n + 1) <=>
                  \E j \in DOMAIN more : IsStep(more, j) /\ more[j].id = ref /\ Precedes(more, j, n + 1)
           /\ \A name : name \in InScope(more, n + 1) <=>
                  \/ \E j \in DOMAIN more : /\ more[j].kind = "set-variable"
                                            /\ more[j].variable = name /\ Precedes(more, j, n + 1)
                  \/ \E j \in Enclosing(more, n + 1) : more[j].kind = "for" /\ more[j].variable = name
<1>1. \A j \in DOMAIN more : Precedes(more, j, n + 1) => j \in 1 .. (n + 1) - 1
    BY DEF Precedes
<1>2. \A j \in 1 .. (n + 1) - 1 : j \in DOMAIN more
    OBVIOUS
<1>3. \A j : j \in Before(more, n + 1) <=> j \in DOMAIN more /\ IsStep(more, j) /\ Precedes(more, j, n + 1)
    BY <1>1, <1>2 DEF Before
<1>4. \A j : more[j].kind = "set-variable" => IsStep(more, j)
    BY DEF IsStep
<1>. QED
    BY <1>3, <1>4 DEF Prior, InScope, ForVariables, Ids, Variables, OfKind

\* The ids of a well-formed document are unique.
LEMMA IdsAreUnique ==
    ASSUME NEW doc, WellFormed(doc), DOMAIN doc = 1 .. Len(doc), Len(doc) \in Nat
    PROVE  \A a, b \in Places(doc) : doc[a].id = doc[b].id => a = b
<1>1. \A i \in 1 .. Len(doc) : IsStep(doc, i) =>
          \A j \in 1 .. i - 1 : IsStep(doc, j) => doc[j].id # doc[i].id
    BY DEF WellFormed, WellFormedStep
<1>2. ASSUME NEW a \in Places(doc), NEW b \in Places(doc), doc[a].id = doc[b].id, a < b PROVE FALSE
    <2>1. a \in 1 .. b - 1 /\ b \in 1 .. Len(doc) /\ IsStep(doc, a) /\ IsStep(doc, b)
        BY <1>2 DEF Places
    <2>. QED
        BY <1>1, <1>2, <2>1
<1>3. \A a, b \in Places(doc) : a \in Int /\ b \in Int /\ (a < b \/ b < a \/ a = b)
    BY DEF Places
<1>. QED
    BY <1>2, <1>3

\* A page is one page of one loop, whichever way it is found.
LEMMA OutputIsJudged ==
    ASSUME Remembered(steps, check), WellFormed(steps), Len(steps) \in Nat, DOMAIN steps = 1 .. Len(steps),
           DOMAIN check.pages = 1 .. Len(check.pages),
           NEW more, Len(more) = Len(steps) + 1, SameUpTo(steps, more, Len(steps)), PagesAgree(more),
           NEW step, more[Len(steps) + 1] = step, step.kind = "output",
           IsPath(more, Top.path, LoopsAround(more, Len(steps) + 1))
    PROVE  ValidOutput(step) <=>
               \A j \in {j \in 1 .. (Len(steps) + 1) - 1 : more[j].kind = "output"} :
                  /\ more[j].name # step.name
                  /\ more[j].page.folded = step.page.folded =>
                        /\ more[j].page = step.page
                        /\ LoopsAround(more, j) = LoopsAround(more, Len(steps) + 1)
<1>. DEFINE n == Len(steps)
            outs == Outs(steps)
            pages == check.pages
            Around(j) == LoopsAround(more, j)
<1>1. \A j \in 1 .. n : more[j] = steps[j]
    BY DEF SameUpTo
<1>2. outs = {j \in 1 .. (n + 1) - 1 : more[j].kind = "output"}
    BY <1>1 DEF Outs, OfKind, Places, IsStep
<1>3. \A j \in outs : j \in 1 .. n /\ j \in Places(steps) /\ j \in Places(more) /\ more[j] = steps[j]
    BY <1>1, StepsOfMore DEF Outs, OfKind, Places
<1>4. n + 1 \in Places(more)
    <2>1. n + 1 \in 1 .. Len(more) /\ IsStep(more, n + 1)
        BY DEF IsStep
    <2>. QED
        BY <2>1 DEF Places
<1>5. /\ check.names = {more[j].name : j \in outs}
      /\ \A p \in DOMAIN pages : \E j \in outs :
            /\ pages[p].name = more[j].page.name /\ pages[p].folded = more[j].page.folded
            /\ IsPath(steps, pages[p].row_scope, LoopsAround(steps, j))
      /\ \A j \in outs : \E p \in DOMAIN pages : pages[p].name = more[j].page.name
    <2>1. /\ check.names = {steps[j].name : j \in outs}
          /\ \A p \in 1 .. Len(pages) : \E j \in outs :
                /\ pages[p].name = steps[j].page.name /\ pages[p].folded = steps[j].page.folded
                /\ IsPath(steps, pages[p].row_scope, LoopsAround(steps, j))
          /\ \A j \in outs : \E p \in 1 .. Len(pages) : pages[p].name = steps[j].page.name
        BY DEF Remembered, Paged
    <2>2. \A j \in outs : more[j] = steps[j]
        BY <1>3
    <2>3. DOMAIN pages = 1 .. Len(pages)
        OBVIOUS
    <2>. HIDE DEF outs, pages
    <2>4. {steps[j].name : j \in outs} = {more[j].name : j \in outs}
        BY ONLY <2>2
    <2>5. check.names = {more[j].name : j \in outs}
        BY ONLY <2>1, <2>4
    <2>. QED
        BY ZenonT(40), <2>1, <2>2, <2>3, <2>5
<1>6. ASSUME NEW j \in outs, NEW scope, IsPath(steps, scope, LoopsAround(steps, j))
      PROVE  scope = Top.path <=> Around(j) = Around(n + 1)
    <2>1. j \in Int /\ j \in 1 .. n + 1 /\ n + 1 \in Int
        BY <1>3
    <2>2. LoopsAround(steps, j) = Around(j)
        BY <2>1, SameLoops
    <2>3. Around(j) \subseteq 1 .. j - 1 /\ Around(n + 1) \subseteq 1 .. (n + 1) - 1
          /\ (\A a \in Around(j) : IsStep(more, a)) /\ (\A a \in Around(n + 1) : IsStep(more, a))
        BY <2>1, LoopsAreSteps
    <2>4. Around(j) \in SUBSET (1 .. n)
        BY <2>1, <2>3
    <2>5. IsPath(more, scope, Around(j))
        BY <1>6, <2>2, <2>4, SamePath
    <2>6. \A a \in Around(j), b \in Around(n + 1) : more[a].id = more[b].id => a = b
        <3>1. Around(n + 1) \subseteq 1 .. n
            BY <2>3
        <3>2. \A a \in 1 .. n : IsStep(more, a) => a \in Places(steps) /\ more[a] = steps[a]
            BY <1>1 DEF Places, IsStep
        <3>3. \A a, b \in Places(steps) : steps[a].id = steps[b].id => a = b
            BY IdsAreUnique
        <3>. QED
            BY <2>3, <2>4, <3>1, <3>2, <3>3
    <2>. QED
        BY <2>5, <2>6, PathsTell
<1>7. \A i, j \in Places(more) : more[i].page.name = more[j].page.name => more[i].page = more[j].page
    BY DEF PagesAgree
<1>8. ASSUME NEW i \in outs, NEW j \in outs, more[i].page.folded = more[j].page.folded
      PROVE  more[i].page = more[j].page /\ Around(i) = Around(j)
    <2>1. ASSUME NEW a \in outs, NEW b \in outs, a < b, more[a].page.folded = more[b].page.folded
          PROVE  more[a].page = more[b].page /\ Around(a) = Around(b)
        <3>1. WellFormedStep(steps, b) /\ steps[b].kind = "output" /\ a \in 1 .. b - 1 /\ steps[a].kind = "output"
            BY <1>3, <2>1 DEF WellFormed, Outs, OfKind, Places
        <3>2. steps[a].page = steps[b].page /\ LoopsAround(steps, a) = LoopsAround(steps, b)
            BY <1>3, <2>1, <3>1 DEF WellFormedStep
        <3>3. LoopsAround(steps, a) = Around(a) /\ LoopsAround(steps, b) = Around(b)
            <4>1. a \in 1 .. n + 1 /\ b \in 1 .. n + 1
                BY <1>3
            <4>. QED
                BY <4>1, SameLoops
        <3>. QED
            BY <1>3, <3>2, <3>3
    <2>2. i \in Int /\ j \in Int
        BY <1>3
    <2>3. i < j \/ j < i \/ i = j
        BY <2>2
    <2>. QED
        BY <1>8, <2>1, <2>3
<1>9. more[n + 1] = step
    OBVIOUS
<1>. HIDE DEF outs, n, pages, Around
<1>10. PagesOf(step.page) = {p \in DOMAIN pages : pages[p].name = step.page.name}
    BY DEF PagesOf, pages
<1>11. ASSUME ValidOutput(step), NEW j \in outs
       PROVE  /\ more[j].name # step.name
              /\ more[j].page.folded = step.page.folded =>
                     more[j].page = step.page /\ Around(j) = Around(n + 1)
    <2>1. more[j].name # step.name
        BY <1>5, <1>11 DEF ValidOutput
    <2>2. ASSUME more[j].page.folded = step.page.folded
          PROVE  more[j].page = step.page /\ Around(j) = Around(n + 1)
        <3>1. PICK p \in DOMAIN pages : pages[p].name = more[j].page.name
            BY <1>5
        <3>2. PICK i \in outs : pages[p].name = more[i].page.name /\ pages[p].folded = more[i].page.folded
            BY <1>5
        <3>3. more[i].page = more[j].page
            BY <1>3, <1>7, <3>1, <3>2
        <3>4. pages[p].folded = step.page.folded
            BY <2>2, <3>2, <3>3
        <3>5. PagesOf(step.page) # {}
            BY <1>11, <3>4 DEF ValidOutput, pages
        <3>6. PICK q \in DOMAIN pages : pages[q].name = step.page.name
            BY <1>10, <3>5
        <3>7. PICK k \in outs : /\ pages[q].name = more[k].page.name
                                /\ IsPath(steps, pages[q].row_scope, LoopsAround(steps, k))
            BY <1>5
        <3>8. more[k].page = step.page
            BY <1>3, <1>4, <1>7, <1>9, <3>6, <3>7
        <3>9. more[k].page = more[j].page /\ Around(k) = Around(j)
            BY <1>8, <2>2, <3>8
        <3>10. pages[q].row_scope = Top.path
            BY <1>10, <1>11, <3>5, <3>6 DEF ValidOutput, pages
        <3>11. Around(k) = Around(n + 1)
            BY <1>6, <3>7, <3>10
        <3>. QED
            BY <3>8, <3>9, <3>11
    <2>. QED
        BY <2>1, <2>2
<1>12. ASSUME \A j \in outs : /\ more[j].name # step.name
                              /\ more[j].page.folded = step.page.folded =>
                                    more[j].page = step.page /\ Around(j) = Around(n + 1)
       PROVE  ValidOutput(step)
    <2>1. step.name \notin check.names
        BY <1>5, <1>12
    <2>2. ASSUME NEW q \in PagesOf(step.page) PROVE pages[q].row_scope = Top.path
        <3>1. q \in DOMAIN pages /\ pages[q].name = step.page.name
            BY <1>10
        <3>2. PICK k \in outs : /\ pages[q].name = more[k].page.name
                                /\ IsPath(steps, pages[q].row_scope, LoopsAround(steps, k))
            BY <1>5, <3>1
        <3>3. more[k].page = step.page
            BY <1>3, <1>4, <1>7, <1>9, <3>1, <3>2
        <3>4. Around(k) = Around(n + 1)
            BY <1>12, <3>3
        <3>. QED
            BY <1>6, <3>2, <3>4
    <2>3. ASSUME PagesOf(step.page) = {}, NEW p \in DOMAIN pages, pages[p].folded = step.page.folded PROVE FALSE
        <3>1. PICK i \in outs : pages[p].name = more[i].page.name /\ pages[p].folded = more[i].page.folded
            BY <1>5
        <3>2. more[i].page = step.page
            BY <1>12, <2>3, <3>1
        <3>3. p \in PagesOf(step.page)
            BY <1>10, <3>1, <3>2
        <3>. QED
            BY <2>3, <3>3
    <2>4. IF PagesOf(step.page) # {}
          THEN \A i \in PagesOf(step.page) : check.pages[i].row_scope = Top.path
          ELSE \A i \in DOMAIN check.pages : check.pages[i].folded # step.page.folded
        BY <2>2, <2>3 DEF pages
    <2>. QED
        BY <2>1, <2>4 DEF ValidOutput
<1>13. ValidOutput(step) <=> \A j \in outs : /\ more[j].name # step.name
                                             /\ more[j].page.folded = step.page.folded =>
                                                   more[j].page = step.page /\ Around(j) = Around(n + 1)
    BY <1>11, <1>12
<1>. QED
    BY <1>2, <1>13 DEF n, Around

\* What a message shows is an output that has been taken.
LEMMA MessageIsJudged ==
    ASSUME WellFormed(steps), Len(steps) \in Nat, DOMAIN steps = 1 .. Len(steps),
           NEW more, DOMAIN more = 1 .. Len(steps) + 1, SameUpTo(steps, more, Len(steps)),
           NEW ref, ref \in Prior(more, Len(steps) + 1)
    PROVE  ref \in OutputIds(more, Len(steps) + 1) <=>
               \E j \in {j \in 1 .. (Len(steps) + 1) - 1 : more[j].kind = "output"} : more[j].id = ref
<1>. DEFINE n == Len(steps)
            before == Before(more, n + 1)
<1>1. before \subseteq 1 .. n /\ \A j \in before : IsStep(more, j)
    <2>1. n + 1 \in Int
        OBVIOUS
    <2>. QED
        BY <2>1, EnclosingIsBefore
<1>2. \A a, b \in 1 .. n : IsStep(more, a) /\ IsStep(more, b) /\ more[a].id = more[b].id => a = b
    <2>1. \A a \in 1 .. n : IsStep(more, a) => a \in Places(steps) /\ more[a] = steps[a]
        BY DEF Places, IsStep, SameUpTo
    <2>. QED
        BY <2>1, IdsAreUnique
<1>3. PICK b \in before : more[b].id = ref
    BY DEF Prior, Ids
<1>4. ASSUME NEW j \in 1 .. n, more[j].kind = "output", more[j].id = ref PROVE ref \in OutputIds(more, n + 1)
    <2>1. IsStep(more, j)
        BY <1>4 DEF IsStep
    <2>2. j = b
        BY <1>1, <1>2, <1>3, <1>4, <2>1
    <2>3. j \in OfKind(more, "output", before)
        BY <1>4, <2>2 DEF OfKind
    <2>. QED
        BY <1>4, <2>3 DEF OutputIds, Ids
<1>5. ASSUME ref \in OutputIds(more, n + 1) PROVE \E j \in 1 .. n : more[j].kind = "output" /\ more[j].id = ref
    <2>1. PICK j \in OfKind(more, "output", before) : more[j].id = ref
        BY <1>5 DEF OutputIds, Ids
    <2>. QED
        BY <1>1, <2>1 DEF OfKind
<1>6. (n + 1) - 1 = n
    OBVIOUS
<1>. QED
    BY <1>4, <1>5, <1>6

\* An input is accepted when it resolves.
LEMMA InputIsJudged ==
    ASSUME Len(steps) \in Nat, NEW more, DOMAIN more = 1 .. Len(steps) + 1,
           NEW step, more[Len(steps) + 1] = step, Describes(Top, more, Len(steps) + 1)
    PROVE  validate_input(step) <=> Resolves(more, Len(steps) + 1)
<1>. DEFINE n == Len(steps)
            Ref(name) == \E j \in DOMAIN more : IsStep(more, j) /\ more[j].id = name /\ Precedes(more, j, n + 1)
            Var(name) == \/ \E j \in DOMAIN more : /\ more[j].kind = "set-variable"
                                                   /\ more[j].variable = name /\ Precedes(more, j, n + 1)
                         \/ \E j \in Enclosing(more, n + 1) : more[j].kind = "for" /\ more[j].variable = name
<1>1. Top.prior = Prior(more, n + 1) /\ Top.variables = InScope(more, n + 1)
    BY DEF Describes
<1>2. /\ \A ref : ref \in Prior(more, n + 1) <=> Ref(ref)
      /\ \A name : name \in InScope(more, n + 1) <=> Var(name)
    BY InputResolves
<1>3. (step.ref \in Top.prior <=> Ref(step.ref)) /\ (step.read \in Top.variables <=> Var(step.read))
    BY <1>1, <1>2
<1>4. Resolves(more, n + 1) <=> /\ step.uses = "step" => Ref(step.ref)
                                /\ step.uses = "variable" => Var(step.read)
    BY DEF Resolves
<1>5. validate_input(step) <=> /\ step.uses = "step" => step.ref \in Top.prior
                               /\ step.uses = "variable" => step.read \in Top.variables
    BY DEF validate_input
<1>. HIDE DEF Ref, Var
<1>. QED
    BY <1>3, <1>4, <1>5

\* The validator lets a step pass exactly when it is well formed where it stands.
LEMMA StepIsJudged ==
    ASSUME Remembered(steps, check), WellFormed(steps), Len(steps) \in Nat, DOMAIN steps = 1 .. Len(steps),
           DOMAIN check.pages = 1 .. Len(check.pages), Describes(Top, steps, Len(steps) + 1),
           NEW more, Len(more) = Len(steps) + 1, DOMAIN more = 1 .. Len(steps) + 1,
           SameUpTo(steps, more, Len(steps)), PagesAgree(more), NEW step, more[Len(steps) + 1] = step
    PROVE  Valid(step) <=> WellFormedStep(more, Len(steps) + 1)
<1>. DEFINE n == Len(steps)
            Earlier == {j \in 1 .. (n + 1) - 1 : more[j].kind = "output"}
            Unique == \A j \in 1 .. (n + 1) - 1 : IsStep(more, j) => more[j].id # step.id
            Alone == LoopsAround(more, n + 1) = {} /\ (n + 1 < Len(more) => more[(n + 1) + 1].kind # "end")
            Free == \A j \in Enclosing(more, n + 1) : more[j].kind = "for" => more[j].variable # step.variable
            OnPage == \A j \in Earlier :
                        /\ more[j].name # step.name
                        /\ more[j].page.folded = step.page.folded =>
                              more[j].page = step.page /\ LoopsAround(more, j) = LoopsAround(more, n + 1)
            Taken == \E j \in Earlier : more[j].id = step.ref
<1>1. Describes(Top, more, n + 1)
    <2>1. n + 1 \in 1 .. n + 1
        OBVIOUS
    <2>. QED
        BY <2>1, SameDescription
<1>2. step.id \notin check.seen <=> Unique
    <2>1. check.seen = Ids(steps, Places(steps))
        BY DEF Remembered
    <2>2. \A j \in 1 .. n : more[j] = steps[j] /\ (IsStep(more, j) <=> j \in Places(steps))
        BY DEF SameUpTo, Places, IsStep
    <2>3. Places(steps) \subseteq 1 .. n
        BY DEF Places
    <2>4. Ids(steps, Places(steps)) = {steps[j].id : j \in Places(steps)}
        BY DEF Ids
    <2>. QED
        BY <2>1, <2>2, <2>3, <2>4
<1>3. validate_input(step) <=> Resolves(more, n + 1)
    BY <1>1, InputIsJudged
<1>4. Top.depth = Cardinality(Enclosing(more, n + 1))
    BY <1>1 DEF Describes
<1>5. Top.path = <<>> <=> Alone
    <2>1. Len(Top.path) = Cardinality(LoopsAround(more, n + 1)) /\ \E S : Top.path \in Seq(S)
        BY <1>1 DEF Describes, IsPath
    <2>2. Top.path = <<>> <=> Len(Top.path) = 0
        BY <2>1
    <2>3. n + 1 \in Int
        OBVIOUS
    <2>4. IsFiniteSet(LoopsAround(more, n + 1))
        BY <2>3, LoopsAreSteps
    <2>5. Cardinality(LoopsAround(more, n + 1)) = 0 <=> LoopsAround(more, n + 1) = {}
        BY <2>4, FS_EmptySet
    <2>6. ~(n + 1 < Len(more))
        OBVIOUS
    <2>. QED
        BY <2>1, <2>2, <2>5, <2>6
<1>6. step.variable \notin Top.bindings <=> Free
    <2>1. Top.bindings = {more[j].variable : j \in {j \in Enclosing(more, n + 1) : more[j].kind = "for"}}
        BY <1>1 DEF Describes, ForVariables, Variables, OfKind
    <2>. QED
        BY <2>1
<1>7. step.kind = "output" => (ValidOutput(step) <=> OnPage)
    <2>1. IsPath(more, Top.path, LoopsAround(more, n + 1))
        BY <1>1 DEF Describes
    <2>. QED
        BY <2>1, OutputIsJudged
<1>8. validate_input(step) /\ step.uses = "step" => (step.ref \in Top.outputs <=> Taken)
    <2>1. Top.prior = Prior(more, n + 1) /\ Top.outputs = OutputIds(more, n + 1)
        BY <1>1 DEF Describes
    <2>2. validate_input(step) /\ step.uses = "step" => step.ref \in Prior(more, n + 1)
        BY <2>1 DEF validate_input
    <2>. QED
        BY <2>1, <2>2, MessageIsJudged
<1>9. WellFormedStep(more, n + 1) <=>
         /\ Local(step) /\ Unique /\ Resolves(more, n + 1)
         /\ step.kind \in Blocks => Cardinality(Enclosing(more, n + 1)) < MaxDepth
         /\ step.kind = "while" /\ step.limit = None => Alone
         /\ step.kind = "set-variable" => Free
         /\ step.kind = "output" => OnPage
         /\ step.kind = "show-message" /\ step.uses = "step" => Taken
    BY DEF WellFormedStep
<1>10. Valid(step) <=>
         /\ step.id \notin check.seen /\ Local(step) /\ validate_input(step)
         /\ step.kind \in Blocks => Top.depth < MaxDepth
         /\ step.kind = "while" /\ step.limit = None => Top.path = <<>>
         /\ step.kind = "set-variable" => step.variable \notin Top.bindings
         /\ step.kind = "output" => ValidOutput(step)
         /\ step.kind = "show-message" /\ step.uses = "step" => step.ref \in Top.outputs
    BY DEF Valid, ValidWhile, ValidSetVariable, ValidMessage
<1>. HIDE DEF Earlier, Unique, Alone, Free, OnPage, Taken
<1>. QED
    BY <1>2, <1>3, <1>4, <1>5, <1>6, <1>7, <1>8, <1>9, <1>10

\* What was read before is judged as it was, but for a While whose end comes at once.
LEMMA EarlierStays ==
    ASSUME NEW doc, NEW more, Len(doc) \in Nat, DOMAIN doc = 1 .. Len(doc),
           Len(more) = Len(doc) + 1, DOMAIN more = 1 .. Len(doc) + 1, SameUpTo(doc, more, Len(doc)),
           NEW i \in 1 .. Len(doc)
    PROVE  WellFormedStep(more, i) <=>
               /\ WellFormedStep(doc, i)
               /\ ~(/\ doc[i].kind = "while" /\ doc[i].limit = None /\ i = Len(doc)
                    /\ more[Len(doc) + 1].kind = "end")
<1>. DEFINE n == Len(doc)
            Earlier(d, kind) == {j \in 1 .. i - 1 : d[j].kind = kind}
            Unique(d) == \A j \in 1 .. i - 1 : IsStep(d, j) => d[j].id # d[i].id
            Alone(d) == LoopsAround(d, i) = {} /\ (i < Len(d) => d[i + 1].kind # "end")
            Free(d) == \A j \in Enclosing(d, i) : d[j].kind = "for" => d[j].variable # d[i].variable
            OnPage(d) == \A j \in Earlier(d, "output") :
                           /\ d[j].name # d[i].name
                           /\ d[j].page.folded = d[i].page.folded =>
                                 d[j].page = d[i].page /\ LoopsAround(d, j) = LoopsAround(d, i)
            Taken(d) == \E j \in Earlier(d, "output") : d[j].id = d[i].ref
            Rest(d) == /\ Local(d[i]) /\ Unique(d) /\ Resolves(d, i)
                       /\ d[i].kind \in Blocks => Cardinality(Enclosing(d, i)) < MaxDepth
                       /\ d[i].kind = "set-variable" => Free(d)
                       /\ d[i].kind = "output" => OnPage(d)
                       /\ d[i].kind = "show-message" /\ d[i].uses = "step" => Taken(d)
<1>1. \A d : WellFormedStep(d, i) <=> Rest(d) /\ (d[i].kind = "while" /\ d[i].limit = None => Alone(d))
    BY DEF WellFormedStep
<1>2. /\ more[i] = doc[i] /\ \A j \in 1 .. i - 1 : more[j] = doc[j] /\ (IsStep(more, j) <=> IsStep(doc, j))
      /\ i \in 1 .. n + 1 /\ i \in Int
    BY DEF SameUpTo, IsStep
<1>3. Enclosing(more, i) = Enclosing(doc, i) /\ Enclosing(doc, i) \subseteq 1 .. i - 1
    BY <1>2, SameEnclosing, EnclosingIsBefore
<1>4. LoopsAround(more, i) = LoopsAround(doc, i)
    BY <1>2, SameLoops
<1>5. \A j \in 1 .. i - 1 : LoopsAround(more, j) = LoopsAround(doc, j)
    <2>1. \A j \in 1 .. i - 1 : j \in 1 .. n + 1
        OBVIOUS
    <2>. QED
        BY <2>1, SameLoops
<1>6. Unique(more) <=> Unique(doc)
    BY <1>2
<1>7. Free(more) <=> Free(doc)
    BY <1>2, <1>3
<1>8. Earlier(more, "output") = Earlier(doc, "output") /\ Earlier(doc, "output") \subseteq 1 .. i - 1
    BY <1>2
<1>9. OnPage(more) <=> OnPage(doc)
    BY <1>2, <1>4, <1>5, <1>8
<1>10. Taken(more) <=> Taken(doc)
    BY <1>2, <1>8
<1>11. Resolves(more, i) <=> Resolves(doc, i)
    <2>1. \A j \in 1 .. i - 1 : Precedes(more, j, i) <=> Precedes(doc, j, i)
        <3>1. \A j \in 1 .. i - 1 : j \in 1 .. n + 1
            OBVIOUS
        <3>. QED
            BY <1>2, <3>1, SamePrecedes
    <2>2. \A j \in DOMAIN more : Precedes(more, j, i) => j \in 1 .. i - 1
        BY DEF Precedes
    <2>3. \A j \in DOMAIN doc : Precedes(doc, j, i) => j \in 1 .. i - 1
        BY DEF Precedes
    <2>4. \A j \in 1 .. i - 1 : j \in DOMAIN more /\ j \in DOMAIN doc
        OBVIOUS
    <2>. QED
        BY <1>2, <1>3, <2>1, <2>2, <2>3, <2>4 DEF Resolves
<1>12. Alone(more) <=> Alone(doc) /\ ~(i = n /\ more[n + 1].kind = "end")
    <2>1. CASE i = n
        BY <1>4, <2>1
    <2>2. CASE i # n
        <3>0. i \in Nat /\ n \in Nat /\ i <= n /\ i >= 1 /\ Len(more) = n + 1
            OBVIOUS
        <3>1. i < n /\ i + 1 \in 1 .. n /\ i < Len(more)
            <4>. HIDE DEF n
            <4>. QED
                BY <2>2, <3>0
        <3>2. more[i + 1] = doc[i + 1]
            BY <3>1 DEF SameUpTo
        <3>. QED
            BY <1>4, <2>2, <3>1, <3>2
    <2>. QED
        BY <2>1, <2>2
<1>. HIDE DEF Unique, Alone, Free, OnPage, Taken
<1>13. Rest(more) <=> Rest(doc)
    BY <1>2, <1>3, <1>6, <1>7, <1>9, <1>10, <1>11
<1>. HIDE DEF Rest
<1>. QED
    BY <1>1, <1>2, <1>12, <1>13

\* A step added to a well-formed document.
LEMMA OneMoreIsWellFormed ==
    ASSUME NEW doc, NEW more, Len(doc) \in Nat, DOMAIN doc = 1 .. Len(doc),
           Len(more) = Len(doc) + 1, DOMAIN more = 1 .. Len(doc) + 1, SameUpTo(doc, more, Len(doc)),
           WellFormed(doc)
    PROVE  WellFormed(more) <=>
               /\ IsStep(more, Len(doc) + 1) => WellFormedStep(more, Len(doc) + 1)
               /\ ~(/\ Len(doc) > 0 /\ doc[Len(doc)].kind = "while" /\ doc[Len(doc)].limit = None
                    /\ more[Len(doc) + 1].kind = "end")
<1>. DEFINE n == Len(doc)
            Empty == /\ n > 0 /\ doc[n].kind = "while" /\ doc[n].limit = None
                     /\ more[n + 1].kind = "end"
<1>1. \A i \in 1 .. n : IsStep(more, i) <=> IsStep(doc, i)
    BY DEF SameUpTo, IsStep
<1>2. \A i \in 1 .. n : IsStep(doc, i) => WellFormedStep(doc, i)
    BY DEF WellFormed
<1>3. \A i \in 1 .. n : IsStep(doc, i) => (WellFormedStep(more, i) <=> ~(i = n /\ Empty))
    <2>. SUFFICES ASSUME NEW i \in 1 .. n, IsStep(doc, i) PROVE WellFormedStep(more, i) <=> ~(i = n /\ Empty)
        OBVIOUS
    <2>1. WellFormedStep(more, i) <=>
              /\ WellFormedStep(doc, i)
              /\ ~(/\ doc[i].kind = "while" /\ doc[i].limit = None /\ i = n
                   /\ more[n + 1].kind = "end")
        BY EarlierStays
    <2>2. WellFormedStep(doc, i)
        BY ONLY <1>2, i \in 1 .. n, IsStep(doc, i)
    <2>3. CASE i # n
        BY ONLY <2>1, <2>2, <2>3
    <2>4. CASE i = n
        <3>1. n > 0
            BY <2>4
        <3>. QED
            BY ONLY <2>1, <2>2, <2>4, <3>1
    <2>. QED
        BY ONLY <2>3, <2>4
<1>4. Empty => n \in 1 .. n /\ IsStep(doc, n)
    BY DEF IsStep
<1>5. \A i : i \in DOMAIN more <=> i \in 1 .. n \/ i = n + 1
    OBVIOUS
<1>6. WellFormed(more) <=> \A i \in DOMAIN more : IsStep(more, i) => WellFormedStep(more, i)
    BY DEF WellFormed
<1>. HIDE DEF Empty
<1>7. WellFormed(more) <=> (IsStep(more, n + 1) => WellFormedStep(more, n + 1)) /\ ~Empty
    BY <1>1, <1>3, <1>4, <1>5, <1>6
<1>. QED
    BY <1>7 DEF Empty

\* A block that has just been opened is the innermost.
LEMMA JustOpened ==
    ASSUME NEW doc, NEW frames, Len(frames) \in Nat, Len(doc) \in Nat, Nested(doc, frames),
           Len(doc) > 0, doc[Len(doc)].kind \in Blocks, Len(frames) > 1
    PROVE  frames[Len(frames)].opens = Len(doc)
<1>. DEFINE n == Len(doc)
            m == Len(frames)
<1>1. n \in Nat \ {0} /\ m \in 1 .. m /\ m \in 2 .. m /\ doc[n].kind # "end"
    BY DEF Blocks, Loops
<1>2. Enclosing(doc, n + 1) = OpenAt(frames, m)
    BY <1>1, ReachedIsOpen DEF Reached
<1>3. n \in Enclosing(doc, n + 1)
    BY <1>1, EnclosingNext
<1>4. PICK l \in 2 .. m : frames[l].opens = n
    BY <1>2, <1>3 DEF OpenAt
<1>5. frames[m].opens \in 1 .. n
    BY <1>1 DEF Nested
<1>6. l # m => frames[l].opens < frames[m].opens
    <2>1. l # m => l < m
        BY <1>1
    <2>. QED
        BY <1>1, <2>1, OpensGrow
<1>. QED
    BY <1>4, <1>5, <1>6

-----------------------------------------------------------------------------
(* What is remembered.                                                     *)

\* The pages of a document are those of a longer one.
LEMMA PagesStay ==
    ASSUME NEW doc, NEW more, NEW n \in Nat, SameUpTo(doc, more, n), NEW outs \in SUBSET (1 .. n), NEW pages,
           Paged(doc, pages, outs)
    PROVE  Paged(more, pages, outs)
<1>1. \A j \in outs : j \in 1 .. n + 1 /\ j \in Int /\ doc[j] = more[j]
    <2>1. \A j \in outs : j \in 1 .. n
        OBVIOUS
    <2>2. \A j \in 1 .. n : j \in 1 .. n + 1 /\ j \in Int
        OBVIOUS
    <2>. QED
        BY <2>1, <2>2 DEF SameUpTo
<1>2. ASSUME NEW j \in outs, NEW scope, IsPath(doc, scope, LoopsAround(doc, j))
      PROVE  IsPath(more, scope, LoopsAround(more, j))
    <2>1. LoopsAround(more, j) = LoopsAround(doc, j)
        BY <1>1, SameLoops
    <2>2. LoopsAround(doc, j) \subseteq 1 .. j - 1 /\ j \in 1 .. n
        BY <1>1, LoopsAreSteps
    <2>3. LoopsAround(doc, j) \in SUBSET (1 .. n)
        BY <2>2
    <2>. QED
        BY <1>2, <2>1, <2>3, SamePath
<1>. QED
    BY ZenonT(40), <1>1, <1>2 DEF Paged

\* An output adds a column to its page, or a page of the loops it stands in.
LEMMA PageAdded ==
    ASSUME \E S : check.pages \in Seq(S),
           \A p \in 1 .. Len(check.pages) : DOMAIN check.pages[p] = PageFields,
           NEW doc, NEW outs, NEW k, NEW step, doc[k] = step, Paged(doc, check.pages, outs),
           IsPath(doc, Top.path, LoopsAround(doc, k))
    PROVE  /\ \E S : AddToPage(step) \in Seq(S)
           /\ \A p \in 1 .. Len(AddToPage(step)) : DOMAIN AddToPage(step)[p] = PageFields
           /\ Paged(doc, AddToPage(step), outs \cup {k})
<1>. DEFINE pages == check.pages
            more == AddToPage(step)
            l == Len(pages)
<1>1. DOMAIN pages = 1 .. l /\ l \in Nat
    OBVIOUS
<1>2. PagesOf(step.page) = {p \in 1 .. l : pages[p].name = step.page.name}
    BY <1>1 DEF PagesOf
<1>3. \A p \in 1 .. l : DOMAIN pages[p] = PageFields
    OBVIOUS
<1>4. /\ \A p \in 1 .. l : \E j \in outs : /\ pages[p].name = doc[j].page.name
                                           /\ pages[p].folded = doc[j].page.folded
                                           /\ IsPath(doc, pages[p].row_scope, LoopsAround(doc, j))
      /\ \A j \in outs : \E p \in 1 .. l : pages[p].name = doc[j].page.name
    BY DEF Paged
<1>5. CASE PagesOf(step.page) # {}
    <2>1. more = [p \in 1 .. l |-> IF p \in PagesOf(step.page)
                                   THEN [pages[p] EXCEPT !.headers = Append(@, step.name)] ELSE pages[p]]
        BY <1>1, <1>5 DEF AddToPage
    <2>2. \A p \in 1 .. l : /\ more[p].name = pages[p].name /\ more[p].folded = pages[p].folded
                            /\ more[p].row_scope = pages[p].row_scope /\ DOMAIN more[p] = PageFields
        BY <1>3, <2>1 DEF PageFields
    <2>. DEFINE T == {more[p] : p \in 1 .. l}
    <2>3. more \in Seq(T) /\ Len(more) = l
        <3>1. DOMAIN more = 1 .. l /\ more = [p \in 1 .. l |-> more[p]]
            BY <2>1
        <3>2. \A p \in 1 .. l : more[p] \in T
            OBVIOUS
        <3>. HIDE DEF more, pages, l, T
        <3>3. more \in [1 .. l -> T] /\ l \in Nat
            BY <1>1, <3>1, <3>2
        <3>. QED
            BY <3>3
    <2>. HIDE DEF more, pages, l, T
    <2>4. \A p \in 1 .. Len(more) : \E j \in outs \cup {k} :
             /\ more[p].name = doc[j].page.name /\ more[p].folded = doc[j].page.folded
             /\ IsPath(doc, more[p].row_scope, LoopsAround(doc, j))
        BY <1>4, <2>2, <2>3
    <2>5. \A j \in outs \cup {k} : \E p \in 1 .. Len(more) : more[p].name = doc[j].page.name
        BY <1>2, <1>4, <1>5, <2>2, <2>3
    <2>6. Paged(doc, more, outs \cup {k})
        BY <2>4, <2>5 DEF Paged
    <2>7. \A p \in 1 .. Len(more) : DOMAIN more[p] = PageFields
        BY <2>2, <2>3
    <2>. QED
        BY <2>3, <2>6, <2>7 DEF more
<1>6. CASE PagesOf(step.page) = {}
    <2>. DEFINE page == [name |-> step.page.name, folded |-> step.page.folded,
                         row_scope |-> Top.path, headers |-> <<step.name>>]
    <2>1. more = Append(pages, page)
        BY <1>6 DEF AddToPage
    <2>2. /\ \E S : more \in Seq(S)
          /\ Len(more) = l + 1 /\ SameUpTo(pages, more, l) /\ more[l + 1] = page
        <3>1. \E S : pages \in Seq(S)
            OBVIOUS
        <3>. HIDE DEF pages, page, more
        <3>. QED
            BY <2>1, <3>1, OneMoreStep
    <2>3. /\ page.name = step.page.name /\ page.folded = step.page.folded /\ page.row_scope = Top.path
          /\ DOMAIN page = PageFields
        BY DEF PageFields
    <2>4. \A p \in 1 .. l : more[p] = pages[p]
        BY <2>2 DEF SameUpTo
    <2>. HIDE DEF more, pages, l, page
    <2>5. \A p \in 1 .. l + 1 : p \in 1 .. l \/ p = l + 1
        BY <1>1
    <2>6. \A p \in 1 .. l : p \in 1 .. l + 1
        BY <1>1
    <2>7. \A p \in 1 .. Len(more) : \E j \in outs \cup {k} :
             /\ more[p].name = doc[j].page.name /\ more[p].folded = doc[j].page.folded
             /\ IsPath(doc, more[p].row_scope, LoopsAround(doc, j))
        BY <1>4, <2>2, <2>3, <2>4, <2>5
    <2>8. \A j \in outs \cup {k} : \E p \in 1 .. Len(more) : more[p].name = doc[j].page.name
        <3>1. l + 1 \in 1 .. l + 1
            BY <1>1
        <3>. QED
            BY <1>4, <2>2, <2>3, <2>4, <2>6, <3>1
    <2>9. Paged(doc, more, outs \cup {k})
        BY <2>7, <2>8 DEF Paged
    <2>10. \A p \in 1 .. Len(more) : DOMAIN more[p] = PageFields
        BY <1>3, <2>2, <2>3, <2>4, <2>5
    <2>. QED
        BY <2>2, <2>9, <2>10 DEF more
<1>. QED
    BY <1>5, <1>6

-----------------------------------------------------------------------------
(* The validator stays exact.                                              *)

\* A document that is read on, and its innermost frame.
LEMMA Reading ==
    ASSUME Understood(steps, check), NEW step
    PROVE  /\ Len(steps) \in Nat /\ DOMAIN steps = 1 .. Len(steps)
           /\ \E S : Append(steps, step) \in Seq(S)
           /\ Len(Append(steps, step)) = Len(steps) + 1 /\ DOMAIN Append(steps, step) = 1 .. Len(steps) + 1
           /\ SameUpTo(steps, Append(steps, step), Len(steps)) /\ Append(steps, step)[Len(steps) + 1] = step
           /\ Len(check.frames) \in Nat /\ Len(check.frames) >= 1
           /\ DOMAIN check.pages = 1 .. Len(check.pages)
           /\ Describes(Top, steps, Len(steps) + 1)
<1>1. (\E S : steps \in Seq(S)) /\ (\E S : check.frames \in Seq(S)) /\ (\E S : check.pages \in Seq(S))
    BY DEF Understood
<1>2. /\ \E S : Append(steps, step) \in Seq(S)
      /\ Len(steps) \in Nat /\ Len(Append(steps, step)) = Len(steps) + 1
      /\ SameUpTo(steps, Append(steps, step), Len(steps)) /\ Append(steps, step)[Len(steps) + 1] = step
    BY <1>1, OneMoreStep
<1>3. DOMAIN steps = 1 .. Len(steps) /\ DOMAIN check.pages = 1 .. Len(check.pages)
    BY <1>1
<1>4. DOMAIN Append(steps, step) = 1 .. Len(steps) + 1
    <2>. DEFINE more == Append(steps, step)
    <2>. HIDE DEF more
    <2>1. (\E S : more \in Seq(S)) /\ Len(more) = Len(steps) + 1
        BY <1>2 DEF more
    <2>2. DOMAIN more = 1 .. Len(more)
        BY <2>1
    <2>. QED
        BY <2>1, <2>2 DEF more
<1>5. Len(check.frames) \in Nat /\ Len(check.frames) >= 1
    BY <1>1 DEF Understood, Nested
<1>6. Describes(Top, steps, Len(steps) + 1)
    <2>1. Len(check.frames) \in 1 .. Len(check.frames)
        BY <1>5
    <2>2. Describes(check.frames[Len(check.frames)], steps, Reached(steps, check.frames, Len(check.frames)))
        BY <2>1 DEF Understood, Fitting
    <2>. QED
        BY <2>2 DEF Reached, Top, Last
<1>. QED
    BY <1>2, <1>3, <1>4, <1>5, <1>6

\* A step that is accepted is remembered.
LEMMA StepRemembered ==
    ASSUME Understood(steps, check), NEW step, step.kind \notin {"else", "end"}, NEW memory,
           memory.seen = check.seen \cup {step.id},
           memory.names = (IF step.kind = "output" THEN check.names \cup {step.name} ELSE check.names),
           memory.pages = (IF step.kind = "output" THEN AddToPage(step) ELSE check.pages)
    PROVE  /\ Remembered(Append(steps, step), memory)
           /\ \E S : memory.pages \in Seq(S)
           /\ \A p \in 1 .. Len(memory.pages) : DOMAIN memory.pages[p] = PageFields
<1>. DEFINE n == Len(steps)
            more == Append(steps, step)
            old == Outs(steps)
<1>1. /\ n \in Nat /\ Len(more) = n + 1 /\ SameUpTo(steps, more, n) /\ more[n + 1] = step
      /\ Describes(Top, steps, n + 1)
    BY Reading
<1>2. /\ Remembered(steps, check)
      /\ \E S : check.pages \in Seq(S)
      /\ \A p \in 1 .. Len(check.pages) : DOMAIN check.pages[p] = PageFields
    BY DEF Understood
<1>. HIDE DEF more, n
<1>3. IsStep(more, n + 1)
    BY <1>1 DEF IsStep
<1>4. /\ Places(more) = Places(steps) \cup {n + 1} /\ Places(steps) \subseteq 1 .. n
      /\ \A j \in 1 .. n : more[j] = steps[j]
    BY <1>1, <1>3, StepsOfMore DEF n
<1>5. memory.seen = Ids(more, Places(more))
    <2>1. Ids(more, Places(more)) = Ids(steps, Places(steps)) \cup {step.id}
        BY <1>1, <1>4 DEF Ids
    <2>. QED
        BY <1>2, <2>1 DEF Remembered
<1>6. /\ Outs(more) = IF step.kind = "output" THEN old \cup {n + 1} ELSE old
      /\ old \subseteq 1 .. n
    BY <1>1, <1>4 DEF Outs, OfKind
<1>7. check.names = {more[j].name : j \in old}
    <2>1. \A j \in old : more[j] = steps[j]
        BY <1>4, <1>6
    <2>. HIDE DEF old
    <2>2. {steps[j].name : j \in old} = {more[j].name : j \in old}
        BY <2>1
    <2>. QED
        BY <1>2, <2>2 DEF Remembered, old
<1>8. Paged(more, check.pages, old)
    <2>1. Paged(steps, check.pages, old)
        BY <1>2 DEF Remembered
    <2>2. old \in SUBSET (1 .. n)
        BY <1>6
    <2>. HIDE DEF old
    <2>. QED
        BY <1>1, <2>1, <2>2, PagesStay
<1>. HIDE DEF old
<1>9. CASE step.kind = "output"
    <2>1. memory.names = {more[j].name : j \in Outs(more)}
        BY <1>1, <1>6, <1>7, <1>9
    <2>2. IsPath(more, Top.path, LoopsAround(more, n + 1))
        <3>1. n + 1 \in 1 .. n + 1
            BY <1>1
        <3>2. Describes(Top, more, n + 1)
            BY <1>1, <3>1, SameDescription
        <3>. QED
            BY <3>2 DEF Describes
    <2>3. /\ \E S : AddToPage(step) \in Seq(S)
          /\ \A p \in 1 .. Len(AddToPage(step)) : DOMAIN AddToPage(step)[p] = PageFields
          /\ Paged(more, AddToPage(step), old \cup {n + 1})
        BY <1>1, <1>2, <1>8, <2>2, PageAdded
    <2>4. memory.pages = AddToPage(step) /\ Outs(more) = old \cup {n + 1}
        BY <1>6, <1>9
    <2>5. Remembered(more, memory)
        BY <1>5, <2>1, <2>3, <2>4 DEF Remembered
    <2>. QED
        BY <2>3, <2>4, <2>5 DEF more
<1>10. CASE step.kind # "output"
    <2>1. memory.names = check.names /\ memory.pages = check.pages /\ Outs(more) = old
        BY <1>6, <1>10
    <2>2. Remembered(more, memory)
        BY <1>5, <1>7, <1>8, <2>1 DEF Remembered
    <2>. QED
        BY <1>2, <2>1, <2>2 DEF more
<1>. QED
    BY <1>9, <1>10

\* Neither the mark of a second branch nor an end is remembered.
LEMMA MarkRemembered ==
    ASSUME Understood(steps, check), NEW mark, mark.kind \in {"else", "end"}, NEW memory,
           memory.seen = check.seen, memory.names = check.names, memory.pages = check.pages
    PROVE  Remembered(Append(steps, mark), memory)
<1>. DEFINE n == Len(steps)
            more == Append(steps, mark)
            old == Outs(steps)
<1>1. n \in Nat /\ Len(more) = n + 1 /\ SameUpTo(steps, more, n) /\ more[n + 1] = mark
    BY Reading
<1>2. Remembered(steps, check)
    BY DEF Understood
<1>. HIDE DEF more, n
<1>3. ~IsStep(more, n + 1)
    BY <1>1 DEF IsStep
<1>4. /\ Places(more) = Places(steps) /\ Places(steps) \subseteq 1 .. n
      /\ \A j \in 1 .. n : more[j] = steps[j]
    BY <1>1, <1>3, StepsOfMore DEF n
<1>5. Ids(more, Places(more)) = Ids(steps, Places(steps))
    BY <1>4 DEF Ids
<1>6. Outs(more) = old /\ old \in SUBSET (1 .. n)
    BY <1>4 DEF Outs, OfKind
<1>7. {steps[j].name : j \in old} = {more[j].name : j \in old}
    <2>1. \A j \in old : more[j] = steps[j]
        BY <1>4, <1>6
    <2>. HIDE DEF old
    <2>. QED
        BY <2>1
<1>8. Paged(more, check.pages, old)
    <2>1. Paged(steps, check.pages, old)
        BY <1>2 DEF Remembered
    <2>. HIDE DEF old
    <2>. QED
        BY <1>1, <1>6, <2>1, PagesStay
<1>9. Remembered(more, memory)
    BY <1>2, <1>5, <1>6, <1>7, <1>8 DEF Remembered
<1>. QED
    BY <1>9 DEF more

\* A step is accepted when the document with it is well formed.
LEMMA ReadIsExact ==
    ASSUME ReadInv, check.ok, NEW step, step.kind \notin {"else", "end"},
           PagesAgree(Append(steps, step)), Read(step)
    PROVE  ReadInv'
<1>. DEFINE n == Len(steps)
            m == Len(check.frames)
            more == Append(steps, step)
            after == check'
<1>1. Understood(steps, check) /\ WellFormed(steps)
    BY DEF ReadInv, Exact
<1>2. /\ n \in Nat /\ DOMAIN steps = 1 .. n
      /\ \E S : more \in Seq(S)
      /\ Len(more) = n + 1 /\ DOMAIN more = 1 .. n + 1
      /\ SameUpTo(steps, more, n) /\ more[n + 1] = step
      /\ m \in Nat /\ m >= 1 /\ DOMAIN check.pages = 1 .. Len(check.pages)
      /\ Describes(Top, steps, n + 1)
    BY <1>1, Reading
<1>3. /\ DOMAIN check = MemoryFields /\ (\E S : check.frames \in Seq(S))
      /\ Nested(steps, check.frames) /\ Fitting(steps, check.frames) /\ Remembered(steps, check)
    BY <1>1 DEF Understood
<1>4. steps' = more
    BY DEF Read
<1>5. IsStep(more, n + 1) /\ more[n + 1].kind # "end" /\ more[n + 1].kind # "else"
    BY <1>2 DEF IsStep
<1>6. Valid(step) <=> WellFormedStep(more, n + 1)
    BY <1>1, <1>2, <1>3, StepIsJudged
<1>7. WellFormed(more) <=> Valid(step)
    BY <1>1, <1>2, <1>5, <1>6, OneMoreIsWellFormed
<1>8. CASE ~Valid(step)
    <2>1. after = [check EXCEPT !.ok = FALSE]
        BY <1>8 DEF Read
    <2>2. after.ok = FALSE
        BY <1>3, <2>1 DEF MemoryFields
    <2>. HIDE DEF more, after
    <2>3. Exact(more, after)
        BY <1>7, <1>8, <2>2 DEF Exact
    <2>. QED
        BY <1>4, <2>3 DEF ReadInv, after
<1>9. CASE Valid(step)
    <2>. DEFINE frames == check.frames
                new == IF step.kind \in Blocks THEN Append(frames, Opened(step))
                       ELSE Append(Front(frames), Publish(Last(frames), step))
    <2>1. after = [check EXCEPT
                     !.seen = @ \cup {step.id},
                     !.names = IF step.kind = "output" THEN @ \cup {step.name} ELSE @,
                     !.pages = IF step.kind = "output" THEN AddToPage(step) ELSE @,
                     !.frames = IF step.kind \in Blocks THEN Append(@, Opened(step))
                                ELSE Append(Front(@), Publish(Last(@), step))]
        BY <1>9 DEF Read
    <2>2. /\ after.ok = check.ok /\ DOMAIN after = MemoryFields
          /\ after.seen = check.seen \cup {step.id}
          /\ after.names = (IF step.kind = "output" THEN check.names \cup {step.name} ELSE check.names)
          /\ after.pages = (IF step.kind = "output" THEN AddToPage(step) ELSE check.pages)
          /\ after.frames = new
        BY <1>3, <2>1 DEF MemoryFields
    <2>. HIDE DEF after
    <2>3. /\ Remembered(more, after) /\ (\E S : after.pages \in Seq(S))
          /\ \A p \in 1 .. Len(after.pages) : DOMAIN after.pages[p] = PageFields
        BY <1>1, <2>2, StepRemembered
    <2>4. /\ \E S : new \in Seq(S)
          /\ Nested(more, new) /\ Fitting(more, new)
        <3>1. CASE step.kind \in Blocks
            <4>. DEFINE g == Opened(step)
            <4>1. new = Append(frames, g)
                BY <3>1
            <4>2. /\ \E S : new \in Seq(S)
                  /\ Len(new) = m + 1 /\ SameUpTo(frames, new, m) /\ new[m + 1] = g
                <5>. HIDE DEF new, g
                <5>. QED
                    BY <1>3, <4>1, OneMoreStep
            <4>3. \A k \in 1 .. m : new[k] = frames[k]
                BY <4>2 DEF SameUpTo
            <4>4. /\ g.opens = n + 1 /\ g.second = FALSE /\ g.before = <<g.prior, g.outputs, g.variables>>
                  /\ DOMAIN g = FrameFields /\ g.prior = Top.prior /\ g.outputs = Top.outputs
                  /\ g.variables = (IF step.kind = "for" THEN Top.variables \cup {step.variable} ELSE Top.variables)
                  /\ g.bindings = (IF step.kind = "for" THEN Top.bindings \cup {step.variable} ELSE Top.bindings)
                  /\ g.path = (IF step.kind \in Loops THEN Append(Top.path, step.id) ELSE Top.path)
                  /\ g.depth = Top.depth + 1
                BY DEF Opened, FrameFields
            <4>5. Top = frames[m] /\ n + 1 \in Nat \ {0} /\ \A k \in 2 .. m : k \in 1 .. m
                BY <1>2 DEF Top, Last
            <4>. HIDE DEF new, g, frames, more, n, m
            <4>6. Nested(more, new)
                <5>1. \A k \in 2 .. m : new[k] = frames[k]
                    BY <4>3, <4>5
                <5>2. new[m + 1].opens = n + 1 /\ new[m + 1].second = FALSE
                    BY <4>2, <4>4
                <5>3. more[n + 1].kind \in Blocks
                    BY <1>2, <3>1
                <5>. QED
                    BY <1>2, <1>3, <4>2, <5>1, <5>2, <5>3, NestedOpens DEF n, m, frames
            <4>7. Describes(frames[m], more, n + 1) => Describes(g, more, (n + 1) + 1)
                BY <1>2, <3>1, <4>4, <4>5, OpenedFits
            <4>8. Fitting(more, new)
                <5>1. /\ Len(frames) \in Nat /\ Len(steps) \in Nat /\ Len(more) = Len(steps) + 1
                      /\ SameUpTo(steps, more, Len(steps)) /\ Nested(steps, frames) /\ Fitting(steps, frames)
                      /\ more[Len(steps) + 1].kind \in Blocks
                    BY <1>2, <1>3, <3>1 DEF n, m, frames
                <5>2. /\ Len(new) = Len(frames) + 1 /\ new[Len(frames) + 1] = g
                      /\ \A k \in 1 .. Len(frames) : new[k] = frames[k]
                      /\ g.opens = Len(steps) + 1 /\ g.before = <<g.prior, g.outputs, g.variables>>
                      /\ Describes(frames[Len(frames)], more, Len(steps) + 1)
                             => Describes(g, more, (Len(steps) + 1) + 1)
                    BY <4>2, <4>3, <4>4, <4>7 DEF n, m, frames
                <5>. QED
                    BY <5>1, <5>2, FittingOpens
            <4>. QED
                BY <4>2, <4>6, <4>8
        <3>2. CASE step.kind \notin Blocks
            <4>. DEFINE g == Publish(frames[m], step)
            <4>1. new = Append(Front(frames), g)
                BY <3>2 DEF Last
            <4>2. /\ \E S : new \in Seq(S)
                  /\ Len(new) = m /\ new[m] = g
                  /\ \A k \in 1 .. m - 1 : new[k] = frames[k]
                <5>1. (\E S : frames \in Seq(S)) /\ Len(frames) >= 1 /\ Len(frames) = m
                    BY <1>2, <1>3
                <5>. HIDE DEF new, g, frames, m
                <5>2. /\ \E S : new \in Seq(S)
                      /\ Len(frames) \in Nat \ {0} /\ Len(new) = Len(frames)
                      /\ SameUpTo(frames, new, Len(frames) - 1) /\ new[Len(frames)] = g
                    BY <4>1, <5>1, LastReplaced
                <5>. QED
                    BY <5>1, <5>2 DEF SameUpTo
            <4>3. DOMAIN frames[m] = FrameFields
                BY <1>2 DEF Describes, Top, Last
            <4>4. g.opens = frames[m].opens /\ g.second = frames[m].second
                BY <4>3 DEF Publish, FrameFields
            <4>. HIDE DEF new, g, frames, more, n, m
            <4>5. \A k \in 2 .. m : new[k].opens = frames[k].opens /\ new[k].second = frames[k].second
                <5>1. \A k \in 2 .. m : k = m \/ k \in 1 .. m - 1
                    BY <1>2
                <5>. QED
                    BY <4>2, <4>4, <5>1
            <4>6. more[n + 1].kind \notin Blocks
                BY <1>2, <3>2
            <4>7. Nested(more, new)
                <5>1. \A k \in 2 .. m : /\ new[k].opens = frames[k].opens
                                        /\ new[k].second = IF k = m /\ more[n + 1].kind = "else"
                                                           THEN TRUE ELSE frames[k].second
                    BY <1>5, <4>5
                <5>. QED
                    BY <1>2, <1>3, <1>5, <4>2, <4>6, <5>1, NestedStays DEF n, m, frames
            <4>8. Fitting(more, new)
                <5>1. new[m] = Publish(frames[m], more[n + 1])
                    BY <1>2, <4>2 DEF g
                <5>. QED
                    BY <1>2, <1>3, <1>5, <4>2, <4>6, <5>1, FittingLeaf DEF n, m, frames
            <4>. QED
                BY <4>2, <4>7, <4>8
        <3>. QED
            BY <3>1, <3>2
    <2>. HIDE DEF new, more
    <2>5. Understood(more, after)
        BY <1>2, <2>2, <2>3, <2>4 DEF Understood
    <2>6. Exact(more, after)
        BY <1>7, <1>9, <2>2, <2>5 DEF Exact
    <2>. QED
        BY <1>4, <2>6 DEF ReadInv, after
<1>. QED
    BY <1>8, <1>9

\* A second branch does no harm.
LEMMA ElseIsExact ==
    ASSUME ReadInv, check.ok, ReadElse
    PROVE  ReadInv'
<1>. DEFINE n == Len(steps)
            m == Len(check.frames)
            mark == [kind |-> "else", id |-> 0]
            more == Append(steps, mark)
            after == check'
            frames == check.frames
            new == after.frames
<1>1. Understood(steps, check) /\ WellFormed(steps)
    BY DEF ReadInv, Exact
<1>2. /\ n \in Nat /\ DOMAIN steps = 1 .. n
      /\ \E S : more \in Seq(S)
      /\ Len(more) = n + 1 /\ DOMAIN more = 1 .. n + 1
      /\ SameUpTo(steps, more, n) /\ more[n + 1] = mark
      /\ m \in Nat /\ m >= 1
      /\ Describes(Top, steps, n + 1)
    BY <1>1, Reading
<1>3. /\ DOMAIN check = MemoryFields /\ (\E S : frames \in Seq(S)) /\ (\E S : check.pages \in Seq(S))
      /\ \A p \in 1 .. Len(check.pages) : DOMAIN check.pages[p] = PageFields
      /\ Nested(steps, frames) /\ Fitting(steps, frames)
    BY <1>1 DEF Understood
<1>4. steps' = more /\ m > 1 /\ steps[frames[m].opens].kind = "if" /\ ~frames[m].second
    BY DEF ReadElse, Top, Last
<1>5. mark.kind = "else"
    OBVIOUS
<1>6. ~IsStep(more, n + 1) /\ more[n + 1].kind = "else" /\ more[n + 1].kind # "end"
      /\ more[n + 1].kind \notin Blocks
    BY <1>2 DEF IsStep, Blocks, Loops
<1>7. WellFormed(more)
    <2>. HIDE DEF more
    <2>. QED
        BY <1>1, <1>2, <1>6, OneMoreIsWellFormed
<1>. DEFINE f == frames[m]
            g == [f EXCEPT !.second = TRUE, !.prior = f.before[1], !.outputs = f.before[2],
                           !.variables = f.before[3]]
<1>8. after = [check EXCEPT !.frames = Append(Front(frames), g)]
    BY DEF ReadElse, Top, Last
<1>9. /\ DOMAIN after = MemoryFields /\ after.ok = check.ok /\ after.seen = check.seen
      /\ after.names = check.names /\ after.pages = check.pages /\ new = Append(Front(frames), g)
    BY <1>3, <1>8 DEF MemoryFields
<1>10. DOMAIN f = FrameFields
    BY <1>2 DEF Describes, Top, Last
<1>11. g.opens = f.opens /\ g.second = TRUE
    BY <1>10 DEF FrameFields
<1>12. Remembered(more, after)
    <2>. HIDE DEF more, after, mark
    <2>1. Remembered(Append(steps, mark), after)
        BY <1>1, <1>5, <1>9, MarkRemembered
    <2>. QED
        BY <2>1 DEF more
<1>. HIDE DEF after, mark, more, new, frames, m, g
<1>13. /\ \E S : new \in Seq(S)
       /\ Len(new) = m /\ new[m] = g
       /\ \A k \in 1 .. m - 1 : new[k] = frames[k]
    <2>1. (\E S : frames \in Seq(S)) /\ Len(frames) >= 1 /\ Len(frames) = m
        BY <1>2, <1>3 DEF m, frames
    <2>2. /\ \E S : new \in Seq(S)
          /\ Len(frames) \in Nat \ {0} /\ Len(new) = Len(frames)
          /\ SameUpTo(frames, new, Len(frames) - 1) /\ new[Len(frames)] = g
        BY <1>9, <2>1, LastReplaced
    <2>. QED
        BY <2>1, <2>2 DEF SameUpTo
<1>14. /\ Len(frames) \in Nat /\ Len(steps) \in Nat /\ Len(more) = Len(steps) + 1
       /\ SameUpTo(steps, more, Len(steps)) /\ Nested(steps, frames) /\ Fitting(steps, frames)
       /\ Len(frames) = m
    BY <1>2, <1>3 DEF m, frames
<1>15. Nested(more, new)
    <2>1. \A k \in 2 .. m : k = m \/ k \in 1 .. m - 1
        BY <1>2
    <2>2. \A k \in 2 .. m : /\ new[k].opens = frames[k].opens
                            /\ new[k].second = IF k = m /\ more[n + 1].kind = "else"
                                               THEN TRUE ELSE frames[k].second
        BY <1>6, <1>11, <1>13, <2>1
    <2>. QED
        BY <1>6, <1>13, <1>14, <2>2, NestedStays
<1>16. Fitting(more, new)
    <2>1. new[Len(frames)] = [frames[Len(frames)] EXCEPT !.second = TRUE,
                                                         !.prior = frames[Len(frames)].before[1],
                                                         !.outputs = frames[Len(frames)].before[2],
                                                         !.variables = frames[Len(frames)].before[3]]
        BY <1>13, <1>14 DEF g
    <2>. HIDE DEF f
    <2>2. /\ more[Len(steps) + 1].kind = "else" /\ Len(frames) > 1
          /\ steps[frames[Len(frames)].opens].kind = "if" /\ ~frames[Len(frames)].second
          /\ Len(new) = Len(frames) /\ \A k \in 1 .. Len(frames) - 1 : new[k] = frames[k]
        BY <1>4, <1>6, <1>13, <1>14
    <2>. QED
        BY <1>14, <2>1, <2>2, FittingElse
<1>17. Understood(more, after)
    BY <1>2, <1>3, <1>9, <1>12, <1>13, <1>15, <1>16 DEF Understood, new
<1>18. Exact(more, after)
    BY <1>7, <1>9, <1>17 DEF Exact
<1>. QED
    BY <1>4, <1>18 DEF ReadInv, after

\* An end is accepted unless an unlimited While has nothing to do.
LEMMA EndIsExact ==
    ASSUME ReadInv, check.ok, ReadEnd
    PROVE  ReadInv'
<1>. DEFINE n == Len(steps)
            m == Len(check.frames)
            mark == [kind |-> "end", id |-> 0]
            more == Append(steps, mark)
            after == check'
            frames == check.frames
            new == after.frames
            o == frames[m].opens
            Empty == steps[o].kind = "while" /\ steps[o].limit = None /\ o = n
<1>1. Understood(steps, check) /\ WellFormed(steps)
    BY DEF ReadInv, Exact
<1>2. /\ n \in Nat /\ DOMAIN steps = 1 .. n
      /\ \E S : more \in Seq(S)
      /\ Len(more) = n + 1 /\ DOMAIN more = 1 .. n + 1
      /\ SameUpTo(steps, more, n) /\ more[n + 1] = mark
      /\ m \in Nat /\ m >= 1
    BY <1>1, Reading
<1>3. /\ DOMAIN check = MemoryFields /\ (\E S : frames \in Seq(S)) /\ (\E S : check.pages \in Seq(S))
      /\ \A p \in 1 .. Len(check.pages) : DOMAIN check.pages[p] = PageFields
      /\ Nested(steps, frames) /\ Fitting(steps, frames)
    BY <1>1 DEF Understood
<1>4. steps' = more /\ m > 1
    BY DEF ReadEnd
<1>5. mark.kind = "end"
    OBVIOUS
<1>6. ~IsStep(more, n + 1) /\ more[n + 1].kind = "end"
    BY <1>2 DEF IsStep
<1>. DEFINE g == Publish(frames[m - 1], steps[o])
<1>7. after = [check EXCEPT !.ok = ~Empty, !.frames = Append(Front(Front(frames)), g)]
    BY DEF ReadEnd, Top, Last
<1>8. /\ DOMAIN after = MemoryFields /\ after.ok = ~Empty /\ after.seen = check.seen
      /\ after.names = check.names /\ after.pages = check.pages /\ new = Append(Front(Front(frames)), g)
    BY <1>3, <1>7 DEF MemoryFields
<1>9. Remembered(more, after)
    <2>. HIDE DEF more, after, mark
    <2>1. Remembered(Append(steps, mark), after)
        BY <1>1, <1>5, <1>8, MarkRemembered
    <2>. QED
        BY <2>1 DEF more
<1>10. WellFormed(more) <=> ~Empty
    <2>1. o \in 1 .. n
        <3>1. m \in 2 .. m /\ m = Len(frames)
            BY <1>2, <1>4
        <3>. QED
            BY <1>3, <3>1 DEF Nested
    <2>2. Empty <=> n > 0 /\ steps[n].kind = "while" /\ steps[n].limit = None
        <3>1. n > 0 /\ steps[n].kind = "while" => o = n
            <4>1. steps[n].kind = "while" => steps[n].kind \in Blocks
                BY DEF Blocks, Loops
            <4>2. Len(frames) \in Nat /\ Len(steps) \in Nat /\ Len(frames) > 1
                BY <1>2, <1>4
            <4>. QED
                BY <1>3, <4>1, <4>2, JustOpened
        <3>2. n > 0
            BY <1>2, <2>1
        <3>. QED
            BY <3>1, <3>2
    <2>. HIDE DEF more, Empty, o
    <2>. QED
        BY <1>1, <1>2, <1>6, <2>2, OneMoreIsWellFormed
<1>. HIDE DEF after, mark, more, new, frames, m, g, o, Empty
<1>11. /\ \E S : new \in Seq(S)
       /\ Len(new) = m - 1 /\ new[m - 1] = g
       /\ \A k \in 1 .. m - 2 : new[k] = frames[k]
    <2>. DEFINE front == Front(frames)
    <2>1. (\E S : frames \in Seq(S)) /\ Len(frames) >= 1 /\ Len(frames) = m /\ m \in Nat /\ m > 1
        BY <1>2, <1>3, <1>4 DEF m, frames
    <2>2. /\ \E S : front \in Seq(S)
          /\ Len(front) = m - 1 /\ \A k \in 1 .. m - 1 : front[k] = frames[k]
        BY <2>1, FrontIs
    <2>. HIDE DEF front
    <2>3. new = Append(Front(front), g) /\ Len(front) >= 1
        BY <1>8, <2>1, <2>2 DEF front
    <2>4. /\ \E S : new \in Seq(S)
          /\ Len(front) \in Nat \ {0} /\ Len(new) = Len(front)
          /\ SameUpTo(front, new, Len(front) - 1) /\ new[Len(front)] = g
        BY <2>2, <2>3, LastReplaced
    <2>5. \A k \in 1 .. m - 2 : k \in 1 .. m - 1 /\ k \in 1 .. (m - 1) - 1
        BY <2>1
    <2>6. \A k \in 1 .. m - 2 : new[k] = front[k]
        BY <2>2, <2>4, <2>5 DEF SameUpTo
    <2>. QED
        BY <2>2, <2>4, <2>5, <2>6
<1>12. /\ Len(frames) \in Nat /\ Len(steps) \in Nat /\ Len(more) = Len(steps) + 1
       /\ SameUpTo(steps, more, Len(steps)) /\ Nested(steps, frames) /\ Fitting(steps, frames)
       /\ Len(frames) = m /\ Len(frames) > 1 /\ more[Len(steps) + 1].kind = "end"
    BY <1>2, <1>3, <1>4, <1>6 DEF m, frames
<1>13. new[m - 1].opens = frames[m - 1].opens /\ new[m - 1].second = frames[m - 1].second
    <2>1. m - 1 \in 1 .. Len(frames)
        BY <1>2, <1>12
    <2>2. DOMAIN frames[m - 1] = FrameFields
        BY <1>12, <2>1 DEF Fitting, Describes
    <2>. QED
        BY <1>11, <2>2 DEF g, Publish, FrameFields
<1>14. Nested(more, new)
    <2>1. \A k \in 2 .. m - 1 : k = m - 1 \/ k \in 1 .. m - 2
        BY <1>2
    <2>2. \A k \in 2 .. m - 1 : new[k].opens = frames[k].opens /\ new[k].second = frames[k].second
        BY <1>11, <1>13, <2>1
    <2>. QED
        BY <1>11, <1>12, <2>2, NestedCloses
<1>15. Fitting(more, new)
    <2>1. new[Len(frames) - 1] = Publish(frames[Len(frames) - 1], steps[frames[Len(frames)].opens])
        BY <1>11, <1>12 DEF g, o
    <2>2. Len(new) = Len(frames) - 1 /\ \A k \in 1 .. Len(frames) - 2 : new[k] = frames[k]
        BY <1>11, <1>12
    <2>. QED
        BY <1>12, <1>14, <2>1, <2>2, FittingCloses
<1>16. Understood(more, after)
    BY <1>2, <1>3, <1>8, <1>9, <1>11, <1>14, <1>15 DEF Understood, new
<1>17. Exact(more, after)
    BY <1>8, <1>10, <1>16 DEF Exact
<1>. QED
    BY <1>4, <1>17 DEF ReadInv, after

\* An empty document is well formed, and nothing is known of it.
LEMMA NothingReadIsExact ==
    ASSUME WorkflowInit
    PROVE  ReadInv
<1>. DEFINE f == NewFrame
<1>1. /\ steps = <<>> /\ check = NewCheck /\ check.ok = TRUE /\ check.seen = {} /\ check.names = {}
      /\ check.pages = <<>> /\ check.frames = <<f>> /\ DOMAIN check = MemoryFields
    BY DEF WorkflowInit, NewCheck, MemoryFields
<1>2. Len(steps) = 0 /\ DOMAIN steps = {} /\ Len(check.pages) = 0 /\ Len(check.frames) = 1 /\ check.frames[1] = f
    BY <1>1
<1>3. /\ f.prior = {} /\ f.outputs = {} /\ f.variables = {} /\ f.bindings = {} /\ f.path = <<>> /\ f.depth = 0
      /\ DOMAIN f = FrameFields
    BY DEF NewFrame, FrameFields
<1>. HIDE DEF f
<1>4. /\ \E S : steps \in Seq(S)
      /\ \E S : check.frames \in Seq(S)
      /\ \E S : check.pages \in Seq(S)
    <2>1. steps \in Seq({}) /\ check.pages \in Seq({}) /\ check.frames \in Seq({f})
        BY <1>1
    <2>. QED
        BY <2>1
<1>5. 1 .. 1 - 1 = {} /\ 1 .. 0 = {} /\ 2 .. 1 = {} /\ 1 \in Int /\ 1 .. 0 + 1 = {1}
    OBVIOUS
<1>6. WellFormed(steps)
    BY <1>2 DEF WellFormed
<1>7. Level(steps, 1) = 0
    <2>1. /\ {j \in 1 .. 1 - 1 : steps[j].kind \in Blocks} = {}
          /\ {j \in 1 .. 1 - 1 : steps[j].kind = "end"} = {}
        BY <1>5
    <2>2. Level(steps, 1) = Cardinality({}) - Cardinality({})
        BY <2>1 DEF Level
    <2>. QED
        BY <2>2, FS_EmptySet
<1>8. Enclosing(steps, 1) = {} /\ Before(steps, 1) = {} /\ LoopsAround(steps, 1) = {}
    BY <1>5 DEF Enclosing, Before, LoopsAround
<1>9. Nested(steps, check.frames)
    BY <1>2, <1>5, <1>7 DEF Nested
<1>10. Fitting(steps, check.frames)
    <2>1. Prior(steps, 1) = {} /\ OutputIds(steps, 1) = {} /\ InScope(steps, 1) = {} /\ ForVariables(steps, 1) = {}
        BY <1>8 DEF Prior, OutputIds, InScope, ForVariables, Ids, Variables, OfKind
    <2>2. Cardinality({}) = 0
        BY FS_EmptySet
    <2>3. IsPath(steps, f.path, LoopsAround(steps, 1))
        <3>1. Len(f.path) = 0 /\ f.path \in Seq({})
            BY <1>3
        <3>. QED
            BY <1>5, <1>8, <2>2, <3>1 DEF IsPath
    <2>4. Describes(f, steps, 1)
        BY <1>3, <1>8, <2>1, <2>2, <2>3 DEF Describes
    <2>5. \A k \in 1 .. 1 : k = 1
        OBVIOUS
    <2>6. Reached(steps, check.frames, 1) = 1
        BY <1>2 DEF Reached
    <2>. QED
        BY <1>2, <1>5, <2>4, <2>5, <2>6 DEF Fitting
<1>11. Remembered(steps, check)
    BY <1>1, <1>2, <1>5 DEF Remembered, Places, Outs, OfKind, Ids, Paged
<1>12. Understood(steps, check)
    BY <1>1, <1>2, <1>4, <1>5, <1>9, <1>10, <1>11 DEF Understood
<1>. QED
    BY <1>1, <1>6, <1>12 DEF ReadInv, Exact

-----------------------------------------------------------------------------
(***************************************************************************)
(* The template file: what is written and read again is what it was.       *)
(***************************************************************************)
(* What is left out when it is written is what a reader takes for it.      *)
LEMMA TablesAgree ==
    ASSUME NEW schema
    PROVE  /\ \A f \in DOMAIN Skips(schema) :
                 f \in DOMAIN Defaults(schema) /\ Defaults(schema)[f] = Skips(schema)[f]
           /\ {"kind", "tool", "setup", "channels"} \cap DOMAIN Skips(schema) = {}
<1>. DEFINE s == Skips(schema)
            d == Defaults(schema)
            Agree == /\ \A f \in DOMAIN s : f \in DOMAIN d /\ d[f] = s[f]
                     /\ {"kind", "tool", "setup", "channels"} \cap DOMAIN s = {}
<1>1. CASE schema \in {"template", "instance", "chart", "background", "measurement"}
    BY <1>1 DEF Skips, Defaults
<1>2. CASE schema = "meters"
    BY <1>2 DEF Skips, Defaults, MetersDefaults
<1>3. CASE schema = "serial"
    BY <1>3 DEF Skips, Defaults, SerialDefaults
<1>4. CASE schema = "protection"
    <2>1. s = [field \in ProtectionFields |-> Unset] /\ d = s
        BY <1>4 DEF Skips, Defaults, ProtectionDefaults
    <2>. QED
        BY <2>1 DEF ProtectionFields
<1>5. CASE schema = "acquisition"
    BY <1>5 DEF Skips, Defaults, AcquisitionDefaults
<1>6. CASE schema = "settings"
    <2>1. s = [field \in ToSet(ChannelSettings) |-> NoSetting] /\ d = s
        BY <1>6 DEF Skips, Defaults, SettingsDefaults
    <2>2. ToSet(ChannelSettings) = {"coupling", "probe_ratio", "bandwidth_limit", "invert", "units"}
        BY DEF ToSet, ChannelSettings
    <2>. QED
        BY <2>1, <2>2
<1>7. CASE schema \in {"tool-action", "output", "set-variable"}
    BY <1>7 DEF Skips, Defaults
<1>8. CASE schema \notin {"template", "instance", "chart", "background", "measurement", "meters", "serial",
                          "protection", "acquisition", "settings", "tool-action", "output", "set-variable"}
    BY <1>8 DEF Skips, NoBindings
<1>. QED
    BY <1>1, <1>2, <1>3, <1>4, <1>5, <1>6, <1>7, <1>8

(* A record that is written and read is the record.                        *)
LEMMA WrittenIsRead ==
    ASSUME NEW schema, NEW record, IsStruct(schema, record)
    PROVE  Parse(schema, Write(schema, record)) = record
<1>. DEFINE s == Skips(schema)
            d == Defaults(schema)
            wire == Write(schema, record)
<1>1. /\ DOMAIN wire = {f \in DOMAIN record : f \in DOMAIN s => s[f] # record[f]}
      /\ \A f \in DOMAIN wire : wire[f] = record[f]
    BY DEF Write
<1>2. Parse(schema, wire) = [f \in DOMAIN wire \cup DOMAIN d |-> IF f \in DOMAIN wire THEN wire[f] ELSE d[f]]
    BY DEF Parse
<1>3. DOMAIN d \subseteq DOMAIN record /\ record = [f \in DOMAIN record |-> record[f]]
    BY DEF IsStruct, IsMap
<1>4. \A f \in DOMAIN s : f \in DOMAIN d /\ d[f] = s[f]
    BY TablesAgree
<1>. HIDE DEF wire, s, d
<1>5. DOMAIN wire \cup DOMAIN d = DOMAIN record
    BY <1>1, <1>3, <1>4
<1>6. \A f \in DOMAIN record : (IF f \in DOMAIN wire THEN wire[f] ELSE d[f]) = record[f]
    BY <1>1, <1>4
<1>7. Parse(schema, wire) = [f \in DOMAIN record |-> record[f]]
    BY <1>2, <1>5, <1>6
<1>. QED
    BY <1>3, <1>7 DEF wire

(* A field that is always written can be changed before or after.          *)
LEMMA EditedAsWritten ==
    ASSUME NEW schema, NEW record, NEW f \in DOMAIN record, f \notin DOMAIN Skips(schema), NEW v
    PROVE  /\ Write(schema, record)[f] = record[f]
           /\ [Write(schema, record) EXCEPT ![f] = v] = Write(schema, [record EXCEPT ![f] = v])
<1>. DEFINE s == Skips(schema)
            w == Write(schema, record)
            new == [record EXCEPT ![f] = v]
            D == {g \in DOMAIN record : g \in DOMAIN s => s[g] # record[g]}
<1>1. w = [g \in D |-> record[g]]
    BY DEF Write
<1>2. f \in D
    OBVIOUS
<1>3. DOMAIN new = DOMAIN record /\ new[f] = v /\ \A g \in DOMAIN record : g # f => new[g] = record[g]
    OBVIOUS
<1>4. {g \in DOMAIN new : g \in DOMAIN s => s[g] # new[g]} = D
    <2>. HIDE DEF new
    <2>. QED
        BY <1>3
<1>5. Write(schema, new) = [g \in D |-> new[g]]
    <2>. HIDE DEF new, D
    <2>. QED
        BY <1>4 DEF Write
<1>6. [w EXCEPT ![f] = v] = [g \in D |-> IF g = f THEN v ELSE record[g]]
    <2>. HIDE DEF w, D
    <2>. QED
        BY <1>1, <1>2
<1>7. \A g \in D : new[g] = IF g = f THEN v ELSE record[g]
    BY <1>3
<1>. HIDE DEF w, new, D
<1>8. w[f] = record[f]
    BY <1>1, <1>2
<1>9. [g \in D |-> new[g]] = [g \in D |-> IF g = f THEN v ELSE record[g]]
    BY <1>7
<1>. QED
    BY <1>5, <1>6, <1>8, <1>9 DEF w, new

(* A field that is always written is in the file.                          *)
LEMMA FieldIsWritten ==
    ASSUME NEW schema, NEW record, NEW f \in DOMAIN record, f \notin DOMAIN Skips(schema)
    PROVE  Write(schema, record)[f] = record[f]
    BY DEF Write

(* A list of records that are written and read, one by one.                *)
LEMMA ListIsRead ==
    ASSUME NEW schema, NEW list, IsMap(list), \A i \in DOMAIN list : IsStruct(schema, list[i]),
           NEW wire, wire = [i \in DOMAIN list |-> Write(schema, list[i])]
    PROVE  [i \in DOMAIN wire |-> Parse(schema, wire[i])] = list
<1>1. \A i \in DOMAIN list : Parse(schema, Write(schema, list[i])) = list[i]
    BY WrittenIsRead
<1>2. [i \in DOMAIN wire |-> Parse(schema, wire[i])] = [i \in DOMAIN list |-> list[i]]
    <2>1. DOMAIN wire = DOMAIN list /\ \A i \in DOMAIN list : wire[i] = Write(schema, list[i])
        OBVIOUS
    <2>. QED
        BY ONLY <1>1, <2>1
<1>. QED
    BY <1>2 DEF IsMap

(* A field that is changed twice, back to what it was.                     *)
LEMMA ChangedBack ==
    ASSUME NEW record, IsMap(record), NEW f \in DOMAIN record, NEW v
    PROVE  /\ [record EXCEPT ![f] = v][f] = v /\ DOMAIN [record EXCEPT ![f] = v] = DOMAIN record
           /\ IsMap([record EXCEPT ![f] = v])
           /\ \A g \in DOMAIN record : g # f => [record EXCEPT ![f] = v][g] = record[g]
           /\ [[record EXCEPT ![f] = v] EXCEPT ![f] = record[f]] = record
    BY DEF IsMap

(* The settings of a channel.                                              *)
LEMMA SettingsAreRead ==
    ASSUME NEW channel, IsMap(channel), "set" \in DOMAIN channel, IsStruct("settings", channel.set)
    PROVE  MapChannel("parse", MapChannel("write", channel)) = channel
<1>. DEFINE wire == [channel EXCEPT !.set = Write("settings", channel.set)]
<1>1. MapChannel("write", channel) = wire
    BY DEF MapChannel, Move
<1>2. wire.set = Write("settings", channel.set) /\ [wire EXCEPT !.set = channel.set] = channel
    BY ChangedBack
<1>3. Parse("settings", Write("settings", channel.set)) = channel.set
    BY WrittenIsRead
<1>. HIDE DEF wire
<1>4. MapChannel("parse", wire) = [wire EXCEPT !.set = Parse("settings", wire.set)]
    BY DEF MapChannel, Move
<1>. QED
    BY <1>1, <1>2, <1>3, <1>4

(* A setup.                                                                *)
LEMMA SetupIsRead ==
    ASSUME NEW tool, NEW setup, StructuredSetup(tool, setup)
    PROVE  MapSetup("parse", tool, MapSetup("write", tool, setup)) = setup
<1>1. CASE tool \in {"meters", "serial"}
    <2>1. IsStruct(tool, setup)
        BY <1>1 DEF StructuredSetup
    <2>2. MapSetup("write", tool, setup) = Write(tool, setup)
        BY <1>1 DEF MapSetup, Move
    <2>3. MapSetup("parse", tool, Write(tool, setup)) = Parse(tool, Write(tool, setup))
        BY <1>1 DEF MapSetup, Move
    <2>. QED
        BY <2>1, <2>2, <2>3, WrittenIsRead
<1>2. CASE tool = "powers"
    <2>. DEFINE list == setup.channels
                written == [i \in DOMAIN list |-> Write("protection", list[i])]
                wire == [setup EXCEPT !.channels = written]
    <2>1. /\ IsMap(setup) /\ "channels" \in DOMAIN setup /\ IsMap(list)
          /\ \A i \in DOMAIN list : IsStruct("protection", list[i])
        BY <1>2 DEF StructuredSetup, Has, IsList
    <2>2. MapSetup("write", tool, setup) = wire
        BY <1>2 DEF MapSetup, Move
    <2>3. wire.channels = written /\ [wire EXCEPT !.channels = list] = setup
        BY <2>1, ChangedBack
    <2>4. [i \in DOMAIN written |-> Parse("protection", written[i])] = list
        <3>1. written = [i \in DOMAIN list |-> Write("protection", list[i])]
            OBVIOUS
        <3>. HIDE DEF written, list
        <3>. QED
            BY ONLY <2>1, <3>1, ListIsRead
    <2>. HIDE DEF wire, written, list
    <2>5. MapSetup("parse", tool, wire) =
              [wire EXCEPT !.channels = [i \in DOMAIN wire.channels |-> Parse("protection", wire.channels[i])]]
        BY <1>2 DEF MapSetup, Move
    <2>. QED
        BY <2>2, <2>3, <2>4, <2>5
<1>3. CASE tool = "scopes"
    <2>. DEFINE list == setup.channels
                written == [i \in DOMAIN list |-> MapChannel("write", list[i])]
                inner == [setup EXCEPT !.channels = written]
                wire == Write("acquisition", inner)
    <2>1. /\ IsStruct("acquisition", setup) /\ "channels" \in DOMAIN setup /\ IsMap(list)
          /\ \A i \in DOMAIN list : IsMap(list[i]) /\ "set" \in DOMAIN list[i] /\ IsStruct("settings", list[i].set)
        BY <1>3 DEF StructuredSetup, Has, IsList
    <2>2. MapSetup("write", tool, setup) = wire
        BY <1>3 DEF MapSetup, Move
    <2>3. /\ inner.channels = written /\ [inner EXCEPT !.channels = list] = setup
          /\ DOMAIN inner = DOMAIN setup
        BY <2>1, ChangedBack DEF IsStruct
    <2>4. ASSUME NEW i \in DOMAIN list PROVE MapChannel("parse", written[i]) = list[i]
        BY <2>1, SettingsAreRead
    <2>5. [i \in DOMAIN written |-> MapChannel("parse", written[i])] = list
        <3>1. DOMAIN written = DOMAIN list
            OBVIOUS
        <3>. HIDE DEF written, list
        <3>. QED
            BY <2>1, <2>4, <3>1 DEF IsMap
    <2>6. wire.channels = inner.channels /\ [wire EXCEPT !.channels = list] = Write("acquisition", setup)
        <3>1. "channels" \in DOMAIN inner /\ "channels" \notin DOMAIN Skips("acquisition")
            BY <2>1, <2>3, TablesAgree
        <3>. HIDE DEF inner, list
        <3>2. /\ Write("acquisition", inner).channels = inner.channels
              /\ [Write("acquisition", inner) EXCEPT !.channels = list]
                     = Write("acquisition", [inner EXCEPT !.channels = list])
            BY ONLY <3>1, EditedAsWritten
        <3>. QED
            BY ONLY <2>3, <3>2 DEF wire
    <2>7. MapSetup("parse", tool, wire) =
              Parse("acquisition",
                    [wire EXCEPT !.channels = [i \in DOMAIN wire.channels |-> MapChannel("parse", wire.channels[i])]])
        <3>. HIDE DEF wire
        <3>. QED
            BY <1>3 DEF MapSetup, Move
    <2>. HIDE DEF wire, inner, written, list
    <2>8. MapSetup("parse", tool, wire) = Parse("acquisition", Write("acquisition", setup))
        BY <2>3, <2>5, <2>6, <2>7
    <2>. QED
        BY <2>1, <2>2, <2>8, WrittenIsRead
<1>4. CASE tool \notin {"meters", "serial", "powers", "scopes"}
    BY <1>4 DEF MapSetup
<1>. QED
    BY <1>1, <1>2, <1>3, <1>4

(* An instance.                                                            *)
LEMMA InstanceIsRead ==
    ASSUME NEW instance, StructuredInstance(instance)
    PROVE  MapInstance("parse", MapInstance("write", instance)) = instance
<1>. DEFINE tool == instance.tool
            setup == instance.setup
            written == MapSetup("write", tool, setup)
            inner == [instance EXCEPT !.setup = written]
            wire == Write("instance", inner)
<1>1. /\ IsStruct("instance", instance) /\ "tool" \in DOMAIN instance /\ "setup" \in DOMAIN instance
      /\ StructuredSetup(tool, setup)
    BY DEF StructuredInstance
<1>2. MapInstance("write", instance) = wire
    BY DEF MapInstance, Move
<1>3. MapSetup("parse", tool, written) = setup
    BY <1>1, SetupIsRead
<1>. HIDE DEF written
<1>4. /\ inner.setup = written /\ [inner EXCEPT !.setup = setup] = instance
      /\ DOMAIN inner = DOMAIN instance /\ inner.tool = tool
    BY <1>1, ChangedBack DEF IsStruct
<1>. HIDE DEF inner
<1>5. {"tool", "setup"} \cap DOMAIN Skips("instance") = {}
    BY TablesAgree
<1>6. /\ wire.tool = tool /\ wire.setup = written
      /\ [wire EXCEPT !.setup = setup] = Write("instance", instance)
    <2>1. Write("instance", inner).tool = inner.tool
        BY <1>1, <1>4, <1>5, FieldIsWritten
    <2>2. /\ Write("instance", inner).setup = inner.setup
          /\ [Write("instance", inner) EXCEPT !.setup = setup] = Write("instance", [inner EXCEPT !.setup = setup])
        BY <1>1, <1>4, <1>5, EditedAsWritten
    <2>. QED
        BY <1>4, <2>1, <2>2
<1>. HIDE DEF wire
<1>7. MapInstance("parse", wire) = Parse("instance", [wire EXCEPT !.setup = MapSetup("parse", wire.tool, wire.setup)])
    BY DEF MapInstance, Move
<1>. QED
    BY <1>1, <1>2, <1>3, <1>6, <1>7, WrittenIsRead

(* A step.                                                                 *)
LEMMA StepIsRead ==
    ASSUME NEW step, StructuredStep(step)
    PROVE  step_from_wire(Write(StepSchema(step), step)) = step
<1>. DEFINE schema == StepSchema(step)
            wire == Write(schema, step)
<1>1. IsStruct(schema, step) /\ "kind" \in DOMAIN step /\ OperandsFit(step)
    BY DEF StructuredStep, Has
<1>2. "kind" \notin DOMAIN Skips(schema)
    BY TablesAgree
<1>. HIDE DEF schema
<1>3. wire.kind = step.kind
    BY <1>1, <1>2, FieldIsWritten
<1>4. StepSchema(wire) = schema
    <2>. HIDE DEF wire
    <2>. QED
        BY <1>3 DEF StepSchema, schema
<1>5. Parse(schema, wire) = step
    BY <1>1, WrittenIsRead
<1>. HIDE DEF wire
<1>. QED
    BY <1>1, <1>4, <1>5 DEF step_from_wire, wire, schema

(* A background.                                                           *)
WrittenBackground(background) ==
    Write("background", [background EXCEPT !.measurements = [m \in DOMAIN @ |-> Write("measurement", @[m])]])

LEMMA BackgroundIsRead ==
    ASSUME NEW background, StructuredBackground(background)
    PROVE  background_from_wire(WrittenBackground(background)) = background
<1>. DEFINE list == background.measurements
            written == [m \in DOMAIN list |-> Write("measurement", list[m])]
            inner == [background EXCEPT !.measurements = written]
            wire == Write("background", inner)
<1>1. /\ IsStruct("background", background) /\ "measurements" \in DOMAIN background
      /\ IsMap(list) /\ \A m \in DOMAIN list : IsStruct("measurement", list[m])
    BY DEF StructuredBackground, IsStruct, Defaults
<1>2. WrittenBackground(background) = wire
    BY DEF WrittenBackground
<1>3. [m \in DOMAIN written |-> Parse("measurement", written[m])] = list
    <2>1. written = [m \in DOMAIN list |-> Write("measurement", list[m])]
        OBVIOUS
    <2>. HIDE DEF written, list
    <2>. QED
        BY ONLY <1>1, <2>1, ListIsRead
<1>. HIDE DEF written
<1>4. /\ inner.measurements = written /\ [inner EXCEPT !.measurements = list] = background
      /\ DOMAIN inner = DOMAIN background /\ IsMap(inner)
    BY <1>1, ChangedBack DEF IsStruct
<1>. HIDE DEF inner
<1>5. Parse("background", wire) = inner
    <2>1. IsStruct("background", inner)
        BY <1>1, <1>4 DEF IsStruct
    <2>. QED
        BY <2>1, WrittenIsRead
<1>. HIDE DEF wire
<1>6. background_from_wire(wire) =
          [inner EXCEPT !.measurements = [m \in DOMAIN inner.measurements |-> Parse("measurement", inner.measurements[m])]]
    BY <1>5 DEF background_from_wire
<1>. QED
    BY <1>2, <1>3, <1>4, <1>6

(* A name that was trimmed is trimmed.                                     *)
LEMMA TrimmedTwice == \A name : Trimmed(Trimmed(name)) = Trimmed(name)
    BY NamesAssumption DEF Trimmed

(* Instances, with their names trimmed.                                    *)
LEMMA NormalizedIsRead ==
    ASSUME NEW list, \A i \in DOMAIN list : StructuredInstance(list[i])
    PROVE  /\ \A i \in DOMAIN list : StructuredInstance(Normalized(list)[i])
           /\ DOMAIN Normalized(list) = DOMAIN list
           /\ IsMap(Normalized(list)) /\ Normalized(Normalized(list)) = Normalized(list)
<1>. DEFINE new == Normalized(list)
<1>1. /\ DOMAIN new = DOMAIN list /\ new = [i \in DOMAIN list |-> [list[i] EXCEPT !.name = Trimmed(list[i].name)]]
      /\ \A i \in DOMAIN list : new[i] = [list[i] EXCEPT !.name = Trimmed(list[i].name)]
    BY DEF Normalized
<1>2. ASSUME NEW i \in DOMAIN list
      PROVE  /\ StructuredInstance(new[i]) /\ [new[i] EXCEPT !.name = Trimmed(new[i].name)] = new[i]
    <2>. DEFINE instance == list[i]
                trimmed == [instance EXCEPT !.name = Trimmed(instance.name)]
    <2>1. /\ IsMap(instance) /\ DOMAIN Defaults("instance") \subseteq DOMAIN instance
          /\ {"name", "tool", "setup"} \subseteq DOMAIN instance
          /\ StructuredSetup(instance.tool, instance.setup)
        BY DEF StructuredInstance, IsStruct, Defaults
    <2>2. /\ DOMAIN trimmed = DOMAIN instance /\ IsMap(trimmed) /\ trimmed.name = Trimmed(instance.name)
          /\ trimmed.tool = instance.tool /\ trimmed.setup = instance.setup
        BY <2>1 DEF IsMap
    <2>3. new[i] = trimmed
        BY <1>1
    <2>. HIDE DEF trimmed, instance, new
    <2>4. StructuredInstance(trimmed)
        BY <2>1, <2>2 DEF StructuredInstance, IsStruct
    <2>5. [trimmed EXCEPT !.name = trimmed.name] = trimmed
        BY <2>2 DEF IsMap
    <2>. QED
        BY <2>2, <2>3, <2>4, <2>5, TrimmedTwice
<1>. HIDE DEF new
<1>3. Normalized(new) = [i \in DOMAIN new |-> [new[i] EXCEPT !.name = Trimmed(new[i].name)]]
    BY DEF Normalized
<1>4. Normalized(new) = [i \in DOMAIN new |-> new[i]]
    <2>1. ASSUME NEW i \in DOMAIN new PROVE [new[i] EXCEPT !.name = Trimmed(new[i].name)] = new[i]
        BY ONLY <1>1, <1>2, <2>1
    <2>. QED
        BY ONLY <1>3, <2>1
<1>5. IsMap(new)
    <2>1. new = [i \in DOMAIN new |-> new[i]]
        BY <1>1
    <2>. QED
        BY <2>1 DEF IsMap
<1>. QED
    BY <1>1, <1>2, <1>4, <1>5 DEF IsMap, new

(* A template that is saved is the one that is loaded.                     *)
LEMMA FileIsRead ==
    ASSUME Structured(template), IsMap(steps), \A i \in DOMAIN steps : StructuredStep(steps[i])
    PROVE  from_json_str(from_template(Loaded)) = Loaded
<1>. DEFINE list == Normalized(template.instances)
            backgrounds == template.backgrounds
            charts == template.charts
            instances0 == [i \in DOMAIN list |-> MapInstance("write", list[i])]
            backgrounds0 == [k \in DOMAIN backgrounds |-> WrittenBackground(backgrounds[k])]
            charts0 == IF charts = None THEN None ELSE [i \in DOMAIN charts |-> Write("chart", charts[i])]
            steps0 == [i \in DOMAIN steps |-> Write(StepSchema(steps[i]), steps[i])]
            wire == [instances |-> instances0, backgrounds |-> backgrounds0, charts |-> charts0, steps |-> steps0]
<1>1. Loaded = [instances |-> list, backgrounds |-> backgrounds, charts |-> charts, steps |-> steps]
    BY DEF Loaded
<1>2. /\ \A i \in DOMAIN list : StructuredInstance(list[i])
      /\ IsMap(list) /\ Normalized(list) = list
    BY NormalizedIsRead DEF Structured
<1>3. /\ IsMap(backgrounds) /\ \A k \in DOMAIN backgrounds : StructuredBackground(backgrounds[k])
      /\ charts # None =>
            /\ IsMap(charts) /\ \A i \in DOMAIN charts : IsStruct("chart", charts[i])
            /\ None # [i \in DOMAIN charts |-> Write("chart", charts[i])]
    BY DEF Structured
<1>. HIDE DEF list, backgrounds, charts
<1>4. from_template(Loaded) = Write("template", wire)
    BY <1>1 DEF from_template, WrittenBackground
<1>5. Parse("template", Write("template", wire)) = wire
    <2>1. IsMap(wire)
        BY DEF IsMap
    <2>2. DOMAIN Defaults("template") \subseteq DOMAIN wire
        BY DEF Defaults
    <2>. HIDE DEF wire
    <2>. QED
        BY <2>1, <2>2, WrittenIsRead DEF IsStruct
<1>6. [i \in DOMAIN instances0 |-> MapInstance("parse", instances0[i])] = list
    <2>1. DOMAIN instances0 = DOMAIN list /\ \A i \in DOMAIN list : instances0[i] = MapInstance("write", list[i])
        OBVIOUS
    <2>2. \A i \in DOMAIN list : MapInstance("parse", MapInstance("write", list[i])) = list[i]
        BY <1>2, InstanceIsRead
    <2>. HIDE DEF instances0
    <2>. QED
        BY ONLY <1>2, <2>1, <2>2 DEF IsMap
<1>7. [k \in DOMAIN backgrounds0 |-> background_from_wire(backgrounds0[k])] = backgrounds
    <2>1. /\ DOMAIN backgrounds0 = DOMAIN backgrounds
          /\ \A k \in DOMAIN backgrounds : backgrounds0[k] = WrittenBackground(backgrounds[k])
        OBVIOUS
    <2>2. \A k \in DOMAIN backgrounds : background_from_wire(WrittenBackground(backgrounds[k])) = backgrounds[k]
        BY <1>3, BackgroundIsRead
    <2>. HIDE DEF backgrounds0
    <2>. QED
        BY ONLY <1>3, <2>1, <2>2 DEF IsMap
<1>8. (IF charts0 = None THEN None ELSE [i \in DOMAIN charts0 |-> Parse("chart", charts0[i])]) = charts
    <2>1. CASE charts = None
        BY <2>1
    <2>2. CASE charts # None
        <3>1. charts0 = [i \in DOMAIN charts |-> Write("chart", charts[i])] /\ charts0 # None
            BY <1>3, <2>2
        <3>. HIDE DEF charts0
        <3>2. [i \in DOMAIN charts0 |-> Parse("chart", charts0[i])] = charts
            BY ONLY <1>3, <2>2, <3>1, ListIsRead
        <3>. QED
            BY ONLY <3>1, <3>2
    <2>. QED
        BY <2>1, <2>2
<1>9. [i \in DOMAIN steps0 |-> step_from_wire(steps0[i])] = steps
    <2>1. DOMAIN steps0 = DOMAIN steps /\ \A i \in DOMAIN steps : steps0[i] = Write(StepSchema(steps[i]), steps[i])
        OBVIOUS
    <2>2. \A i \in DOMAIN steps : step_from_wire(Write(StepSchema(steps[i]), steps[i])) = steps[i]
        BY StepIsRead
    <2>3. IsMap(steps)
        OBVIOUS
    <2>. HIDE DEF steps0
    <2>. QED
        BY ONLY <2>1, <2>2, <2>3 DEF IsMap
<1>10. /\ wire.instances = instances0 /\ wire.backgrounds = backgrounds0 /\ wire.charts = charts0
       /\ wire.steps = steps0
    OBVIOUS
<1>. HIDE DEF wire, instances0, backgrounds0, charts0, steps0
<1>11. from_json_str(Write("template", wire)) =
           [instances |-> Normalized([i \in DOMAIN instances0 |-> MapInstance("parse", instances0[i])]),
            backgrounds |-> [k \in DOMAIN backgrounds0 |-> background_from_wire(backgrounds0[k])],
            charts |-> IF charts0 = None THEN None
                       ELSE [i \in DOMAIN charts0 |-> Parse("chart", charts0[i])],
            steps |-> [i \in DOMAIN steps0 |-> step_from_wire(steps0[i])]]
    BY <1>5, <1>10 DEF from_json_str
<1>. QED
    BY <1>1, <1>2, <1>4, <1>6, <1>7, <1>8, <1>9, <1>11

-----------------------------------------------------------------------------
(***************************************************************************)
(* What bindings are worth, and what setups set.                           *)
(***************************************************************************)
(* What an expression comes to is never a text.                            *)
LEMMA EvaluatedIsNoText == \A expression : ~IsText(Evaluate(expression))
<1>. SUFFICES ASSUME NEW e PROVE Evaluate(e).is \in {"failed", "real", "bool"}
    BY DEF IsText
<1>1. \A x : from_f64(x).is \in {"failed", "real"}
    BY DEF from_f64, Tenths, Failed
<1>2. \A truth : Bool(truth).is = "bool"
    BY DEF Bool
<1>3. Failed.is = "failed"
    BY DEF Failed
<1>4. \A x, y, operator : operator \in {"add", "subtract", "multiply", "divide"} =>
          Arithmetic(operator, x, y).is \in {"failed", "real"}
    BY <1>1, <1>3 DEF Arithmetic
<1>5. \/ Evaluate(e) = Failed
      \/ \E x : Evaluate(e) = from_f64(x)
      \/ \E truth : Evaluate(e) = Bool(truth)
      \/ \E x, y, operator : operator \in {"add", "subtract", "multiply", "divide"}
                             /\ Evaluate(e) = Arithmetic(operator, x, y)
    BY DEF Evaluate
<1>. QED
    BY <1>1, <1>2, <1>3, <1>4, <1>5

(* What an input is worth is a number, or a text of bytes, or fails.       *)
LEMMA ResolvedIsBytes ==
    ASSUME NEW input, input.kind \in {"elapsed", "timestamp"} \cup Expressions \/ IsBytes(input.value)
    PROVE  IsBytes(resolve(input))
<1>1. CASE input.kind = "elapsed"
    <2>1. resolve(input) = Tenths(3)
        BY <1>1 DEF resolve, Expressions
    <2>. QED
        BY ONLY <2>1 DEF Tenths, IsBytes, IsText
<1>2. CASE input.kind = "timestamp"
    <2>1. resolve(input) = Text(<<50, 48>>)
        BY <1>2 DEF resolve, Expressions
    <2>2. Text(<<50, 48>>).of = <<50, 48>>
        BY DEF Text
    <2>3. \A i \in DOMAIN <<50, 48>> : <<50, 48>>[i] \in 0 .. 255
        OBVIOUS
    <2>. QED
        BY ONLY <2>1, <2>2, <2>3 DEF IsBytes
<1>3. CASE input.kind \in Expressions
    <2>1. resolve(input) = Evaluate(input.value)
        BY <1>3 DEF resolve, Expressions
    <2>. QED
        BY <2>1, EvaluatedIsNoText DEF IsBytes
<1>4. CASE input.kind \notin {"elapsed", "timestamp"} \cup Expressions
    BY <1>4 DEF resolve
<1>. QED
    BY <1>1, <1>2, <1>3, <1>4

(* Formats.                                                                *)
LEMMA FormatsDiffer == \A format : Same(format, AsText) => ~Same(format, AsHex)
<1>1. AsText.of # AsHex.of
    <2>1. AsText.of = <<116>> /\ AsHex.of = <<104>>
        BY DEF AsText, AsHex, Text
    <2>2. <<116>> # <<104>>
        <3>1. <<116>>[1] = 116 /\ <<104>>[1] = 104
            OBVIOUS
        <3>. QED
            BY <3>1
    <2>. QED
        BY <2>1, <2>2
<1>. QED
    BY <1>1 DEF Same

(* A byte, or the bytes of a text, can be sent.                            *)
Sendable(tx) == tx # Invalid /\ tx # <<>> /\ \A i \in DOMAIN tx : tx[i] \in 0 .. 255

LEMMA HexIsSent ==
    ASSUME NEW format, Same(format, AsHex), NEW value, value.is = "number",
           value.of[1] \in 0 .. MaxSafeInteger
    PROVE  Sendable(encode_tx(format, value))
<1>. DEFINE byte == value.of[1] % 256
<1>1. encode_tx(format, value) = <<byte>>
    BY DEF encode_tx, hex_byte
<1>2. byte \in 0 .. 255
    <2>1. value.of[1] \in Int
        BY SerialAssumption
    <2>. QED
        BY <2>1
<1>. HIDE DEF byte
<1>3. <<byte>> # <<>> /\ DOMAIN <<byte>> = {1} /\ <<byte>>[1] = byte
    OBVIOUS
<1>4. <<byte>> # Invalid
    <2>1. Invalid[1] = -1
        BY DEF Invalid
    <2>. QED
        BY <2>1, <1>2, <1>3
<1>. QED
    BY <1>1, <1>2, <1>3, <1>4 DEF Sendable

LEMMA TextIsSent ==
    ASSUME NEW format, Same(format, AsText), NEW value, IsText(value), IsBytes(value), value.of # <<>>
    PROVE  Sendable(encode_tx(format, value))
<1>1. encode_tx(format, value) = value.of
    BY FormatsDiffer DEF encode_tx
<1>2. \A i \in DOMAIN value.of : value.of[i] \in 0 .. 255
    BY DEF IsBytes
<1>3. value.of # Invalid
    <2>1. Invalid[1] = -1 /\ 1 \in DOMAIN Invalid
        BY DEF Invalid
    <2>2. ASSUME value.of = Invalid PROVE Invalid[1] \in 0 .. 255
        BY ONLY <1>2, <2>1, <2>2
    <2>. QED
        BY ONLY <2>1, <2>2
<1>. QED
    BY <1>1, <1>2, <1>3 DEF Sendable

(* A hex byte that is bound is truncated.                                  *)
IsTruncated(step, tool, a) ==
    /\ "tx_value" \in DOMAIN step.bindings /\ step.action \in {"send", "query"} /\ tool = "serial"
    /\ Has(a, "tx_format") /\ Same(a.tx_format, AsHex)

(* The arguments a step is dispatched with.                                *)
IsDispatched(step, tool, a) ==
    /\ DOMAIN a = DOMAIN step.arguments \cup DOMAIN step.bindings
    /\ \A name \in DOMAIN step.arguments \ DOMAIN step.bindings : a[name] = step.arguments[name]
    /\ IF IsTruncated(step, tool, a)
       THEN a.tx_value = Failed \/ \E whole \in 0 .. MaxSafeInteger : a.tx_value = Number(whole)
       ELSE \A name \in DOMAIN a : IsBytes(a[name])

LEMMA Dispatched ==
    ASSUME NEW step, NEW tool, HasTextsOfBytes(step),
           NEW a, a = tool_arguments(step, tool)
    PROVE  IsDispatched(step, tool, a)
<1>. DEFINE r == resolve_tool_arguments(step.arguments, step.bindings)
            Truncates == /\ Has(step.bindings, "tx_value") /\ step.action \in {"send", "query"} /\ tool = "serial"
                         /\ Has(r, "tx_format") /\ Same(r.tx_format, AsHex)
<1>1. /\ DOMAIN r = DOMAIN step.arguments \cup DOMAIN step.bindings
      /\ \A name \in DOMAIN r : r[name] = IF name \in DOMAIN step.bindings THEN resolve(step.bindings[name])
                                          ELSE step.arguments[name]
    BY DEF resolve_tool_arguments, Has
<1>2. \A name \in DOMAIN r : IsBytes(r[name])
    BY <1>1, ResolvedIsBytes DEF HasTextsOfBytes
<1>. HIDE DEF r
<1>3. ~Truncates => a = r
    BY DEF tool_arguments, truncate_dynamic_integer_argument, r
<1>4. Truncates => \E v : a = [r EXCEPT !.tx_value = v]
    BY DEF tool_arguments, truncate_dynamic_integer_argument, r
<1>5. /\ DOMAIN a = DOMAIN r /\ \A name \in DOMAIN r \ {"tx_value"} : a[name] = r[name]
    BY <1>3, <1>4
<1>6. Truncates => "tx_value" \in DOMAIN step.bindings
    BY DEF Has
<1>7. \A name \in DOMAIN step.arguments \ DOMAIN step.bindings : a[name] = step.arguments[name]
    <2>. SUFFICES ASSUME NEW name \in DOMAIN step.arguments \ DOMAIN step.bindings
                  PROVE  a[name] = r[name]
        BY <1>1
    <2>. HIDE DEF Truncates
    <2>. QED
        BY <1>1, <1>3, <1>5, <1>6
<1>8. ASSUME ~IsTruncated(step, tool, a) PROVE a = r
    <2>1. Has(a, "tx_format") <=> Has(r, "tx_format")
        BY <1>5 DEF Has
    <2>2. Has(r, "tx_format") => a.tx_format = r.tx_format
        BY <1>5 DEF Has
    <2>3. ~Truncates
        BY <1>8, <2>1, <2>2 DEF Has, IsTruncated
    <2>. QED
        BY <2>3, <1>3
<1>9. ASSUME IsTruncated(step, tool, a)
      PROVE  a.tx_value = Failed \/ \E whole \in 0 .. MaxSafeInteger : a.tx_value = Number(whole)
    <2>1. Truncates
        BY <1>5, <1>9 DEF Has, IsTruncated
    <2>. DEFINE whole == Trunc(as_f64(r.tx_value)) \div 10
                v == IF IsNumber(r.tx_value) /\ whole \in 0 .. MaxSafeInteger THEN Number(whole) ELSE Failed
    <2>2. a = [r EXCEPT !.tx_value = v]
        BY <2>1 DEF tool_arguments, truncate_dynamic_integer_argument, r
    <2>3. v = Failed \/ \E n \in 0 .. MaxSafeInteger : v = Number(n)
        <3>. HIDE DEF whole
        <3>. QED
            OBVIOUS
    <2>. HIDE DEF v
    <2>4. a.tx_value = v
        BY <1>1, <1>9, <2>2 DEF IsTruncated
    <2>. QED
        BY <2>3, <2>4
<1>. QED
    BY <1>1, <1>2, <1>5, <1>7, <1>8, <1>9 DEF IsDispatched

-----------------------------------------------------------------------------
(* A set of naturals with zero and every successor has every natural.      *)
LEMMA EveryNatural ==
    ASSUME NEW T, 0 \in T, \A n \in Nat : n \in T => n + 1 \in T
    PROVE  Nat \subseteq T
<1>1. PICK R : IsWellFoundedOn(R, Nat) /\ \A m, n \in Nat : m < n => <<m, n>> \in R
    <2>1. \A m, n \in Nat : m < n => <<m, n>> \in OpToRel(<, Nat)
        BY DEF OpToRel
    <2>. QED
        BY <2>1, NatLessThanWellFounded, Zenon
<1>. SUFFICES ASSUME Nat \ T # {} PROVE FALSE
    OBVIOUS
<1>2. PICK n \in Nat \ T : \A m \in Nat \ T : <<m, n>> \notin R
    <2>1. IsWellFoundedOn(R, Nat) /\ Nat \ T \subseteq Nat
        BY <1>1
    <2>. QED
        BY <2>1, WFMin
<1>3. n # 0 /\ n - 1 \in Nat /\ n - 1 < n /\ n - 1 + 1 = n
    OBVIOUS
<1>4. n - 1 \in T
    BY <1>1, <1>2, <1>3
<1>. QED
    BY <1>3, <1>4

(* Two sequences that set nothing twice and nothing in common.             *)
LEMMA JoinedOnce ==
    ASSUME NEW S, NEW s \in Seq(S), NEW t \in Seq(S), IsInjective(s), IsInjective(t),
           \A i \in DOMAIN s, j \in DOMAIN t : s[i] # t[j]
    PROVE  /\ s \o t \in Seq(S) /\ IsInjective(s \o t)
           /\ \A k \in DOMAIN (s \o t) : (\E i \in DOMAIN s : (s \o t)[k] = s[i]) \/ \E j \in DOMAIN t : (s \o t)[k] = t[j]
<1>. DEFINE st == s \o t
<1>1. /\ st \in Seq(S) /\ Len(st) = Len(s) + Len(t) /\ Len(s) \in Nat /\ Len(t) \in Nat
      /\ DOMAIN st = 1 .. Len(st) /\ DOMAIN s = 1 .. Len(s) /\ DOMAIN t = 1 .. Len(t)
      /\ \A k \in 1 .. Len(st) : st[k] = IF k <= Len(s) THEN s[k] ELSE t[k - Len(s)]
    BY ConcatProperties
<1>. HIDE DEF st
<1>2. ASSUME NEW k \in DOMAIN st
      PROVE  /\ k <= Len(s) => k \in DOMAIN s /\ st[k] = s[k]
             /\ k > Len(s) => k - Len(s) \in DOMAIN t /\ st[k] = t[k - Len(s)]
    BY <1>1
<1>3. ASSUME NEW a \in DOMAIN st, NEW b \in DOMAIN st, st[a] = st[b] PROVE a = b
    <2>1. CASE a <= Len(s) /\ b <= Len(s)
        BY <1>2, <1>3, <2>1 DEF IsInjective
    <2>2. CASE a > Len(s) /\ b > Len(s)
        <3>1. a - Len(s) = b - Len(s)
            BY <1>2, <1>3, <2>2 DEF IsInjective
        <3>. QED
            BY <1>1, <3>1
    <2>3. CASE a <= Len(s) /\ b > Len(s)
        <3>1. a \in DOMAIN s /\ b - Len(s) \in DOMAIN t /\ s[a] = t[b - Len(s)]
            BY ONLY <1>2, <1>3, <2>3
        <3>. QED
            BY <3>1
    <2>4. CASE a > Len(s) /\ b <= Len(s)
        <3>1. b \in DOMAIN s /\ a - Len(s) \in DOMAIN t /\ s[b] = t[a - Len(s)]
            BY ONLY <1>2, <1>3, <2>4
        <3>. QED
            BY <3>1
    <2>5. a \in Int /\ b \in Int /\ Len(s) \in Int
        BY ONLY <1>1, <1>3
    <2>. QED
        BY ONLY <2>1, <2>2, <2>3, <2>4, <2>5
<1>4. ASSUME NEW k \in DOMAIN st
      PROVE  (\E i \in DOMAIN s : st[k] = s[i]) \/ \E j \in DOMAIN t : st[k] = t[j]
    BY <1>1, <1>2
<1>. QED
    BY <1>1, <1>3, <1>4 DEF IsInjective, st

(* What FlattenSeq has joined of the first sequences.                      *)
IsJoining(f, seqs, n) == f = [i \in 1 .. n |-> IF i = 1 THEN seqs[i] ELSE f[i - 1] \o seqs[i]]

LEMMA JoiningExists ==
    ASSUME NEW seqs, NEW n \in Nat
    PROVE  \E f : IsJoining(f, seqs, n)
<1>. DEFINE T == {m \in Nat : \E f : IsJoining(f, seqs, m)}
<1>1. 0 \in T
    <2>. DEFINE f == [i \in 1 .. 0 |-> seqs[i]]
    <2>1. f = [i \in 1 .. 0 |-> IF i = 1 THEN seqs[i] ELSE f[i - 1] \o seqs[i]]
        OBVIOUS
    <2>. QED
        BY <2>1 DEF IsJoining
<1>2. ASSUME NEW m \in Nat, m \in T PROVE m + 1 \in T
    <2>1. PICK f : IsJoining(f, seqs, m)
        BY <1>2
    <2>2. f = [i \in 1 .. m |-> IF i = 1 THEN seqs[i] ELSE f[i - 1] \o seqs[i]]
        BY <2>1 DEF IsJoining
    <2>. DEFINE last == IF m = 0 THEN seqs[1] ELSE f[m] \o seqs[m + 1]
                g == [i \in 1 .. m + 1 |-> IF i = m + 1 THEN last ELSE f[i]]
                h == [i \in 1 .. m + 1 |-> IF i = 1 THEN seqs[i] ELSE g[i - 1] \o seqs[i]]
    <2>3. ASSUME NEW i \in 1 .. m + 1 PROVE g[i] = h[i]
        <3>1. CASE i = m + 1
            <4>1. g[i] = last
                BY <3>1
            <4>2. m # 0 => g[i - 1] = f[m] /\ i # 1
                BY <3>1
            <4>3. h[i] = IF i = 1 THEN seqs[i] ELSE g[i - 1] \o seqs[i]
                OBVIOUS
            <4>. HIDE DEF g, h
            <4>. QED
                BY <3>1, <4>1, <4>2, <4>3
        <3>2. CASE i \in 1 .. m
            <4>1. g[i] = f[i] /\ (i # 1 => g[i - 1] = f[i - 1])
                BY <3>2
            <4>2. h[i] = IF i = 1 THEN seqs[i] ELSE g[i - 1] \o seqs[i]
                OBVIOUS
            <4>3. f[i] = IF i = 1 THEN seqs[i] ELSE f[i - 1] \o seqs[i]
                BY <2>2, <3>2
            <4>. HIDE DEF g, h
            <4>. QED
                BY <4>1, <4>2, <4>3
        <3>. QED
            BY <3>1, <3>2
    <2>4. g = h
        <3>. HIDE DEF last
        <3>. QED
            BY <2>3
    <2>5. IsJoining(g, seqs, m + 1)
        BY <2>4 DEF IsJoining
    <2>. QED
        BY <2>5
<1>3. Nat \subseteq T
    <2>. HIDE DEF T
    <2>. QED
        BY <1>1, <1>2, EveryNatural
<1>. QED
    BY <1>3

(* Sequences that set nothing twice and nothing in common, one after the   *)
(* other.                                                                  *)
IsOnce(s, seqs, S, m) ==
    /\ s \in Seq(S) /\ IsInjective(s)
    /\ \A k \in DOMAIN s : \E i \in 1 .. m : \E a \in DOMAIN seqs[i] : s[k] = seqs[i][a]

LEMMA NextJoinedOnce ==
    ASSUME NEW S, NEW seqs \in Seq(Seq(S)), \A i \in DOMAIN seqs : IsInjective(seqs[i]),
           \A i, j \in DOMAIN seqs : i # j =>
               \A a \in DOMAIN seqs[i], b \in DOMAIN seqs[j] : seqs[i][a] # seqs[j][b],
           NEW m \in Nat, m + 1 \in DOMAIN seqs, NEW s, IsOnce(s, seqs, S, m)
    PROVE  IsOnce(s \o seqs[m + 1], seqs, S, m + 1)
<1>. DEFINE t == seqs[m + 1]
            st == s \o t
<1>1. s \in Seq(S) /\ IsInjective(s) /\ \A k \in DOMAIN s : \E i \in 1 .. m : \E a \in DOMAIN seqs[i] : s[k] = seqs[i][a]
    BY DEF IsOnce
<1>2. t \in Seq(S) /\ IsInjective(t)
    OBVIOUS
<1>3. \A k \in DOMAIN s, j \in DOMAIN t : s[k] # t[j]
    <2>. SUFFICES ASSUME NEW k \in DOMAIN s, NEW j \in DOMAIN t PROVE s[k] # t[j]
        OBVIOUS
    <2>1. PICK i \in 1 .. m : \E a \in DOMAIN seqs[i] : s[k] = seqs[i][a]
        BY <1>1
    <2>2. PICK a \in DOMAIN seqs[i] : s[k] = seqs[i][a]
        BY <2>1
    <2>3. i \in DOMAIN seqs /\ i # m + 1
        OBVIOUS
    <2>4. seqs[i][a] # t[j]
        BY <2>3
    <2>. QED
        BY ONLY <2>2, <2>4
<1>. HIDE DEF t
<1>4. /\ st \in Seq(S) /\ IsInjective(st)
      /\ \A k \in DOMAIN st : (\E i \in DOMAIN s : st[k] = s[i]) \/ \E j \in DOMAIN t : st[k] = t[j]
    <2>1. s \in Seq(S)
        BY ONLY <1>1
    <2>2. IsInjective(s)
        BY ONLY <1>1
    <2>3. t \in Seq(S)
        BY ONLY <1>2
    <2>4. IsInjective(t)
        BY ONLY <1>2
    <2>. QED
        BY ONLY <1>3, <2>1, <2>2, <2>3, <2>4, JoinedOnce
<1>. HIDE DEF st
<1>5. ASSUME NEW k \in DOMAIN st PROVE \E i \in 1 .. m + 1 : \E a \in DOMAIN seqs[i] : st[k] = seqs[i][a]
    <2>1. CASE \E j \in DOMAIN t : st[k] = t[j]
        <3>1. m + 1 \in 1 .. m + 1
            OBVIOUS
        <3>. QED
            BY ONLY <2>1, <3>1 DEF t
    <2>2. CASE \E i \in DOMAIN s : st[k] = s[i]
        <3>1. PICK p \in DOMAIN s : st[k] = s[p]
            BY <2>2
        <3>2. PICK i \in 1 .. m : \E a \in DOMAIN seqs[i] : s[p] = seqs[i][a]
            BY <1>1
        <3>3. i \in 1 .. m + 1
            OBVIOUS
        <3>. QED
            BY ONLY <3>1, <3>2, <3>3
    <2>. QED
        BY <1>4, <2>1, <2>2
<1>. QED
    BY ONLY <1>4, <1>5 DEF IsOnce, st, t

LEMMA FlattenedOnce ==
    ASSUME NEW S, NEW seqs \in Seq(Seq(S)), \A i \in DOMAIN seqs : IsInjective(seqs[i]),
           \A i, j \in DOMAIN seqs : i # j =>
               \A a \in DOMAIN seqs[i], b \in DOMAIN seqs[j] : seqs[i][a] # seqs[j][b]
    PROVE  /\ FlattenSeq(seqs) \in Seq(S) /\ IsInjective(FlattenSeq(seqs))
           /\ \A k \in DOMAIN FlattenSeq(seqs) :
                 \E i \in DOMAIN seqs : \E a \in DOMAIN seqs[i] : FlattenSeq(seqs)[k] = seqs[i][a]
<1>. DEFINE n == Len(seqs)
<1>1. n \in Nat /\ DOMAIN seqs = 1 .. n /\ \A i \in 1 .. n : seqs[i] \in Seq(S)
    OBVIOUS
<1>2. CASE n = 0
    <2>1. FlattenSeq(seqs) = seqs
        BY <1>2 DEF FlattenSeq
    <2>2. seqs = <<>>
        BY <1>2
    <2>. QED
        BY <2>1, <2>2 DEF IsInjective
<1>3. CASE n # 0
    <2>1. PICK f : IsJoining(f, seqs, n) /\ FlattenSeq(seqs) = f[n]
        <3>. DEFINE f == CHOOSE f : IsJoining(f, seqs, n)
        <3>1. IsJoining(f, seqs, n)
            BY <1>1, JoiningExists
        <3>2. FlattenSeq(seqs) = f[n]
            BY <1>3 DEF FlattenSeq, IsJoining
        <3>. QED
            BY <3>1, <3>2
    <2>2. \A i \in 1 .. n : f[i] = IF i = 1 THEN seqs[i] ELSE f[i - 1] \o seqs[i]
        BY <2>1 DEF IsJoining
    <2>. DEFINE T == {m \in Nat : m \in 1 .. n => IsOnce(f[m], seqs, S, m)}
    <2>3. 0 \in T
        OBVIOUS
    <2>4. ASSUME NEW m \in Nat, m \in T PROVE m + 1 \in T
        <3>. SUFFICES ASSUME m + 1 \in 1 .. n PROVE IsOnce(f[m + 1], seqs, S, m + 1)
            OBVIOUS
        <3>1. CASE m = 0
            <4>1. f[m + 1] = seqs[1] /\ 1 \in 1 .. n
                <5>1. m + 1 = 1 /\ 1 \in 1 .. n
                    BY ONLY <3>1, m + 1 \in 1 .. n, n \in Nat, <1>1
                <5>2. f[1] = seqs[1]
                    BY ONLY <2>2, <5>1
                <5>. QED
                    BY ONLY <5>1, <5>2
            <4>2. seqs[1] \in Seq(S) /\ IsInjective(seqs[1]) /\ 1 \in 1 .. m + 1
                BY <1>1, <3>1, <4>1
            <4>3. \A k \in DOMAIN seqs[1] : \E i \in 1 .. m + 1 : \E a \in DOMAIN seqs[i] : seqs[1][k] = seqs[i][a]
                BY ONLY <4>2
            <4>4. IsOnce(seqs[1], seqs, S, m + 1)
                BY ONLY <4>2, <4>3 DEF IsOnce
            <4>. QED
                BY ONLY <4>1, <4>4
        <3>2. CASE m # 0
            <4>1. m + 1 \in 1 .. n /\ m \in 1 .. n /\ m + 1 # 1 /\ m + 1 - 1 = m
                BY <1>1, <3>2
            <4>2. f[m + 1] = f[m] \o seqs[m + 1]
                <5>. DEFINE i == m + 1
                <5>1. i \in 1 .. n /\ i # 1 /\ i - 1 = m
                    BY <4>1
                <5>. HIDE DEF i
                <5>2. f[i] = f[i - 1] \o seqs[i]
                    BY ONLY <2>2, <5>1
                <5>3. f[i] = f[m] \o seqs[i]
                    BY ONLY <5>1, <5>2
                <5>. QED
                    BY ONLY <5>3 DEF i
            <4>3. IsOnce(f[m], seqs, S, m)
                BY <2>4, <4>1
            <4>4. IsOnce(f[m] \o seqs[m + 1], seqs, S, m + 1)
                BY <1>1, <4>1, <4>3, NextJoinedOnce
            <4>. QED
                BY ONLY <4>2, <4>4
        <3>. QED
            BY <3>1, <3>2
    <2>5. Nat \subseteq T
        <3>. HIDE DEF T
        <3>. QED
            BY <2>3, <2>4, EveryNatural
    <2>6. IsOnce(f[n], seqs, S, n)
        BY <1>1, <1>3, <2>5
    <2>. DEFINE s == FlattenSeq(seqs)
    <2>7. /\ s \in Seq(S) /\ IsInjective(s)
          /\ \A k \in DOMAIN s : \E i \in 1 .. n : \E a \in DOMAIN seqs[i] : s[k] = seqs[i][a]
        <3>1. IsOnce(s, seqs, S, n)
            BY ONLY <2>1, <2>6
        <3>. HIDE DEF s
        <3>. QED
            BY ONLY <3>1 DEF IsOnce
    <2>. HIDE DEF s
    <2>8. \A k \in DOMAIN s : \E i \in DOMAIN seqs : \E a \in DOMAIN seqs[i] : s[k] = seqs[i][a]
        BY ONLY <1>1, <2>7
    <2>. QED
        BY ONLY <2>7, <2>8 DEF s
<1>. QED
    BY <1>2, <1>3

-----------------------------------------------------------------------------
(* A supply's setup protects each channel once.                            *)
LEMMA PowersSetOnce ==
    ASSUME NEW setup, StructuredSetup("powers", setup), powers_setup_is_valid(setup)
    PROVE  IsInjective([k \in DOMAIN protection_commands(setup) |->
                           protection_commands(setup)[k].channel.of[1]])
<1>. DEFINE commands == protection_commands(setup)
            channels == [k \in DOMAIN commands |-> commands[k].channel.of[1]]
<1>1. CASE ~setup.protected
    <2>1. commands = <<>> /\ DOMAIN <<>> = {}
        BY <1>1 DEF protection_commands
    <2>. HIDE DEF commands
    <2>2. DOMAIN channels = {}
        BY ONLY <2>1
    <2>. HIDE DEF channels
    <2>3. IsInjective(channels)
        BY ONLY <2>2 DEF IsInjective
    <2>. QED
        BY ONLY <2>3 DEF channels, commands
<1>2. CASE setup.protected
    <2>1. IsList(setup.channels)
        BY DEF StructuredSetup
    <2>2. \A i \in DOMAIN setup.channels : \A j \in 1 .. i - 1 : setup.channels[j].channel # setup.channels[i].channel
        BY <1>2 DEF powers_setup_is_valid
    <2>3. DOMAIN setup.channels \subseteq Nat /\ \A i, j \in DOMAIN setup.channels : j < i => j \in 1 .. i - 1
        BY <2>1 DEF IsList
    <2>4. \A i, j \in DOMAIN setup.channels : setup.channels[i].channel = setup.channels[j].channel => i = j
        BY ONLY <2>2, <2>3
    <2>5. commands = [i \in DOMAIN setup.channels |-> protection_set_arguments(setup.channels[i])]
        BY <1>2 DEF protection_commands
    <2>6. \A record : protection_set_arguments(record).channel.of[1] = record.channel
        <3>. SUFFICES ASSUME NEW record PROVE protection_set_arguments(record).channel.of[1] = record.channel
            OBVIOUS
        <3>1. protection_set_arguments(record).channel = Number(record.channel)
            BY DEF protection_set_arguments
        <3>2. Number(record.channel).of = <<record.channel>>
            BY DEF Number
        <3>. QED
            BY ONLY <3>1, <3>2
    <2>. HIDE DEF commands
    <2>7. DOMAIN channels = DOMAIN setup.channels /\ \A i \in DOMAIN setup.channels : channels[i] = setup.channels[i].channel
        BY ONLY <2>5, <2>6
    <2>. HIDE DEF channels
    <2>8. IsInjective(channels)
        BY ONLY <2>4, <2>7 DEF IsInjective
    <2>. QED
        BY ONLY <2>8 DEF channels, commands
<1>. QED
    BY <1>1, <1>2

(* What is set of one channel.                                             *)
LEMMA ChannelSetOnce ==
    ASSUME NEW record, NEW S, \A k \in DOMAIN ChannelSettings : <<ChannelSettings[k], record.channel>> \in S
    PROVE  /\ channel_commands(record) \in Seq(S) /\ IsInjective(channel_commands(record))
           /\ \A a \in DOMAIN channel_commands(record) :
                 \E k \in DOMAIN ChannelSettings : channel_commands(record)[a] = <<ChannelSettings[k], record.channel>>
<1>. DEFINE seqs == [k \in DOMAIN ChannelSettings |-> setting_command(record, ChannelSettings[k])]
<1>1. /\ DOMAIN ChannelSettings = 1 .. 5
      /\ \A j, k \in 1 .. 5 : ChannelSettings[j] = ChannelSettings[k] => j = k
    <2>1. /\ DOMAIN ChannelSettings = 1 .. 5
          /\ ChannelSettings[1] = "coupling" /\ ChannelSettings[2] = "probe_ratio"
          /\ ChannelSettings[3] = "bandwidth_limit" /\ ChannelSettings[4] = "invert" /\ ChannelSettings[5] = "units"
        BY DEF ChannelSettings
    <2>2. \A j \in 1 .. 5 : j = 1 \/ j = 2 \/ j = 3 \/ j = 4 \/ j = 5
        OBVIOUS
    <2>. QED
        BY ONLY <2>1, <2>2
<1>2. \A k \in 1 .. 5 : /\ seqs[k] \in Seq(S) /\ IsInjective(seqs[k])
                         /\ \A a \in DOMAIN seqs[k] : seqs[k][a] = <<ChannelSettings[k], record.channel>>
    <2>. SUFFICES ASSUME NEW k \in 1 .. 5
                  PROVE  /\ seqs[k] \in Seq(S) /\ IsInjective(seqs[k])
                         /\ \A a \in DOMAIN seqs[k] : seqs[k][a] = <<ChannelSettings[k], record.channel>>
        OBVIOUS
    <2>. DEFINE e == <<ChannelSettings[k], record.channel>>
    <2>1. seqs[k] = <<>> \/ seqs[k] = <<e>>
        BY <1>1 DEF setting_command
    <2>2. e \in S
        BY <1>1
    <2>. HIDE DEF e, seqs
    <2>3. /\ <<>> \in Seq(S) /\ DOMAIN <<>> = {}
          /\ <<e>> \in Seq(S) /\ DOMAIN <<e>> = {1} /\ <<e>>[1] = e
        BY ONLY <2>2
    <2>4. seqs[k] \in Seq(S) /\ \A a \in DOMAIN seqs[k] : a = 1 /\ seqs[k][a] = e
        BY ONLY <2>1, <2>3
    <2>5. IsInjective(seqs[k])
        BY ONLY <2>4 DEF IsInjective
    <2>. QED
        BY ONLY <2>4, <2>5 DEF e
<1>3. DOMAIN seqs = 1 .. 5 /\ seqs = [k \in 1 .. 5 |-> seqs[k]] /\ channel_commands(record) = FlattenSeq(seqs)
    BY <1>1 DEF channel_commands
<1>. HIDE DEF seqs
<1>4. seqs \in Seq(Seq(S))
    BY <1>2, <1>3
<1>5. \A i \in DOMAIN seqs : IsInjective(seqs[i])
    BY ONLY <1>2, <1>3
<1>6. \A i, j \in DOMAIN seqs : i # j =>
          \A a \in DOMAIN seqs[i], b \in DOMAIN seqs[j] : seqs[i][a] # seqs[j][b]
    <2>. SUFFICES ASSUME NEW i \in DOMAIN seqs, NEW j \in DOMAIN seqs, i # j,
                         NEW a \in DOMAIN seqs[i], NEW b \in DOMAIN seqs[j]
                  PROVE  seqs[i][a] # seqs[j][b]
        OBVIOUS
    <2>0. i \in 1 .. 5 /\ j \in 1 .. 5
        BY <1>3
    <2>1. seqs[i][a] = <<ChannelSettings[i], record.channel>> /\ seqs[j][b] = <<ChannelSettings[j], record.channel>>
        BY <2>0, <1>2
    <2>2. ChannelSettings[i] # ChannelSettings[j]
        BY <2>0, <1>1
    <2>. QED
        BY ONLY <2>1, <2>2
<1>7. /\ FlattenSeq(seqs) \in Seq(S) /\ IsInjective(FlattenSeq(seqs))
      /\ \A k \in DOMAIN FlattenSeq(seqs) :
            \E i \in DOMAIN seqs : \E a \in DOMAIN seqs[i] : FlattenSeq(seqs)[k] = seqs[i][a]
    BY ONLY <1>4, <1>5, <1>6, FlattenedOnce
<1>8. \A k \in DOMAIN FlattenSeq(seqs) :
          \E i \in 1 .. 5 : FlattenSeq(seqs)[k] = <<ChannelSettings[i], record.channel>>
    <2>. SUFFICES ASSUME NEW k \in DOMAIN FlattenSeq(seqs)
                  PROVE  \E i \in 1 .. 5 : FlattenSeq(seqs)[k] = <<ChannelSettings[i], record.channel>>
        OBVIOUS
    <2>1. PICK i \in DOMAIN seqs : \E a \in DOMAIN seqs[i] : FlattenSeq(seqs)[k] = seqs[i][a]
        BY <1>7
    <2>2. PICK a \in DOMAIN seqs[i] : FlattenSeq(seqs)[k] = seqs[i][a]
        BY <2>1
    <2>3. i \in 1 .. 5
        BY ONLY <1>3, <2>1
    <2>4. seqs[i][a] = <<ChannelSettings[i], record.channel>>
        BY ONLY <1>2, <2>2, <2>3
    <2>. QED
        BY ONLY <2>2, <2>3, <2>4
<1>. QED
    BY ONLY <1>1, <1>3, <1>7, <1>8

(* A scope's setup sets nothing twice.                                     *)
LEMMA ScopesSetOnce ==
    ASSUME NEW setup, StructuredSetup("scopes", setup), scopes_setup_is_valid(setup)
    PROVE  IsInjective(setup_commands(setup))
<1>. DEFINE channels == setup.channels
            D == DOMAIN channels
            S == {<<"acquisition", 0>>} \cup
                     {<<ChannelSettings[k], channels[i].channel>> : k \in DOMAIN ChannelSettings, i \in D}
            seqs == [i \in D |-> channel_commands(channels[i])]
            first == IF setup.acquires THEN <<<<"acquisition", 0>>>> ELSE <<>>
<1>1. Len(channels) \in Nat /\ D = 1 .. Len(channels)
    BY DEF StructuredSetup, IsList
<1>2. \A i \in D : \A j \in 1 .. i - 1 : channels[j].channel # channels[i].channel
    BY DEF scopes_setup_is_valid
<1>3. \A i, j \in D : channels[i].channel = channels[j].channel => i = j
    <2>1. D \subseteq Nat /\ \A i, j \in D : j < i => j \in 1 .. i - 1
        BY <1>1
    <2>. HIDE DEF D, channels
    <2>. QED
        BY ONLY <1>2, <2>1
<1>4. ASSUME NEW i \in D
      PROVE  /\ seqs[i] \in Seq(S) /\ IsInjective(seqs[i])
             /\ \A a \in DOMAIN seqs[i] : \E k \in DOMAIN ChannelSettings :
                   seqs[i][a] = <<ChannelSettings[k], channels[i].channel>>
    <2>1. seqs[i] = channel_commands(channels[i])
        OBVIOUS
    <2>2. \A k \in DOMAIN ChannelSettings : <<ChannelSettings[k], channels[i].channel>> \in S
        OBVIOUS
    <2>. HIDE DEF S, seqs, D, channels
    <2>3. /\ channel_commands(channels[i]) \in Seq(S) /\ IsInjective(channel_commands(channels[i]))
          /\ \A a \in DOMAIN channel_commands(channels[i]) : \E k \in DOMAIN ChannelSettings :
                channel_commands(channels[i])[a] = <<ChannelSettings[k], channels[i].channel>>
        BY ONLY <2>2, ChannelSetOnce
    <2>. QED
        BY ONLY <2>1, <2>3
<1>5. DOMAIN seqs = D /\ seqs = [i \in D |-> seqs[i]] /\ setup_commands(setup) = first \o FlattenSeq(seqs)
    BY DEF setup_commands
<1>6. first \in Seq(S) /\ IsInjective(first) /\ \A a \in DOMAIN first : first[a] = <<"acquisition", 0>>
    <2>. DEFINE e == <<"acquisition", 0>>
    <2>1. first = <<>> \/ first = <<e>>
        OBVIOUS
    <2>2. e \in S
        OBVIOUS
    <2>. HIDE DEF e, first, S
    <2>3. /\ <<>> \in Seq(S) /\ DOMAIN <<>> = {}
          /\ <<e>> \in Seq(S) /\ DOMAIN <<e>> = {1} /\ <<e>>[1] = e
        BY ONLY <2>2
    <2>4. first \in Seq(S) /\ \A a \in DOMAIN first : a = 1 /\ first[a] = e
        BY ONLY <2>1, <2>3
    <2>5. IsInjective(first)
        BY ONLY <2>4 DEF IsInjective
    <2>. QED
        BY ONLY <2>4, <2>5 DEF e
<1>. HIDE DEF seqs, first, S
<1>7. seqs \in Seq(Seq(S))
    <2>. HIDE DEF D, channels
    <2>1. seqs \in [1 .. Len(channels) -> Seq(S)]
        BY ONLY <1>1, <1>4, <1>5
    <2>. QED
        BY ONLY <1>1, <2>1
<1>8. \A i \in DOMAIN seqs : IsInjective(seqs[i])
    BY ONLY <1>4, <1>5
<1>9. \A i, j \in DOMAIN seqs : i # j =>
          \A a \in DOMAIN seqs[i], b \in DOMAIN seqs[j] : seqs[i][a] # seqs[j][b]
    <2>. SUFFICES ASSUME NEW i \in DOMAIN seqs, NEW j \in DOMAIN seqs, i # j,
                         NEW a \in DOMAIN seqs[i], NEW b \in DOMAIN seqs[j]
                  PROVE  seqs[i][a] # seqs[j][b]
        OBVIOUS
    <2>0. i \in D /\ j \in D
        BY ONLY <1>5
    <2>1. PICK k \in DOMAIN ChannelSettings : seqs[i][a] = <<ChannelSettings[k], channels[i].channel>>
        BY <1>4, <2>0
    <2>2. PICK m \in DOMAIN ChannelSettings : seqs[j][b] = <<ChannelSettings[m], channels[j].channel>>
        BY <1>4, <2>0
    <2>3. channels[i].channel # channels[j].channel
        BY <1>3, <2>0
    <2>. QED
        BY ONLY <2>1, <2>2, <2>3
<1>. DEFINE rest == FlattenSeq(seqs)
<1>10. /\ rest \in Seq(S) /\ IsInjective(rest)
       /\ \A k \in DOMAIN rest : \E i \in DOMAIN seqs : \E a \in DOMAIN seqs[i] : rest[k] = seqs[i][a]
    BY ONLY <1>7, <1>8, <1>9, FlattenedOnce
<1>11. setup_commands(setup) = first \o rest
    BY ONLY <1>5
<1>. HIDE DEF rest
<1>12. \A a \in DOMAIN first, b \in DOMAIN rest : first[a] # rest[b]
    <2>. SUFFICES ASSUME NEW a \in DOMAIN first, NEW b \in DOMAIN rest PROVE first[a] # rest[b]
        OBVIOUS
    <2>1. PICK i \in D : \E c \in DOMAIN seqs[i] : rest[b] = seqs[i][c]
        BY ONLY <1>5, <1>10
    <2>2. PICK c \in DOMAIN seqs[i] : rest[b] = seqs[i][c]
        BY <2>1
    <2>3. PICK k \in DOMAIN ChannelSettings : seqs[i][c] = <<ChannelSettings[k], channels[i].channel>>
        BY <1>4
    <2>4. ChannelSettings[k] # "acquisition"
        BY DEF ChannelSettings
    <2>5. first[a] = <<"acquisition", 0>>
        BY <1>6
    <2>. QED
        BY ONLY <2>2, <2>3, <2>4, <2>5
<1>13. IsInjective(first \o rest)
    <2>1. first \in Seq(S)
        BY ONLY <1>6
    <2>2. IsInjective(first)
        BY ONLY <1>6
    <2>3. rest \in Seq(S)
        BY ONLY <1>10
    <2>4. IsInjective(rest)
        BY ONLY <1>10
    <2>. QED
        BY ONLY <1>12, <2>1, <2>2, <2>3, <2>4, JoinedOnce
<1>. QED
    BY ONLY <1>11, <1>13
=============================================================================
