---------------------------- MODULE Workflow ----------------------------
(***************************************************************************)
(* A workflow document and the validator that reads it once, in order.     *)
(*                                                                         *)
(* steps is the document in pre-order: a For, a While or an If opens a     *)
(* block, "else" starts the second branch of the innermost If and "end"    *)
(* closes the innermost block.  check is what Workflow::new has gathered   *)
(* of the steps read so far: one frame per call of validate_steps, with    *)
(* what the steps of that block may refer to.                              *)
(*                                                                         *)
(* The second half says, without any walk, which documents are well formed *)
(* and how often a measurement can be taken; Preparation states that the   *)
(* two halves agree.                                                       *)
(***************************************************************************)
EXTENDS Integers, Sequences, SequencesExt, FiniteSetsExt

CONSTANTS
    MaxDepth,   \* nested blocks allowed
    MaxFields,  \* fields of a Show Message step
    MaxCount,   \* the largest usize
    None

ASSUME WorkflowAssumption ==
    MaxDepth \in Nat /\ MaxFields \in Nat \ {0} /\ MaxCount \in Nat \ {0}

VARIABLES
    steps,  \* the document
    check   \* Workflow::new: what it knows after reading steps

Overflow == -1
Loops == {"for", "while"}
Blocks == Loops \cup {"if"}

NewFrame == [opens |-> 0, second |-> FALSE, prior |-> {}, outputs |-> {}, variables |-> {}, before |-> <<{}, {}, {}>>,
             bindings |-> {}, path |-> <<>>, depth |-> 0]
NewCheck == [ok |-> TRUE, seen |-> {}, names |-> {}, pages |-> <<>>, frames |-> <<NewFrame>>]

WorkflowInit == steps = <<>> /\ check = NewCheck

Top == Last(check.frames)
Complete == check.ok /\ Len(check.frames) = 1

-----------------------------------------------------------------------------
(* NumericRange: start, stop and step are integers at their common scale.  *)

Distance(a, b) == IF a < b THEN b - a ELSE a - b

(* Negative steps are written as their size and a direction.               *)
iteration_count(r) ==
    IF r.start = r.stop THEN 1 ELSE Distance(r.start, r.stop) \div r.step + 1

range_is_valid(r) ==
    /\ r.step # 0
    /\ iteration_count(r) <= MaxCount
    /\ r.start < r.stop => r.up
    /\ r.start > r.stop => ~r.up

value_at(r, index) ==
    IF r.start = r.stop THEN r.start
    ELSE IF r.up THEN r.start + r.step * index ELSE r.start - r.step * index

-----------------------------------------------------------------------------
(* What an author writes: steps, and no marks of a block's second branch   *)
(* or end; and a page is what its name makes it.                           *)
Writable(alphabet) ==
    /\ \A step \in alphabet :
          {"kind", "id", "page"} \subseteq DOMAIN step /\ step.kind \notin {"else", "end"}
    /\ \A a, b \in alphabet : a.page.name = b.page.name => a.page = b.page

-----------------------------------------------------------------------------
(* The checks of validate_steps, one per kind of step.                     *)

(* A comparison that forgets to see whether the step comes earlier.        *)
AnyEarlierStep(step) ==
    CASE step.uses = "step" -> step.ref \in check.seen
      [] step.uses = "variable" -> step.read \in Top.variables
      [] OTHER -> TRUE

validate_input(step) ==
    CASE step.uses = "step" -> step.ref \in Top.prior
      [] step.uses = "variable" -> step.read \in Top.variables
      [] OTHER -> TRUE

PagesOf(page) == {i \in DOMAIN check.pages : check.pages[i].name = page.name}

(* What can be said of a step without looking at the others.               *)
Local(step) ==
    CASE step.kind = "for" -> range_is_valid(step.range)
      [] step.kind = "while" -> step.comparison /\ step.limit # 0
      [] step.kind \in {"if", "assert"} -> step.comparison
      [] step.kind = "output" ->
            /\ step.format = IF step.source \in {"elapsed", "timestamp"} THEN step.source ELSE None
            /\ step.name # "" /\ step.page.safe
      [] step.kind = "show-message" -> step.fields \in 1 .. MaxFields /\ ~step.long
      [] OTHER -> TRUE

(* An unlimited While stands outside every loop; that its body must not be *)
(* empty is seen when it ends.                                             *)
ValidWhile(step) == step.limit = None => Top.path = <<>>

ValidSetVariable(step) == step.variable \notin Top.bindings

ValidOutput(step) ==
    /\ step.name \notin check.names
    /\ IF PagesOf(step.page) # {}
       THEN \A i \in PagesOf(step.page) : check.pages[i].row_scope = Top.path
       ELSE \A i \in DOMAIN check.pages : check.pages[i].folded # step.page.folded

ValidMessage(step) == step.uses = "step" => step.ref \in Top.outputs

Valid(step) ==
    /\ step.id \notin check.seen
    /\ Local(step)
    /\ validate_input(step)
    /\ step.kind \in Blocks => Top.depth < MaxDepth
    /\ step.kind = "while" => ValidWhile(step)
    /\ step.kind = "set-variable" => ValidSetVariable(step)
    /\ step.kind = "output" => ValidOutput(step)
    /\ step.kind = "show-message" => ValidMessage(step)

-----------------------------------------------------------------------------
(* What a valid step adds.                                                 *)

(* What later steps of the same block may refer to once step is done.      *)
Publish(frame, step) ==
    [frame EXCEPT
        !.prior = @ \cup {step.id},
        !.outputs = IF step.kind = "output" THEN @ \cup {step.id} ELSE @,
        !.variables = IF step.kind = "set-variable" THEN @ \cup {step.variable} ELSE @]

AddToPage(step) ==
    IF PagesOf(step.page) # {}
    THEN [i \in DOMAIN check.pages |->
             IF i \in PagesOf(step.page)
             THEN [check.pages[i] EXCEPT !.headers = Append(@, step.name)]
             ELSE check.pages[i]]
    ELSE Append(check.pages, [name |-> step.page.name, folded |-> step.page.folded,
                              row_scope |-> Top.path, headers |-> <<step.name>>])

(* The frame of the block that step opens.                                 *)
Opened(step) ==
    LET variables == IF step.kind = "for" THEN Top.variables \cup {step.variable}
                     ELSE Top.variables
    IN [opens |-> Len(steps) + 1, second |-> FALSE, prior |-> Top.prior, outputs |-> Top.outputs,
        variables |-> variables,
        before |-> <<Top.prior, Top.outputs, variables>>,
        bindings |-> IF step.kind = "for" THEN Top.bindings \cup {step.variable} ELSE Top.bindings,
        path |-> IF step.kind \in Loops THEN Append(Top.path, step.id) ELSE Top.path,
        depth |-> Top.depth + 1]

Read(step) ==
    /\ steps' = Append(steps, step)
    /\ check' = IF ~Valid(step) THEN [check EXCEPT !.ok = FALSE]
                ELSE [check EXCEPT
                        !.seen = @ \cup {step.id},
                        !.names = IF step.kind = "output" THEN @ \cup {step.name} ELSE @,
                        !.pages = IF step.kind = "output" THEN AddToPage(step) ELSE @,
                        !.frames = IF step.kind \in Blocks THEN Append(@, Opened(step))
                                   ELSE Append(Front(@), Publish(Last(@), step))]

(* The second branch starts from what was visible before the If.           *)
ReadElse ==
    /\ Len(check.frames) > 1
    /\ steps[Top.opens].kind = "if" /\ ~Top.second
    /\ steps' = Append(steps, [kind |-> "else", id |-> 0])
    /\ check' = [check EXCEPT !.frames =
                    Append(Front(@), [Last(@) EXCEPT !.second = TRUE,
                                                     !.prior = Top.before[1],
                                                     !.outputs = Top.before[2],
                                                     !.variables = Top.before[3]])]

(* A closed block leaves behind its own id and nothing of its inside.      *)
CloseLeaking ==
    /\ Len(check.frames) > 1
    /\ steps' = Append(steps, [kind |-> "end", id |-> 0])
    /\ check' = [check EXCEPT
          !.ok = ~(steps[Top.opens].kind = "while" /\ steps[Top.opens].limit = None
                   /\ Top.opens = Len(steps)),
          !.frames = LET outer == check.frames[Len(@) - 1]
                     IN Append(Front(Front(@)),
                               [Publish(outer, steps[Top.opens]) EXCEPT
                                   !.variables = Top.variables])]

ReadEnd ==
    /\ Len(check.frames) > 1
    /\ steps' = Append(steps, [kind |-> "end", id |-> 0])
    /\ check' = [check EXCEPT
          !.ok = ~(steps[Top.opens].kind = "while" /\ steps[Top.opens].limit = None
                   /\ Top.opens = Len(steps)),
          !.frames = Append(Front(Front(@)), Publish(check.frames[Len(@) - 1], steps[Top.opens]))]

-----------------------------------------------------------------------------
(* measure_count of run_preparation.rs, for the measurements of target: a  *)
(* stack with one sum per open block, and the first branch of an If under  *)
(* its second.                                                             *)

checked_mul(a, b) == IF a * b > MaxCount THEN Overflow ELSE a * b
checked_add(a, b) == IF a + b > MaxCount THEN Overflow ELSE a + b

Plus(total, count) ==
    IF Overflow \in {total, count} THEN Overflow
    ELSE IF None \in {total, count} THEN None
    ELSE checked_add(total, count)

(* Only the first branch of an If is counted.                              *)
FirstBranch(then, else) == then

(* An If counts the dearer of its branches.                                *)
EitherBranch(then, else) ==
    IF Overflow \in {then, else} THEN Overflow
    ELSE IF None \in {then, else} THEN None
    ELSE IF then > else THEN then ELSE else

Repeated(step, count) ==
    CASE count = Overflow -> Overflow
      [] step.kind = "for" ->
            IF count = None THEN None ELSE checked_mul(iteration_count(step.range), count)
      [] step.kind = "while" ->
            IF count = 0 THEN 0
            ELSE IF None \in {step.limit, count} THEN None ELSE checked_mul(step.limit, count)

Counted(doc, target) ==
    LET AddTo(sums, count) == Append(Front(sums), [Last(sums) EXCEPT !.sum = Plus(@, count)])
        CountStep(sums, step) ==
            CASE step.kind \in Blocks ->
                    Append(sums, [step |-> step, sum |-> 0, first |-> 0, other |-> FALSE])
              [] step.kind = "else" ->
                    Append(Front(sums), [Last(sums) EXCEPT !.first = Last(sums).sum,
                                                           !.sum = 0, !.other = TRUE])
              [] step.kind = "end" ->
                    LET block == Last(sums)
                    IN AddTo(Front(sums),
                             IF block.step.kind # "if" THEN Repeated(block.step, block.sum)
                             ELSE IF block.other THEN EitherBranch(block.first, block.sum)
                             ELSE EitherBranch(block.sum, 0))
              [] step.kind = "tool-action" /\ step.target = target /\ step.action = "measure" ->
                    AddTo(sums, 1)
              [] OTHER -> sums
    IN FoldLeft(CountStep, <<[sum |-> 0]>>, doc)[1].sum

measure_count(target) == Counted(steps, target)

-----------------------------------------------------------------------------
(* Which documents are well formed: lexical scope, said without a walk.    *)

(* Blocks open before position i.                                          *)
Level(doc, i) ==
    Cardinality({j \in 1 .. i - 1 : doc[j].kind \in Blocks})
        - Cardinality({j \in 1 .. i - 1 : doc[j].kind = "end"})

Enclosing(doc, i) ==
    {j \in 1 .. i - 1 : doc[j].kind \in Blocks /\ \A k \in j + 1 .. i : Level(doc, k) > Level(doc, j)}

InElse(doc, block, i) ==
    \E k \in block + 1 .. i - 1 : doc[k].kind = "else" /\ Level(doc, k) = Level(doc, block) + 1

(* Whatever happened at position j has happened whenever i is reached.     *)
Precedes(doc, j, i) ==
    /\ j < i /\ j \notin Enclosing(doc, i)
    /\ Enclosing(doc, j) \subseteq Enclosing(doc, i)
    /\ \A block \in Enclosing(doc, j) :
          doc[block].kind = "if" => (InElse(doc, block, j) <=> InElse(doc, block, i))

LoopsAround(doc, i) == {j \in Enclosing(doc, i) : doc[j].kind \in Loops}
IsStep(doc, i) == doc[i].kind \notin {"else", "end"}

Resolves(doc, i) ==
    LET step == doc[i]
    IN /\ step.uses = "step" =>
             \E j \in DOMAIN doc : IsStep(doc, j) /\ doc[j].id = step.ref /\ Precedes(doc, j, i)
       /\ step.uses = "variable" =>
             \/ \E j \in DOMAIN doc : /\ doc[j].kind = "set-variable"
                                      /\ doc[j].variable = step.read /\ Precedes(doc, j, i)
             \/ \E j \in Enclosing(doc, i) : doc[j].kind = "for" /\ doc[j].variable = step.read

WellFormedStep(doc, i) ==
    LET step == doc[i]
        Earlier(kind) == {j \in 1 .. i - 1 : doc[j].kind = kind}
    IN /\ Local(step)
       /\ \A j \in 1 .. i - 1 : IsStep(doc, j) => doc[j].id # step.id
       /\ Resolves(doc, i)
       /\ step.kind \in Blocks => Cardinality(Enclosing(doc, i)) < MaxDepth
       /\ step.kind = "while" /\ step.limit = None =>
             LoopsAround(doc, i) = {} /\ (i < Len(doc) => doc[i + 1].kind # "end")
       /\ step.kind = "set-variable" =>
             \A j \in Enclosing(doc, i) : doc[j].kind = "for" => doc[j].variable # step.variable
       /\ step.kind = "output" =>
             \A j \in Earlier("output") :
                /\ doc[j].name # step.name
                /\ doc[j].page.folded = step.page.folded =>
                      doc[j].page = step.page /\ LoopsAround(doc, j) = LoopsAround(doc, i)
       /\ step.kind = "show-message" /\ step.uses = "step" =>
             \E j \in Earlier("output") : doc[j].id = step.ref

WellFormed(doc) == \A i \in DOMAIN doc : IsStep(doc, i) => WellFormedStep(doc, i)

(* How often target can be measured in one run: None when there is no      *)
(* bound, and otherwise the most over the branches its Ifs may take.       *)
WorstCase(target) ==
    LET measured == {i \in DOMAIN steps : /\ steps[i].kind = "tool-action"
                                          /\ steps[i].target = target
                                          /\ steps[i].action = "measure"}
        ifs == {i \in DOMAIN steps : steps[i].kind = "if"}
        Times(j) == IF steps[j].kind = "for"
                    THEN Cardinality({value_at(steps[j].range, k) : k \in
                                        {k \in 0 .. 2 * MaxCount :
                                            Distance(steps[j].range.start, value_at(steps[j].range, k))
                                               <= Distance(steps[j].range.start, steps[j].range.stop)}})
                    ELSE steps[j].limit
        Weight(i) == MapThenFoldSet(LAMBDA x, y : x * y, 1, Times, LAMBDA S : CHOOSE x \in S : TRUE,
                                    LoopsAround(steps, i))
        Taken(branch) == {i \in measured : \A j \in Enclosing(steps, i) \cap ifs :
                                              branch[j] <=> InElse(steps, j, i)}
        Total(branch) == MapThenSumSet(Weight, Taken(branch))
    IN IF \E i \in measured : \E j \in LoopsAround(steps, i) : steps[j].kind = "while" /\ steps[j].limit = None
       THEN None
       ELSE Max({Total(branch) : branch \in [ifs -> BOOLEAN]})
=============================================================================
