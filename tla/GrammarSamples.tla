----------------------------- MODULE GrammarSamples -----------------------------
(***************************************************************************)
(* Grammar fuzzing (mutators/grammar): samples are trees that derive from  *)
(* a grammar.  One fuzzer thread generates a tree, or mutates one that was *)
(* interesting before, encodes it, runs it, minimises it while its         *)
(* coverage stays, and decodes what it saves into the list of interesting  *)
(* trees.                                                                  *)
(*                                                                         *)
(* A string is an atom, an encoded tree the sequence of its nodes in       *)
(* preorder with the number of their children; the text of the sample that *)
(* precedes it is a sequence of strings.  Random choices are left open;    *)
(* the probability that falls with the depth of a node is never zero.  The *)
(* minimiser works on pointers into one tree: its nodes are numbered here  *)
(* by their position in the encoding, so that a deleted node can be told.  *)
(***************************************************************************)
EXTENDS Integers, Sequences, FiniteSets, SequencesExt

CONSTANTS
  Generators,        \* the rules of each symbol, as sequences of parts [type, value, id]
  Repeats,           \* repeat_symbol of each <repeat_...> symbol
  MaxDepth,          \* MAX_DEPTH
  MaxSize,           \* -max_sample_size, in nodes
  MinimizationLimit, \* -grammar_minimization_limit
  MaxRepeat,         \* bound: rounds of a loop that goes on with REPEAT_PROBABILITY
  MaxSamples         \* bound: samples saved

Symbols == DOMAIN Generators \cup DOMAIN Repeats

ASSUME GrammarAssumption ==
  /\ "root" \in Symbols
  /\ \A s \in DOMAIN Generators, r \in 1 .. 9 :
       r \in DOMAIN Generators[s] => \A i \in DOMAIN Generators[s][r] :
         LET part == Generators[s][r][i] IN part.type = "symbol" => part.value \in Symbols
  /\ \A s \in DOMAIN Repeats : Repeats[s] \in Symbols
  /\ {MaxDepth, MaxSize, MinimizationLimit, MaxRepeat, MaxSamples} \subseteq Nat

VARIABLES
  pc,                \* idle, mutate, process, run, minimize, test, save
  interesting_trees, \* the trees of the contexts of all samples saved
  new_sample,        \* the tree Mutate works on
  sample,            \* the encoded sample of RunSample
  context,           \* the minimizer's
  covered            \* history: the last output that ran with the sample's coverage

vars == << pc, interesting_trees, new_sample, sample, context, covered >>
-----------------------------------------------------------------------------
(* Trees. *)

StringNode(s) == [type |-> "string", value |-> s, children |-> << >>]
SymbolNode(s, children) == [type |-> "symbol", value |-> s, children |-> children]
NoTree == StringNode("")

RECURSIVE NumNodes(_)
NumNodes(tree) == FoldLeft(LAMBDA n, child : n + NumNodes(child), 1, tree.children)

\* ToString: what the tree stands for, as the sequence of its strings.
RECURSIVE Text(_)
Text(tree) ==
  IF tree.type = "string" THEN << tree.value >>
  ELSE FlattenSeq([i \in DOMAIN tree.children |-> Text(tree.children[i])])

\* An earlier symbol of the rule with the same id; the last of them.
SameId(rule, i) == {j \in 1 .. i - 1 : rule[i].id # 0 /\ rule[j].id = rule[i].id}
LastOf(S) == CHOOSE j \in S : \A k \in S : k <= j

\* The trees GenerateTree may return for a symbol at a depth; none beyond MaxDepth,
\* where it returns NULL and so do its callers.
GenerateTree[s \in Symbols, depth \in 0 .. MaxDepth + 1] ==
  LET part(rule, i, children) ==
        IF rule[i].type = "string" THEN {StringNode(rule[i].value)}
        ELSE IF SameId(rule, i) # {} THEN {children[LastOf(SameId(rule, i))]}
        ELSE GenerateTree[rule[i].value, depth + 1]
      expand(rule) ==
        FoldLeftDomain(LAMBDA partial, i : UNION {{Append(children, child) :
                         child \in part(rule, i, children)} : children \in partial},
                       {<< >>}, rule)
  IN IF depth > MaxDepth THEN {}
     ELSE {SymbolNode(s, children) : children \in
             IF s \in DOMAIN Repeats
             THEN BoundedSeq(GenerateTree[Repeats[s], depth + 1], MaxRepeat)
             ELSE UNION {expand(Generators[s][r]) : r \in DOMAIN Generators[s]}}

CanBeEmpty(s) == s \in DOMAIN Generators /\ \E r \in DOMAIN Generators[s] : Generators[s][r] = << >>
-----------------------------------------------------------------------------
(* EncodeSample and DecodeSample. *)

\* What is written for a node before its children (BinaryRW).
Written(tree) == [type |-> tree.type, value |-> tree.value, nchildren |-> Len(tree.children)]

RECURSIVE EncodeTree(_)
EncodeTree(tree) ==
  << Written(tree) >> \o FlattenSeq([i \in DOMAIN tree.children |-> EncodeTree(tree.children[i])])

EncodeSample(tree) == [string |-> Text(tree), tree |-> EncodeTree(tree)]

NoSample == [string |-> << >>, tree |-> << >>]

\* Where the reader is after the node at p and all its children, and where those start.
RECURSIVE ReadTree(_, _)
ReadTree(nodes, p) == FoldLeft(LAMBDA q, i : ReadTree(nodes, q), p + 1,
                               [i \in 1 .. nodes[p].nchildren |-> i])
ChildrenAt(nodes, p) ==
  FoldLeft(LAMBDA at, i : Append(at, IF i = 1 THEN p + 1 ELSE ReadTree(nodes, at[i - 1])),
           << >>, [i \in 1 .. nodes[p].nchildren |-> i])

\* The tree of nodes whose children are given by their positions.
RECURSIVE TreeAt(_, _, _)
TreeAt(nodes, children, p) ==
  [type |-> nodes[p].type, value |-> nodes[p].value,
   children |-> [i \in DOMAIN children[p] |-> TreeAt(nodes, children, children[p][i])]]

DecodeSample(s) == TreeAt(s.tree, [p \in DOMAIN s.tree |-> ChildrenAt(s.tree, p)], 1)

\* OutputFilter: what is delivered to the target.
Output(s) == s.string
-----------------------------------------------------------------------------
(* Mutation.  A node of a tree is given by the path to it; its depth is    *)
(* the length of that path.                                                *)

RECURSIVE NodeAt(_, _)
NodeAt(tree, path) == IF path = << >> THEN tree ELSE NodeAt(tree.children[Head(path)], Tail(path))

RECURSIVE Replace(_, _, _)
Replace(tree, path, node) ==
  IF path = << >> THEN node
  ELSE [tree EXCEPT !.children[Head(path)] = Replace(@, Tail(path), node)]

RECURSIVE SymbolPaths(_)
SymbolPaths(tree) ==
  {<< >>} \cup UNION {{<< i >> \o path : path \in SymbolPaths(tree.children[i])} :
                        i \in {i \in DOMAIN tree.children : tree.children[i].type = "symbol"}}

\* GetMutationCandidates, with the filter as a set of symbols.
Candidates(tree, filter, maxdepth) ==
  {path \in SymbolPaths(tree) : Len(path) <= maxdepth /\ NodeAt(tree, path).value \in filter}
OtherTrees == {interesting_trees[i] : i \in DOMAIN interesting_trees}

\* A node is generated anew.
ReplaceNode(tree) ==
  UNION {{Replace(tree, path, node) :
            node \in GenerateTree[NodeAt(tree, path).value, Len(path)]} :
            path \in Candidates(tree, Symbols, MaxDepth)}

\* Mutant of Splice: it takes any node of the other tree.
SpliceAny(tree) ==
  UNION {UNION {{Replace(tree, path, NodeAt(other, from)) :
                   from \in Candidates(other, Symbols, Len(path))} :
                   other \in OtherTrees} :
                   path \in Candidates(tree, Symbols, MaxDepth)}

\* A node is replaced by one of an interesting tree that has the same symbol and is
\* not deeper.
Splice(tree) ==
  UNION {UNION {{Replace(tree, path, NodeAt(other, from)) :
                   from \in Candidates(other, {NodeAt(tree, path).value}, Len(path))} :
                   other \in OtherTrees} :
                   path \in Candidates(tree, Symbols, MaxDepth)}

Positions(children) == IF children = << >> THEN {0} ELSE 0 .. Len(children) - 1

\* One or more children are removed, from a position on; all of them at most.
Deleted(children, position) ==
  IF children = << >> THEN {children}
  ELSE {SubSeq(children, 1, position) \o SubSeq(children, n + 1, Len(children)) :
          n \in position + 1 .. Len(children)}

\* New children come after the one at the position.
Inserted(children, position, new) ==
  LET at == IF position < Len(children) THEN position + 1 ELSE position
  IN SubSeq(children, 1, at) \o new \o SubSeq(children, at + 1, Len(children))

\* A <repeat_> node loses some children, or gets new ones, or both.
RepeatMutator(tree) ==
  UNION {LET children == NodeAt(tree, path).children
             item == GenerateTree[Repeats[NodeAt(tree, path).value], Len(path) + 1]
             new == BoundedSeq(item, MaxRepeat) \ {<< >>}
         IN UNION {{Replace(tree, path, SymbolNode(NodeAt(tree, path).value, c)) :
                      c \in Deleted(children, m)
                              \cup {Inserted(kept, m, n) :
                                      kept \in {children} \cup Deleted(children, m), n \in new}} :
                      m \in Positions(children)} :
           path \in Candidates(tree, DOMAIN Repeats, MaxDepth)}

\* Children of a <repeat_> node of an interesting tree, from a position on.
Taken(children, position) ==
  IF children = << >> THEN {children}
  ELSE {SubSeq(children, position + 1, n) : n \in position + 1 .. Len(children)}

\* ... are copied into one of this tree, possibly in place of some.
RepeatSplice(tree) ==
  UNION {UNION {UNION {
      LET children == NodeAt(tree, path).children
          others == NodeAt(other, from).children
      IN {Replace(tree, path, SymbolNode(NodeAt(tree, path).value, Inserted(k[2], k[1], n))) :
            k \in UNION {{m} \X ({children} \cup Deleted(children, m)) : m \in Positions(children)},
            n \in UNION {Taken(others, m) : m \in Positions(others)}} :
        from \in Candidates(other, {NodeAt(tree, path).value}, Len(path))} :
        other \in OtherTrees} :
        path \in Candidates(tree, DOMAIN Repeats, MaxDepth)}
-----------------------------------------------------------------------------
(* GrammarMinimizer.  A node is its position in the sample it was decoded  *)
(* from.                                                                   *)

NoContext == [nodes |-> << >>, children |-> << >>, freed |-> {}, candidates |-> << >>,
              current |-> 0, pos |-> 0, removed |-> << >>, initial |-> 0, gone |-> 0]

\* The nodes at and below a node.
RECURSIVE Below(_, _)
Below(children, p) == {p} \cup UNION {Below(children, children[p][i]) : i \in DOMAIN children[p]}

Tree(c) == TreeAt(c.nodes, c.children, 1)

\* A node of these can lose children and the sample still derives from the grammar.
IsCandidate(nodes, p) ==
  /\ nodes[p].type = "symbol" /\ nodes[p].nchildren > 0
  /\ nodes[p].value \in DOMAIN Repeats \/ CanBeEmpty(nodes[p].value)

\* Mutant of MinimizationCandidates: children before their parents.
CandidatesUp(nodes) == SelectSeq([i \in 1 .. Len(nodes) |-> Len(nodes) + 1 - i],
                                 LAMBDA p : IsCandidate(nodes, p))
MinimizationCandidates(nodes) ==
  SelectSeq([p \in 1 .. Len(nodes) |-> p], LAMBDA p : IsCandidate(nodes, p))

CreateContext(s) ==
  LET children == [p \in DOMAIN s.tree |-> ChildrenAt(s.tree, p)]
      candidates == MinimizationCandidates(s.tree)
      last == Len(candidates)
  IN [NoContext EXCEPT
        !.nodes = s.tree, !.children = children, !.candidates = candidates,
        !.current = last, !.pos = IF last = 0 THEN 0 ELSE Len(children[candidates[last]]),
        !.initial = Len(s.tree)]

Node(c) == c.candidates[c.current]

\* The candidate to go on with: the current one, while it has children to try, or the
\* nearest before it that has any; 0 when there is none.
CurrentCandidate(c) ==
  IF c.current = 0 \/ c.pos > 0 THEN c.current
  ELSE LET S == {j \in 1 .. c.current - 1 : c.children[c.candidates[j]] # << >>}
       IN IF S = {} THEN 0 ELSE LastOf(S)

CanMinimize(c) == c.initial - c.gone > MinimizationLimit /\ CurrentCandidate(c) # 0

\* MinimizeStep removes the next child, from the last to the first, or all of them.
RemoveChildren(c) ==
  LET moved == CurrentCandidate(c)
      node == c.candidates[moved]
      kids == c.children[node]
      pos == IF c.pos > 0 THEN c.pos ELSE Len(kids)
  IN IF c.nodes[node].value \in DOMAIN Repeats
     THEN [c EXCEPT !.current = moved, !.pos = pos - 1, !.removed = << kids[pos] >>,
                    !.children[node] = RemoveAt(kids, pos)]
     ELSE [c EXCEPT !.current = moved, !.pos = 0, !.removed = kids, !.children[node] = << >>]

\* ReportSuccess: the removed children are deleted.
RemovedNodes(c) == UNION {Below(c.children, c.removed[i]) : i \in DOMAIN c.removed}
DeleteRemoved(c) ==
  [c EXCEPT !.freed = @ \cup RemovedNodes(c), !.gone = @ + Cardinality(RemovedNodes(c)),
            !.removed = << >>]

\* Mutants of PutBack: the children go to the end; they are tried again.
PutLast(c) == [c EXCEPT !.children[Node(c)] = @ \o c.removed, !.removed = << >>]
TryAgain(c) ==
  [c EXCEPT !.children[Node(c)] = SubSeq(@, 1, c.pos) \o c.removed
                                    \o SubSeq(@, c.pos + 1, Len(@)),
            !.pos = @ + Len(c.removed), !.removed = << >>]

\* ReportFail: they go back where they were.
PutBack(c) ==
  [c EXCEPT !.children[Node(c)] = SubSeq(@, 1, c.pos) \o c.removed
                                    \o SubSeq(@, c.pos + 1, Len(@)),
            !.removed = << >>]

TestSample == EncodeSample(Tree(context))
-----------------------------------------------------------------------------
Init ==
  /\ pc = "idle" /\ interesting_trees = << >> /\ new_sample = NoTree
  /\ sample = NoSample /\ context = NoContext /\ covered = << >>

\* A PROCESS_SAMPLE job whose sample is generated (GenerateTreeNoFail from the root).
GenerateSample ==
  /\ pc = "idle" /\ Len(interesting_trees) < MaxSamples
  /\ \E tree \in GenerateTree["root", 0] : sample' = EncodeSample(tree)
  /\ pc' = "process"
  /\ UNCHANGED << interesting_trees, new_sample, context, covered >>

\* A FUZZ job (InitRound); Mutate copies the tree of its entry, or starts from a new one
\* and then does nothing else.
StartMutation ==
  /\ pc = "idle" /\ Len(interesting_trees) \in 1 .. MaxSamples - 1
  /\ \/ new_sample' \in OtherTrees /\ pc' = "mutate" /\ UNCHANGED sample
     \/ /\ new_sample' = NoTree /\ pc' = "run"
        /\ \E tree \in GenerateTree["root", 0] : sample' = EncodeSample(tree)
  /\ UNCHANGED << interesting_trees, context, covered >>

\* A mutator that succeeds.  FuzzJob drops samples over the maximum size when Mutate is
\* done with them; here a tree never grows beyond it.
Mutate ==
  /\ pc = "mutate"
  /\ new_sample' \in ReplaceNode(new_sample) \cup Splice(new_sample)
                       \cup RepeatMutator(new_sample) \cup RepeatSplice(new_sample)
  /\ NumNodes(new_sample') <= MaxSize
  /\ UNCHANGED << pc, interesting_trees, sample, context, covered >>

EndMutation ==
  /\ pc = "mutate"
  /\ sample' = EncodeSample(new_sample) /\ new_sample' = NoTree /\ pc' = "run"
  /\ UNCHANGED << interesting_trees, context, covered >>

\* The run finds nothing new, or fails.
NotInteresting ==
  /\ pc \in {"process", "run"}
  /\ pc' = "idle" /\ sample' = NoSample /\ covered' = << >>
  /\ UNCHANGED << interesting_trees, new_sample, context >>

\* It finds new coverage; samples that were only processed are not minimised.
Interesting ==
  /\ pc \in {"process", "run"}
  /\ covered' = Output(sample)
  /\ \/ pc = "process" /\ pc' = "save" /\ UNCHANGED context
     \/ pc = "run" /\ pc' = "minimize" /\ context' = CreateContext(sample)
  /\ UNCHANGED << interesting_trees, new_sample, sample >>

MinimizeStep ==
  /\ pc = "minimize" /\ CanMinimize(context)
  /\ context' = RemoveChildren(context) /\ pc' = "test"
  /\ UNCHANGED << interesting_trees, new_sample, sample, covered >>

MinimizeEnds ==
  /\ pc = "minimize" /\ ~CanMinimize(context)
  /\ context' = NoContext /\ pc' = "save"
  /\ UNCHANGED << interesting_trees, new_sample, sample, covered >>

\* The smaller sample still has the coverage.
ReportSuccess ==
  /\ pc = "test"
  /\ context' = DeleteRemoved(context) /\ sample' = TestSample /\ pc' = "minimize"
  /\ covered' = Output(TestSample)
  /\ UNCHANGED << interesting_trees, new_sample >>

\* It does not.
ReportFail ==
  /\ pc = "test"
  /\ context' = PutBack(context) /\ pc' = "minimize"
  /\ UNCHANGED << interesting_trees, new_sample, sample, covered >>

\* Mutant of Unminimized: the sample under test is kept.
Untested == TestSample
Unminimized == sample

\* It crashes or hangs: minimisation ends.
TestFails ==
  /\ pc = "test"
  /\ context' = NoContext /\ sample' = Unminimized /\ pc' = "save"
  /\ UNCHANGED << interesting_trees, new_sample, covered >>

\* CreateSampleContext.
SaveSample ==
  /\ pc = "save"
  /\ interesting_trees' = Append(interesting_trees, DecodeSample(sample))
  /\ pc' = "idle" /\ sample' = NoSample /\ covered' = << >>
  /\ UNCHANGED << new_sample, context >>

Minimize == MinimizeStep \/ MinimizeEnds \/ ReportSuccess \/ ReportFail \/ TestFails

Next ==
  \/ GenerateSample \/ StartMutation \/ Mutate \/ EndMutation
  \/ NotInteresting \/ Interesting \/ Minimize \/ SaveSample

Spec == Init /\ [][Next]_vars

\* The thread runs, and every run of a sample ends.
FairSpec == Spec /\ WF_vars(Minimize)
-----------------------------------------------------------------------------
\* A tree that the grammar derives from a symbol; ids are not part of this.
RECURSIVE Derives(_, _)
Derives(tree, s) ==
  /\ tree.type = "symbol" /\ tree.value = s
  /\ \/ /\ s \in DOMAIN Repeats
        /\ \A i \in DOMAIN tree.children : Derives(tree.children[i], Repeats[s])
     \/ /\ s \in DOMAIN Generators
        /\ \E r \in DOMAIN Generators[s] :
             LET rule == Generators[s][r] IN
             /\ DOMAIN rule = DOMAIN tree.children
             /\ \A i \in DOMAIN rule :
                  IF rule[i].type = "string" THEN tree.children[i] = StringNode(rule[i].value)
                  ELSE Derives(tree.children[i], rule[i].value)

\* Whatever is generated, mutated, spliced and minimised still derives from the
\* grammar, also while it is encoded (README of mutators/grammar: mutation and
\* minimisation maintain the validity of the sample).
SamplesAreValid ==
  /\ \A i \in DOMAIN interesting_trees : Derives(interesting_trees[i], "root")
  /\ pc = "mutate" => Derives(new_sample, "root")
  /\ sample # NoSample => Derives(DecodeSample(sample), "root")
  /\ pc = "test" => Derives(Tree(context), "root")

\* A sample is saved as it last ran with its coverage: what the text before the encoded
\* tree says, what was delivered, and what the tree decodes to are the same.
SavedAsRun ==
  pc \in {"minimize", "save"} =>
    Output(sample) = covered /\ Text(DecodeSample(sample)) = covered

\* After a failed removal the minimiser's tree is the sample's again, child by child,
\* and its count of nodes is right.
MinimizerInStep ==
  pc = "minimize" =>
    Tree(context) = DecodeSample(sample) /\ context.initial - context.gone = Len(sample.tree)

\* The minimiser collects pointers to all nodes it will try before it starts to delete
\* nodes: it never comes to one that was deleted with an ancestor.
CandidatesAlive ==
  pc \in {"minimize", "test"} =>
    \A i \in 1 .. context.current : context.candidates[i] \notin context.freed

\* Minimisation ends, whatever its tests say.
MinimizationEnds == pc = "minimize" ~> pc = "save"
=============================================================================
