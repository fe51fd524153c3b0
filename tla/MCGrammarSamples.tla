---------------------------- MODULE MCGrammarSamples ----------------------------
(* A grammar for TLC: a symbol with an id, one that can be empty, and a    *)
(* repeat that is nested in itself.                                        *)
EXTENDS GrammarSamples

Str(s) == [type |-> "string", value |-> s, id |-> 0]
Sym(s, id) == [type |-> "symbol", value |-> s, id |-> id]

SmallGenerators ==
  [root |-> << << Sym("tag", 1), Sym("repeat_item", 0), Sym("tag", 1) >> >>,
   tag  |-> << << Str("t") >>, << >> >>,
   item |-> << << Str("x") >>, << Str("y"), Sym("repeat_item", 0) >> >>]
SmallRepeats == [repeat_item |-> "item"]
=============================================================================
