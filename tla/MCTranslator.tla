---------------------------- MODULE MCTranslator ----------------------------
(* Instances of Translator.  Two values tell any two locations apart in some
   behaviour, since code only moves them or computes from them. *)
EXTENDS Translator

(* Differences and shifts that two values can tell from their reverse. *)
MCArith(op, x, y) ==
  CASE op \in {"SUB", "SHL"} -> IF x > y THEN 1 ELSE 0
    [] op = "RSUB"           -> IF y > x THEN 1 ELSE 0
    [] op = "XOR"            -> IF x = y THEN 0 ELSE 1

Plain ==
  [window |-> 2, args |-> {1}, leaf |-> FALSE, arithmetic |-> {}, comparisons |-> {},
   callees |-> {}, ext |-> FALSE, constructs |-> {}, maxTos |-> 3,
   maxFrames |-> 1]

(* The window, of three registers: every way of moving values, with calls and an if/else. *)
WindowPrograms ==
  { [Plain EXCEPT !.window = 3, !.args = {5}, !.leaf = TRUE, !.callees = {0, 2, 5},
                  !.constructs = {"ifElse"}, !.maxTos = 5],
    [Plain EXCEPT !.window = 3, !.args = {0}, !.callees = {0, 5}, !.maxTos = 5] }

(* Over two registers: arithmetic of each kind; comparisons and what branches on them; extension
   instructions; constructs that spill, and constructs in one another. *)
EmissionPrograms ==
  { [Plain EXCEPT !.args = {0, 3}, !.arithmetic = {"SUB", "RSUB", "SHL", "XOR"}],
    [Plain EXCEPT !.comparisons = {"EQ", "GT"}, !.constructs = {"if"}],
    [Plain EXCEPT !.arithmetic = {"SUB"}, !.comparisons = {"GT"},
                  !.constructs = {"if", "pre"}, !.maxTos = 2],
    [Plain EXCEPT !.args = {0, 3}, !.ext = TRUE, !.constructs = {"ifElse"}],
    [Plain EXCEPT !.constructs = {"switch", "pre", "post"}],
    [Plain EXCEPT !.constructs = {"if", "ifElse", "switch", "pre", "post"},
                  !.maxTos = 2, !.maxFrames = 2] }
MCPrograms == WindowPrograms \cup EmissionPrograms
=============================================================================
