------------------------------ MODULE MCGenerator ------------------------------
(* Words of four two-bit bytes, and seeds of the corpus with small alphabets,
   one per thing a mutation can do. *)
EXTENDS GeneratorTools

Plain ==
  [ops |-> {"+"}, unary |-> {}, narrow |-> {}, types |-> {}, builtins |-> {},
   loads |-> {}, stores |-> {}, literals |-> {1}, deltas |-> {}, height |-> 4,
   build |-> 0, trips |-> {}, clauses |-> {}, arities |-> {}, words |-> 8,
   donors |-> {}]
Instance_ ==
  [seed |-> Program(<< >>), lane |-> "valid", alphabet |-> Plain, generations |-> 1,
   inflates |-> FALSE, breakers |-> {}, wrong |-> {}]

A == Id("a")
B == Id("b")
One_ == Lit(1)

Arith == Program(<<Proc(<<"a", "b">>,
  <<Ret(Bin("-", Bin("*", Bin("+", A, B), Lit(3)), Bin("^", A, B)))>>)>>)
ShiftSeed == Program(<<Proc(<<"a">>,
  <<Ret(Bin("|", Bin("<<", A, Lit(3)), Bin(">>", A, Lit(2))))>>)>>)
Types == Program(<<Proc(<<"a">>,
  <<Decl("i16", "x", Cast("i16", A)), Decl("u8", "y", Cast("u8", A)),
    Ret(Bin("+", Id("x"), Id("y")))>>)>>)
Ternary == Program(<<Proc(<<"a">>,
  <<Ret(Cond(A, Bin("+", A, One_), Bin("-", A, One_)))>>)>>)
Logical == Program(<<Proc(<<"a", "b">>,
  <<Ret(Logic("||", Logic("&&", A, B), Bin(">", A, B)))>>)>>)
IfSeed == Program(<<Proc(<<"a">>,
  <<IfElse(Bin(">", A, Lit(3)), <<Ret(One_)>>, <<Ret(Lit(2))>>)>>)>>)
SwitchSeed == Program(<<Proc(<<"a">>,
  <<Switch(Bin("&", A, Lit(3)),
     <<Case(0, <<Ret(Lit(10))>>), Case(1, <<Ret(Lit(11))>>), Case(2, <<Ret(Lit(12))>>),
       Case(Default, <<Ret(Lit(13))>>)>>)>>)>>)
SwitchBreak == Program(<<Proc(<<"a">>,
  <<Decl("u32", "s", Lit(0)),
    Switch(Bin("&", A, Lit(3)),
     <<Case(0, <<ExprS(Asg("=", "s", One_)), Break>>),
       Case(1, <<ExprS(Asg("=", "s", Lit(2))), Break>>),
       Case(Default, <<ExprS(Asg("=", "s", Lit(9))), Break>>)>>),
    Ret(Id("s"))>>)>>)
Builtins == Program(<<Proc(<<"a">>,
  <<Ret(Bin("+", Builtin("clz", <<A>>), Builtin("revbits", <<A>>)))>>)>>)
CallNone == Program(<<Proc(<< >>, <<Ret(Bin("+", Call(1, << >>), One_))>>),
                      Proc(<< >>, <<Ret(Lit(7))>>)>>)
CallInBranch == Program(<<
  Proc(<<"a">>, <<If(Bin("&", A, One_), <<Ret(Call(1, <<A>>))>>),
                  Ret(Call(1, <<Bin("+", A, One_)>>))>>),
  Proc(<<"x">>, <<Ret(Bin("^", Id("x"), Lit(5)))>>)>>)
ExtLoadStore == Program(<<Proc(<<"a">>,
  <<ExprS(Builtin("st32", <<Lit(0), A>>)), ExprS(Builtin("st8", <<Lit(4), A>>)),
    Ret(Bin("+", Builtin("ld32", <<Lit(0)>>), Builtin("ld8", <<Lit(4)>>)))>>)>>)
ExtMemmove == Program(<<Proc(<<"a">>,
  <<ExprS(Builtin("st32", <<Lit(0), A>>)),
    ExprS(Builtin("memmove", <<Lit(0), Lit(2), Lit(6)>>)),
    Ret(Builtin("ld32", <<Lit(4)>>))>>)>>)
ExtInLoop == Program(<<Proc(<<"a">>,
  <<For(Decl("u32", "i", Lit(0)), Bin("<", Id("i"), Lit(2)),
        Asg("=", "i", Bin("+", Id("i"), One_)),
        <<ExprS(Builtin("st8", <<Bin("+", One_, Id("i")), Bin("+", A, Id("i"))>>))>>),
    Ret(Builtin("ld32", <<Lit(0)>>))>>)>>)
(* loop_back_edge with a short body *)
LoopBackEdge == Program(<<Proc(<<"a">>,
  <<Decl("u32", "s", Lit(0)), Decl("u32", "i", Lit(0)),
    DoWhile(<<ExprS(Asg("=", "s", Bin("+", Bin("^", Id("s"), A), One_))),
              ExprS(Asg("=", "i", Bin("+", Id("i"), One_)))>>,
            Bin("<", Id("i"), Lit(2))),
    Ret(Id("s"))>>)>>)

(* A file with operands that race. *)
Racing == Program(<<Proc(<<"a">>,
  <<ExprS(Asg("=", "a", Bin("+", A, Lit(3)))),
    Ret(Bin("+", Bin("+", Asg("=", "a", Lit(2)), One_), A))>>)>>)

Here(seed, alphabet) == [Instance_ EXCEPT !.seed = seed, !.alphabet = alphabet]
Broken_(i) == [i EXCEPT !.breakers = Breakers]
Wrong(i, engines) == [i EXCEPT !.wrong = engines]
Twice(i) == [i EXCEPT !.generations = 2]
Seed(i) == [i EXCEPT !.generations = 0]
File(i) == [i EXCEPT !.lane = "file"]

Shifting == [Plain EXCEPT !.ops = {"<<"}, !.literals = {7}, !.deltas = {1}]
Calling == [Plain EXCEPT !.ops = {}, !.arities = {0, 1}]
Casting == [Plain EXCEPT !.ops = {}, !.narrow = {"i8"}, !.types = {"u8"},
                         !.unary = {"-"}]
Storing == [Plain EXCEPT !.ops = {}, !.stores = {"st8"}, !.loads = {"ld8"}]
Nesting == [Plain EXCEPT !.ops = {}, !.trips = {2}, !.clauses = {2}]

Starts ==
  [arith |-> Wrong(Here(Arith, Plain), {}),
   shift |-> Twice(Broken_(Here(ShiftSeed, Shifting))),
   types |-> Here(Types, Casting),
   ternary |-> Broken_(Here(Ternary, [Casting EXCEPT !.ops = {"<<"}])),
   logical |-> Broken_(Here(Logical, [Plain EXCEPT !.ops = {"<<"}])),
   if |-> Broken_(Here(IfSeed, [Nesting EXCEPT !.ops = {"<<"}])),
   switch |-> Here(SwitchSeed, Nesting),
   switch_break |-> Broken_(Here(SwitchBreak, [Plain EXCEPT !.ops = {}])),
   builtins |-> Here(Builtins, [Plain EXCEPT !.builtins = {"clz"}]),
   call_none |-> Twice(Here(CallNone, Calling)),
   call_in_branch |-> Broken_(Here(CallInBranch, Calling)),
   ext_load_store |-> Here(ExtLoadStore, Storing),
   ext_memmove |-> Here(ExtMemmove, Storing),
   ext_in_loop |-> [Here(ExtInLoop, [Plain EXCEPT !.ops = {}]) EXCEPT !.inflates = TRUE],
   loop_back_edge |-> Here(LoopBackEdge, [Plain EXCEPT !.ops = {}]),
   found_call |-> Wrong(Here(CallNone, Plain), {<<"default", "+">>, <<"jit", "+">>}),
   found_loop |-> Wrong(Seed(Here(LoopBackEdge, Plain)), {<<"default", "^">>, <<"jit", "+">>}),
   found_switch |-> Wrong(Seed(Here(SwitchBreak, Plain)), {<<"default", "&">>, <<"jit", "&">>}),
   found_branch |-> Wrong(Seed(Here(CallInBranch, Plain)), {<<"default", "^">>, <<"jit", "&">>}),
   found_race |-> File(Wrong(Here(Racing, Plain), {<<"default", "+">>, <<"jit", "+">>})),
   found_store |-> Wrong(Seed(Here(ExtInLoop, Plain)), {<<"default", "+">>, <<"jit", "<">>})]

(* Two files; the second's "b" and the first's are different functions. *)
Functions_ == {<<1, "a">>, <<1, "b">>, <<2, "b">>, <<2, "c">>}
Sites_ == {<<1, "a", "b">>, <<1, "a", "c">>, <<1, "b", "a">>, <<1, "b", "c">>,
           <<2, "b", "c">>, <<2, "c", "b">>, <<2, "b", "indirect">>}
Frames_ == {[f \in Functions_ |-> CASE f[2] = "a" -> 1 [] f[2] = "c" -> 4
                                     [] OTHER -> 2 * f[1]]}
=============================================================================
