------------------------------- MODULE AstEval -------------------------------
(***************************************************************************)
(* A program's outcome by the tree, as ast-eval.ts computes it; and, with  *)
(* operands in another order or with one operator wrong, what an engine    *)
(* behind the lowerer computes.  Where the language leaves the operands of *)
(* an operator or a call unsequenced, every order gives an outcome.        *)
(***************************************************************************)
EXTENDS Ast, RawMem, Bitwise, TLC

CONSTANT MaxSteps

-----------------------------------------------------------------------------
(* Types: three widths, signed or not; all narrower than a word promote to
   i32, so that u32 alone stays unsigned. *)

Bits(t) ==
  CASE t \in {"u8", "i8"} -> ByteBits [] t \in {"u16", "i16"} -> 2 * ByteBits
    [] OTHER -> WordBits
Promote(t) == IF t = "u32" THEN "u32" ELSE "i32"
Usual(s, t) == IF "u32" \in {Promote(s), Promote(t)} THEN "u32" ELSE "i32"
Comparisons == {"==", "!=", "<", "<=", ">", ">="}
Shifts == {"<<", ">>"}

Signed(v) == IF v >= Word \div 2 THEN v - Word ELSE v

(* A narrow variable holds its value already extended. *)
Narrow(v, t) ==
  LET low == v % 2 ^ Bits(t)
  IN IF t \in {"i8", "i16"} /\ low >= 2 ^ (Bits(t) - 1)
     THEN AsWord(low - 2 ^ Bits(t)) ELSE low

LiteralType(v) == IF v < Word \div 2 THEN "i32" ELSE "u32"

-----------------------------------------------------------------------------
(* The machine: what the last step came to, with its value and type, and the
   scopes, innermost last, the buffer and the steps taken. *)

NoNames == [x \in {} |-> 0]
Slot(t, v) == [t |-> t, v |-> Narrow(v, t)]
Machine(env) ==
  [k |-> "next", v |-> 0, t |-> "u32", env |-> env, mem |-> Zeroed, steps |-> 0,
   args |-> << >>]
Val(m, v, t) == [m EXCEPT !.k = "val", !.v = v, !.t = t]
Stop(m, kind, v) == [m EXCEPT !.k = kind, !.v = v]
Bool(m, b) == Val(m, IF b THEN 1 ELSE 0, "i32")

(* What follows a step that came to k; all else ends the evaluation. *)
After(S, k, F(_)) == UNION { IF r.k = k THEN F(r) ELSE {r} : r \in S }

ScopesOf(env, x) == { i \in DOMAIN env : x \in DOMAIN env[i] }
Lookup(env, x) == env[MaxOf(ScopesOf(env, x))][x]
Declare(m, t, x, v) ==
  [m EXCEPT !.k = "next", !.env[Len(m.env)] = (x :> Slot(t, v)) @@ @]
Assign(m, x, v) ==
  LET i == MaxOf(ScopesOf(m.env, x))
      slot == Slot(m.env[i][x].t, v)
  IN Val([m EXCEPT !.env[i][x] = slot], slot.v, slot.t)

RECURSIVE TypeOf(_, _)
TypeOf(e, env) ==
  CASE e.k = "lit" -> LiteralType(e.v)
    [] e.k \in {"id", "asg", "upd"} -> Lookup(env, e.x).t
    [] e.k = "cast" -> e.op
    [] e.k = "logic" -> "i32"
    [] e.k \in {"builtin", "call"} -> "u32"
    [] e.k = "un" -> IF e.op = "!" THEN "i32" ELSE Promote(TypeOf(e.kids[1], env))
    [] e.k = "cond" -> Usual(TypeOf(e.kids[2], env), TypeOf(e.kids[3], env))
    [] e.k = "bin" ->
         IF e.op \in Comparisons THEN "i32"
         ELSE IF e.op \in Shifts THEN Promote(TypeOf(e.kids[1], env))
         ELSE Usual(TypeOf(e.kids[1], env), TypeOf(e.kids[2], env))

-----------------------------------------------------------------------------
(* One operator.  A shift takes its sign from its left operand alone. *)

Compares(op, a, b) ==
  CASE op = "==" -> a = b [] op = "!=" -> a # b [] op = "<" -> a < b
    [] op = "<=" -> a <= b [] op = ">" -> a > b [] op = ">=" -> a >= b

Binary(m, op, l, r) ==
  LET shift == op \in Shifts
      signed == Promote(l.t) = "i32" /\ (shift \/ Promote(r.t) = "i32")
      type == IF shift THEN Promote(l.t) ELSE Usual(l.t, r.t)
      a == IF signed THEN Signed(l.v) ELSE l.v
      b == IF signed THEN Signed(r.v) ELSE r.v
  IN CASE op \in Comparisons -> Bool(m, Compares(op, a, b))
       [] shift /\ r.v >= WordBits -> Stop(m, "unspecified", 0)
       [] op = "<<" -> Val(m, AsWord(l.v * 2 ^ r.v), type)
       [] op = ">>" -> Val(m, AsWord(a \div 2 ^ r.v), type)
       [] op = "+" -> Val(m, AsWord(l.v + r.v), type)
       [] op = "-" -> Val(m, AsWord(l.v - r.v), type)
       [] op = "*" -> Val(m, AsWord(l.v * r.v), type)
       [] op = "&" -> Val(m, l.v & r.v, type)
       [] op = "|" -> Val(m, l.v | r.v, type)
       [] op = "^" -> Val(m, l.v ^^ r.v, type)

Unary(m, op) ==
  CASE op = "-" -> Val(m, AsWord(- m.v), Promote(m.t))
    [] op = "~" -> Val(m, Word - 1 - m.v, Promote(m.t))
    [] op = "!" -> Bool(m, m.v = 0)
    [] OTHER -> Val(m, m.v, Promote(m.t))

Clz(v) == Cardinality({ n \in 0 .. WordBits - 1 : v < 2 ^ n })
RevBits(v) ==
  LET bit[n \in 0 .. WordBits] ==
        IF n = 0 THEN 0 ELSE 2 * bit[n - 1] + ((v \div 2 ^ (n - 1)) % 2)
  IN bit[WordBits]

(* A load's address and a store's value are in the accumulator; the rest of
   an opcode's operands are on the stack. *)
RunBuiltin(m, op, vs) ==
  CASE op = "trap" -> Stop(m, "trap", vs[1])
    [] op = "clz" -> Val(m, Clz(vs[1]), "u32")
    [] op = "revbits" -> Val(m, RevBits(vs[1]), "u32")
    [] op \in ExtOps ->
         LET ran == Exec(op, m.mem, SubSeq(vs, 1, Pops(op)),
                         IF op \in BlockOps THEN 0 ELSE vs[Len(vs)])
         IN Val([m EXCEPT !.mem = ran.mem], ran.acc, "u32")
    [] OTHER -> Stop(m, "stuck", 0)

-----------------------------------------------------------------------------
(* The evaluation.  An engine says the program, the order it takes operands
   in ("left", "right", or "any" of them), and the operator it gets wrong. *)

Engine(gen, order, wrong) == [gen |-> gen, order |-> order, wrong |-> wrong]
Reference(gen) == Engine(gen, "left", "none")

Tick(m) == [m EXCEPT !.steps = @ + 1]

(* Which of the operands not yet evaluated may come next. *)
NextOperand(todo, order) ==
  CASE order = "left" -> {CHOOSE i \in todo : \A j \in todo : i <= j}
    [] order = "right" -> {MaxOf(todo)}
    [] OTHER -> todo

RECURSIVE Eval(_, _, _), Expression(_, _, _), Statement(_, _, _),
          EvalAll(_, _, _, _), Run(_, _, _, _), Loop(_, _, _), Clauses(_, _, _, _)

(* An expression or a statement: each is a step. *)
Eval(n, before, w) ==
  UNION { CASE m.steps > MaxSteps -> {Stop(m, "steplimit", 0)}
            [] n.k \in ExprKinds -> Expression(n, m, w)
            [] OTHER -> Statement(n, m, w)
          : m \in {Tick(before)} }

EvalAll(es, todo, m, w) ==
  IF todo = {} THEN {Val(m, 0, "u32")}
  ELSE UNION { After(Eval(es[i], m, w), "val", LAMBDA r :
                 EvalAll(es, todo \ {i},
                         [r EXCEPT !.args = [m.args EXCEPT ![i] = [v |-> r.v, t |-> r.t]]],
                         w))
               : i \in NextOperand(todo, w.order) }

(* All the operands of e, then what F makes of their values. *)
Operands(es, m, w, F(_, _)) ==
  LET none == [i \in DOMAIN es |-> [v |-> 0, t |-> "u32"]]
  IN After(EvalAll(es, DOMAIN es, [m EXCEPT !.args = none], w), "val",
           LAMBDA r : F([r EXCEPT !.args = m.args], r.args))

InScope(list, m, w) ==
  { [r EXCEPT !.env = SubSeq(r.env, 1, Len(m.env))] :
    r \in Run(list, 1, [m EXCEPT !.k = "next", !.env = Append(@, NoNames)], w) }

(* Arguments are words.  A callee's scopes are its own, and falling off its
   end hands back nothing that can be seen. *)
RunProc(i, m, vs, w) ==
  LET p == ProcOf(w.gen, i)
      env == <<[x \in { p.ns[j] : j \in DOMAIN p.ns } |->
                  Slot("u32", vs[CHOOSE j \in DOMAIN p.ns : p.ns[j] = x])]>>
  IN { [r EXCEPT !.env = m.env] :
       r \in Run(p.kids, 1, [m EXCEPT !.k = "next", !.env = env], w) }

Returned(r) ==
  CASE r.k = "ret" -> Val(r, r.v, "u32")
    [] r.k \in {"next", "break"} -> Val(r, 0, "u32")
    [] OTHER -> r

Shaken(m, op, w) == IF m.k = "val" /\ op = w.wrong THEN [m EXCEPT !.v = AsWord(@ + 1)] ELSE m

Expression(e, m, w) ==
  CASE e.k = "lit" -> {Val(m, e.v, LiteralType(e.v))}
    [] e.k \in {"id", "asg", "upd"} /\ ScopesOf(m.env, e.x) = {} ->
         {Stop(m, "stuck", 0)}
    [] e.k = "id" -> {Val(m, Lookup(m.env, e.x).v, Lookup(m.env, e.x).t)}
    [] e.k = "cast" ->
         After(Eval(e.kids[1], m, w), "val",
               LAMBDA r : {Val(r, Narrow(r.v, e.op), e.op)})
    [] e.k = "un" ->
         After(Eval(e.kids[1], m, w), "val", LAMBDA r : {Unary(r, e.op)})
    [] e.k = "bin" ->
         Operands(e.kids, m, w, LAMBDA r, vs :
           {Shaken(Binary(r, e.op, vs[1], vs[2]), e.op, w)})
    [] e.k = "logic" ->
         After(Eval(e.kids[1], m, w), "val", LAMBDA l :
           IF (l.v = 0) = (e.op = "&&") THEN {Bool(l, l.v # 0)}
           ELSE After(Eval(e.kids[2], l, w), "val", LAMBDA r : {Bool(r, r.v # 0)}))
    [] e.k = "cond" ->
         After(Eval(e.kids[1], m, w), "val", LAMBDA c :
           After(Eval(e.kids[IF c.v # 0 THEN 2 ELSE 3], c, w), "val",
                 LAMBDA r : {Val(r, r.v, TypeOf(e, m.env))}))
    [] e.k = "asg" ->
         After(Eval(e.kids[1], m, w), "val", LAMBDA r :
           IF e.op = "=" THEN {Assign(r, e.x, r.v)}
           ELSE After({Binary(r, e.op, Lookup(r.env, e.x), [v |-> r.v, t |-> r.t])},
                      "val", LAMBDA b : {Assign(b, e.x, b.v)}))
    [] e.k = "upd" ->
         LET old == Lookup(m.env, e.x)
             new == Assign(m, e.x, AsWord(IF e.op = "+" THEN old.v + 1 ELSE old.v - 1))
         IN {IF e.v = 1 THEN new ELSE Val(new, old.v, old.t)}
    [] e.k = "builtin" ->
         Operands(e.kids, m, w, LAMBDA r, vs :
           {RunBuiltin(r, e.op, [i \in DOMAIN vs |-> vs[i].v])})
    [] e.k = "call" ->
         IF e.v \notin ProcIndices(w.gen) THEN {Stop(m, "stuck", 0)}
         ELSE Operands(e.kids, m, w, LAMBDA r, vs :
           { Returned(o) : o \in RunProc(e.v, r, [i \in DOMAIN vs |-> vs[i].v], w) })

-----------------------------------------------------------------------------
(* Statements *)

Run(list, i, m, w) ==
  IF i > Len(list) THEN {m}
  ELSE After(Eval(list[i], m, w), "next", LAMBDA r : Run(list, i + 1, r, w))

Next_(r) == {[r EXCEPT !.k = "next"]}
EndsLoop(r) == IF r.k = "break" THEN [r EXCEPT !.k = "next"] ELSE r

(* One round of a loop.  Its test is skipped before a do's first round. *)
Loop(s, m, w) ==
  LET test(r) == Eval(s.kids[IF s.k = "for" THEN 2 ELSE 1], r, w)
      step(r) ==
        IF s.k = "for" THEN After(Eval(s.kids[3], r, w), "val", Next_)
        ELSE {r}
      body(r) == InScope(s.kids[IF s.k = "for" THEN 4 ELSE 2].kids, r, w)
      again(r) == Loop(s, r, w)
      ifTrue(r, F(_)) ==
        After(test(r), "val",
              LAMBDA t : IF t.v = 0 THEN Next_(t) ELSE F([t EXCEPT !.k = "next"]))
      rounds(round) ==
        CASE round.steps > MaxSteps -> {Stop(round, "steplimit", 0)}
          [] s.k = "do" -> After(body(round), "next", LAMBDA r : ifTrue(r, again))
          [] OTHER -> ifTrue(round, LAMBDA t : After(body(t), "next", LAMBDA r :
                               After(step(r), "next", again)))
  IN UNION { { EndsLoop(r) : r \in rounds(round) } : round \in {Tick(m)} }

(* From clause i on, each runs on into the next unless it breaks. *)
Clauses(cases, i, m, w) ==
  IF i > Len(cases) THEN {m}
  ELSE { EndsLoop(r) : r \in
         After(InScope(cases[i].kids, m, w), "next",
               LAMBDA r : Clauses(cases, i + 1, r, w)) }

(* The clause a switch enters: the one labelled d, else the default. *)
Entered(cases, d) ==
  LET at(v) == { i \in DOMAIN cases : cases[i].v = v }
      first(S) == CHOOSE i \in S : \A j \in S : i <= j
  IN CASE at(d) # {} -> first(at(d))
       [] at(d) = {} /\ at(Default) # {} -> first(at(Default))
       [] OTHER -> Len(cases) + 1

Statement(s, m, w) ==
  CASE s.k = "block" -> InScope(s.kids, m, w)
    [] s.k = "break" -> {Stop(m, "break", 0)}
    [] s.k = "expr" -> After(Eval(s.kids[1], m, w), "val", Next_)
    [] s.k = "ret" ->
         IF s.kids = << >> THEN {Stop(m, "ret", 0)}
         ELSE After(Eval(s.kids[1], m, w), "val", LAMBDA r : {Stop(r, "ret", r.v)})
    [] s.k = "decl" ->
         After(Eval(s.kids[1], m, w), "val",
               LAMBDA r : {Declare(r, s.op, s.x, r.v)})
    [] s.k = "if" ->
         After(Eval(s.kids[1], m, w), "val", LAMBDA c :
           IF c.v # 0 THEN InScope(s.kids[2].kids, c, w)
           ELSE IF Len(s.kids) = 2 THEN Next_(c)
           ELSE InScope(s.kids[3].kids, c, w))
    [] s.k \in {"while", "do"} -> Loop(s, m, w)
    [] s.k = "for" ->
         { [r EXCEPT !.env = SubSeq(r.env, 1, Len(m.env))] :
           r \in After(Eval(s.kids[1], [m EXCEPT !.env = Append(@, NoNames)], w),
                       "next", LAMBDA i : Loop(s, i, w)) }
    [] s.k = "switch" ->
         After(Eval(s.kids[1], m, w), "val", LAMBDA d :
           LET cases == SubSeq(s.kids, 2, Len(s.kids))
           IN Clauses(cases, Entered(cases, d.v), [d EXCEPT !.k = "next"], w))

-----------------------------------------------------------------------------
(* What a program comes to.  The entry procedure's running off its end leaves
   no answer. *)

Outcome(k, v, mem) == [k |-> k, v |-> v, mem |-> mem]
Unanswered == {"unspecified", "steplimit", "stuck"}
OutcomeOf(r) ==
  CASE r.k \in {"ret", "trap"} -> Outcome(r.k, r.v, r.mem)
    [] r.k \in {"next", "break"} -> Outcome("unspecified", 0, Zeroed)
    [] OTHER -> Outcome(r.k, 0, Zeroed)

(* Distinct and not zero for each argument (entry_args.ts). *)
EntryArgsFor(n) == [i \in 1 .. n |-> AsWord((ByteMod + 1) * i)]

Evaluate(w) ==
  { OutcomeOf(r) : r \in
    RunProc(0, Machine(<< >>), EntryArgsFor(Len(ProcOf(w.gen, 0).ns)), w) }
=============================================================================
