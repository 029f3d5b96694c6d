------------------------------- MODULE Mutator -------------------------------
(***************************************************************************)
(* The scoped rewrite walk (mutate.ts).  The generator's random choices    *)
(* are nondeterministic, and one call makes at most one of the changes it  *)
(* makes with a probability; what the walk does on every pass it always    *)
(* does.  An alphabet says which operators, literals and sizes it draws:   *)
(* ops, unary, narrow, types, builtins, loads, stores, literals, deltas,   *)
(* height, build (how deep a fresh expression is), trips, arities, words   *)
(* (a word's bits).                                                        *)
(***************************************************************************)
EXTENDS Ast, SequencesExt

Opaque == {"trap", "memmove"}
IsOpaque(e) == e.k = "builtin" /\ e.op \in Opaque
Shift == {"<<", ">>"}

-----------------------------------------------------------------------------
(* Construction.  c is the context, with its alphabet c.a, the procedures
   c.callable that may be called, the splices c.donors and the names c.fresh
   no procedure uses; vars are the variables in scope. *)

(* A shift's amount stays in its defined range. *)
ShiftSafe(c, op, right) ==
  CASE op \notin Shift -> right
    [] op \in Shift /\ right.k = "lit" -> Lit(right.v % c.a.words)
    [] op \in Shift /\ right.k = "bin" /\ right.op = "&"
         /\ right.kids[2] = Lit(c.a.words - 1) -> right
    [] OTHER -> Bin("&", right, Lit(c.a.words - 1))

SafeBin(c, op, l, r) == Bin(op, l, ShiftSafe(c, op, r))

Leaf(c, vars) == { Id(x) : x \in vars } \cup { Lit(v) : v \in c.a.literals }

RECURSIVE BuildTo(_, _, _)
BuildTo(c, vars, depth) ==
  IF depth <= 0 THEN Leaf(c, vars)
  ELSE LET sub == BuildTo(c, vars, depth - 1)
       IN Leaf(c, vars)
          \cup { SafeBin(c, op, l, r) : op \in c.a.ops, l \in sub, r \in sub }
          \cup { Un(op, e) : op \in c.a.unary, e \in sub }
          \cup { Cast(t, e) : t \in c.a.narrow, e \in sub }
          \cup { Cond(t, y, n) : t \in sub, y \in sub, n \in sub }
          \cup { Builtin(f, <<e>>) : f \in c.a.builtins \cup c.a.loads, e \in sub }

Build(c, vars, depth) ==
  BuildTo(c, vars, IF depth < c.a.build THEN depth ELSE c.a.build)

(* One fresh expression for each of n places. *)
Builds(c, vars, depth, n) == [1 .. n -> Build(c, vars, depth)]

(* A donor with its names rebound into scope, and its calls to procedures it
   may not call here replaced. *)
RECURSIVE Rebind(_, _, _)
Rebind(e, c, vars) ==
  CASE e.k = "id" -> IF vars = {} THEN Leaf(c, {}) ELSE { Id(x) : x \in vars }
    [] e.k = "upd" ->
         IF vars = {} THEN {Lit(1)} ELSE { [e EXCEPT !.x = x] : x \in vars }
    [] e.k = "asg" /\ vars = {} -> Rebind(e.kids[1], c, vars)
    [] e.k = "asg" /\ vars # {} ->
         { Asg(e.op, x, r) : x \in vars, r \in Rebind(e.kids[1], c, vars) }
    [] e.k = "call" /\ <<e.v, Len(e.kids)>> \notin c.callable -> Build(c, vars, 1)
    [] OTHER ->
         { [e EXCEPT !.kids = ks] :
           ks \in { f \in [DOMAIN e.kids -> UNION { Rebind(k, c, vars) : k \in Kids(e) }] :
                      \A i \in DOMAIN e.kids : f[i] \in Rebind(e.kids[i], c, vars) } }

-----------------------------------------------------------------------------
(* Expressions *)

(* A shift whose operands changed below it is made safe on the way out. *)
OnTheWayOut(c, e) ==
  IF e.k = "bin" THEN SafeBin(c, e.op, e.kids[1], e.kids[2]) ELSE e

(* An expression no change was made in. *)
RECURSIVE Unchanged(_, _)
Unchanged(c, e) ==
  IF IsOpaque(e) THEN e
  ELSE OnTheWayOut(c, [e EXCEPT !.kids = [i \in DOMAIN @ |-> Unchanged(c, @[i])]])

(* The rewrites of a node that keep its size or shrink it. *)
InPlace(e, c, vars) ==
  CASE e.k = "bin" ->
         LET l == e.kids[1]
             r == e.kids[2]
         IN { SafeBin(c, op, l, r) : op \in c.a.ops }
            \cup {SafeBin(c, e.op, r, l), l, r}
    [] e.k = "logic" ->
         {Logic(IF e.op = "&&" THEN "||" ELSE "&&", e.kids[1], e.kids[2]),
          Logic(e.op, e.kids[2], e.kids[1])}
    [] e.k = "lit" ->
         { Lit((e.v + d) % 2 ^ c.a.words) : d \in c.a.deltas } \cup Leaf(c, vars)
    [] e.k = "id" -> Leaf(c, vars)
    [] e.k = "un" -> { Un(op, e.kids[1]) : op \in c.a.unary }
    [] e.k = "cast" -> { Cast(t, e.kids[1]) : t \in c.a.narrow }
    [] OTHER -> {}

(* Those that any node may grow by: a call is to a procedure further up, and
   a donor is no taller than the bound. *)
Grown(e, c, vars) ==
  LET fresh == Build(c, vars, 1)
  IN { SafeBin(c, op, e, r) : op \in c.a.ops, r \in fresh }
     \cup { Un(op, e) : op \in c.a.unary }
     \cup { Cast(t, e) : t \in c.a.narrow }
     \cup { Cond(e, y, n) : y \in fresh, n \in fresh }
     \cup { Logic(op, e, r) : op \in {"&&", "||"}, r \in fresh }
     \cup { Builtin(f, <<e>>) : f \in c.a.builtins \cup c.a.loads }
     \cup Build(c, vars, 2)
     \cup UNION { { Call(p[1], args) : args \in Builds(c, vars, 1, p[2]) } :
                  p \in c.callable }
     \cup UNION { Rebind(d, c, vars) : d \in { g \in c.donors : HeightOf(g) < c.a.height } }
     \cup { Asg("=", x, e) : x \in vars }
     \cup { Upd(op, x, b) : op \in {"+", "-"}, x \in vars, b \in {0, 1} }

RECURSIVE MutateExpr(_, _, _)
MutateExpr(e, c, vars) ==
  IF IsOpaque(e) THEN {}
  ELSE LET same == [e EXCEPT !.kids = [i \in DOMAIN @ |-> Unchanged(c, @[i])]]
           inner == OnTheWayOut(c, same)
           below == UNION { { OnTheWayOut(c, WithKid(same, i, m)) :
                              m \in MutateExpr(e.kids[i], c, vars) } :
                            i \in DOMAIN e.kids }
       IN below \cup InPlace(inner, c, vars)
          \cup (IF HeightOf(inner) < c.a.height THEN Grown(inner, c, vars) ELSE {})

-----------------------------------------------------------------------------
(* Fresh statements *)

NewDecl(c, vars, depth) ==
  { Decl(t, c.fresh[1], e) : t \in c.a.types, e \in Build(c, vars, depth) }

EmptyIf(c, vars) ==
  UNION { {If(t, << >>), IfElse(t, << >>, << >>)} : t \in Build(c, vars, 2) }

SideEffect(c, vars) ==
  { ExprS(Asg("=", x, e)) : x \in vars, e \in Build(c, vars, 2) }
  \cup { ExprS(Builtin(f, args)) : f \in c.a.stores, args \in Builds(c, vars, 1, 2) }

Counted(x) == Asg("=", x, Bin("+", Id(x), Lit(1)))
CountedLoop(c, body) ==
  { For(Decl("u32", c.fresh[1], Lit(0)), Bin("<", Id(c.fresh[1]), Lit(n)),
        Counted(c.fresh[1]), body) : n \in c.a.trips }
CountedDoWhile(c, body) ==
  { Block(<<Decl("u32", c.fresh[1], Lit(0)),
            DoWhile(Append(body, ExprS(Counted(c.fresh[1]))),
                    Bin("<", Id(c.fresh[1]), Lit(n)))>>) : n \in c.a.trips }

(* A switch of one to three clauses, the first with the body in it. *)
SwitchOver(c, vars, body) ==
  UNION { { Switch(Bin("&", d, Lit(3)),
                   <<Case(0, Append(body, Break))>>
                   \o [i \in 1 .. n - 1 |-> Case(i, <<fill[i], Break>>)] \o default) :
            d \in Build(c, vars, 1), fill \in [1 .. n - 1 -> SideEffect(c, vars)],
            default \in {<< >>, <<Case(Default, <<Break>>)>>} } : n \in c.a.clauses }

Wrapped(c, vars, s) ==
  { If(t, <<s>>) : t \in Build(c, vars, 2) }
  \cup { IfElse(t, <<s>>, <<o>>) : t \in Build(c, vars, 2), o \in SideEffect(c, vars) }
  \cup CountedLoop(c, <<s>>) \cup {Block(<<s>>)} \cup SwitchOver(c, vars, <<s>>)

-----------------------------------------------------------------------------
(* Statements.  A scope has the visible vars, and whether it is directly a
   clause's or in a loop.  A walk has what came out so far, the vars visible
   after it, and how many changes were made, at most n. *)

Scope(vars, inCase, inLoop) == [vars |-> vars, inCase |-> inCase, inLoop |-> inLoop]
Walk(out, vars, used) == [out |-> out, vars |-> vars, used |-> used]

(* Does a clause run on into what is written after it? *)
FallsInto(case) ==
  LET last == case.kids[Len(case.kids)]
  IN case.kids = << >> \/ ~ (last.k \in {"break", "ret"}
                             \/ (last.k = "expr" /\ last.kids[1].k = "builtin"
                                 /\ last.kids[1].op = "trap"))

(* What each of some places may hold, with n changes among them at most. *)
RECURSIVE Combine(_, _)
Combine(places, n) ==
  IF places = << >> THEN {Walk(<< >>, {}, 0)}
  ELSE UNION { { Walk(<<h.out>> \o t.out, {}, h.used + t.used) :
                 t \in Combine(Tail(places), n - h.used) } :
               h \in { p \in Head(places) : p.used <= n } }

(* An expression as it was or with one change. *)
Expr(e, c, vars, n) ==
  {Walk(Unchanged(c, e), vars, 0)}
  \cup (IF n = 0 THEN {} ELSE { Walk(m, vars, 1) : m \in MutateExpr(e, c, vars) })

(* A new clause has the lowest label not in use and stands before the
   default, unless the clause before it runs on. *)
WithClause(c, vars, cases) ==
  LET labels == { cases[i].v : i \in DOMAIN cases }
      next == CHOOSE v \in 0 .. Len(cases) :
                v \notin labels /\ \A u \in 0 .. v - 1 : u \in labels
      defaults == { i \in DOMAIN cases : cases[i].v = Default }
      at == IF defaults = {} THEN Len(cases) + 1 ELSE CHOOSE i \in defaults : TRUE
  IN IF at > 1 /\ FallsInto(cases[at - 1]) THEN {cases}
     ELSE { InsertAt(cases, at, Case(next, <<e, Break>>)) : e \in SideEffect(c, vars) }

(* A clause loses its closer where the next is the default or has the next
   label. *)
WithOpening(cases) ==
  { [cases EXCEPT ![i].kids = Front(@)] :
    i \in { j \in 1 .. Len(cases) - 1 :
              /\ cases[j].v # Default /\ Len(cases[j].kids) >= 2
              /\ ~ FallsInto(cases[j])
              /\ cases[j + 1].v \in {Default, cases[j].v + 1} } }

(* A clause goes that none runs into, if a labelled one is left. *)
WithoutClause(cases) ==
  { Without(cases, i) :
    i \in { j \in DOMAIN cases :
              /\ \/ cases[j].v = Default
                 \/ \E k \in DOMAIN cases \ {j} : cases[k].v # Default
              /\ j = 1 \/ ~ FallsInto(cases[j - 1]) } }

SwitchEdits(s, c, vars) ==
  LET cases == Tail(s.kids)
  IN { [s EXCEPT !.kids = <<s.kids[1]>> \o cs] :
       cs \in WithClause(c, vars, cases) \cup WithOpening(cases)
              \cup WithoutClause(cases) }

RECURSIVE MutateStatement(_, _, _, _), MutateStatements(_, _, _, _)

(* A list below a statement: its own scope, in a clause or not, in a loop or
   not, with the names it adds. *)
ChildScope(sc, names, inCase, inLoop) ==
  Scope(sc.vars \cup names, inCase, sc.inLoop \/ inLoop)

Loops == {"while", "do", "for"}

(* Every part of a statement is walked but what controls a loop. *)
MutateStatement(s, c, sc, n) ==
  LET names == IF s.k = "for" THEN {s.kids[1].x} ELSE {}
      list(b) ==
        { Walk([b EXCEPT !.kids = w.out], sc.vars, w.used) :
          w \in MutateStatements(b.kids, c,
                   ChildScope(sc, names, b.k = "case", s.k \in Loops), n) }
      place(part) ==
        CASE part.k \in ListKinds -> list(part)
          [] s.k \in Loops /\ part.k \notin ListKinds -> {Walk(part, sc.vars, 0)}
          [] OTHER -> Expr(part, c, sc.vars, n)
      walked ==
        CASE s.k = "block" -> list(s)
          [] s.k = "ret" /\ s.kids = << >> ->
               { Walk(Ret(e), sc.vars, 0) : e \in Build(c, sc.vars, 2) }
          [] OTHER ->
               { Walk([s EXCEPT !.kids = w.out], sc.vars, w.used) :
                 w \in Combine([i \in DOMAIN s.kids |-> place(s.kids[i])], n) }
      changed(walks) ==
        CASE s.k = "decl" -> { Walk([s EXCEPT !.op = t], sc.vars, 1) : t \in c.a.types }
          [] s.k = "if" /\ Len(s.kids) = 2 ->
               { Walk(IfElse(s.kids[1], s.kids[2].kids, <<e>>), sc.vars, 1) :
                 e \in SideEffect(c, sc.vars) }
          [] s.k = "switch" ->
               UNION { { Walk(x, sc.vars, w.used + 1) : x \in SwitchEdits(w.out, c, sc.vars) } :
                       w \in { v \in walks : v.used < n } }
          [] OTHER -> {}
  IN { [w EXCEPT !.vars = @ \cup IF s.k = "decl" THEN {s.x} ELSE {}] :
       w \in UNION { walks \cup (IF n = 0 THEN {} ELSE changed(walks)) :
                     walks \in {walked} } }

(* One statement of a list of len: something new before it; then the
   statement, mutated, or wrapped, or twice, or not at all.  A declaration
   stays where it stands, and a loop's statements stay in it. *)
Step(s, len, w, c, sc, n) ==
  LET inserted ==
        IF w.used = n THEN {}
        ELSE { Walk(Append(w.out, d), w.vars \cup {d.x}, w.used + 1) :
               d \in NewDecl(c, w.vars, 2) }
             \cup { Walk(Append(w.out, e), w.vars, w.used + 1) :
                    e \in EmptyIf(c, w.vars) \cup SideEffect(c, w.vars) }
      remade(b, u, ms) ==
        UNION { { Walk(Append(b.out, x), b.vars, u + m.used) :
                  x \in Wrapped(c, b.vars, m.out) } : m \in ms }
        \cup { Walk(b.out \o <<m.out, d.out>>, b.vars, u + m.used + d.used) :
               m \in ms, d \in ms }
        \cup (IF sc.inLoop \/ len = 1 THEN {} ELSE {Walk(b.out, b.vars, u)})
  IN UNION { UNION { UNION {
         IF u = b.used THEN { Walk(Append(b.out, m.out), m.vars, b.used + m.used) : m \in ms } ELSE remade(b, u, ms)
         : ms \in {MutateStatement(s, c, [sc EXCEPT !.vars = b.vars], n - u)} }
         : u \in {b.used} \cup (IF s.k = "decl" THEN {} ELSE {b.used + 1} \cap 0 .. n) }
         : b \in {w} \cup inserted }

(* A clause's trailing break stays exactly there, and no list comes out
   empty. *)
MutateStatements(list, c, sc, n) ==
  LET closer == IF sc.inCase /\ list # << >> /\ Last(list) = Break
                THEN <<Break>> ELSE << >>
      source == SubSeq(list, 1, Len(list) - Len(closer))
      walks[i \in 0 .. Len(source)] ==
        IF i = 0 THEN {Walk(<< >>, sc.vars, 0)}
        ELSE UNION { Step(source[i], Len(source), w, c, sc, n) : w \in walks[i - 1] }
  IN UNION { { Walk(out \o closer, w.vars, w.used) :
               out \in IF w.out # << >> THEN {w.out}
                       ELSE { <<e>> : e \in SideEffect(c, w.vars) } }
             : w \in walks[Len(source)] }

-----------------------------------------------------------------------------
(* Whole programs *)

(* A body ends in a valued return, or in a trap. *)
CloseWithReturn(body, c, vars) ==
  LET last == Last(body)
      closed == \/ last.k = "ret" /\ last.kids # << >>
                \/ last.k = "expr" /\ last.kids[1].k = "builtin"
                   /\ last.kids[1].op = "trap"
  IN IF body # << >> /\ closed THEN {body}
     ELSE { Append(body, Ret(e)) : e \in Build(c, vars, 2) }

Harvest(gen) ==
  { e \in UNION { Expressions(p.kids) : p \in Kids(gen) } :
      e.k \notin {"id", "lit"} /\ ~ IsOpaque(e) }

Args(p) == { p.ns[i] : i \in DOMAIN p.ns }
UsedNames(gen) ==
  UNION { Args(p) \cup DeclaredNames(p.kids)
          \cup { e.x : e \in Expressions(p.kids) } : p \in Kids(gen) }
NamePool == <<"v0", "v1", "v2", "v3", "v4", "v5", "v6", "v7">>
Fresh(gen) == SelectSeq(NamePool, LAMBDA x : x \notin UsedNames(gen))

Context(gen, alphabet, callable) ==
  [a |-> alphabet, callable |-> callable, fresh |-> Fresh(gen),
   donors |-> Harvest(gen) \cup alphabet.donors]

(* The procedures above the i-th, each with its arity. *)
\* Faulty form: a procedure may call itself.
CallableFrom_Itself(gen, i) ==
  { <<j, Len(ProcOf(gen, j).ns)>> : j \in i .. Len(gen.kids) - 1 }
CallableFrom(gen, i) ==
  { <<j, Len(ProcOf(gen, j).ns)>> : j \in i + 1 .. Len(gen.kids) - 1 }

MutateProc(gen, i, alphabet, n) ==
  LET p == ProcOf(gen, i)
      c == Context(gen, alphabet, CallableFrom(gen, i))
  IN UNION { { Walk(Proc(p.ns, body), {}, w.used) :
               body \in CloseWithReturn(w.out, c, w.vars) } :
             w \in MutateStatements(p.kids, c, Scope(Args(p), FALSE, FALSE), n) }

(* A new procedure at the end, which one of the others calls first thing. *)
Grow(gen, alphabet) ==
  LET c == Context(gen, alphabet, {})
  IN UNION { { Program([gen.kids EXCEPT ![from].kids =
                          <<ExprS(Call(Len(gen.kids), args))>> \o @]
                       \o <<Proc(SubSeq(c.fresh, 1, arity), <<Ret(e)>>)>>) :
               e \in Build(c, { c.fresh[i] : i \in 1 .. arity }, 2),
               args \in Builds(c, Args(gen.kids[from]), 1, arity) } :
             arity \in alphabet.arities, from \in DOMAIN gen.kids }
MaxProcs == 8

Mutate(gen, alphabet) ==
  LET walks == Combine([i \in DOMAIN gen.kids |-> MutateProc(gen, i - 1, alphabet, 1)], 1)
  IN { Program(w.out) : w \in { v \in walks : v.used = 1 } }
     \cup UNION { Grow(Program(w.out), alphabet) :
                  w \in { v \in walks : v.used = 0 /\ Len(gen.kids) < MaxProcs } }

(* A body longer than a branch reaches: some declarations, one construct over
   the padding, and then the entry's own body. *)
Inflate(gen, alphabet) ==
  LET entry == gen.kids[1]
      c == Context(gen, alphabet, {})
      inner == [c EXCEPT !.fresh = Tail(@)]
      over(pad, vars) ==
        { If(t, <<pad>>) : t \in Build(c, vars, 1) }
        \cup CountedLoop(inner, <<pad>>) \cup CountedDoWhile(inner, <<pad>>)
  IN UNION { LET vars == Args(entry) \cup {d.x}
             IN UNION { UNION { { Program(<<Proc(entry.ns, body)>> \o Tail(gen.kids)) :
                                  body \in CloseWithReturn(<<d, span>> \o entry.kids,
                                                           c, vars) } :
                                span \in over(pad, vars) } :
                        pad \in SideEffect(c, vars) } :
             d \in NewDecl(c, Args(entry), 2) }
=============================================================================
