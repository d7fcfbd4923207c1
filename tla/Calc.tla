-------------------------------- MODULE Calc --------------------------------
(***************************************************************************)
(* src/calc: the evaluator with its two stacks, the variables, the history *)
(* and the line editor.  A value is the term that it was computed from, so *)
(* that evaluating what was printed from a term must give the term back.   *)
(***************************************************************************)
EXTENDS Integers, Sequences, SequencesExt, FiniteSetsExt

CONSTANTS
  CalcTrees,     \* terms that are given on the command line
  CalcLines,     \* lines that are typed: [kind |-> "expr", tree], [kind |-> "set", name, tree], [kind |-> "help"]
  CalcConst,     \* names of the constants
  CalcMaxVars,   \* CALC_MAX_VARS
  CalcMaxHist,   \* CALC_MAX_HISTORY
  CalcMaxStack,  \* CALC_MAX_STACK
  CalcEnters     \* lines that are entered

VARIABLE calc

CalcOff == [pc |-> "off"]

Num(n) == [op |-> "num", v |-> n]
Var(n) == [op |-> "var", name |-> n]
Bin(op, a, b) == [op |-> op, a |-> a, b |-> b]
Fn(a) == [op |-> "fn", a |-> a]

\* A sign is a subtraction from zero.
Neg(a) == Bin("-", Num(0), a)
IsNeg(t) == t.op = "-" /\ t.a = Num(0)

OpPrecedence(op) ==
  CASE op = "|" -> 1 [] op = "&" -> 3 [] op = "<<" -> 4 [] op \in {"+", "-"} -> 5 [] op \in {"*", "/"} -> 6 [] op = "^" -> 7 [] OTHER -> 9

IsRightAssociative(op) == op = "^"

----------------------------------------------------------------------------
\* evaluate_expression_iterative.  ok turns FALSE at an error, and at the end
\* of a stack, where an assertion fails.
Stacks == [vals |-> <<>>, ops |-> <<>>, unary |-> TRUE, ok |-> TRUE]

Failed(s) == [s EXCEPT !.ok = FALSE]

PushVal(s, v) == IF Len(s.vals) >= CalcMaxStack THEN Failed(s) ELSE [s EXCEPT !.vals = Append(@, v), !.unary = FALSE]
PushOp(s, op) == IF Len(s.ops) >= CalcMaxStack THEN Failed(s) ELSE [s EXCEPT !.ops = Append(@, op), !.unary = TRUE]

\* apply_math_op: a division by zero fails.
ApplyMathOp(s) ==
  LET n == Len(s.vals)
      op == Last(s.ops)
  IN IF n < 2 \/ (op = "/" /\ s.vals[n] = Num(0)) THEN Failed(s)
     ELSE [s EXCEPT !.ops = Front(@), !.vals = Append(SubSeq(@, 1, n - 2), Bin(op, @[n - 1], @[n]))]

Opens(op) == op \in {"(", "fn("}

PopsEqualAlways(top, cur) == OpPrecedence(top) >= OpPrecedence(cur)

\* Whether the operator on the stack comes before the one that is read.
Pops(top, cur) ==
  \/ ~IsRightAssociative(cur) /\ OpPrecedence(top) >= OpPrecedence(cur)
  \/ IsRightAssociative(cur) /\ OpPrecedence(top) > OpPrecedence(cur)

\* Applies the operators that come before cur, or all of the group at its End.
End == "end"
Reduced(s, cur) ==
  FoldLeft(LAMBDA acc, i : IF /\ acc.ok /\ acc.ops # <<>>
                              /\ ~Opens(Last(acc.ops)) /\ (cur = End \/ Pops(Last(acc.ops), cur))
                           THEN ApplyMathOp(acc) ELSE acc,
           s, [i \in 1 .. Len(s.ops) |-> i])

\* A closing bracket ends a group or calls a function (apply_func_op).
CloseGroup(s) ==
  LET r == Reduced(s, End) IN
  IF ~r.ok \/ r.ops = <<>> THEN [r EXCEPT !.unary = FALSE]
  ELSE IF Last(r.ops) = "(" THEN [r EXCEPT !.ops = Front(@), !.unary = FALSE]
  ELSE IF r.vals = <<>> THEN Failed(r)
  ELSE [r EXCEPT !.ops = Front(@), !.vals = Append(Front(@), Fn(Last(@))), !.unary = FALSE]

ReadOperator(s, op) ==
  LET signed == IF s.unary THEN [s EXCEPT !.vals = Append(@, Num(0))] ELSE s
      r == Reduced(signed, op)
  IN IF r.ok THEN PushOp(r, op) ELSE r

\* One token.  Names are looked up among vars; "ans" is one of them.
ReadToken(s, tok, vars) ==
  IF ~s.ok THEN s
  ELSE CASE tok.t = "num" -> PushVal(s, Num(tok.v))
         [] tok.t = "name" -> IF tok.v \in DOMAIN vars THEN PushVal(s, vars[tok.v]) ELSE Failed(s)
         [] tok.t \in {"(", "fn("} -> PushOp(s, tok.t)
         [] tok.t = ")" -> CloseGroup(s)
         [] tok.t = "op" -> IF s.unary /\ tok.v = "+" THEN s
                            ELSE IF s.unary /\ tok.v # "-" THEN Failed(ReadOperator([s EXCEPT !.unary = FALSE], tok.v))
                            ELSE ReadOperator(s, tok.v)

NoValue == [op |-> "none"]

EvaluateExpression(tokens, vars) ==
  LET read == FoldLeft(LAMBDA s, tok : ReadToken(s, tok, vars), Stacks, tokens)
      r == Reduced(read, End)
  IN IF r.ok /\ r.ops = <<>> /\ Len(r.vals) = 1 THEN r.vals[1] ELSE NoValue

\* print_result_card: the binary digits, least significant first, reversed.
BinDigits(n) ==
  LET digits[k \in 0 .. n] == IF k = 0 THEN <<>> ELSE Append(digits[k \div 2], k % 2)
  IN IF n = 0 THEN <<0>> ELSE digits[n]

----------------------------------------------------------------------------
\* How a term is written: groups where precedence, associativity or a sign
\* behind an operator ask for them.
RECURSIVE Written(_)

Level(t) == IF t.op \in {"num", "var", "fn"} THEN 9 ELSE OpPrecedence(t.op)

Grouped(t, needed) == IF needed THEN <<[t |-> "("]>> \o Written(t) \o <<[t |-> ")"]>> ELSE Written(t)

Written(t) ==
  CASE t.op = "num" -> <<[t |-> "num", v |-> t.v]>>
    [] t.op = "var" -> <<[t |-> "name", v |-> t.name]>>
    [] t.op = "fn" -> <<[t |-> "fn("]>> \o Written(t.a) \o <<[t |-> ")"]>>
    [] IsNeg(t) -> <<[t |-> "op", v |-> "-"]>> \o Grouped(t.b, IsNeg(t.b) \/ Level(t.b) <= Level(t))
    [] OTHER -> Grouped(t.a, Level(t.a) < Level(t) \/ (Level(t.a) = Level(t) /\ IsRightAssociative(t.op)))
                  \o <<[t |-> "op", v |-> t.op]>>
                  \o Grouped(t.b, IsNeg(t.b) \/ Level(t.b) < Level(t) \/ (Level(t.b) = Level(t) /\ ~IsRightAssociative(t.op)))

RECURSIVE Meant(_, _)

\* What a term means: its names replaced by their values.
Meant(t, vars) ==
  CASE t.op = "num" -> t
    [] t.op = "var" -> IF t.name \in DOMAIN vars THEN vars[t.name] ELSE NoValue
    [] t.op = "fn" -> LET a == Meant(t.a, vars) IN IF a = NoValue THEN a ELSE Fn(a)
    [] OTHER -> LET a == Meant(t.a, vars)
                    b == Meant(t.b, vars)
                IN IF NoValue \in {a, b} \/ (t.op = "/" /\ b = Num(0)) THEN NoValue ELSE Bin(t.op, a, b)

RECURSIVE Depth(_)

\* Open groups and pending operators while a term is read.
Depth(t) ==
  CASE t.op \in {"num", "var"} -> 1
    [] t.op = "fn" -> 1 + Depth(t.a)
    [] OTHER -> 2 + Max({Depth(t.a), 1 + Depth(t.b)})

----------------------------------------------------------------------------
\* calc_set_var: constants stay, and a new name needs room.
SetVar(vars, name, v) ==
  IF name \in CalcConst THEN vars
  ELSE IF name \in DOMAIN vars \/ Cardinality(DOMAIN vars \ {"ans"}) < CalcMaxVars
  THEN [n \in DOMAIN vars \cup {name} |-> IF n = name THEN v ELSE vars[n]]
  ELSE vars

\* An expression that has a value is the next "ans", assigned or not.
ProcessLine(vars, line) ==
  IF line.kind = "help" THEN vars
  ELSE LET v == EvaluateExpression(Written(line.tree), vars)
       IN IF v = NoValue THEN vars
          ELSE LET known == [vars EXCEPT !["ans"] = v]
               IN IF line.kind = "set" THEN SetVar(known, line.name, v) ELSE known

CalcVars == [n \in CalcConst \cup {"ans"} |-> IF n = "ans" THEN Num(0) ELSE Var(n)]

\* An expression on the command line, or the prompt.
CalcStarts ==
  {[pc |-> "arg", tree |-> t, value |-> NoValue, vars |-> CalcVars] : t \in CalcTrees}
    \cup {[pc |-> "prompt", vars |-> CalcVars, hist |-> <<>>, entered |-> <<>>,
           pos |-> 0, buf |-> <<>>, temp |-> <<>>, typed |-> <<>>]}

CalcArg ==
  /\ calc.pc = "arg"
  /\ calc' = [calc EXCEPT !.pc = "done", !.value = EvaluateExpression(Written(calc.tree), calc.vars)]

\* calc_add_history.
AddHistory(hist, line) ==
  IF hist # <<>> /\ Last(hist) = line THEN hist
  ELSE IF Len(hist) < CalcMaxHist THEN Append(hist, line)
  ELSE Append(Tail(hist), line)

\* calc_custom_readline: a line is typed (as a whole) over what is there.
CalcType ==
  /\ calc.pc = "prompt"
  /\ \E line \in CalcLines :
       calc' = [calc EXCEPT !.buf = <<line>>, !.typed = IF calc.pos = Len(calc.hist) THEN <<line>> ELSE @]

CalcUp ==
  /\ calc.pc = "prompt" /\ calc.hist # <<>>
  /\ LET pos == IF calc.pos > 0 THEN calc.pos - 1 ELSE 0
     IN calc' = [calc EXCEPT !.temp = IF calc.pos = Len(calc.hist) THEN calc.buf ELSE @,
                             !.pos = pos, !.buf = <<calc.hist[pos + 1]>>]

CalcDown ==
  /\ calc.pc = "prompt" /\ calc.pos < Len(calc.hist)
  /\ LET pos == calc.pos + 1
     IN calc' = [calc EXCEPT !.pos = pos, !.buf = IF pos = Len(calc.hist) THEN calc.temp ELSE <<calc.hist[pos + 1]>>]

\* A new line is edited: nothing of the one before is kept.
Prompted(c, vars, hist, entered) ==
  [c EXCEPT !.vars = vars, !.hist = hist, !.entered = entered, !.pos = Len(hist), !.buf = <<>>, !.temp = <<>>, !.typed = <<>>]

\* Return; an empty line does nothing.
CalcEnter ==
  /\ calc.pc = "prompt" /\ calc.buf # <<>> /\ Len(calc.entered) < CalcEnters
  /\ LET line == calc.buf[1]
     IN calc' = Prompted(calc, ProcessLine(calc.vars, line), AddHistory(calc.hist, line), Append(calc.entered, line))

\* Ctrl-C gives the line up; Ctrl-D on an empty one, and "exit", leave.
CalcInterrupt == calc.pc = "prompt" /\ calc' = Prompted(calc, calc.vars, calc.hist, calc.entered)

CalcQuit == calc.pc = "prompt" /\ calc' = [pc |-> "left"]

CalcNext == calc.pc # "off" /\ (CalcArg \/ CalcType \/ CalcUp \/ CalcDown \/ CalcEnter \/ CalcInterrupt \/ CalcQuit)

----------------------------------------------------------------------------
\* Every term, written with the groups it needs, evaluates to itself: the two
\* stacks apply precedence, associativity, groups, functions and signs.  A
\* term as deep as the stacks may fail instead.  A sign right behind an
\* operator is written in a group, since the code reads 2 * -3 as 2 * 0 - 3.
Evaluates ==
  calc.pc = "done" =>
    \/ calc.value = Meant(calc.tree, calc.vars)
    \/ calc.value = NoValue /\ Depth(calc.tree) > CalcMaxStack

\* At the prompt: the constants keep their values and the table its limit;
\* the history holds the latest lines that were entered, each once in a row;
\* and the line that was being typed comes back below the latest of them.
Remembers ==
  calc.pc = "prompt" =>
    /\ \A n \in CalcConst : calc.vars[n] = Var(n)
    /\ Cardinality(DOMAIN calc.vars \ {"ans"}) <= CalcMaxVars
    /\ LET once == FoldLeft(LAMBDA acc, l : IF acc # <<>> /\ Last(acc) = l THEN acc ELSE Append(acc, l), <<>>, calc.entered)
       IN calc.hist = SubSeq(once, Max({1, Len(once) - CalcMaxHist + 1}), Len(once))
    /\ calc.pos = Len(calc.hist) => calc.buf = calc.typed

\* The binary card of a number stands for the number.
CardStands == \A n \in 0 .. 64 : FoldLeft(LAMBDA acc, d : 2 * acc + d, 0, BinDigits(n)) = n

CalcAgrees == Evaluates /\ Remembers /\ (calc.pc = "prompt" => CardStands)
=============================================================================
