------------------------------ MODULE ExprParser ------------------------------
(***************************************************************************)
(* The expression of an Arithmetic/Logic node.  A token is a string; the   *)
(* descent through the ten levels of binary operators evaluates while it   *)
(* parses, which is modelled in two steps, the term that it follows and    *)
(* the value of that term.  A term is <<number>>, <<name>>, <<op, term>>,  *)
(* <<op, left, right>> or <<"?", condition, then, else>>.                  *)
(***************************************************************************)
EXTENDS Integers, Sequences, TLC, SequencesExt, Bitwise

Literals  == "0" :> 0 @@ "1" :> 1 @@ "2" :> 2
Variables == {"a", "b", "c"}
Unary     == {"-", "!", "~"}

SyntaxError == <<"error">>

(* The operators of each level, the loosest first.                         *)
Level ==
  <<{"||"}, {"&&"}, {"|"}, {"^"}, {"&"}, {"==", "!="}, {"<", ">", "<=", ">="},
    {"<<", ">>"}, {"+", "-"}, {"*", "/", "%"}>>

peek(toks, pos) == IF pos \in DOMAIN toks THEN toks[pos] ELSE "END"

(* A result is a term and the position behind it; any error is kept.       *)
At(term, pos) == [term |-> term, pos |-> pos]

Node(op, parts) ==
  IF SyntaxError \in ToSet(parts) THEN SyntaxError ELSE <<op>> \o parts

RECURSIVE parseExpression(_, _), parseBinary(_, _, _), parseRest(_, _, _), parseUnary(_, _)

parseExpression(toks, pos) ==
  LET cond == parseBinary(toks, 1, pos)
  IN  IF peek(toks, cond.pos) # "?" THEN cond
      ELSE LET yes == parseExpression(toks, cond.pos + 1)
               no  == parseExpression(toks, yes.pos + 1)
           IN  At(IF peek(toks, yes.pos) # ":" THEN SyntaxError
                  ELSE Node("?", <<cond.term, yes.term, no.term>>), no.pos)

parseBinary(toks, k, pos) ==
  IF k > Len(Level) THEN parseUnary(toks, pos) ELSE parseRest(toks, k, parseBinary(toks, k + 1, pos))

parseRest(toks, k, left) ==
  LET op == peek(toks, left.pos)
  IN  IF op \notin Level[k] THEN left
      ELSE LET right == parseBinary(toks, k + 1, left.pos + 1)
           IN  parseRest(toks, k, At(Node(op, <<left.term, right.term>>), right.pos))

parsePrimary(toks, pos) ==
  LET tok == peek(toks, pos)
  IN  CASE tok \in DOMAIN Literals \cup Variables -> At(<<tok>>, pos + 1)
        [] tok = "(" -> LET inner == parseExpression(toks, pos + 1)
                        IN  At(IF peek(toks, inner.pos) = ")" THEN inner.term ELSE SyntaxError,
                               inner.pos + 1)
        [] OTHER -> At(SyntaxError, pos + 1)

parseUnary(toks, pos) ==
  IF peek(toks, pos) \in Unary
  THEN LET operand == parseUnary(toks, pos + 1)
       IN  At(Node(peek(toks, pos), <<operand.term>>), operand.pos)
  ELSE parsePrimary(toks, pos)

(* What is left behind the expression is not looked at.                    *)
parse(toks) == parseExpression(toks, 1).term
-----------------------------------------------------------------------------
Truth(b) == IF b THEN 1 ELSE 0

(* A value is <<number>>, or <<>> where there is an error.                 *)
Failed == <<>>

(* C++'s quotient of whole numbers is cut off towards zero.                *)
Magnitude(x)   == IF x < 0 THEN -x ELSE x
Quotient(x, y) == LET q == Magnitude(x) \div Magnitude(y) IN IF (x < 0) = (y < 0) THEN q ELSE -q

Apply(op, x, y) ==
  CASE op = "||" -> Truth(x # 0 \/ y # 0)
    [] op = "&&" -> Truth(x # 0 /\ y # 0)
    [] op = "|"  -> x | y
    [] op = "^"  -> x ^^ y
    [] op = "&"  -> x & y
    [] op = "==" -> Truth(x = y)
    [] op = "!=" -> Truth(x # y)
    [] op = "<"  -> Truth(x < y)
    [] op = ">"  -> Truth(x > y)
    [] op = "<=" -> Truth(x <= y)
    [] op = ">=" -> Truth(x >= y)
    [] op = "<<" -> x * 2 ^ y
    [] op = ">>" -> x \div 2 ^ y
    [] op = "+"  -> x + y
    [] op = "-"  -> x - y
    [] op = "*"  -> x * y
    [] op = "/"  -> Quotient(x, y)
    [] op = "%"  -> x - y * Quotient(x, y)

(* On whole numbers, none of them negative in a bitwise operation or a     *)
(* shift, and a quotient is meant where it is whole.  Both branches of a       *)
(* condition, and both sides of && and ||, are evaluated, and an error in  *)
(* any of them is one of the expression.                                   *)
RECURSIVE evaluate(_, _)
evaluate(term, vars) ==
  LET parts == [i \in 1 .. Len(term) - 1 |-> evaluate(term[i + 1], vars)]
      v(i)  == parts[i][1]
  IN  IF \/ term = SyntaxError \/ Failed \in ToSet(parts)
         \/ Len(term) = 3 /\ term[1] \in {"/", "%"} /\ v(2) = 0 THEN Failed
      ELSE
      CASE Len(term) = 1 -> IF term[1] \in DOMAIN Literals THEN <<Literals[term[1]]>>
                            ELSE IF term[1] \in DOMAIN vars THEN <<vars[term[1]]>> ELSE <<0>>
        [] term[1] = "-" /\ Len(term) = 2 -> <<-v(1)>>
        [] term[1] = "!" -> <<Truth(v(1) = 0)>>
        [] term[1] = "~" -> <<-v(1) - 1>>
        [] Len(term) = 3 -> <<Apply(term[1], v(1), v(2))>>
        [] Len(term) = 4 -> IF v(1) # 0 THEN <<v(2)>> ELSE <<v(3)>>
=============================================================================
