-------------------------------- MODULE Script --------------------------------
(***************************************************************************)
(* The parser of the script language, which reads an expression            *)
(* (web/hydrui-client/src/utils/script/parse.ts). What it does with a text *)
(* is stated with functions of places in it, so that it can be proved      *)
(* about: ExprModals_proofs. The types and suggestions of a parsed         *)
(* expression are in ScriptTypes.                                          *)
(*                                                                         *)
(* A text is a sequence of tokens with spaces between them; the scanner    *)
(* would read "1-1", without spaces, as two numbers. Statements, which     *)
(* only functions in braces contain, are left out, so is the operator &^,  *)
(* which is scanned and never parsed, and the limit of 5000 turns at which *)
(* a loop of the parser gives up.                                          *)
(***************************************************************************)
EXTENDS Integers, Sequences, SequencesExt

CONSTANT Ident \* identifiers

Number == {"0", "1"}
Boolean == {"true", "false"}
String == {"'s'"}
Keyword == {"Boolean", "Number", "String"}
UnaryOp == {"+", "-", "!", "^"}

ASSUME IdentAssumption == Ident \cap (UnaryOp \cup Boolean \cup {"lambda", "(", ")"}) = {}

Node(op, name, args) == [op |-> op, name |-> name, args |-> args]
Error == Node("error", "", <<>>)
Undefined == Node("undefined", "", <<>>)
Placeholder == Node("placeholder", "", <<>>)

----------------------------------------------------------------------------
(* The parser. It is at a place in the text ts, which is behind the last   *)
(* token when there is none left.                                          *)

Parsed(n, at) == [node |-> n, at |-> at]
Token(ts, at) == IF at \in DOMAIN ts THEN ts[at] ELSE ""
Join(op, name, args) == IF Error \in Range(args) THEN Error ELSE Node(op, name, args)

\* The value of a Boolean is Boolean(t), of a text that is not empty: true, for
\* false as well.
Accepted(t) ==
  CASE t \in Ident   -> Node("ident", t, <<>>)
    [] t \in Keyword -> Node("keyword", t, <<>>)
    [] t \in Number  -> Node("number", t, <<>>)
    [] t \in Boolean -> Node("boolean", "true", <<>>)
    [] t \in String  -> Node("string", t, <<>>)
    [] t = "null"    -> Node("null", t, <<>>)
    [] OTHER         -> Undefined

\* A token that must follow; a text that may be partial may lack it.
Expect(t, ts, p, mode) ==
  IF Token(ts, p.at) = t THEN Parsed(p.node, p.at + 1)
  ELSE IF mode = "partial" THEN p ELSE Parsed(Error, p.at)

\* Levels that bind one too tightly.
LevelSwapped(t) ==
  CASE t \in {"*", "/", "%", "<<", ">>", "&"}        -> 7
    [] t \in {"+", "-", "|", "^"}                    -> 6
    [] t \in {"==", "!=", "<", "<=", ">", ">=", "&&"} -> 5
    [] t = "||"                                      -> 3
    [] t = ","                                       -> 2
    [] OTHER                                         -> 0

\* A binary operator is accepted at a depth below its level; its right
\* operand is parsed at its level.
Level(t) ==
  CASE t \in {"*", "/", "%", "<<", ">>", "&"}        -> 7
    [] t \in {"+", "-", "|", "^"}                    -> 6
    [] t \in {"==", "!=", "<", "<=", ">", ">="}      -> 5
    [] t = "&&"                                      -> 4
    [] t = "||"                                      -> 3
    [] t = ","                                       -> 2
    [] OTHER                                         -> 0

\* What follows the node n: the operators in the order of the loop, those that
\* bind tightly enough for this depth. What parseExprPart returns for a place
\* and a depth is parse[at][depth].
Follows(parse, ts, n, at, depth, mode) ==
  LET t == Token(ts, at)
      Operand(d) == parse[at + 1][d]
      Binary(op, b) == Parsed(Join(op, "", <<n, b.node>>), b.at)
      colon == Expect(":", ts, Operand(3), mode)
      else == parse[colon.at][3]
  IN  IF t = "." THEN Binary("member", Operand(8))
      ELSE IF t = "(" /\ Token(ts, at + 1) = ")"
      THEN Parsed(Join("call", "", <<n, Accepted("null")>>), at + 2)
      ELSE IF t = "(" THEN Binary("call", Expect(")", ts, Operand(1), mode))
      ELSE IF t = "[" THEN Binary("subscript", Expect("]", ts, Operand(1), mode))
      ELSE IF depth < Level(t) THEN Binary(t, Operand(Level(t)))
      ELSE IF depth < 3 /\ t = "?"
      THEN Parsed(Join("ternary", "", <<n, colon.node, else.node>>), else.at)
      ELSE Parsed(n, at)

\* Without a node there may be a sign, and no binary operator.
Starts(parse, ts, at, depth) ==
  LET t == Token(ts, at)
      operand == parse[at + 1][7]
  IN  IF t \in UnaryOp THEN Parsed(Join("unary", t, <<operand.node>>), operand.at)
      ELSE IF depth < Level(t) \/ (depth < 3 /\ t = "?") THEN Parsed(Error, at)
      ELSE Parsed(Undefined, at)

\* A turn of the loop of parseExprPart, from the place and the node of p.
Turn(parse, ts, p, depth, mode) ==
  IF p.node = Error \/ p.at > Len(ts) \/ depth >= 8 THEN p
  ELSE IF p.node = Undefined THEN Starts(parse, ts, p.at, depth)
  ELSE Follows(parse, ts, p.node, p.at, depth, mode)

\* parseLambdaExpressionTail, behind "lambda". Its parameters, of which the
\* text has one more after m of them, end where no identifier with a comma
\* follows; they are the first arguments of the node. Nothing follows the body.
More(ts, at, m) == Token(ts, at + 2 * m) \in Ident /\ Token(ts, at + 2 * m + 1) = ","
LastParam(ts, at) ==
  CHOOSE m \in 0 .. Len(ts) : ~ More(ts, at, m) /\ \A l \in 0 .. m - 1 : More(ts, at, l)

LambdaOf(parse, ts, at, m, from) ==
  Parsed(Join("lambda", "", Append([l \in 1 .. m |-> Accepted(ts[at + 2 * l - 2])],
                                   parse[from][0].node)),
         parse[from][0].at)

ParseLambda(parse, ts, at, mode) ==
  LET last == LastParam(ts, at)
      named == Token(ts, at + 2 * last) \in Ident
  IN  IF named /\ Token(ts, at + 2 * last + 1) = ":"
      THEN LambdaOf(parse, ts, at, last + 1, at + 2 * last + 2)
      ELSE IF mode = "whole" THEN Parsed(Error, at)
      ELSE IF named THEN LambdaOf(parse, ts, at, last + 1, at + 2 * last + 1)
      ELSE LambdaOf(parse, ts, at, last, at + 2 * last)

First(parse, ts, at, mode) ==
  LET t == Token(ts, at)
  IN  IF t = "(" THEN Expect(")", ts, parse[at + 1][1], mode)
      ELSE Parsed(Accepted(t), IF Accepted(t) = Undefined THEN at ELSE at + 1)

\* The loop, which turns less often than there are tokens.
Turns(parse, ts, at, depth, mode) ==
  LET after[i \in 0 .. Len(ts)] ==
        IF i = 0 THEN First(parse, ts, at, mode)
        ELSE Turn(parse, ts, after[i - 1], depth, mode)
  IN  after

\* A turn that takes a sign looks only for operators behind the operand: the
\* loop ends at another token, as where a partial text has no operand.
EndsAtSign(parse, ts, at, depth) ==
  /\ Token(ts, at) \in UnaryOp /\ depth < 8
  /\ Token(ts, Starts(parse, ts, at, depth).at) \in {".", "(", "["}

ParseExprPart(parse, ts, at, depth, mode) ==
  LET p == IF EndsAtSign(parse, ts, at, depth) THEN Starts(parse, ts, at, depth)
           ELSE Turns(parse, ts, at, depth, mode)[Len(ts)]
  IN  IF Token(ts, at) = "lambda" THEN ParseLambda(parse, ts, at + 1, mode)
      ELSE IF p.node # Undefined THEN p
      ELSE Parsed(IF mode = "partial" THEN Placeholder ELSE Error, p.at)

\* The calls of parseExprPart that nest k deep. A call in a call is for a
\* later place, so that none nests deeper than there are tokens.
Calls(ts, mode) ==
  LET calls[k \in 0 .. Len(ts) + 1] ==
        [at \in 1 .. Len(ts) + 1 |-> [depth \in 0 .. 8 |->
           IF k = 0 THEN Parsed(Error, at)
           ELSE ParseExprPart(calls[k - 1], ts, at, depth, mode)]]
  IN  calls

ParseExpression(ts, mode) ==
  LET p == Calls(ts, mode)[Len(ts) + 1][1][0]
  IN  IF p.at > Len(ts) THEN p.node ELSE Error
===============================================================================
