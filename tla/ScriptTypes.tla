------------------------------ MODULE ScriptTypes ------------------------------
(***************************************************************************)
(* The values and the suggestions of the script language, on its parser.   *)
(* Values are abstracted to their types.                                   *)
(***************************************************************************)
EXTENDS Script

CONSTANT Containing \* Containing[i]: the identifiers that fuzzySuggest finds for i

----------------------------------------------------------------------------
(* The types of values.                                                    *)

Attributes ==
  [id |-> "Number", hash |-> "String", size |-> "Number", width |-> "Number",
   height |-> "Number", duration |-> "Number", urls |-> "List", tags |-> "List",
   numericRating |-> "Number", hasLike |-> "Boolean", hasDislike |-> "Boolean"]

\* dot: the type of a member, if there is one. A file may have no rating.
FileDot(ident, rated) ==
  IF ident = "numericRating" /\ ~rated THEN {"Null"}
  ELSE {Attributes[i] : i \in DOMAIN Attributes \cap {ident}}

StringDot(ident) ==
  CASE ident = "length" -> {"Number"}
    [] ident \in {"padStart", "substring"} -> {"String()"}
    [] ident \in {"startsWith", "endsWith", "contains", "match"} -> {"Boolean()"}
    [] OTHER -> {}

ListDot(ident) ==
  CASE ident = "length"            -> {"Number"}
    [] ident \in {"some", "every"} -> {"Predicate()"}
    [] ident = "contains"          -> {"Boolean()"}
    [] OTHER                       -> {}

Dot(type, ident, rated) ==
  CASE type = "File"   -> FileDot(ident, rated)
    [] type = "String" -> StringDot(ident)
    [] type = "List"   -> ListDot(ident)
    [] type = "Number" /\ ident = "string" -> {"String"}
    [] OTHER           -> {}


DotSuggest(type) ==
  CASE type = "File"   -> DOMAIN Attributes
    [] type = "Number" -> {"string"}
    [] type = "String" -> {"length", "padStart", "startsWith", "endsWith", "contains",
                           "substring", "match"}
    [] type = "List"   -> {"length", "some", "every", "contains"}
    [] OTHER           -> {}

Unary(op, type) ==
  CASE op = "+" -> {type}
    [] op \in {"-", "^"} /\ type \in {"Number", "String"} -> {"Number"}
    [] op = "!" /\ type \in {"Boolean", "Number", "String"}    -> {"Boolean"}
    [] OTHER -> {}

\* The right operand must be of the type of the left one, except that of a
\* logical operator whose left operand decides.
Logical(op) == op \in {"&&", "||"}
Equates(op, type) ==
  \/ op \in {"==", "!="} /\ type \in {"Boolean", "Number", "String", "File"}
  \/ op \in {"<", "<=", ">", ">="} /\ type \in {"Number", "String"}
Calculates(op, type) ==
  \/ op = "+" /\ type \in {"Number", "String"}
  \/ op \in {"-", "|", "^", "*", "/", "%", "<<", ">>", "&"} /\ type = "Number"

Binary(op, a, b) ==
  CASE op = ","                                       -> {b}
    [] Logical(op) /\ a = "Boolean"                   -> {"Boolean"}
    [] op = "subscript" /\ a = "List" /\ b = "Number" -> {"String"}
    [] Equates(op, a) /\ a = b                        -> {"Boolean"}
    [] Calculates(op, a) /\ a = b                     -> {a}
    [] OTHER                                          -> {}

\* A call; the conversions are not called speculatively.
Call(type, real) ==
  CASE type = "String()"                   -> {"String"}
    [] type \in {"Boolean()", "Predicate()"} -> {"Boolean"}
    [] type \in {k \o "Type" : k \in Keyword \cup {"File"}} /\ real ->
         {CHOOSE k \in Keyword \cup {"File"} : type = k \o "Type"}
    [] OTHER                               -> {}

Literal == [number |-> "Number", boolean |-> "Boolean", string |-> "String", null |-> "Null"]

\* The types the value of an expression may have when it can be evaluated:
\* for a file, really, or for the file of FileValue.placeholder. A lambda is
\* called by the members of lists only.
RECURSIVE Types(_, _, _, _)
Types(n, env, rated, real) ==
  LET Of(i) == Types(n.args[i], env, rated, real)
      Each(f(_, _)) == UNION {f(a, b) : a \in Of(1), b \in Of(2)}
  IN  CASE n.op = "ident"   -> IF n.name \in DOMAIN env THEN {env[n.name]}
                              ELSE IF n.name = "File" THEN {"FileType"} ELSE {}
        [] n.op = "keyword" -> {n.name \o "Type"}
        [] n.op \in DOMAIN Literal -> {Literal[n.op]}
        [] n.op = "lambda"  -> {"Function"}
        [] n.op = "placeholder" -> IF real THEN {} ELSE {"Null"}
        [] n.op = "ternary" -> IF "Boolean" \in Of(1) THEN Of(2) \cup Of(3) ELSE {}
        [] n.op = "member"  -> IF n.args[2].op # "ident" THEN {}
                               ELSE UNION {Dot(a, n.args[2].name, rated) : a \in Of(1)}
        [] n.op = "call"    -> Each(LAMBDA a, b : Call(a, real))
        [] n.op = "unary"   -> UNION {Unary(n.name, a) : a \in Of(1)}
        [] Len(n.args) = 2 /\ n.op \notin {"lambda", "member", "call"} ->
             Each(LAMBDA a, b : Binary(n.op, a, b))
        [] OTHER            -> {}

----------------------------------------------------------------------------
(* getSuggestions, with the cursor at the end of the text: it is in the    *)
(* last operand of every node on the way down, whose other operands are    *)
(* evaluated before. Of a ternary only the branch that its condition takes  *)
(* for the file of FileValue.placeholder is looked at.                     *)

\* What an operand is speculatively evaluated to.
Known(n, i, env) == Types(n.args[i], env, TRUE, FALSE)

\* What a condition may be for the file of FileValue.placeholder, which has no
\* like and no dislike; sizes and the members of lists are not looked at.
RECURSIVE Holds(_)
Holds(n) ==
  CASE n.op = "boolean" -> {n.name = "true"}
    [] n.op = "member" /\ n.args[2].name \in {"hasLike", "hasDislike"} -> {FALSE}
    [] n.op = "unary" /\ n.name = "+" -> Holds(n.args[1])
    [] n.op = "unary" /\ n.name = "!" -> {~a : a \in Holds(n.args[1])}
    [] n.op = "&&" -> {a /\ b : a \in Holds(n.args[1]), b \in Holds(n.args[2])}
    [] n.op = "||" -> {a \/ b : a \in Holds(n.args[1]), b \in Holds(n.args[2])}
    [] OTHER -> BOOLEAN

\* The branches of a ternary that may be looked at: the one of the condition.
Branches(n, env) ==
  IF "Boolean" \notin Known(n, 1, env) THEN {}
  ELSE {IF a THEN 2 ELSE 3 : a \in Holds(n.args[1])}

\* The suggestions there may be, {} where there are none.
RECURSIVE Offers(_, _)
Offers(n, env) ==
  LET last == n.args[Len(n.args)]
      matches(of) == IF last.op = "ident" THEN of \cap Containing[last.name] ELSE of
  IN  CASE n.op = "ident"  -> IF n.name \in DOMAIN env \cup {"File"} THEN {}
                              ELSE {DOMAIN env \cap Containing[n.name]}
        [] n.op # "ident" /\ (n.args = <<>> \/ n.op = "lambda") -> {}
        [] n.op = "member" -> {matches(DotSuggest(a)) : a \in Known(n, 1, env)}
        [] n.op = "ternary" ->
             LET cursor == IF last = Placeholder THEN 2 ELSE 3
             IN  UNION {IF i = cursor THEN Offers(n.args[i], env) ELSE {{}} :
                          i \in Branches(n, env)}
        [] Len(n.args) = 2 /\ Known(n, 1, env) = {} -> {}
        [] n.op = "call" /\ last.op = "lambda" ->
             IF "Predicate()" \notin Known(n, 1, env) \/ Len(last.args) < 2 THEN {}
             ELSE Offers(last.args[Len(last.args)],
                         [i \in DOMAIN env \cup {last.args[1].name} |->
                            IF i = last.args[1].name THEN "String" ELSE env[i]])
        [] OTHER -> Offers(last, env)

\* What may be offered for a text, {} for nothing: nothing behind anything but
\* an identifier or a period.
Suggestions(ts, env) ==
  LET n == ParseExpression(ts, "partial")
      offers == IF ts = <<>> \/ n = Error \/ Last(ts) \notin Ident \cup {"."} THEN {}
                ELSE Offers(n, env)
  IN  IF offers = {} THEN {{}} ELSE offers

----------------------------------------------------------------------------
(* In the modals the file is in scope, and its types count.                *)

Globals == [i \in {"file"} |-> "File"]
TypesForFile(n, rated) == Types(n, Globals, rated, TRUE)
SuggestionsForFile(ts) == Suggestions(ts, Globals)
===============================================================================
