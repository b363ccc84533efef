----------------------------- MODULE MCExprModals -----------------------------
(* An instance of ExprModals for TLC: which expressions a user may mean.   *)
EXTENDS ExprModals, ScriptTypes

CONSTANTS f1, f2

Idents == {"file", "fi", "File", "size", "tags", "ta", "urls", "length", "le", "some", "so",
           "contains", "substring", "hasLike", "hasDislike", "numericRating", "string", "url"}

\* fuzzySuggest, for the identifiers of the instance.
MCContaining ==
  [i \in Idents |->
     CASE i = "fi" -> {"file"}
       [] i = "ta" -> {"tags", "startsWith", "contains", "padStart"}
       [] i = "le" -> {"length", "file"}
       [] i = "so" -> {"some"}
       [] OTHER    -> {i}]
MCShort == [file |-> "fi", tags |-> "ta", length |-> "le", some |-> "so"]

Id(i) == Node("ident", i, <<>>)
N(t) == Node("number", t, <<>>)
Str == Node("string", "'s'", <<>>)
Null == Node("null", "null", <<>>)
B(op, a, b) == Node(op, "", <<a, b>>)
T(a, b, c) == Node("ternary", "", <<a, b, c>>)
U(op, a) == Node("unary", op, <<a>>)
Member(a, i) == B("member", a, Id(i))
Of(i) == Member(Id("file"), i)
Lambda(i, b) == Node("lambda", "", <<Id(i), b>>)
True == Node("boolean", "true", <<>>)
False == Node("boolean", "false", <<>>)
x == N("0")
y == N("1")
z == Id("file")

\* An operator of every level.
Operators == {"*", "+", "<", "&&", "||", ","}

\* Two operators, in either order and associated either way.
Pairs ==
  UNION {{B(p, B(q, x, y), z), B(p, x, B(q, y, z))} : p, q \in Operators}
\* Signs, ternaries, calls and subscripts, and an operator around or below.
Mixed ==
  UNION {{U("-", B(p, x, y)), B(p, U("-", x), y), B(p, x, U("-", y)), T(B(p, x, y), y, z),
          T(x, B(p, y, z), z), T(x, y, B(p, z, z)), B(p, T(x, y, z), z), B(p, z, T(x, y, z)),
          B("call", z, B(p, x, y)), B("subscript", z, B(p, x, y)),
          B("call", B(p, x, z), y), Member(B(p, x, y), "size"),
          Lambda("url", B(p, x, y)), B(p, Lambda("url", x), y)} : p \in {"*", "&&", ","}}
  \cup {U("-", U("!", x)), U("-", Of("size")), Member(U("-", z), "size"),
        T(T(x, y, z), x, y), T(x, T(x, y, z), y), T(x, y, T(z, x, y)),
        Lambda("url", T(x, y, z)), T(Lambda("url", x), y, z),
        Node("lambda", "", <<Id("url"), Id("size"), B(",", x, y)>>)}

\* Expressions that have a value, and the hints of the modals.
Sound ==
  {B("<", Member(Of("tags"), "length"), y),
   B("call", Member(Of("urls"), "some"),
             Lambda("url", B("<", Member(Id("url"), "length"), y))),
   U("-", Of("numericRating")),
   T(B("call", Member(Of("tags"), "contains"), Str), x, y),
   T(Of("hasLike"), Of("size"), Member(Of("tags"), "length")),
   T(U("!", Of("hasLike")), Of("size"), Member(Of("tags"), "length")),
   T(True, Of("size"), x), T(U("!", False), x, Of("size")), B("==", False, Of("hasLike")),
   B("||", B("&&", True, Of("hasDislike")), U("!", True)),
   B("==", Member(B("subscript", Of("tags"), x), "length"),
           Member(Member(Of("size"), "string"), "length")),
   B("&&", Of("hasLike"), B("||", B("<", Of("size"), y), Of("hasLike"))),
   B("call", Member(Member(Of("size"), "string"), "substring"), B(",", x, y)),
   B("call", Node("keyword", "String", <<>>), Of("size")),
   B("<", Member(B("call", Id("File"), x), "size"), Of("size")),
   Member(B("call", Id("File"), Of("size")), "size")}

MCTrees == Pairs \cup Mixed \cup Sound

\* Their operands, and how deep they nest.
RECURSIVE Parts(_), Depth(_)
Parts(n) == {n} \cup UNION {Parts(n.args[i]) : i \in DOMAIN n.args}
Depth(n) == IF n.args = <<>> THEN 0 ELSE 1 + Max({Depth(n.args[i]) : i \in DOMAIN n.args})

MCExpr == UNION {Parts(n) : n \in MCTrees}
MCNesting == [n \in MCExpr |-> Depth(n)]
MCWritten[n \in MCExpr] == [p \in 0 .. 10 |-> Writing(MCWritten, n, p)]
MCBookmarks == {B("<", Member(Of("tags"), "length"), y)}
MCStartLists ==
  [p \in Page |-> CASE p \in {"search", "new"} -> <<>> [] p = "virtual" -> <<f2, f1>> [] OTHER -> <<f1, f2>>]
===============================================================================
