--------------------------- MODULE ExprModals_proofs ---------------------------
(***************************************************************************)
(* Proofs about the expression modals. The first is that the parser reads  *)
(* what is written: an expression of any size, written with the operators  *)
(* by their precedence and as few parentheses as it allows, is parsed as   *)
(* itself. It goes by induction over how deep expressions nest: a call of  *)
(* parseExprPart reads an expression wherever it is written, at a depth    *)
(* that the place allows (Reads), if such calls read its operands. For an  *)
(* operator that is so because its level in the parser is the depth at     *)
(* which its operands end (LevelIs), so that the left operand does not     *)
(* take the operator and the right one does not leave any. The second is   *)
(* what a filter takes from a page.                                        *)
(***************************************************************************)
EXTENDS ExprModals, Induction, SequenceTheorems, FiniteSetTheorems, FunctionTheorems

-----------------------------------------------------------------------------
(* The functions of the parser, and its loop.                              *)

(* A call of parseExprPart that nests k deep calls those that nest less    *)
(* deep: Calls, a function that is chosen by what it does, does it.        *)
LEMMA CallsAre ==
  ASSUME NEW ts, Len(ts) \in Nat, NEW mode, NEW k \in 1 .. Len(ts) + 1,
         NEW i \in 1 .. Len(ts), NEW d \in 0 .. 8
  PROVE  Calls(ts, mode)[k][i][d] = ParseExprPart(Calls(ts, mode)[k - 1], ts, i, d, mode)
<1> DEFINE N == Len(ts) + 1
           Made(g, m) == [at \in 1 .. N |-> [depth \in 0 .. 8 |->
              IF m = 0 THEN Parsed(Error, at)
              ELSE ParseExprPart(g[m - 1], ts, at, depth, mode)]]
           Does(g, m) == g = [l \in 0 .. m |-> Made(g, l)]
           Good == {m \in 0 .. N : \E g : Does(g, m)}
<1>1. 0 \in Good
  <2> DEFINE base == [at \in 1 .. N |-> [depth \in 0 .. 8 |-> Parsed(Error, at)]]
             g == [l \in 0 .. 0 |-> base]
  <2>1. \A l \in 0 .. 0 : Made(g, l) = base
    OBVIOUS
  <2>2. Does(g, 0)
    <3> HIDE DEF Made, base
    <3> QED
      BY <2>1
  <2> HIDE DEF Does
  <2> QED
    BY <2>2
<1>2. ASSUME NEW m \in 0 .. N - 1, m \in Good
      PROVE  m + 1 \in Good
  <2>1. PICK g : Does(g, m)
    BY <1>2
  <2> DEFINE h == [l \in 0 .. m + 1 |-> IF l = m + 1 THEN Made(g, l) ELSE g[l]]
  <2>2. \A l \in 0 .. m + 1 : l # 0 => h[l - 1] = g[l - 1] /\ l - 1 \in 0 .. m
    OBVIOUS
  <2>3. \A l \in 0 .. m + 1 : Made(h, l) = Made(g, l)
    <3> HIDE DEF h
    <3> QED
      BY <2>2
  <2>4. \A l \in 0 .. m + 1 : h[l] = Made(h, l)
    <3> HIDE DEF Made
    <3>1. \A l \in 0 .. m : g[l] = Made(g, l)
      BY <2>1
    <3> QED
      BY <2>3, <3>1
  <2>5. Does(h, m + 1)
    <3> HIDE DEF Made
    <3> QED
      BY <2>4
  <2> HIDE DEF Does, h
  <2> QED
    BY <2>5
<1>3. N \in Good
  <2>1. N \in Nat
    OBVIOUS
  <2> HIDE DEF Good, N
  <2>2. 0 .. N \subseteq Good
    BY <1>1, <1>2, <2>1, UpTo, Zenon
  <2> QED
    BY <2>1, <2>2
<1>4. Calls(ts, mode) = CHOOSE g : Does(g, N)
  BY Zenon DEF Calls
<1>5. Does(Calls(ts, mode), N)
  <2> HIDE DEF Does
  <2> QED
    BY <1>3, <1>4
<1>6. Calls(ts, mode)[k] = Made(Calls(ts, mode), k)
  <2> HIDE DEF Made
  <2> QED
    BY <1>5
<1> QED
  BY <1>6

(* A is the loop of parseExprPart, turn by turn.                           *)
Loops(A, parse, ts, at, depth, mode) ==
  /\ A[0] = First(parse, ts, at, mode)
  /\ \A k \in 0 .. Len(ts) : k # 0 => A[k] = Turn(parse, ts, A[k - 1], depth, mode)

(* So does Turns.                                                          *)
LEMMA TurnsAre ==
  ASSUME NEW parse, NEW ts, Len(ts) \in Nat, NEW at, NEW depth, NEW mode
  PROVE  Loops(Turns(parse, ts, at, depth, mode), parse, ts, at, depth, mode)
<1> DEFINE N == Len(ts)
           Made(g, m) == IF m = 0 THEN First(parse, ts, at, mode)
                         ELSE Turn(parse, ts, g[m - 1], depth, mode)
           Does(g, m) == g = [l \in 0 .. m |-> Made(g, l)]
           Good == {m \in 0 .. N : \E g : Does(g, m)}
<1>1. 0 \in Good
  <2> DEFINE g == [l \in 0 .. 0 |-> First(parse, ts, at, mode)]
  <2>1. \A l \in 0 .. 0 : Made(g, l) = First(parse, ts, at, mode)
    OBVIOUS
  <2>2. Does(g, 0)
    <3> HIDE DEF Made
    <3> QED
      BY <2>1
  <2> HIDE DEF Does
  <2> QED
    BY <2>2
<1>2. ASSUME NEW m \in 0 .. N - 1, m \in Good
      PROVE  m + 1 \in Good
  <2>1. PICK g : Does(g, m)
    BY <1>2
  <2> DEFINE h == [l \in 0 .. m + 1 |-> IF l = m + 1 THEN Made(g, l) ELSE g[l]]
  <2>2. \A l \in 0 .. m + 1 : l # 0 => h[l - 1] = g[l - 1] /\ l - 1 \in 0 .. m
    OBVIOUS
  <2>3. \A l \in 0 .. m + 1 : Made(h, l) = Made(g, l)
    <3> HIDE DEF h
    <3> QED
      BY <2>2
  <2>4. \A l \in 0 .. m + 1 : h[l] = Made(h, l)
    <3> HIDE DEF Made
    <3>1. \A l \in 0 .. m : g[l] = Made(g, l)
      BY <2>1
    <3> QED
      BY <2>3, <3>1
  <2>5. Does(h, m + 1)
    <3> HIDE DEF Made
    <3> QED
      BY <2>4
  <2> HIDE DEF Does, h
  <2> QED
    BY <2>5
<1>3. N \in Good
  <2> HIDE DEF Good
  <2>1. 0 .. N \subseteq Good
    BY <1>1, <1>2, UpTo
  <2> QED
    BY <2>1
<1>4. Turns(parse, ts, at, depth, mode) = CHOOSE g : Does(g, N)
  BY Zenon DEF Turns
<1>5. Does(Turns(parse, ts, at, depth, mode), N)
  <2> HIDE DEF Does
  <2> QED
    BY <1>3, <1>4
<1> QED
  <2> HIDE DEF Made
  <2>1. \A k \in 0 .. N : Turns(parse, ts, at, depth, mode)[k]
                           = Made(Turns(parse, ts, at, depth, mode), k)
    BY <1>5
  <2> QED
    BY <2>1 DEF Made, Loops

(* At a place, the loop has come to its end: nothing follows that binds    *)
(* tightly enough for the depth.                                           *)
Stops(ts, at, d) ==
  \/ at > Len(ts)
  \/ d >= 8
  \/ ts[at] \notin {".", "(", "["} /\ ~ (d < Level(ts[at])) /\ ~ (d < 3 /\ ts[at] = "?")

(* Some turn of the loop that started at i has the node n and is at j; a   *)
(* turn goes on by a token at least.                                       *)
Reaches(parse, ts, i, d, n, j) ==
  /\ ~ EndsAtSign(parse, ts, i, d)
  /\ \E m \in 0 .. j - i :
       m <= Len(ts) /\ Turns(parse, ts, i, d, "whole")[m] = Parsed(n, j)

(* The call for the place i returns n, and ends at j.                      *)
Gives(parse, i, d, n, j) == parse[i][d] = Parsed(n, j)

(* A turn that has a and is at j has n and is at l next.                   *)
Goes(parse, ts, a, j, d, n, l) == Turn(parse, ts, Parsed(a, j), d, "whole") = Parsed(n, l)

(* At the end of the loop a turn changes nothing.                          *)
LEMMA StopsThere ==
  ASSUME NEW parse, NEW ts, Len(ts) \in Nat, DOMAIN ts = 1 .. Len(ts),
         NEW n, n # Undefined, NEW j \in Nat \ {0}, NEW d \in 0 .. 8, Stops(ts, j, d)
  PROVE  Turn(parse, ts, Parsed(n, j), d, "whole") = Parsed(n, j)
<1>1. Parsed(n, j).node = n /\ Parsed(n, j).at = j
  BY DEF Parsed
<1>2. CASE n = Error \/ j > Len(ts) \/ d >= 8
  BY <1>1, <1>2 DEF Turn
<1>3. CASE ~ (n = Error \/ j > Len(ts) \/ d >= 8)
  <2>0. j \in 1 .. Len(ts)
    BY <1>3
  <2>1. Token(ts, j) = ts[j]
    BY <2>0 DEF Token
  <2>2. /\ Token(ts, j) \notin {".", "(", "["} /\ ~ (d < Level(Token(ts, j)))
        /\ ~ (d < 3 /\ Token(ts, j) = "?")
    BY <1>3, <2>1 DEF Stops
  <2> QED
    BY <1>1, <1>3, <2>2 DEF Turn, Follows
<1> QED
  BY <1>2, <1>3

(* The loop goes on by a turn.                                             *)
LEMMA ReachesNext ==
  ASSUME NEW parse, NEW ts, Len(ts) \in Nat, NEW i \in Nat \ {0}, NEW d \in 0 .. 8,
         NEW n, NEW j \in Nat, Reaches(parse, ts, i, d, n, j), j <= Len(ts),
         NEW o, NEW l \in Nat, l > j, Goes(parse, ts, n, j, d, o, l)
  PROVE  Reaches(parse, ts, i, d, o, l)
<1>1. PICK m \in 0 .. j - i :
        m <= Len(ts) /\ Turns(parse, ts, i, d, "whole")[m] = Parsed(n, j)
  BY DEF Reaches
<1>2. PICK k \in 0 .. Len(ts) : k = m + 1
  <2>1. m + 1 <= j /\ m + 1 \in Nat
    BY <1>1
  <2> QED
    BY <2>1
<1>3. k # 0 /\ k - 1 = m /\ k \in 0 .. l - i
  BY <1>2
<1>4. PICK A : A = Turns(parse, ts, i, d, "whole")
  OBVIOUS
<1>5. Loops(A, parse, ts, i, d, "whole")
  BY <1>4, TurnsAre, Zenon
<1>6. A[k] = Parsed(o, l)
  BY <1>1, <1>3, <1>4, <1>5 DEF Loops, Goes
<1>7. ~ EndsAtSign(parse, ts, i, d)
  BY Zenon DEF Reaches
<1> QED
  BY <1>3, <1>4, <1>6, <1>7 DEF Reaches

(* The loop starts with what the first token gives.                        *)
LEMMA ReachesFirst ==
  ASSUME NEW parse, NEW ts, Len(ts) \in Nat, NEW i \in Nat \ {0}, NEW d \in 0 .. 8,
         NEW n, NEW j \in Nat, j >= i, First(parse, ts, i, "whole") = Parsed(n, j),
         ~ EndsAtSign(parse, ts, i, d)
  PROVE  Reaches(parse, ts, i, d, n, j)
<1>1. 0 \in 0 .. Len(ts) /\ 0 \in 0 .. j - i
  OBVIOUS
<1>2. Turns(parse, ts, i, d, "whole")[0] = Parsed(n, j)
  <2>1. Loops(Turns(parse, ts, i, d, "whole"), parse, ts, i, d, "whole")
    BY TurnsAre, Zenon
  <2> QED
    BY <2>1, Zenon DEF Loops
<1> QED
  BY <1>1, <1>2 DEF Reaches

-----------------------------------------------------------------------------
(* Texts, and where their parts are.                                       *)

(* The tokens that expressions are written with.                           *)
Word ==
  Named \cup UnaryOp \cup BinaryOp \cup {"lambda", "(", ")", "[", "]", ".", "?", ":"}

(* Which they are, and that none of them with a value closes a             *)
(* parenthesis.                                                            *)
LEMMA Words ==
  /\ {"lambda", "(", ")", "[", "]", ".", "?", ":"} \subseteq Word
  /\ BinaryOp \subseteq Word /\ UnaryOp \subseteq Word /\ Named \subseteq Word
  /\ \A t \in UnaryOp \cup Named : t \notin {")", "lambda"}
BY IdentAssumption DEF Word, Named, UnaryOp, Keyword, Number, Boolean, String

(* Facts about texts that the provers need at hand.                        *)
LEMMA Text ==
  ASSUME NEW ts \in Seq(Word)
  PROVE  Len(ts) \in Nat /\ DOMAIN ts = 1 .. Len(ts)
OBVIOUS

(* Texts that begin neither with a parenthesis that closes nor with        *)
(* lambda.                                                                 *)
Opens(w) == w \in Seq(Word) /\ Len(w) > 0 /\ w[1] \notin {")", "lambda"}

(* What follows does not change how a text begins,                         *)
LEMMA OpensOn ==
  ASSUME NEW v, Opens(v), NEW w \in Seq(Word)
  PROVE  Opens(v \o w)
<1>1. v \in Seq(Word) /\ Len(v) > 0 /\ v[1] \notin {")", "lambda"}
  BY DEF Opens
<1>2. v \o w \in Seq(Word) /\ Len(v \o w) > 0 /\ (v \o w)[1] = v[1]
  BY <1>1
<1> QED
  BY <1>1, <1>2 DEF Opens

(* nor do several texts.                                                   *)
LEMMA OpensLong ==
  ASSUME NEW u, Opens(u), NEW v \in Seq(Word), NEW w \in Seq(Word)
  PROVE  /\ Opens(u \o v \o w)
         /\ \A x \in Seq(Word) : Opens(u \o v \o w \o x)
         /\ \A x \in Seq(Word), y \in Seq(Word) : Opens(u \o v \o w \o x \o y)
<1>1. u \in Seq(Word)
  BY DEF Opens
<1>2. Opens(u \o v \o w)
  BY OpensOn
<1>3. \A x \in Seq(Word) : Opens(u \o v \o w \o x)
  BY <1>2, OpensOn
<1>4. \A x \in Seq(Word), y \in Seq(Word) : Opens(u \o v \o w \o x \o y)
  BY <1>3, OpensOn
<1> QED
  BY <1>2, <1>3, <1>4

(* How a text of one token begins.                                         *)
LEMMA OneWord ==
  ASSUME NEW t \in Word
  PROVE  <<t>> \in Seq(Word) /\ (t \notin {")", "lambda"} => Opens(<<t>>))
BY DEF Opens

(* A token as a text.                                                      *)
LEMMA OneWordText ==
  ASSUME NEW t \in Word
  PROVE  \E x \in Seq(Word) : x = <<t>> /\ Len(x) = 1 /\ x[1] = t
<1>1. PICK x \in Seq(Word) : x = <<t>>
  BY OneWord, Zenon
<1>2. Len(x) = 1 /\ x[1] = t
  BY <1>1
<1> QED
  BY <1>1, <1>2, Zenon

(* Texts one after the other.                                              *)
LEMMA Joined ==
  ASSUME NEW u \in Seq(Word), NEW v \in Seq(Word)
  PROVE  u \o v \in Seq(Word) /\ Len(u \o v) = Len(u) + Len(v)
OBVIOUS

(* The text ts has the piece w from i on.                                  *)
Has(ts, i, w) == \A l \in 1 .. Len(w) : i + l - 1 <= Len(ts) /\ ts[i + l - 1] = w[l]

(* A piece of two parts has both, the second behind the first.             *)
LEMMA HasBoth ==
  ASSUME NEW ts, NEW i \in Nat \ {0},
         NEW v \in Seq(Word), NEW w \in Seq(Word), Has(ts, i, v \o w)
  PROVE  /\ Has(ts, i, v) /\ Has(ts, i + Len(v), w)
         /\ v \o w \in Seq(Word) /\ Len(v \o w) = Len(v) + Len(w)
<1>1. v \o w \in Seq(Word) /\ Len(v \o w) = Len(v) + Len(w)
  OBVIOUS
<1>2. ASSUME NEW l \in 1 .. Len(v)
      PROVE  i + l - 1 <= Len(ts) /\ ts[i + l - 1] = v[l]
  <2>1. l \in 1 .. Len(v \o w) /\ (v \o w)[l] = v[l]
    BY <1>1
  <2> QED
    BY <2>1 DEF Has
<1>3. ASSUME NEW l \in 1 .. Len(w)
      PROVE  i + Len(v) + l - 1 <= Len(ts) /\ ts[i + Len(v) + l - 1] = w[l]
  <2>1. PICK k \in 1 .. Len(v \o w) : k = Len(v) + l
    BY <1>1
  <2>2. (v \o w)[k] = w[l]
    BY <2>1
  <2>3. i + k - 1 <= Len(ts) /\ ts[i + k - 1] = (v \o w)[k]
    BY DEF Has
  <2>4. i + k - 1 = i + Len(v) + l - 1
    BY <2>1
  <2> QED
    BY <2>2, <2>3, <2>4
<1> QED
  BY <1>1, <1>2, <1>3 DEF Has

(* A piece of one token.                                                   *)
LEMMA HasOne ==
  ASSUME NEW ts, NEW i \in Nat \ {0}, NEW w, Len(w) = 1, Has(ts, i, w)
  PROVE  i <= Len(ts) /\ ts[i] = w[1]
<1>1. 1 \in 1 .. Len(w) /\ i + 1 - 1 = i
  OBVIOUS
<1> QED
  BY <1>1 DEF Has

(* A piece has its first token at its place.                               *)
LEMMA HasFirst ==
  ASSUME NEW ts, NEW i \in Nat \ {0}, NEW w, Len(w) \in Nat \ {0}, Has(ts, i, w)
  PROVE  i <= Len(ts) /\ ts[i] = w[1]
<1>1. 1 \in 1 .. Len(w) /\ i + 1 - 1 = i
  OBVIOUS
<1> QED
  BY <1>1 DEF Has

(* A piece with a token between two parts.                                 *)
Three(ts, i, u, t, v) ==
  /\ Has(ts, i, u) /\ i + Len(u) <= Len(ts) /\ ts[i + Len(u)] = t[1]
  /\ Has(ts, i + Len(u) + 1, v)
  /\ u \o t \o v \in Seq(Word) /\ Len(u \o t \o v) = Len(u) + 1 + Len(v)

(* It has the three.                                                       *)
LEMMA HasThree ==
  ASSUME NEW ts, NEW i \in Nat \ {0},
         NEW u \in Seq(Word), NEW t \in Seq(Word), Len(t) = 1, NEW v \in Seq(Word),
         Has(ts, i, u \o t \o v)
  PROVE  Three(ts, i, u, t, v)
<1>1. u \o t \in Seq(Word) /\ Len(u \o t) = Len(u) + Len(t)
  BY Joined, Zenon
<1>2. u \o t \o v \in Seq(Word) /\ Len(u \o t \o v) = Len(u \o t) + Len(v)
  BY <1>1, Joined, Zenon
<1>3. Has(ts, i, u \o t) /\ Has(ts, i + Len(u \o t), v)
  BY <1>1, HasBoth, Zenon
<1>4. Has(ts, i, u) /\ Has(ts, i + Len(u), t)
  BY <1>3, HasBoth, Zenon
<1>5. PICK j \in Nat \ {0} : j = i + Len(u)
  OBVIOUS
<1>6. j <= Len(ts) /\ ts[j] = t[1]
  BY <1>4, <1>5, HasOne
<1>7. i + Len(u \o t) = i + Len(u) + 1
  BY <1>1
<1>8. Len(u \o t \o v) = Len(u) + 1 + Len(v)
  BY <1>1, <1>2
<1> QED
  BY <1>2, <1>3, <1>4, <1>5, <1>6, <1>7, <1>8, Zenon DEF Three

(* Where they are: the token x at j, the second part from o to before l.   *)
Parts(ts, i, u, x, v, j, o, l) ==
  /\ j \in 1 .. Len(ts) /\ o \in 1 .. Len(ts) /\ l \in Nat
  /\ j = i + Len(u) /\ o = j + 1 /\ l = o + Len(v) /\ i < j /\ j < l /\ l = i + Len(u \o x \o v)
  /\ ts[j] = x[1] /\ Has(ts, i, u) /\ Has(ts, o, v)

(* The text has such a piece.                                              *)
Joins(ts, i, u, x, v) == Has(ts, i, u \o x \o v)

(* There are such places.                                                  *)
LEMMA Between ==
  ASSUME NEW ts \in Seq(Word), NEW i \in 1 .. Len(ts), NEW u \in Seq(Word),
         NEW x \in Seq(Word), Len(x) = 1, NEW v \in Seq(Word),
         Len(u) \in Nat \ {0}, Len(v) \in Nat \ {0}, Joins(ts, i, u, x, v)
  PROVE  \E j, o, l : Parts(ts, i, u, x, v, j, o, l)
<1>1. i \in Nat \ {0}
  OBVIOUS
<1>2. Three(ts, i, u, x, v)
  BY <1>1, HasThree, Zenon DEF Joins
<1>3. PICK y : y = Len(u \o x \o v)
  OBVIOUS
<1>4. y = Len(u) + 1 + Len(v)
  BY <1>2, <1>3, Zenon DEF Three
<1>5. i + Len(u) <= Len(ts)
  BY <1>2, Zenon DEF Three
<1>6. PICK j, o, l : j = i + Len(u) /\ o = i + Len(u) + 1 /\ l = i + Len(u) + 1 + Len(v)
  OBVIOUS
<1>7. j \in 1 .. Len(ts) /\ o \in Nat \ {0} /\ l \in Nat
  BY <1>5, <1>6
<1>8. o = j + 1 /\ l = o + Len(v) /\ i < j /\ j < l /\ l = i + y
  BY <1>4, <1>6
<1>9. ts[j] = x[1] /\ Has(ts, i, u) /\ Has(ts, o, v)
  BY <1>2, <1>6, Zenon DEF Three
<1>10. o <= Len(ts)
  BY <1>7, <1>9, HasFirst, Zenon
<1>11. o \in 1 .. Len(ts)
  BY <1>7, <1>10
<1>12. Parts(ts, i, u, x, v, j, o, l)
  BY <1>3, <1>6, <1>7, <1>8, <1>9, <1>11, Zenon DEF Parts
<1> QED
  BY <1>12, Zenon

(* A piece with another token z behind, as in a call.                      *)
Encloses(ts, i, u, x, v, z) == Has(ts, i, u \o x \o v \o z)

(* Where that one is: at l.                                                *)
Inside(ts, i, u, x, v, z, j, o, l) ==
  /\ Parts(ts, i, u, x, v, j, o, l) /\ l \in 1 .. Len(ts) /\ ts[l] = z[1]
  /\ l + 1 = i + Len(u \o x \o v \o z)

(* There are such places.                                                  *)
LEMMA Enclosed ==
  ASSUME NEW ts \in Seq(Word), NEW i \in 1 .. Len(ts), NEW u \in Seq(Word),
         NEW x \in Seq(Word), Len(x) = 1, NEW v \in Seq(Word), NEW z \in Seq(Word), Len(z) = 1,
         Len(u) \in Nat \ {0}, Len(v) \in Nat \ {0}, Encloses(ts, i, u, x, v, z)
  PROVE  \E j, o, l : Inside(ts, i, u, x, v, z, j, o, l)
<1>1. i \in Nat \ {0} /\ u \o x \in Seq(Word)
  BY Joined
<1>2. u \o x \o v \in Seq(Word)
  BY <1>1, Joined, Zenon
<1>3. Has(ts, i, u \o x \o v) /\ Has(ts, i + Len(u \o x \o v), z)
  BY <1>1, <1>2, HasBoth, Zenon DEF Encloses
<1>4. Joins(ts, i, u, x, v)
  BY <1>3, Zenon DEF Joins
<1>5. PICK j, o, l : Parts(ts, i, u, x, v, j, o, l)
  BY <1>4, Between, Zenon
<1>6. l \in Nat /\ i < l /\ j \in 1 .. Len(ts)
  <2>1. i < j /\ j < l /\ l \in Nat /\ j \in 1 .. Len(ts)
    BY <1>5, Zenon DEF Parts
  <2> QED
    BY <2>1
<1>7. l \in Nat \ {0} /\ Has(ts, l, z)
  <2>1. Has(ts, l, z)
    BY <1>3, <1>5, Zenon DEF Parts
  <2> QED
    BY <1>6, <2>1
<1>8. l <= Len(ts) /\ ts[l] = z[1]
  BY <1>7, HasOne, Zenon
<1>9. l \in 1 .. Len(ts)
  BY <1>7, <1>8
<1>10. PICK p \in Nat : p = Len(u \o x \o v)
  BY <1>2, LenProperties
<1>11. Len(u \o x \o v \o z) = p + 1
  <2>1. Len(u \o x \o v \o z) = Len(u \o x \o v) + Len(z)
    BY <1>2, Joined, Zenon
  <2> QED
    BY <1>10, <2>1, Zenon
<1>12. PICK y : y = Len(u \o x \o v \o z)
  OBVIOUS
<1>13. l = i + p /\ y = p + 1
  BY <1>5, <1>10, <1>11, <1>12, Zenon DEF Parts
<1>14. l + 1 = i + y
  BY <1>13
<1> QED
  BY <1>5, <1>8, <1>9, <1>12, <1>14, Zenon DEF Inside

(* A piece with another part w behind that, as in a ternary.               *)
Chooses(ts, i, u, x, v, z, w) == Has(ts, i, u \o x \o v \o z \o w)

(* Where that one is: from m to before e.                                  *)
Choice(ts, i, u, x, v, z, w, j, o, l, m, e) ==
  /\ Inside(ts, i, u, x, v, z, j, o, l) /\ m = l + 1 /\ m \in 1 .. Len(ts) /\ Has(ts, m, w)
  /\ e = m + Len(w) /\ e = i + Len(u \o x \o v \o z \o w) /\ e \in Nat /\ m < e

(* There are such places.                                                  *)
LEMMA Chosen ==
  ASSUME NEW ts \in Seq(Word), NEW i \in 1 .. Len(ts), NEW u \in Seq(Word),
         NEW x \in Seq(Word), Len(x) = 1, NEW v \in Seq(Word), NEW z \in Seq(Word), Len(z) = 1,
         NEW w \in Seq(Word), Len(u) \in Nat \ {0}, Len(v) \in Nat \ {0}, Len(w) \in Nat \ {0},
         Chooses(ts, i, u, x, v, z, w)
  PROVE  \E j, o, l, m, e : Choice(ts, i, u, x, v, z, w, j, o, l, m, e)
<1>1. i \in Nat \ {0} /\ u \o x \in Seq(Word)
  BY Joined
<1>2. u \o x \o v \in Seq(Word)
  BY <1>1, Joined, Zenon
<1>3. u \o x \o v \o z \in Seq(Word)
  BY <1>2, Joined, Zenon
<1>4. Has(ts, i, u \o x \o v \o z) /\ Has(ts, i + Len(u \o x \o v \o z), w)
  BY <1>1, <1>3, HasBoth, Zenon DEF Chooses
<1>5. Encloses(ts, i, u, x, v, z)
  BY <1>4, Zenon DEF Encloses
<1>6. PICK j, o, l : Inside(ts, i, u, x, v, z, j, o, l)
  BY <1>5, Enclosed, Zenon
<1>7. PICK m \in Nat \ {0} : m = l + 1
  <2>1. l \in 1 .. Len(ts)
    BY <1>6, Zenon DEF Inside
  <2> QED
    BY <2>1
<1>8. Has(ts, m, w)
  BY <1>4, <1>6, <1>7, Zenon DEF Inside
<1>9. m <= Len(ts)
  BY <1>8, HasFirst, Zenon
<1>10. m \in 1 .. Len(ts)
  BY <1>9
<1>11. PICK e \in Nat : e = m + Len(w) /\ m < e
  OBVIOUS
<1>12. PICK p \in Nat : p = Len(u \o x \o v \o z)
  BY <1>3, LenProperties
<1>13. PICK y : y = Len(u \o x \o v \o z \o w)
  OBVIOUS
<1>14. y = p + Len(w)
  <2>1. Len(u \o x \o v \o z \o w) = Len(u \o x \o v \o z) + Len(w)
    BY <1>3, Joined, Zenon
  <2> QED
    BY <1>12, <1>13, <2>1, Zenon
<1>15. m = i + p
  BY <1>6, <1>7, <1>12, Zenon DEF Inside
<1>16. e = i + y
  BY <1>11, <1>14, <1>15
<1>17. Choice(ts, i, u, x, v, z, w, j, o, l, m, e)
  BY <1>6, <1>7, <1>8, <1>10, <1>11, <1>13, <1>16, Zenon DEF Choice
<1> QED
  BY <1>17, Zenon

-----------------------------------------------------------------------------
(* Expressions and their operands.                                         *)

(* The operand i of n is an expression that nests less deep.               *)
Smaller(n, i) == n.args # <<>> /\ n.args[i] \in Expr /\ Nesting[n.args[i]] < Nesting[n]

(* A name or a literal: accepted as it is written, unless it is false.     *)
IsLeaf(n) ==
  /\ n.args = <<>> /\ n.name \in Named
  /\ n.op \in {"ident", "keyword", "number", "boolean", "string", "null"}
  /\ n.name # "false" => n = Accepted(n.name)

(* A sign with its operand.                                                *)
IsUnary(n) ==
  n.op = "unary" /\ n.name \in UnaryOp /\ Smaller(n, 1) /\ n = Node("unary", n.name, <<n.args[1]>>)

(* An operator, a member, a call or a subscript, with two operands.        *)
IsBinary(n) ==
  /\ n.op \in BinaryOp \cup {"member", "call", "subscript"} /\ Smaller(n, 1) /\ Smaller(n, 2)
  /\ n = Node(n.op, "", <<n.args[1], n.args[2]>>)

(* A ternary with its three operands.                                      *)
IsTernary(n) ==
  /\ n.op = "ternary" /\ Smaller(n, 1) /\ Smaller(n, 2) /\ Smaller(n, 3)
  /\ n = Node("ternary", "", <<n.args[1], n.args[2], n.args[3]>>)

(* A lambda: its parameters, then its body.                                *)
IsLambda(n) ==
  /\ n.op = "lambda" /\ n.args \in Seq(Expr) /\ Len(n.args) > 1 /\ Smaller(n, Len(n.args))
  /\ \A i \in 1 .. Len(n.args) - 1 : n.args[i].name \in Ident /\ n.args[i] = Accepted(n.args[i].name)
  /\ n = Node("lambda", "", n.args)

(* accept takes either literal of a Boolean for true.                      *)
LEMMA AcceptedBoolean ==
  ASSUME NEW t \in Boolean
  PROVE  Accepted(t) = Node("boolean", "true", <<>>)
<1>1. t \notin Ident \cup Keyword \cup Number \cup String \cup {"null"}
  BY IdentAssumption DEF Boolean, Keyword, Number, String
<1> QED
  BY <1>1 DEF Accepted

(* What it returns for a name or a literal.                                *)
LEMMA AcceptedNamed ==
  ASSUME NEW t \in Named
  PROVE  /\ Accepted(t).args = <<>> /\ (t # "false" => Accepted(t).name = t)
         /\ Accepted(t).op \in {"ident", "keyword", "number", "boolean", "string", "null"}
         /\ Accepted(t).op = "ident" => t \in Ident
<1>1. CASE t \in Boolean
  BY <1>1, AcceptedBoolean DEF Boolean, Node
<1>2. CASE t \notin Boolean
  BY <1>2 DEF Accepted, Named, Node
<1> QED
  BY <1>1, <1>2

(* false is read as true is, and neither is a name.                        *)
LEMMA AcceptedFalse ==
  Accepted("false") = Accepted("true") /\ Accepted("true").op = "boolean"
<1>1. "false" \in Boolean /\ "true" \in Boolean
  BY DEF Boolean
<1> QED
  BY <1>1, AcceptedBoolean DEF Node

(* It accepts no sign.                                                     *)
LEMMA AcceptedSign ==
  ASSUME NEW t \in UnaryOp
  PROVE  Accepted(t) = Undefined
BY IdentAssumption DEF Accepted, UnaryOp, Keyword, Number, Boolean, String

(* Functions on 1..n, as tuples.                                           *)
LEMMA AsTuples ==
  ASSUME NEW S
  PROVE  /\ \A a \in [1..1 -> S] : a = <<a[1]>> /\ a # <<>> /\ a[1] \in S
         /\ \A a \in [1..2 -> S] : a = <<a[1], a[2]>> /\ a # <<>> /\ a[1] \in S /\ a[2] \in S
         /\ \A a \in [1..3 -> S] :
              a = <<a[1], a[2], a[3]>> /\ a # <<>> /\ a[1] \in S /\ a[2] \in S /\ a[3] \in S
<1>1. \A l \in {1, 2, 3} : \A a \in [1..l -> S] : a # <<>>
  OBVIOUS
<1>2. \A a \in [1..1 -> S] : a = <<a[1]>> /\ a[1] \in S
  OBVIOUS
<1>3. \A a \in [1..2 -> S] : a = <<a[1], a[2]>> /\ a[1] \in S /\ a[2] \in S
  OBVIOUS
<1>4. \A a \in [1..3 -> S] : a = <<a[1], a[2], a[3]>> /\ a[1] \in S /\ a[2] \in S /\ a[3] \in S
  OBVIOUS
<1> QED
  BY <1>1, <1>2, <1>3, <1>4

(* Every expression is of one of the five kinds.                           *)
LEMMA Kinds ==
  ASSUME NEW n \in Expr
  PROVE  IsLeaf(n) \/ IsUnary(n) \/ IsBinary(n) \/ IsTernary(n) \/ IsLambda(n)
<1>1. \A i \in DOMAIN n.args : Nesting[n.args[i]] < Nesting[n]
  BY ExprAssumption
<1>2. CASE n \in {Accepted(t) : t \in Named}
  <2>1. PICK t \in Named \ {"false"} : n = Accepted(t)
    <3>1. PICK t \in Named : n = Accepted(t)
      BY <1>2
    <3>2. "true" \in Named \ {"false"}
      BY DEF Named, Boolean
    <3> QED
      BY <3>1, <3>2, AcceptedFalse
  <2> QED
    BY <2>1, AcceptedNamed DEF IsLeaf
<1>3. CASE n \in Compound({"unary"}, UnaryOp, [1..1 -> Expr])
  <2>1. n.args \in [1..1 -> Expr] /\ n = [op |-> "unary", name |-> n.name, args |-> n.args]
    BY <1>3 DEF Compound
  <2>2. PICK a \in [1..1 -> Expr] : a = n.args
    BY <2>1
  <2>3. a = <<a[1]>> /\ a # <<>> /\ a[1] \in Expr
    BY AsTuples
  <2>4. Smaller(n, 1)
    BY <1>1, <2>2, <2>3 DEF Smaller
  <2> QED
    BY <1>3, <2>1, <2>2, <2>3, <2>4 DEF Compound, IsUnary, Node
<1>4. CASE n \in Compound(BinaryOp \cup {"member", "call", "subscript"}, {""}, [1..2 -> Expr])
  <2>1. n.args \in [1..2 -> Expr] /\ n = [op |-> n.op, name |-> "", args |-> n.args]
    BY <1>4 DEF Compound
  <2>2. PICK a \in [1..2 -> Expr] : a = n.args
    BY <2>1
  <2>3. a = <<a[1], a[2]>> /\ a # <<>> /\ a[1] \in Expr /\ a[2] \in Expr
    BY AsTuples
  <2>4. Smaller(n, 1) /\ Smaller(n, 2)
    BY <1>1, <2>2, <2>3 DEF Smaller
  <2> QED
    BY <1>4, <2>1, <2>2, <2>3, <2>4 DEF Compound, IsBinary, Node
<1>5. CASE n \in Compound({"ternary"}, {""}, [1..3 -> Expr])
  <2>1. n.args \in [1..3 -> Expr] /\ n = [op |-> "ternary", name |-> "", args |-> n.args]
    BY <1>5 DEF Compound
  <2>2. PICK a \in [1..3 -> Expr] : a = n.args
    BY <2>1
  <2>3. /\ a = <<a[1], a[2], a[3]>> /\ a # <<>>
        /\ a[1] \in Expr /\ a[2] \in Expr /\ a[3] \in Expr
    BY AsTuples
  <2>4. Smaller(n, 1) /\ Smaller(n, 2) /\ Smaller(n, 3)
    BY <1>1, <2>2, <2>3 DEF Smaller
  <2> QED
    BY <1>5, <2>1, <2>2, <2>3, <2>4 DEF Compound, IsTernary, Node
<1>6. CASE n \in Compound({"lambda"}, {""}, Seq(Expr))
  <2>1. n.op = "lambda" /\ n.args \in Seq(Expr) /\ n = Node("lambda", "", n.args)
    BY <1>6 DEF Compound, Node
  <2>2. PICK a \in Seq(Expr) : a = n.args
    BY <2>1
  <2>3. Len(a) > 1 /\ \A i \in 1 .. Len(a) - 1 : a[i].op = "ident"
    BY <2>1, <2>2, ExprAssumption
  <2>4. Smaller(n, Len(n.args))
    <3>1. Len(a) \in DOMAIN a /\ a[Len(a)] \in Expr /\ a # <<>>
      BY <2>3
    <3> QED
      BY <1>1, <2>2, <3>1 DEF Smaller
  <2>5. ASSUME NEW i \in 1 .. Len(a) - 1
        PROVE  a[i].name \in Ident /\ a[i] = Accepted(a[i].name)
    <3>1. PICK b \in Expr : b = a[i]
      OBVIOUS
    <3>2. b.op = "ident"
      BY <2>3, <3>1
    <3>3. PICK t \in Named : b = Accepted(t)
      <4>1. Node("boolean", "false", <<>>).op = "boolean"
        BY DEF Node
      <4> QED
        BY <3>2, <4>1, ExprAssumption DEF Compound, BinaryOp
    <3>4. t # "false"
      BY <3>2, <3>3, AcceptedFalse
    <3> QED
      BY <3>1, <3>2, <3>3, <3>4, AcceptedNamed
  <2> QED
    BY <2>1, <2>2, <2>3, <2>4, <2>5 DEF IsLambda
<1>7. CASE n = Node("boolean", "false", <<>>)
  BY <1>7 DEF IsLeaf, Named, Boolean, Node
<1> QED
  BY <1>2, <1>3, <1>4, <1>5, <1>6, <1>7, ExprAssumption

(* What holds of an expression whenever it holds of those that nest less   *)
(* deep holds of all: induction, by the least depth at which it would not. *)
LEMMA ByNesting ==
  ASSUME NEW G, \A n \in Expr : (\A m \in Expr : Nesting[m] < Nesting[n] => m \in G) => n \in G
  PROVE  \A n \in Expr : n \in G
<1> TAKE n \in Expr
<1> DEFINE S == {b \in 0 .. Nesting[n] + 1 : \A m \in Expr : Nesting[m] < b => m \in G}
<1>1. \A m \in Expr : Nesting[m] \in Nat
  BY ExprAssumption
<1>2. 0 \in S
  BY <1>1
<1>3. ASSUME NEW b \in 0 .. Nesting[n], b \in S
      PROVE  b + 1 \in S
  <2>1. ASSUME NEW m \in Expr, Nesting[m] < b + 1
        PROVE  m \in G
    <3>1. \A l \in Expr : Nesting[l] < Nesting[m] => Nesting[l] < b
      BY <1>1, <2>1
    <3> QED
      BY <1>3, <3>1
  <2>2. b + 1 \in 0 .. Nesting[n] + 1
    BY <1>1
  <2> QED
    BY <2>1, <2>2
<1>4. Nesting[n] + 1 \in S
  <2> HIDE DEF S
  <2>1. Nesting[n] + 1 \in Nat /\ 0 .. (Nesting[n] + 1) - 1 = 0 .. Nesting[n]
    BY <1>1
  <2>2. 0 .. Nesting[n] + 1 \subseteq S
    BY <1>2, <1>3, <2>1, UpTo
  <2> QED
    BY <2>1, <2>2
<1> QED
  BY <1>1, <1>4

-----------------------------------------------------------------------------
(* What expressions are written as.                                        *)

(* What WrittenAssumption says of one expression in one place.             *)
LEMMA WrittenIs ==
  ASSUME NEW n \in Expr, NEW p \in 0 .. 10
  PROVE  Written[n][p] = IF Prec(n) < p THEN <<"(">> \o Bare(Written, n) \o <<")">>
                         ELSE Bare(Written, n)
<1>1. PICK W : W = Written
  OBVIOUS
<1>2. Written = [m \in Expr |-> [q \in 0 .. 10 |-> Writing(W, m, q)]]
  BY <1>1, WrittenAssumption, Zenon
<1>3. Written[n][p] = Writing(W, n, p)
  BY <1>2
<1>4. Written[n][p] = Writing(Written, n, p)
  BY <1>1, <1>3, Zenon
<1> QED
  BY <1>4, Zenon DEF Writing

(* Error and Undefined are no expressions: they have operators of their    *)
(* own.                                                                    *)
LEMMA NoError == Error.op = "error" /\ Undefined.op = "undefined"
BY DEF Error, Undefined, Node

(* Without parentheses around it, a leaf is its name,                      *)
LEMMA BareLeaf ==
  ASSUME NEW n \in Expr, IsLeaf(n)
  PROVE  Prec(n) = 10 /\ Bare(Written, n) = <<n.name>> /\ n # Error /\ n # Undefined
<1>1. n.op \in {"ident", "keyword", "number", "boolean", "string", "null"}
  BY DEF IsLeaf
<1>2. Prec(n) = 10
  BY <1>1 DEF Prec
<1>3. n # Error /\ n # Undefined
  BY <1>1, NoError
<1>4. Bare(Written, n) = <<n.name>>
  BY <1>1 DEF Bare, IsLeaf
<1> QED
  BY <1>2, <1>3, <1>4

(* a sign is before its operand,                                           *)
LEMMA BareUnary ==
  ASSUME NEW n \in Expr, IsUnary(n)
  PROVE  /\ Prec(n) = 8 /\ n # Error /\ n # Undefined
         /\ Bare(Written, n) = <<n.name>> \o Written[n.args[1]][8]
<1>1. n.op = "unary" /\ n.args # <<>>
  BY DEF IsUnary, Smaller
<1>2. Prec(n) = 8
  BY <1>1 DEF Prec
<1>3. n # Error /\ n # Undefined
  BY <1>1, NoError
<1>4. Bare(Written, n) = <<n.name>> \o Written[n.args[1]][8]
  BY <1>1 DEF Bare
<1> QED
  BY <1>2, <1>3, <1>4

(* an operator is between its operands, and the argument of a call or a    *)
(* subscript is in brackets,                                               *)
LEMMA BareBinary ==
  ASSUME NEW n \in Expr, IsBinary(n)
  PROVE  /\ n # Error /\ n # Undefined
         /\ n.op \in BinaryOp =>
              /\ Prec(n) \in {1, 3, 4, 5, 6, 7}
              /\ Bare(Written, n) = Written[n.args[1]][Prec(n)] \o <<n.op>>
                                      \o Written[n.args[2]][Prec(n) + 1]
         /\ n.op = "member" =>
              /\ Prec(n) = 9
              /\ Bare(Written, n) = Written[n.args[1]][9] \o <<".">> \o Written[n.args[2]][10]
         /\ n.op = "call" =>
              /\ Prec(n) = 9
              /\ Bare(Written, n) = Written[n.args[1]][9] \o <<"(">> \o Written[n.args[2]][0]
                                      \o <<")">>
         /\ n.op = "subscript" =>
              /\ Prec(n) = 9
              /\ Bare(Written, n) = Written[n.args[1]][9] \o <<"[">> \o Written[n.args[2]][0]
                                      \o <<"]">>
<1>1. n.op \in BinaryOp \cup {"member", "call", "subscript"} /\ n.args # <<>>
  BY DEF IsBinary, Smaller
<1>2. n # Error /\ n # Undefined
  BY <1>1, NoError DEF BinaryOp
<1>3. ASSUME n.op \in BinaryOp
      PROVE  /\ Prec(n) \in {1, 3, 4, 5, 6, 7}
             /\ Bare(Written, n) = Written[n.args[1]][Prec(n)] \o <<n.op>>
                                      \o Written[n.args[2]][Prec(n) + 1]
  <2>1. Prec(n) \in {1, 3, 4, 5, 6, 7}
    BY <1>3 DEF Prec, BinaryOp
  <2>2. n.op \notin {"lambda", "unary", "member", "call", "subscript", "ternary"}
    BY <1>3 DEF BinaryOp
  <2> QED
    BY <1>1, <2>1, <2>2 DEF Bare
<1>4. ASSUME n.op = "member"
      PROVE  Bare(Written, n) = Written[n.args[1]][9] \o <<".">> \o Written[n.args[2]][10]
  BY <1>1, <1>4 DEF Bare
<1>5. ASSUME n.op = "call"
      PROVE  Bare(Written, n) = Written[n.args[1]][9] \o <<"(">> \o Written[n.args[2]][0]
                                  \o <<")">>
  BY <1>1, <1>5 DEF Bare
<1>6. ASSUME n.op = "subscript"
      PROVE  Bare(Written, n) = Written[n.args[1]][9] \o <<"[">> \o Written[n.args[2]][0]
                                  \o <<"]">>
  BY <1>1, <1>6 DEF Bare
<1>7. n.op \in {"member", "call", "subscript"} => Prec(n) = 9
  BY DEF Prec
<1> QED
  BY <1>2, <1>3, <1>4, <1>5, <1>6, <1>7

(* a ternary has two tokens in between,                                    *)
LEMMA BareTernary ==
  ASSUME NEW n \in Expr, IsTernary(n)
  PROVE  /\ Prec(n) = 2 /\ n # Error /\ n # Undefined
         /\ Bare(Written, n) = Written[n.args[1]][2] \o <<"?">> \o Written[n.args[2]][4]
                                 \o <<":">> \o Written[n.args[3]][4]
<1>1. n.op = "ternary" /\ n.args # <<>>
  BY DEF IsTernary, Smaller
<1>2. Prec(n) = 2
  BY <1>1 DEF Prec
<1>3. n # Error /\ n # Undefined
  BY <1>1, NoError
<1>4. Bare(Written, n) = Written[n.args[1]][2] \o <<"?">> \o Written[n.args[2]][4]
                             \o <<":">> \o Written[n.args[3]][4]
  BY <1>1 DEF Bare
<1> QED
  BY <1>2, <1>3, <1>4

(* and a lambda is its parameters and its body.                            *)
LEMMA BareLambda ==
  ASSUME NEW n \in Expr, IsLambda(n)
  PROVE  /\ Prec(n) = 0 /\ n # Error /\ n # Undefined
         /\ Bare(Written, n) = <<"lambda">> \o Params(n) \o Written[n.args[Len(n.args)]][0]
<1>1. n.op = "lambda" /\ n.args # <<>>
  BY DEF IsLambda, Smaller
<1>2. Prec(n) = 0
  BY <1>1 DEF Prec
<1>3. n # Error /\ n # Undefined
  BY <1>1, NoError
<1>4. Bare(Written, n) = <<"lambda">> \o Params(n) \o Written[n.args[Len(n.args)]][0]
  BY <1>1 DEF Bare
<1> QED
  BY <1>2, <1>3, <1>4

(* Parameters are names and commas, with a colon at the end.               *)
LEMMA ParamsAre ==
  ASSUME NEW n, IsLambda(n)
  PROVE  LET last == Len(n.args) - 1
         IN  /\ Params(n) \in Seq(Word) /\ Len(Params(n)) = 2 * last
             /\ \A m \in 1 .. last :
                  /\ Params(n)[2 * m - 1] = n.args[m].name
                  /\ Params(n)[2 * m] = IF m = last THEN ":" ELSE ","
<1> DEFINE last == Len(n.args) - 1
<1>1. last \in Nat /\ last > 0
  <2>1. PICK a \in Seq(Expr) : a = n.args /\ Len(a) > 1
    BY DEF IsLambda
  <2> QED
    BY <2>1
<1>2. Params(n) = [i \in 1 .. 2 * last |-> CASE i % 2 = 1   -> n.args[(i + 1) \div 2].name
                                             [] i = 2 * last -> ":"
                                             [] OTHER        -> ","]
  BY DEF Params
<1> HIDE DEF last
<1>3. ASSUME NEW i \in 1 .. 2 * last
      PROVE  Params(n)[i] \in Word
  <2>1. CASE i % 2 = 1
    <3>1. (i + 1) \div 2 \in 1 .. last
      BY <1>1, <2>1
    <3>2. n.args[(i + 1) \div 2].name \in Ident
      BY <3>1 DEF IsLambda, last
    <3>3. i # 2 * last
      BY <1>1, <2>1
    <3> QED
      BY <1>2, <2>1, <3>2, <3>3 DEF Word, Named
  <2>2. CASE i % 2 # 1
    BY <1>2, <2>2 DEF Word, BinaryOp
  <2> QED
    BY <2>1, <2>2
<1>4. Params(n) \in [1 .. 2 * last -> Word]
  BY <1>2, <1>3
<1>5. Params(n) \in Seq(Word) /\ Len(Params(n)) = 2 * last
  BY <1>1, <1>4
<1>6. ASSUME NEW m \in 1 .. last
      PROVE  /\ Params(n)[2 * m - 1] = n.args[m].name
             /\ Params(n)[2 * m] = IF m = last THEN ":" ELSE ","
  <2>1. PICK i \in 1 .. 2 * last : i = 2 * m - 1
    BY <1>1
  <2>2. i % 2 = 1 /\ (i + 1) \div 2 = m /\ i # 2 * last
    BY <1>1, <2>1
  <2>3. Params(n)[i] = n.args[m].name
    BY <1>2, <2>2
  <2>4. PICK k \in 1 .. 2 * last : k = 2 * m
    BY <1>1
  <2>5. k % 2 # 1 /\ (k = 2 * last <=> m = last)
    BY <1>1, <2>4
  <2>6. Params(n)[k] = IF m = last THEN ":" ELSE ","
    BY <1>2, <2>5
  <2> QED
    BY <2>1, <2>3, <2>4, <2>6
<1> QED
  BY <1>5, <1>6 DEF last

(* What is written of an expression is a text, and begins with lambda only *)
(* where a lambda has no parentheses.                                      *)
WellWritten(n) ==
  \A p \in 0 .. 10 :
    IF n.op = "lambda" /\ p = 0
    THEN Written[n][p] \in Seq(Word) /\ Len(Written[n][p]) > 0 /\ Written[n][p][1] = "lambda"
    ELSE Opens(Written[n][p])

(* There are eleven precedences.                                           *)
LEMMA PrecIs == ASSUME NEW n PROVE Prec(n) \in 0 .. 10
BY DEF Prec

(* Every expression is well written.                                       *)
LEMMA AllWellWritten ==
  \A n \in Expr : WellWritten(n)
<1> DEFINE G == {n \in Expr : WellWritten(n)}
<1>1. ASSUME NEW n \in Expr, \A m \in Expr : Nesting[m] < Nesting[n] => m \in G
      PROVE  n \in G
  <2>1. \A m \in Expr : Nesting[m] < Nesting[n] =>
          \A p \in 0 .. 10 : Written[m][p] \in Seq(Word) /\ (p > 0 => Opens(Written[m][p]))
    <3>1. SUFFICES ASSUME NEW m \in Expr, WellWritten(m), NEW p \in 0 .. 10
                   PROVE  Written[m][p] \in Seq(Word) /\ (p > 0 => Opens(Written[m][p]))
      BY <1>1
    <3>2. Opens(Written[m][p]) => Written[m][p] \in Seq(Word)
      BY DEF Opens
    <3> QED
      BY <3>1, <3>2 DEF WellWritten
  <2>2. PICK bare : bare = Bare(Written, n)
    OBVIOUS
  <2>3. /\ bare \in Seq(Word)
        /\ IF n.op = "lambda" THEN Len(bare) > 0 /\ bare[1] = "lambda" ELSE Opens(bare)
    <3>0. Opens(bare) => bare \in Seq(Word)
      BY DEF Opens
    <3>1. CASE IsLeaf(n)
      <4>1. bare = <<n.name>> /\ n.op # "lambda"
        BY <2>2, <3>1, BareLeaf DEF IsLeaf
      <4> QED
        BY <3>0, <3>1, <4>1, Words, OneWord DEF IsLeaf
    <3>2. CASE IsUnary(n)
      <4>1. PICK v : v = Written[n.args[1]][8]
        OBVIOUS
      <4>2. bare = <<n.name>> \o v /\ n.op # "lambda"
        BY <2>2, <3>2, <4>1, BareUnary DEF IsUnary
      <4>3. Opens(<<n.name>>) /\ v \in Seq(Word)
        BY <2>1, <3>2, <4>1, Words, OneWord DEF IsUnary, Smaller
      <4> QED
        BY <3>0, <4>2, <4>3, OpensOn
    <3>3. CASE IsTernary(n)
      <4>1. PICK u, v, w : u = Written[n.args[1]][2] /\ v = Written[n.args[2]][4]
                             /\ w = Written[n.args[3]][4]
        OBVIOUS
      <4>2. bare = u \o <<"?">> \o v \o <<":">> \o w /\ n.op # "lambda"
        BY <2>2, <3>3, <4>1, BareTernary DEF IsTernary
      <4>3. Opens(u) /\ v \in Seq(Word) /\ w \in Seq(Word)
        <5>1. Smaller(n, 1) /\ Smaller(n, 2) /\ Smaller(n, 3)
          BY <3>3 DEF IsTernary
        <5> QED
          BY <2>1, <4>1, <5>1 DEF Smaller
      <4>4. <<"?">> \in Seq(Word) /\ <<":">> \in Seq(Word)
        BY Words, OneWord
      <4> QED
        BY <3>0, <4>2, <4>3, <4>4, OpensLong
    <3>4. CASE IsLambda(n)
      <4>1. PICK v : v = Written[n.args[Len(n.args)]][0]
        OBVIOUS
      <4>2. bare = <<"lambda">> \o Params(n) \o v /\ n.op = "lambda"
        BY <2>2, <3>4, <4>1, BareLambda DEF IsLambda
      <4>3. v \in Seq(Word)
        <5>1. Smaller(n, Len(n.args))
          BY <3>4 DEF IsLambda
        <5> QED
          BY <2>1, <4>1, <5>1 DEF Smaller
      <4>4. Params(n) \in Seq(Word) /\ <<"lambda">> \in Seq(Word)
        BY <3>4, ParamsAre, Words, OneWord
      <4> QED
        BY <4>2, <4>3, <4>4
    <3>5. CASE IsBinary(n)
      <4>1. n.op \in BinaryOp \cup {"member", "call", "subscript"} /\ n.op # "lambda"
        BY <3>5 DEF IsBinary, BinaryOp
      <4>0. Smaller(n, 1) /\ Smaller(n, 2)
        BY <3>5 DEF IsBinary
      <4>2. \A q \in 0 .. 10 : Written[n.args[2]][q] \in Seq(Word)
        BY <2>1, <4>0 DEF Smaller
      <4>3. \A q \in 0 .. 10 : q > 0 => Opens(Written[n.args[1]][q])
        BY <2>1, <4>0 DEF Smaller
      <4>4. /\ <<"(">> \in Seq(Word) /\ <<")">> \in Seq(Word) /\ <<"[">> \in Seq(Word)
            /\ <<"]">> \in Seq(Word) /\ <<".">> \in Seq(Word)
        BY Words, OneWord
      <4>5. CASE n.op \in BinaryOp
        <5>0. PICK q \in 1 .. 7 : q = Prec(n)
          <6>1. Prec(n) \in {1, 3, 4, 5, 6, 7}
            BY <3>5, <4>5, BareBinary
          <6> QED
            BY <6>1
        <5>1. PICK u, v : u = Written[n.args[1]][q] /\ v = Written[n.args[2]][q + 1]
          OBVIOUS
        <5>2. bare = u \o <<n.op>> \o v
          BY <2>2, <3>5, <4>5, <5>0, <5>1, BareBinary
        <5>3. Opens(u) /\ v \in Seq(Word) /\ <<n.op>> \in Seq(Word)
          BY <4>2, <4>3, <4>5, <5>1, Words, OneWord
        <5> QED
          BY <3>0, <4>1, <5>2, <5>3, OpensLong
      <4>6. CASE n.op = "member"
        <5>1. PICK u, v : u = Written[n.args[1]][9] /\ v = Written[n.args[2]][10]
          OBVIOUS
        <5>2. bare = u \o <<".">> \o v
          BY <2>2, <3>5, <4>6, <5>1, BareBinary
        <5>3. Opens(u) /\ v \in Seq(Word)
          BY <4>2, <4>3, <5>1
        <5> QED
          BY <3>0, <4>1, <4>4, <5>2, <5>3, OpensLong
      <4>7. CASE n.op \in {"call", "subscript"}
        <5>1. PICK u, v : u = Written[n.args[1]][9] /\ v = Written[n.args[2]][0]
          OBVIOUS
        <5>2. bare = u \o <<"(">> \o v \o <<")">> \/ bare = u \o <<"[">> \o v \o <<"]">>
          BY <2>2, <3>5, <4>7, <5>1, BareBinary
        <5>3. Opens(u) /\ v \in Seq(Word)
          BY <4>2, <4>3, <5>1
        <5>4. Opens(u \o <<"(">> \o v \o <<")">>) /\ Opens(u \o <<"[">> \o v \o <<"]">>)
          BY <4>4, <5>3, OpensLong
        <5> QED
          BY <3>0, <4>1, <5>2, <5>4
      <4> QED
        BY <4>1, <4>5, <4>6, <4>7
    <3> QED
      BY <3>1, <3>2, <3>3, <3>4, <3>5, Kinds
  <2>4. ASSUME NEW p \in 0 .. 10
        PROVE  IF n.op = "lambda" /\ p = 0
               THEN /\ Written[n][p] \in Seq(Word) /\ Len(Written[n][p]) > 0
                    /\ Written[n][p][1] = "lambda"
               ELSE Opens(Written[n][p])
    <3>1. CASE Prec(n) < p
      <4>1. Written[n][p] = <<"(">> \o bare \o <<")">>
        BY <2>2, <3>1, WrittenIs
      <4>2. Opens(<<"(">>) /\ <<")">> \in Seq(Word)
        BY Words, OneWord
      <4>3. p # 0
        BY <3>1, PrecIs
      <4>4. Opens(<<"(">> \o bare \o <<")">>)
        BY <2>3, <4>2, OpensLong
      <4> QED
        BY <4>1, <4>3, <4>4
    <3>2. CASE ~ (Prec(n) < p)
      <4>1. Written[n][p] = bare
        BY <2>2, <3>2, WrittenIs
      <4>2. n.op = "lambda" => p = 0
        BY <3>2 DEF Prec
      <4> QED
        BY <2>3, <4>1, <4>2
    <3> QED
      BY <3>1, <3>2
  <2> QED
    BY <2>4 DEF WellWritten
<1> HIDE DEF G
<1>2. \A n \in Expr : n \in G
  BY <1>1, ByNesting
<1> QED
  BY <1>2 DEF G

(* No expression is Error or Undefined.                                    *)
LEMMA NotErroneous ==
  \A n \in Expr : n # Error /\ n # Undefined
BY Kinds, BareLeaf, BareUnary, BareBinary, BareTernary, BareLambda

(* What is written is a text, and not an empty one.                        *)
LEMMA WrittenText ==
  ASSUME NEW n \in Expr, NEW p \in 0 .. 10
  PROVE  Written[n][p] \in Seq(Word) /\ Len(Written[n][p]) \in Nat \ {0}
<1>1. Written[n][p] \in Seq(Word) /\ Len(Written[n][p]) > 0
  BY AllWellWritten DEF WellWritten, Opens
<1> QED
  BY <1>1

-----------------------------------------------------------------------------
(* The turns of the loop.                                                  *)

(* A node of operands without an error is no error: with one operand,      *)
LEMMA JoinOne ==
  ASSUME NEW op, NEW name, NEW a, a # Error
  PROVE  Join(op, name, <<a>>) = Node(op, name, <<a>>)
<1>1. Error \notin Range(<<a>>)
  BY DEF Range
<1> QED
  BY <1>1 DEF Join

(* with two,                                                               *)
LEMMA JoinTwo ==
  ASSUME NEW op, NEW name, NEW a, a # Error, NEW b, b # Error
  PROVE  Join(op, name, <<a, b>>) = Node(op, name, <<a, b>>)
<1>1. Error \notin Range(<<a, b>>)
  BY DEF Range
<1> QED
  BY <1>1 DEF Join

(* and with three.                                                         *)
LEMMA JoinThree ==
  ASSUME NEW op, NEW name, NEW a, a # Error, NEW b, b # Error, NEW c, c # Error
  PROVE  Join(op, name, <<a, b, c>>) = Node(op, name, <<a, b, c>>)
<1>1. Error \notin Range(<<a, b, c>>)
  BY DEF Range
<1> QED
  BY <1>1 DEF Join

(* No list of expressions has an error.                                    *)
LEMMA NoneErroneous ==
  ASSUME NEW a \in Seq(Expr)
  PROVE  Error \notin Range(a)
BY NotErroneous DEF Range

(* The parts of what is parsed.                                            *)
LEMMA ParsedIs ==
  ASSUME NEW n, NEW at
  PROVE  Parsed(n, at).node = n /\ Parsed(n, at).at = at
BY DEF Parsed

(* parseExprPart returns n for the place i, and ends at j.                 *)
Answers(parse, ts, i, d, n, j) == ParseExprPart(parse, ts, i, d, "whole") = Parsed(n, j)

(* It does when its loop comes to n at a place where it stops: the turns   *)
(* that are left change nothing.                                           *)
LEMMA Returns ==
  ASSUME NEW parse, NEW ts \in Seq(Word),
         NEW i \in 1 .. Len(ts), ts[i] # "lambda", NEW d \in 0 .. 8, NEW n, n # Undefined, NEW j \in Nat \ {0},
         Stops(ts, j, d), Reaches(parse, ts, i, d, n, j)
  PROVE  Answers(parse, ts, i, d, n, j)
<1>0. Len(ts) \in Nat /\ DOMAIN ts = 1 .. Len(ts)
  BY Text
<1>1. PICK A : A = Turns(parse, ts, i, d, "whole")
  OBVIOUS
<1>2. Loops(A, parse, ts, i, d, "whole")
  BY <1>0, <1>1, TurnsAre, Zenon
<1>3. PICK m \in 0 .. j - i : m <= Len(ts) /\ A[m] = Parsed(n, j)
  BY <1>1 DEF Reaches
<1> DEFINE S == {l \in 0 .. Len(ts) - m : A[m + l] = Parsed(n, j)}
<1>4. Len(ts) - m \in Nat /\ m \in 0 .. Len(ts) /\ 0 \in S
  BY <1>0, <1>3
<1>5. ASSUME NEW l \in 0 .. Len(ts) - m - 1, l \in S
      PROVE  l + 1 \in S
  <2>1. PICK k \in 0 .. Len(ts) : k = m + l + 1
    BY <1>4
  <2>2. k # 0 /\ k - 1 = m + l
    BY <1>4, <2>1
  <2>3. A[k] = Turn(parse, ts, A[k - 1], d, "whole")
    BY <1>2, <2>2 DEF Loops
  <2>4. Turn(parse, ts, Parsed(n, j), d, "whole") = Parsed(n, j)
    BY <1>0, StopsThere
  <2>5. A[m + l + 1] = Parsed(n, j)
    BY <1>5, <2>1, <2>2, <2>3, <2>4
  <2> QED
    BY <1>4, <2>5
<1>6. Len(ts) - m \in S
  <2> HIDE DEF S
  <2>1. 0 .. Len(ts) - m \subseteq S
    BY <1>4, <1>5, UpTo
  <2> QED
    BY <1>4, <2>1
<1>7. A[Len(ts)] = Parsed(n, j)
  BY <1>4, <1>6
<1>8. Token(ts, i) # "lambda" /\ Parsed(n, j).node = n
  BY <1>0 DEF Token, Parsed
<1>9. ~ EndsAtSign(parse, ts, i, d)
  BY Zenon DEF Reaches
<1> QED
  BY <1>1, <1>7, <1>8, <1>9 DEF ParseExprPart, Answers

(* A token that must follow and does is skipped,                           *)
LEMMA ExpectIs ==
  ASSUME NEW t, NEW ts, NEW n, NEW j \in 1 .. Len(ts), DOMAIN ts = 1 .. Len(ts), ts[j] = t
  PROVE  Expect(t, ts, Parsed(n, j), "whole") = Parsed(n, j + 1)
<1>1. Parsed(n, j).node = n /\ Parsed(n, j).at = j
  BY DEF Parsed
<1>2. Token(ts, j) = t
  BY DEF Token
<1> QED
  BY <1>1, <1>2 DEF Expect

(* in a text as well.                                                      *)
LEMMA ExpectAt ==
  ASSUME NEW t, NEW ts \in Seq(Word), NEW n, NEW j \in 1 .. Len(ts), ts[j] = t
  PROVE  Expect(t, ts, Parsed(n, j), "whole") = Parsed(n, j + 1)
<1>1. Len(ts) \in Nat /\ DOMAIN ts = 1 .. Len(ts)
  OBVIOUS
<1> QED
  BY <1>1, ExpectIs

(* A turn starts an expression without a node, and goes on with one.       *)
LEMMA TurnIs ==
  ASSUME NEW parse, NEW ts, NEW a, a # Error, NEW j \in Nat, Len(ts) \in Nat, j <= Len(ts),
         NEW d \in 0 .. 7
  PROVE  Turn(parse, ts, Parsed(a, j), d, "whole") =
           IF a = Undefined THEN Starts(parse, ts, j, d)
           ELSE Follows(parse, ts, a, j, d, "whole")
<1>1. Parsed(a, j).node = a /\ Parsed(a, j).at = j
  BY DEF Parsed
<1> QED
  BY <1>1 DEF Turn

(* What a turn does at an operator that binds tightly enough,              *)
LEMMA TurnOperator ==
  ASSUME NEW parse, NEW ts \in Seq(Word),
         NEW a, a # Error, a # Undefined, NEW b, b # Error,
         NEW j \in 1 .. Len(ts), NEW l, NEW d \in 0 .. 7,
         NEW t \in BinaryOp, ts[j] = t, d < Level(t), Gives(parse, j + 1, Level(t), b, l)
  PROVE  Goes(parse, ts, a, j, d, Node(t, "", <<a, b>>), l)
<1>0. Len(ts) \in Nat /\ DOMAIN ts = 1 .. Len(ts)
  BY Text
<1>1. parse[j + 1][Level(t)] = Parsed(b, l)
  BY Zenon DEF Gives
<1>2. PICK e : e = parse[j + 1][Level(t)] /\ e.node = b /\ e.at = l
  BY <1>1 DEF Parsed
<1>3. Turn(parse, ts, Parsed(a, j), d, "whole") = Follows(parse, ts, a, j, d, "whole")
  BY <1>0, TurnIs
<1>4. Token(ts, j) = t
  BY <1>0 DEF Token
<1>5. t \notin {".", "(", "["} /\ d < Level(t)
  BY DEF BinaryOp
<1>6. Join(t, "", <<a, b>>) = Node(t, "", <<a, b>>)
  BY JoinTwo
<1>7. Follows(parse, ts, a, j, d, "whole") = Parsed(Join(t, "", <<a, b>>), l)
  BY <1>2, <1>4, <1>5 DEF Follows
<1> QED
  BY <1>3, <1>6, <1>7, Zenon DEF Goes

(* at a period,                                                            *)
LEMMA TurnMember ==
  ASSUME NEW parse, NEW ts \in Seq(Word),
         NEW a, a # Error, a # Undefined, NEW b, b # Error,
         NEW j \in 1 .. Len(ts), NEW l, NEW d \in 0 .. 7,
         ts[j] = ".", Gives(parse, j + 1, 8, b, l)
  PROVE  Goes(parse, ts, a, j, d, Node("member", "", <<a, b>>), l)
<1>0. Len(ts) \in Nat /\ DOMAIN ts = 1 .. Len(ts)
  BY Text
<1>1. Turn(parse, ts, Parsed(a, j), d, "whole") = Follows(parse, ts, a, j, d, "whole")
  BY <1>0, TurnIs
<1>2. Token(ts, j) = "."
  BY <1>0 DEF Token
<1>3. Join("member", "", <<a, b>>) = Node("member", "", <<a, b>>)
  BY JoinTwo
<1>4. Follows(parse, ts, a, j, d, "whole") = Parsed(Join("member", "", <<a, b>>), l)
  <2>1. parse[j + 1][8] = Parsed(b, l)
    BY Zenon DEF Gives
  <2> QED
    BY <1>2, <2>1 DEF Follows, Parsed
<1> QED
  BY <1>1, <1>3, <1>4, Zenon DEF Goes

(* at a parenthesis that does not close at once,                           *)
LEMMA TurnCall ==
  ASSUME NEW parse, NEW ts \in Seq(Word),
         NEW a, a # Error, a # Undefined, NEW b, b # Error,
         NEW j \in 1 .. Len(ts), NEW l \in 1 .. Len(ts), NEW d \in 0 .. 7,
         ts[j] = "(", j + 1 <= Len(ts), ts[j + 1] # ")",
         Gives(parse, j + 1, 1, b, l), ts[l] = ")"
  PROVE  Goes(parse, ts, a, j, d, Node("call", "", <<a, b>>), l + 1)
<1>0. Len(ts) \in Nat /\ DOMAIN ts = 1 .. Len(ts)
  BY Text
<1>1. Turn(parse, ts, Parsed(a, j), d, "whole") = Follows(parse, ts, a, j, d, "whole")
  BY <1>0, TurnIs
<1>2. Token(ts, j) = "(" /\ Token(ts, j + 1) # ")"
  BY <1>0 DEF Token
<1>3. Join("call", "", <<a, b>>) = Node("call", "", <<a, b>>)
  BY JoinTwo
<1>4. Expect(")", ts, parse[j + 1][1], "whole") = Parsed(b, l + 1)
  <2>1. parse[j + 1][1] = Parsed(b, l)
    BY Zenon DEF Gives
  <2> QED
    BY <1>0, <2>1, ExpectIs
<1>5. PICK e : e = Expect(")", ts, parse[j + 1][1], "whole") /\ e.node = b /\ e.at = l + 1
  BY <1>4 DEF Parsed
<1>6. Follows(parse, ts, a, j, d, "whole") = Parsed(Join("call", "", <<a, b>>), l + 1)
  BY <1>2, <1>5 DEF Follows
<1> QED
  BY <1>1, <1>3, <1>6, Zenon DEF Goes

(* at a bracket,                                                           *)
LEMMA TurnSubscript ==
  ASSUME NEW parse, NEW ts \in Seq(Word),
         NEW a, a # Error, a # Undefined, NEW b, b # Error,
         NEW j \in 1 .. Len(ts), NEW l \in 1 .. Len(ts), NEW d \in 0 .. 7,
         ts[j] = "[", Gives(parse, j + 1, 1, b, l), ts[l] = "]"
  PROVE  Goes(parse, ts, a, j, d, Node("subscript", "", <<a, b>>), l + 1)
<1>0. Len(ts) \in Nat /\ DOMAIN ts = 1 .. Len(ts)
  BY Text
<1>1. Turn(parse, ts, Parsed(a, j), d, "whole") = Follows(parse, ts, a, j, d, "whole")
  BY <1>0, TurnIs
<1>2. Token(ts, j) = "["
  BY <1>0 DEF Token
<1>3. Join("subscript", "", <<a, b>>) = Node("subscript", "", <<a, b>>)
  BY JoinTwo
<1>4. Expect("]", ts, parse[j + 1][1], "whole") = Parsed(b, l + 1)
  <2>1. parse[j + 1][1] = Parsed(b, l)
    BY Zenon DEF Gives
  <2> QED
    BY <1>0, <2>1, ExpectIs
<1>5. PICK e : e = Expect("]", ts, parse[j + 1][1], "whole") /\ e.node = b /\ e.at = l + 1
  BY <1>4 DEF Parsed
<1>6. Follows(parse, ts, a, j, d, "whole") = Parsed(Join("subscript", "", <<a, b>>), l + 1)
  BY <1>2, <1>5 DEF Follows
<1> QED
  BY <1>1, <1>3, <1>6, Zenon DEF Goes

(* at a question mark,                                                     *)
LEMMA TurnTernary ==
  ASSUME NEW parse, NEW ts \in Seq(Word),
         NEW a, a # Error, a # Undefined, NEW b, b # Error, NEW c, c # Error,
         NEW j \in 1 .. Len(ts), NEW l \in 1 .. Len(ts), NEW m, NEW d \in 0 .. 2,
         ts[j] = "?", Gives(parse, j + 1, 3, b, l), ts[l] = ":",
         Gives(parse, l + 1, 3, c, m)
  PROVE  Goes(parse, ts, a, j, d, Node("ternary", "", <<a, b, c>>), m)
<1>0. Len(ts) \in Nat /\ DOMAIN ts = 1 .. Len(ts)
  BY Text
<1>1. Turn(parse, ts, Parsed(a, j), d, "whole") = Follows(parse, ts, a, j, d, "whole")
  BY <1>0, TurnIs
<1>2. Token(ts, j) = "?" /\ Level("?") = 0
  BY <1>0 DEF Token, Level
<1>3. Join("ternary", "", <<a, b, c>>) = Node("ternary", "", <<a, b, c>>)
  BY JoinThree
<1>4. Expect(":", ts, parse[j + 1][3], "whole") = Parsed(b, l + 1)
  <2>1. parse[j + 1][3] = Parsed(b, l)
    BY Zenon DEF Gives
  <2> QED
    BY <1>0, <2>1, ExpectIs
<1>5. PICK e : e = Expect(":", ts, parse[j + 1][3], "whole") /\ e.node = b /\ e.at = l + 1
  BY <1>4 DEF Parsed
<1>6. PICK o : o = parse[e.at][3] /\ o.node = c /\ o.at = m
  <2>1. parse[l + 1][3] = Parsed(c, m)
    BY Zenon DEF Gives
  <2> QED
    BY <1>5, <2>1 DEF Parsed
<1>8. ~ (d < Level(Token(ts, j))) /\ d < 3
  BY <1>2
<1>7. Follows(parse, ts, a, j, d, "whole") = Parsed(Join("ternary", "", <<a, b, c>>), m)
  BY <1>2, <1>5, <1>6, <1>8 DEF Follows
<1> QED
  BY <1>1, <1>3, <1>7, Zenon DEF Goes

(* and at a sign, before there is a node.                                  *)
LEMMA TurnSign ==
  ASSUME NEW parse, NEW ts \in Seq(Word),
         NEW b, b # Error, NEW j \in 1 .. Len(ts), NEW l, NEW d \in 0 .. 7,
         NEW t \in UnaryOp, ts[j] = t, Gives(parse, j + 1, 7, b, l)
  PROVE  Goes(parse, ts, Undefined, j, d, Node("unary", t, <<b>>), l)
<1>0. Len(ts) \in Nat /\ DOMAIN ts = 1 .. Len(ts)
  BY Text
<1>1. Undefined # Error
  BY NoError
<1>2. Turn(parse, ts, Parsed(Undefined, j), d, "whole") = Starts(parse, ts, j, d)
  BY <1>0, <1>1, TurnIs
<1>3. Token(ts, j) = t
  BY <1>0 DEF Token
<1>4. Join("unary", t, <<b>>) = Node("unary", t, <<b>>)
  BY JoinOne
<1>5. Starts(parse, ts, j, d) = Parsed(Join("unary", t, <<b>>), l)
  <2>1. parse[j + 1][7] = Parsed(b, l)
    BY Zenon DEF Gives
  <2> QED
    BY <1>3, <2>1 DEF Starts, Parsed
<1> QED
  BY <1>2, <1>4, <1>5, Zenon DEF Goes

-----------------------------------------------------------------------------
(* What it is for an expression to be read.                                *)

(* The depth that a place is at most parsed with.                          *)
DepthAt(p) ==
  IF p <= 1 THEN 1 ELSE IF p = 2 THEN 2 ELSE IF p <= 8 THEN p - 1 ELSE p - 2

(* The depth that what has the precedence q is parsed with at its end: its *)
(* last operand may go on there.                                           *)
EndDepth(q) ==
  IF q <= 2 THEN q + 1 ELSE IF q <= 7 THEN q ELSE IF q = 8 THEN 7 ELSE 8

(* The same for what is written in a place; parentheses end for any.       *)
DepthAfter(n, p) == IF Prec(n) < p THEN 8 ELSE EndDepth(Prec(n))

(* A lambda without parentheses takes whatever follows it into its body.   *)
BareLambdaAt(n, p) == n.op = "lambda" /\ p = 0

(* C are the calls of a parse of ts.                                       *)
Calling(C, ts) ==
  \A k \in 1 .. Len(ts) + 1, i \in 1 .. Len(ts), d \in 0 .. 8 :
    C[k][i][d] = ParseExprPart(C[k - 1], ts, i, d, "whole")

(* The loop of a call for i comes to n, if nothing follows that n would go *)
(* on with,                                                                *)
Comes(C, ts, n, p, i, k, d) ==
  Stops(ts, i + Len(Written[n][p]), DepthAfter(n, p))
    => Reaches(C[k - 1], ts, i, d, n, i + Len(Written[n][p]))

(* and the call returns n, if nothing follows that the call would go on    *)
(* with.                                                                   *)
Read(C, ts, n, p, i, k, d) ==
  Stops(ts, i + Len(Written[n][p]), IF BareLambdaAt(n, p) THEN 0 ELSE d)
    => C[k][i][d] = Parsed(n, i + Len(Written[n][p]))

(* Wherever n is written for a place, a call for that place that may nest  *)
(* deep enough reads it.                                                   *)
Reads(C, ts, n) ==
  \A p \in 0 .. 10, i \in 1 .. Len(ts), k \in 1 .. Len(ts) + 1, d \in 0 .. 8 :
    Has(ts, i, Written[n][p]) /\ k + i > Len(ts) + 1 /\ d <= DepthAt(p)
      => /\ Read(C, ts, n, p, i, k, d)
         /\ ~ BareLambdaAt(n, p) => Comes(C, ts, n, p, i, k, d)

(* Which depths there are, and how they follow the precedences.            *)
LEMMA Depths ==
  /\ \A p \in 0 .. 10 : DepthAt(p) \in 1 .. 8
  /\ \A p \in 0 .. 10, q \in 0 .. 10 : p <= q => DepthAt(p) <= DepthAt(q)
  /\ \A p \in 0 .. 10, q \in 0 .. 10 : p <= q => EndDepth(p) <= EndDepth(q)
  /\ \A p \in 0 .. 10 : EndDepth(p) \in 1 .. 8 /\ (p > 0 => DepthAt(p) <= EndDepth(p))
  /\ \A q \in {1, 3, 4, 5, 6, 7} : DepthAt(q) < EndDepth(q) /\ EndDepth(q) <= DepthAt(q + 1)
  /\ DepthAt(2) = 2 /\ DepthAt(4) = 3 /\ DepthAt(8) = 7 /\ DepthAt(9) = 7 /\ DepthAt(10) = 8
  /\ DepthAt(0) = 1 /\ EndDepth(2) = 3 /\ EndDepth(8) = 7 /\ EndDepth(9) = 8 /\ EndDepth(10) = 8
BY DEF DepthAt, EndDepth

(* The depth at the end is at least that of the place,                     *)
LEMMA DepthAfterIs ==
  ASSUME NEW n, NEW p \in 0 .. 10
  PROVE  /\ DepthAfter(n, p) \in 1 .. 8 /\ (p > 0 => DepthAt(p) <= DepthAfter(n, p))
         /\ EndDepth(p) <= DepthAfter(n, p)
BY PrecIs, Depths DEF DepthAfter, DepthAt, EndDepth

(* and what a member, a call or a subscript is made of is at its end for   *)
(* any.                                                                    *)
LEMMA DepthAfterNine ==
  ASSUME NEW n
  PROVE  DepthAfter(n, 9) = 8
<1>1. PICK c \in 1 .. 8 : c = DepthAfter(n, 9) /\ EndDepth(9) <= c
  <2>1. 9 \in 0 .. 10
    OBVIOUS
  <2> QED
    BY <2>1, DepthAfterIs, Zenon
<1> QED
  BY <1>1, Depths

(* The level of an operator is the depth at the end of its expressions:    *)
(* the table of the parser agrees with the precedences.                    *)
LEMMA LevelIs ==
  ASSUME NEW n, n.op \in BinaryOp
  PROVE  Level(n.op) = EndDepth(Prec(n))
<1>1. PICK t \in BinaryOp : t = n.op
  OBVIOUS
<1>2. CASE t \in {"*", "/", "%", "<<", ">>", "&"}
  <2>1. Level(t) = 7 /\ Prec(n) = 7
    BY <1>1, <1>2 DEF Level, Prec
  <2> QED
    BY <1>1, <2>1 DEF EndDepth
<1>3. CASE t \in {"+", "-", "|", "^"}
  <2>1. Level(t) = 6 /\ Prec(n) = 6
    BY <1>1, <1>3 DEF Level, Prec
  <2> QED
    BY <1>1, <2>1 DEF EndDepth
<1>4. CASE t \in {"==", "!=", "<", "<=", ">", ">="}
  <2>1. Level(t) = 5 /\ Prec(n) = 5
    BY <1>1, <1>4 DEF Level, Prec
  <2> QED
    BY <1>1, <2>1 DEF EndDepth
<1>5. CASE t = "&&"
  <2>1. Level(t) = 4 /\ Prec(n) = 4
    BY <1>1, <1>5 DEF Level, Prec
  <2> QED
    BY <1>1, <2>1 DEF EndDepth
<1>6. CASE t = "||"
  <2>1. Level(t) = 3 /\ Prec(n) = 3
    BY <1>1, <1>6 DEF Level, Prec
  <2> QED
    BY <1>1, <2>1 DEF EndDepth
<1>7. CASE t = ","
  <2>1. Level(t) = 2 /\ Prec(n) = 1
    BY <1>1, <1>7 DEF Level, Prec
  <2> QED
    BY <1>1, <2>1 DEF EndDepth
<1> QED
  BY <1>2, <1>3, <1>4, <1>5, <1>6, <1>7 DEF BinaryOp

(* A loop stops at a greater depth where it does at a smaller one.         *)
LEMMA StopsDeeper ==
  ASSUME NEW ts, NEW j, NEW c \in 0 .. 8, NEW d \in 0 .. 8, c <= d, Stops(ts, j, c)
  PROVE  Stops(ts, j, d)
<1>1. \A t : Level(t) \in Nat
  BY DEF Level
<1> QED
  BY <1>1 DEF Stops

(* Where a loop stops.                                                     *)
LEMMA StopsAt ==
  ASSUME NEW ts, NEW j, NEW d \in 0 .. 8
  PROVE  /\ d = 8 => Stops(ts, j, d)
         /\ ts[j] \in {")", "]", ":"} => Stops(ts, j, d)
         /\ ts[j] = "?" /\ d >= 3 => Stops(ts, j, d)
         /\ ts[j] \in BinaryOp /\ Level(ts[j]) <= d => Stops(ts, j, d)
<1>1. PICK t : t = ts[j]
  OBVIOUS
<1>2. t \in {")", "]", ":", "?"} => Level(t) = 0 /\ t \notin {".", "(", "["}
  BY DEF Level
<1>3. t \in BinaryOp => t \notin {".", "(", "[", "?"}
  BY DEF BinaryOp
<1>4. Level(t) \in Nat
  BY DEF Level
<1>5. d = 8 => Stops(ts, j, d)
  BY DEF Stops
<1>6. t \in {")", "]", ":"} => Stops(ts, j, d)
  BY <1>1, <1>2 DEF Stops
<1>7. t = "?" /\ d >= 3 => Stops(ts, j, d)
  BY <1>1, <1>2 DEF Stops
<1>8. t \in BinaryOp /\ Level(t) <= d => Stops(ts, j, d)
  BY <1>1, <1>3, <1>4 DEF Stops
<1> QED
  BY <1>1, <1>5, <1>6, <1>7, <1>8

(* The call at j for the operand b, from the call at i that nests k deep.  *)
Operand(ts, b, i, k, j, q, d) ==
  /\ b \in Expr /\ i \in 1 .. Len(ts) /\ k \in 1 .. Len(ts) + 1 /\ k + i > Len(ts) + 1
  /\ j \in 1 .. Len(ts) /\ j > i /\ q \in 0 .. 10 /\ d \in 0 .. 8 /\ d <= DepthAt(q)
  /\ Has(ts, j, Written[b][q])
  /\ Stops(ts, j + Len(Written[b][q]), IF BareLambdaAt(b, q) THEN 0 ELSE d)

(* It returns b.                                                           *)
LEMMA OperandRead ==
  ASSUME NEW ts \in Seq(Word), NEW C, NEW b, Reads(C, ts, b),
         NEW i, NEW k, NEW j, NEW q, NEW d, Operand(ts, b, i, k, j, q, d)
  PROVE  Gives(C[k - 1], j, d, b, j + Len(Written[b][q]))
<1>1. /\ i \in 1 .. Len(ts) /\ k \in 1 .. Len(ts) + 1 /\ k + i > Len(ts) + 1
      /\ j \in 1 .. Len(ts) /\ j > i /\ q \in 0 .. 10 /\ d \in 0 .. 8
  BY Zenon DEF Operand
<1>5. PICK e \in 1 .. Len(ts) : e = j
  BY <1>1, Zenon
<1>6. PICK m \in 1 .. Len(ts) + 1 : m = k - 1 /\ m + e > Len(ts) + 1
  BY <1>1, <1>5
<1>7. PICK p \in 0 .. 10, c \in 0 .. 8 : p = q /\ c = d
  BY <1>1, Zenon
<1>2. /\ Has(ts, e, Written[b][p]) /\ c <= DepthAt(p)
      /\ Stops(ts, e + Len(Written[b][p]), IF BareLambdaAt(b, p) THEN 0 ELSE c)
  BY <1>5, <1>7, Zenon DEF Operand
<1>3. Read(C, ts, b, p, e, m, c)
  BY <1>2, <1>6, Zenon DEF Reads
<1>4. C[m][e][c] = Parsed(b, e + Len(Written[b][p]))
  BY <1>2, <1>3, Zenon DEF Read
<1> QED
  BY <1>4, <1>5, <1>6, <1>7, Zenon DEF Gives

(* The left operand is no call: the same loop comes to it.                 *)
LEMMA LeftComes ==
  ASSUME NEW ts, Len(ts) \in Nat, NEW C, NEW a \in Expr, Reads(C, ts, a),
         NEW i \in 1 .. Len(ts), NEW k \in 1 .. Len(ts) + 1, k + i > Len(ts) + 1,
         NEW q \in 1 .. 10, NEW d \in 0 .. 8, d <= DepthAt(q),
         Has(ts, i, Written[a][q]), Stops(ts, i + Len(Written[a][q]), DepthAfter(a, q))
  PROVE  Reaches(C[k - 1], ts, i, d, a, i + Len(Written[a][q]))
<1>1. q \in 0 .. 10 /\ ~ BareLambdaAt(a, q)
  BY DEF BareLambdaAt
<1>2. Comes(C, ts, a, q, i, k, d)
  BY <1>1 DEF Reads
<1> QED
  BY <1>2 DEF Comes

(* The left operand of an operator may be one of the same precedence, the  *)
(* right operand must bind tighter.                                        *)
LEMMA OperatorDepths ==
  ASSUME NEW q \in {1, 3, 4, 5, 6, 7}
  PROVE  /\ q \in 0 .. 10 /\ q \in 1 .. 10 /\ q + 1 \in 0 .. 10 /\ q + 1 # 0
         /\ DepthAt(q) \in 1 .. 8 /\ EndDepth(q) \in 1 .. 8
         /\ DepthAt(q) < EndDepth(q) /\ EndDepth(q) <= DepthAt(q + 1)
BY DEF DepthAt, EndDepth

-----------------------------------------------------------------------------
(* The loop comes to an expression without parentheses around it, given    *)
(* that its operands are read.                                             *)

(* The literal false is not in a text: it would be read as true.           *)
NoFalse(ts) == \A l \in 1 .. Len(ts) : ts[l] # "false"

(* A name or a literal.                                                    *)
LEMMA LeafComes ==
  ASSUME NEW ts \in Seq(Word), NoFalse(ts), NEW parse, NEW n \in Expr, IsLeaf(n),
         NEW i \in 1 .. Len(ts), NEW d \in 0 .. 8,
         NEW bare, bare = Bare(Written, n), Has(ts, i, bare)
  PROVE  Reaches(parse, ts, i, d, n, i + Len(bare))
<1>1. bare = <<n.name>>
  BY BareLeaf
<1>2. Len(bare) = 1 /\ bare[1] = n.name
  BY <1>1
<1>3. ts[i] = n.name
  BY <1>2, HasOne
<1>9. bare = <<n.name>> /\ n # Undefined /\ n.name \in Named /\ n = Accepted(n.name)
  BY <1>3, BareLeaf DEF IsLeaf, NoFalse
<1>4. n.name # "("
  BY <1>9, IdentAssumption DEF Named, Keyword, Number, Boolean, String
<1>5. Token(ts, i) = n.name
  BY <1>3, Text DEF Token
<1>6. First(parse, ts, i, "whole") = Parsed(n, i + 1)
  BY <1>9, <1>4, <1>5 DEF First
<1>8. ~ EndsAtSign(parse, ts, i, d)
  <2>1. n.name \notin UnaryOp
    BY <1>9, IdentAssumption DEF Named, Keyword, Number, Boolean, String, UnaryOp
  <2> QED
    BY <1>5, <2>1, Zenon DEF EndsAtSign
<1>7. Reaches(parse, ts, i, d, n, i + 1)
  <2>1. Len(ts) \in Nat /\ i \in Nat \ {0} /\ i + 1 \in Nat /\ i + 1 >= i
    BY Text
  <2> QED
    BY <1>6, <1>8, <2>1, ReachesFirst, Zenon
<1> QED
  BY <1>2, <1>7

(* A sign.                                                                 *)
LEMMA UnaryComes ==
  ASSUME NEW ts \in Seq(Word), NEW C, NEW n \in Expr, IsUnary(n), Reads(C, ts, n.args[1]),
         NEW i \in 1 .. Len(ts), NEW k \in 1 .. Len(ts) + 1, k + i > Len(ts) + 1,
         NEW d \in 0 .. 8, d <= DepthAt(Prec(n)),
         NEW bare, bare = Bare(Written, n), Has(ts, i, bare),
         Stops(ts, i + Len(bare), EndDepth(Prec(n)))
  PROVE  Reaches(C[k - 1], ts, i, d, n, i + Len(bare))
<1>0. Len(ts) \in Nat /\ DOMAIN ts = 1 .. Len(ts) /\ i \in Nat \ {0}
  BY Text
<1>1. PICK b \in Expr : b = n.args[1]
  BY DEF IsUnary, Smaller
<1>2. PICK t \in UnaryOp : t = n.name
  BY DEF IsUnary
<1>3. PICK v \in Seq(Word) : v = Written[b][8] /\ Len(v) \in Nat \ {0}
  <2>1. 8 \in 0 .. 10
    OBVIOUS
  <2> QED
    BY <2>1, WrittenText, Zenon
<1>4. Prec(n) = 8 /\ n = Node("unary", t, <<b>>) /\ bare = <<t>> \o v
  BY <1>1, <1>2, <1>3, BareUnary DEF IsUnary
<1>5. PICK x \in Seq(Word) : x = <<t>>
  BY Words, OneWord
<1>20. Len(x) = 1 /\ x[1] = t
  BY <1>5
<1>6. Has(ts, i, x \o v) /\ bare = x \o v
  BY <1>4, <1>5, Zenon
<1>7. Has(ts, i, x) /\ Has(ts, i + Len(x), v)
  BY <1>0, <1>6, HasBoth, Zenon
<1>21. Len(bare) = 1 + Len(v)
  <2>1. Len(x \o v) = Len(x) + Len(v)
    BY Joined, Zenon
  <2> QED
    BY <1>6, <1>20, <2>1, Zenon
<1>8. ts[i] = t
  BY <1>0, <1>20, <1>7, HasOne
<1>9. PICK parse : parse = C[k - 1]
  OBVIOUS
<1>10. PICK j \in Nat \ {0} : j = i + 1 /\ j = i + Len(x) /\ j > i
  BY <1>20
<1>11. Has(ts, j, v)
  BY <1>7, <1>10, Zenon
<1>12. j \in 1 .. Len(ts)
  <2>1. j <= Len(ts)
    BY <1>3, <1>11, HasFirst, Zenon
  <2> QED
    BY <1>0, <2>1
<1>13. PICK l \in Nat : l = j + Len(v) /\ l = i + Len(bare) /\ l > i
  BY <1>10, <1>21
<1>14. d \in 0 .. 7 /\ 7 <= DepthAt(8) /\ EndDepth(8) = 7
  BY <1>4, Depths
<1>15. Gives(parse, j, 7, b, l)
  <2>1. ~ BareLambdaAt(b, 8)
    BY DEF BareLambdaAt
  <2>2. Stops(ts, j + Len(v), IF BareLambdaAt(b, 8) THEN 0 ELSE 7)
    BY <1>4, <1>13, <1>14, <2>1, Zenon
  <2>3. 8 \in 0 .. 10 /\ 7 \in 0 .. 8
    OBVIOUS
  <2>5. Operand(ts, b, i, k, j, 8, 7)
    BY <1>3, <1>10, <1>11, <1>12, <1>14, <2>2, <2>3, Zenon DEF Operand
  <2>6. Reads(C, ts, b)
    BY <1>1, Zenon
  <2>4. Gives(C[k - 1], j, 7, b, j + Len(Written[b][8]))
    BY <2>6, <2>5, OperandRead, Zenon
  <2> QED
    BY <1>3, <1>9, <1>13, <2>4, Zenon
<1>16. Goes(parse, ts, Undefined, i, d, n, l)
  <2>1. b # Error
    BY NotErroneous
  <2>2. ts[i] = t /\ Gives(parse, i + 1, 7, b, l)
    BY <1>8, <1>10, <1>15, Zenon
  <2>3. Goes(parse, ts, Undefined, i, d, Node("unary", t, <<b>>), l)
    BY <1>14, <2>1, <2>2, TurnSign, Zenon
  <2> QED
    BY <1>4, <2>3, Zenon
<1>17. First(parse, ts, i, "whole") = Parsed(Undefined, i)
  <2>1. Token(ts, i) = t /\ t # "("
    BY <1>0, <1>8 DEF Token, UnaryOp
  <2> QED
    BY <2>1, AcceptedSign DEF First
<1>22. ~ EndsAtSign(parse, ts, i, d)
  <2>1. Token(ts, i) = t
    BY <1>0, <1>8 DEF Token
  <2>2. Parsed(b, l).at = l
    BY ParsedIs, Zenon
  <2>3. parse[i + 1][7].at = l
    BY <1>10, <1>15, <2>2, Zenon DEF Gives
  <2>4. Starts(parse, ts, i, d).at = l
    BY <2>1, <2>3 DEF Starts, Parsed
  <2>5. Stops(ts, l, 7)
    BY <1>4, <1>13, <1>14, Zenon
  <2>6. Token(ts, l) \notin {".", "(", "["}
    BY <1>0, <2>5 DEF Stops, Token
  <2> QED
    BY <2>4, <2>6, Zenon DEF EndsAtSign
<1>18. Reaches(parse, ts, i, d, Undefined, i)
  <2>1. i \in Nat /\ i >= i
    OBVIOUS
  <2> QED
    BY <1>0, <1>17, <1>22, <2>1, ReachesFirst, Zenon
<1>19. Reaches(parse, ts, i, d, n, l)
  <2>1. i \in Nat /\ i <= Len(ts)
    OBVIOUS
  <2> QED
    BY <1>0, <1>13, <1>16, <1>18, <2>1, ReachesNext, Zenon
<1> QED
  BY <1>9, <1>13, <1>19, Zenon

(* A binary operator.                                                      *)
LEMMA OperatorComes ==
  ASSUME NEW ts \in Seq(Word), NEW C, NEW n \in Expr, IsBinary(n), n.op \in BinaryOp,
         Reads(C, ts, n.args[1]), Reads(C, ts, n.args[2]),
         NEW i \in 1 .. Len(ts), NEW k \in 1 .. Len(ts) + 1, k + i > Len(ts) + 1,
         NEW d \in 0 .. 8, d <= DepthAt(Prec(n)),
         NEW bare, bare = Bare(Written, n), Has(ts, i, bare),
         Stops(ts, i + Len(bare), EndDepth(Prec(n)))
  PROVE  Reaches(C[k - 1], ts, i, d, n, i + Len(bare))
<1>1. PICK a \in Expr, b \in Expr : a = n.args[1] /\ b = n.args[2] /\ n = Node(n.op, "", <<a, b>>)
  BY DEF IsBinary, Smaller
<1>2. Reads(C, ts, a) /\ Reads(C, ts, b)
  BY <1>1, Zenon
<1>3. PICK t \in BinaryOp : t = n.op
  OBVIOUS
<1>4. PICK q \in {1, 3, 4, 5, 6, 7} : q = Prec(n)
  BY BareBinary, Zenon
<1>5. /\ q \in 0 .. 10 /\ q \in 1 .. 10 /\ q + 1 \in 0 .. 10 /\ q + 1 # 0
      /\ DepthAt(q) \in 1 .. 8 /\ EndDepth(q) \in 1 .. 8
      /\ DepthAt(q) < EndDepth(q) /\ EndDepth(q) <= DepthAt(q + 1)
  BY OperatorDepths, Zenon
<1>6. PICK u \in Seq(Word) : u = Written[a][q]
  BY <1>5, WrittenText, Zenon
<1>7. PICK v \in Seq(Word) : v = Written[b][q + 1]
  BY <1>5, WrittenText, Zenon
<1>8. Len(u) \in Nat \ {0} /\ Len(v) \in Nat \ {0}
  BY <1>5, <1>6, <1>7, WrittenText, Zenon
<1>9. PICK x \in Seq(Word) : x = <<t>> /\ Len(x) = 1 /\ x[1] = t
  <2>1. t \in Word
    BY Words
  <2> QED
    BY <2>1, OneWordText, Zenon
<1>10. Len(x) = 1 /\ x[1] = t
  BY <1>9, Zenon
<1>11. bare = u \o x \o v
  BY <1>1, <1>3, <1>4, <1>6, <1>7, <1>9, BareBinary, Zenon
<1>12. PICK j, o, l : Parts(ts, i, u, x, v, j, o, l)
  <2>1. Joins(ts, i, u, x, v)
    BY <1>11, Zenon DEF Joins
  <2> QED
    BY <1>8, <1>10, <2>1, Between, Zenon
<1>13. ts[j] = t /\ Has(ts, i, u) /\ Has(ts, o, v)
  BY <1>10, <1>12, Zenon DEF Parts
<1>14. /\ j \in 1 .. Len(ts) /\ o \in 1 .. Len(ts) /\ l \in Nat /\ i < j /\ j < l
       /\ j = i + Len(u) /\ o = j + 1 /\ l = o + Len(v) /\ l = i + Len(bare)
  BY <1>11, <1>12, Zenon DEF Parts
<1>15. PICK e \in 1 .. 8 : e = EndDepth(q)
  BY <1>5, Zenon
<1>16. Level(t) = e
  BY <1>3, <1>4, <1>15, LevelIs, Zenon
<1>17. PICK parse : parse = C[k - 1]
  OBVIOUS
<1>18. Reaches(parse, ts, i, d, a, j)
  <2>1. PICK c \in 1 .. 8 : c = DepthAfter(a, q) /\ e <= c
    BY <1>5, <1>15, DepthAfterIs, Zenon
  <2>2. Stops(ts, j, c)
    <3>1. c \in 0 .. 8
      OBVIOUS
    <3>2. ts[j] \in BinaryOp /\ Level(ts[j]) <= c
      BY <1>13, <1>16, <2>1, Zenon
    <3> QED
      BY <3>1, <3>2, StopsAt, Zenon
  <2>3. Has(ts, i, Written[a][q]) /\ Stops(ts, i + Len(Written[a][q]), DepthAfter(a, q))
    BY <1>6, <1>13, <1>14, <2>1, <2>2, Zenon
  <2>4. Len(ts) \in Nat /\ d <= DepthAt(q)
    BY <1>4, Text, Zenon
  <2>5. Reaches(C[k - 1], ts, i, d, a, i + Len(Written[a][q]))
    BY <1>2, <1>5, <2>3, <2>4, LeftComes, Zenon
  <2> QED
    BY <1>6, <1>14, <1>17, <2>5, Zenon
<1>19. l > j /\ o > i
  BY <1>14
<1>20. Gives(parse, o, e, b, l)
  <2>1. ~ BareLambdaAt(b, q + 1)
    BY <1>5, Zenon DEF BareLambdaAt
  <2>2. Stops(ts, o + Len(v), IF BareLambdaAt(b, q + 1) THEN 0 ELSE e)
    BY <1>4, <1>14, <1>15, <2>1, Zenon
  <2>3. e \in 0 .. 8
    OBVIOUS
  <2>4. e <= DepthAt(q + 1)
    BY <1>5, <1>15, Zenon
  <2>5. Operand(ts, b, i, k, o, q + 1, e)
    BY <1>5, <1>7, <1>13, <1>14, <1>19, <2>2, <2>3, <2>4, Zenon DEF Operand
  <2>6. Gives(C[k - 1], o, e, b, o + Len(Written[b][q + 1]))
    BY <1>2, <2>5, OperandRead, Zenon
  <2> QED
    BY <1>7, <1>14, <1>17, <2>6, Zenon
<1>21. Goes(parse, ts, a, j, d, n, l)
  <2>1. a # Error /\ a # Undefined /\ b # Error
    BY NotErroneous
  <2>2. PICK g \in 1 .. 8 : g = DepthAt(q) /\ d <= g /\ g < e
    BY <1>4, <1>5, <1>15, Zenon
  <2>3. d \in 0 .. 7 /\ d < e
    BY <2>2
  <2>4. Gives(parse, j + 1, Level(t), b, l) /\ d < Level(t)
    BY <1>14, <1>16, <1>20, <2>3, Zenon
  <2>5. Goes(parse, ts, a, j, d, Node(t, "", <<a, b>>), l)
    BY <1>13, <1>14, <2>1, <2>3, <2>4, TurnOperator, Zenon
  <2> QED
    BY <1>1, <1>3, <2>5, Zenon
<1>22. Reaches(parse, ts, i, d, n, l)
  <2>1. Len(ts) \in Nat /\ i \in Nat \ {0} /\ j \in Nat /\ j <= Len(ts)
    BY <1>14
  <2> QED
    BY <1>14, <1>18, <1>19, <1>21, <2>1, ReachesNext, Zenon
<1> QED
  BY <1>14, <1>17, <1>22, Zenon

(* A member.                                                               *)
LEMMA MemberComes ==
  ASSUME NEW ts \in Seq(Word), NEW C, NEW n \in Expr, IsBinary(n), n.op = "member",
         Reads(C, ts, n.args[1]), Reads(C, ts, n.args[2]),
         NEW i \in 1 .. Len(ts), NEW k \in 1 .. Len(ts) + 1, k + i > Len(ts) + 1,
         NEW d \in 0 .. 8, d <= DepthAt(Prec(n)),
         NEW bare, bare = Bare(Written, n), Has(ts, i, bare)
  PROVE  Reaches(C[k - 1], ts, i, d, n, i + Len(bare))
<1>1. PICK a \in Expr, b \in Expr :
        a = n.args[1] /\ b = n.args[2] /\ n = Node("member", "", <<a, b>>)
  BY DEF IsBinary, Smaller
<1>2. Reads(C, ts, a) /\ Reads(C, ts, b)
  BY <1>1, Zenon
<1>3. Prec(n) = 9
  BY BareBinary, Zenon
<1>4. 9 \in 0 .. 10 /\ 9 \in 1 .. 10 /\ 10 \in 0 .. 10 /\ 0 \in 0 .. 10
  OBVIOUS
<1>5. PICK u \in Seq(Word) : u = Written[a][9]
  BY <1>4, WrittenText, Zenon
<1>6. PICK v \in Seq(Word) : v = Written[b][10]
  BY <1>4, WrittenText, Zenon
<1>7. Len(u) \in Nat \ {0} /\ Len(v) \in Nat \ {0}
  BY <1>4, <1>5, <1>6, WrittenText, Zenon
<1>8. PICK x \in Seq(Word) : x = <<".">> /\ Len(x) = 1 /\ x[1] = "."
  BY Words, OneWordText
<1>9. Len(x) = 1 /\ x[1] = "."
  BY <1>8, Zenon
<1>10. bare = u \o x \o v
  BY <1>1, <1>5, <1>6, <1>8, BareBinary, Zenon
<1>11. Joins(ts, i, u, x, v)
  BY <1>10, Zenon DEF Joins
<1>12. PICK j, o, l : Parts(ts, i, u, x, v, j, o, l)
  BY <1>7, <1>9, <1>11, Between, Zenon
<1>13. ts[j] = "." /\ Has(ts, i, u) /\ Has(ts, o, v)
  BY <1>9, <1>12, Zenon DEF Parts
<1>14. /\ j \in 1 .. Len(ts) /\ o \in 1 .. Len(ts) /\ l \in Nat /\ i < j /\ j < l
       /\ j = i + Len(u) /\ o = j + 1 /\ l = o + Len(v) /\ l = i + Len(bare)
  BY <1>10, <1>12, Zenon DEF Parts
<1>15. PICK parse : parse = C[k - 1]
  OBVIOUS
<1>16. d <= 7 /\ DepthAt(9) = 7 /\ EndDepth(9) = 8
  BY <1>3, Depths
<1>17. Reaches(parse, ts, i, d, a, j)
  <2>1. DepthAfter(a, 9) = 8
    BY DepthAfterNine, Zenon
  <2>2. 8 \in 0 .. 8
    OBVIOUS
  <2>3. Stops(ts, j, 8)
    BY <2>2, StopsAt, Zenon
  <2>4. Has(ts, i, Written[a][9]) /\ Stops(ts, i + Len(Written[a][9]), DepthAfter(a, 9))
    BY <1>5, <1>13, <1>14, <2>1, <2>3, Zenon
  <2>5. Len(ts) \in Nat /\ d <= DepthAt(9)
    BY <1>3, Text, Zenon
  <2>6. Reaches(C[k - 1], ts, i, d, a, i + Len(Written[a][9]))
    BY <1>2, <1>4, <2>4, <2>5, LeftComes, Zenon
  <2> QED
    BY <1>5, <1>14, <1>15, <2>6, Zenon
<1>18. o > i /\ d \in 0 .. 7
  <2>1. j \in 1 .. Len(ts) /\ i < j /\ o = j + 1
    BY <1>14, Zenon
  <2> QED
    BY <1>16, <2>1
<1>19. Gives(parse, o, 8, b, l)
  <2>1. ~ BareLambdaAt(b, 10) /\ 8 <= DepthAt(10) /\ 8 \in 0 .. 8
    BY Depths DEF BareLambdaAt
  <2>2. Stops(ts, o + Len(v), 8)
    BY <2>1, StopsAt, Zenon
  <2>3. Operand(ts, b, i, k, o, 10, 8)
    BY <1>4, <1>6, <1>13, <1>14, <1>18, <2>1, <2>2, Zenon DEF Operand
  <2>4. Gives(C[k - 1], o, 8, b, o + Len(Written[b][10]))
    BY <1>2, <2>3, OperandRead, Zenon
  <2> QED
    BY <1>6, <1>14, <1>15, <2>4, Zenon
<1>20. Goes(parse, ts, a, j, d, n, l)
  <2>1. a # Error /\ a # Undefined /\ b # Error
    BY NotErroneous
  <2>2. Gives(parse, j + 1, 8, b, l)
    BY <1>14, <1>19, Zenon
  <2>3. Goes(parse, ts, a, j, d, Node("member", "", <<a, b>>), l)
    BY <1>13, <1>14, <1>18, <2>1, <2>2, TurnMember, Zenon
  <2> QED
    BY <1>1, <2>3, Zenon
<1>21. Reaches(parse, ts, i, d, n, l)
  <2>1. Len(ts) \in Nat /\ i \in Nat \ {0} /\ j \in Nat /\ j <= Len(ts) /\ l > j
    BY <1>14
  <2> QED
    BY <1>14, <1>17, <1>20, <2>1, ReachesNext, Zenon
<1> QED
  BY <1>14, <1>15, <1>21, Zenon

(* A call of a function.                                                   *)
LEMMA CallComes ==
  ASSUME NEW ts \in Seq(Word), NEW C, NEW n \in Expr, IsBinary(n), n.op = "call",
         Reads(C, ts, n.args[1]), Reads(C, ts, n.args[2]),
         NEW i \in 1 .. Len(ts), NEW k \in 1 .. Len(ts) + 1, k + i > Len(ts) + 1,
         NEW d \in 0 .. 8, d <= DepthAt(Prec(n)),
         NEW bare, bare = Bare(Written, n), Has(ts, i, bare)
  PROVE  Reaches(C[k - 1], ts, i, d, n, i + Len(bare))
<1>1. PICK a \in Expr, b \in Expr :
        a = n.args[1] /\ b = n.args[2] /\ n = Node("call", "", <<a, b>>)
  BY DEF IsBinary, Smaller
<1>2. Reads(C, ts, a) /\ Reads(C, ts, b)
  BY <1>1, Zenon
<1>3. Prec(n) = 9
  BY BareBinary, Zenon
<1>4. 9 \in 0 .. 10 /\ 9 \in 1 .. 10 /\ 10 \in 0 .. 10 /\ 0 \in 0 .. 10
  OBVIOUS
<1>5. PICK u \in Seq(Word) : u = Written[a][9]
  BY <1>4, WrittenText, Zenon
<1>6. PICK v \in Seq(Word) : v = Written[b][0]
  BY <1>4, WrittenText, Zenon
<1>7. Len(u) \in Nat \ {0} /\ Len(v) \in Nat \ {0}
  BY <1>4, <1>5, <1>6, WrittenText, Zenon
<1>8. PICK x \in Seq(Word) : x = <<"(">> /\ Len(x) = 1 /\ x[1] = "("
  BY Words, OneWordText
<1>9. Len(x) = 1 /\ x[1] = "("
  BY <1>8, Zenon
<1>10. PICK z \in Seq(Word) : z = <<")">> /\ Len(z) = 1 /\ z[1] = ")"
  BY Words, OneWordText
<1>11. Len(z) = 1 /\ z[1] = ")"
  BY <1>10, Zenon
<1>12. bare = u \o x \o v \o z
  BY <1>1, <1>5, <1>6, <1>8, <1>10, BareBinary, Zenon
<1>22. PICK j, o, l : Inside(ts, i, u, x, v, z, j, o, l)
  <2>1. Encloses(ts, i, u, x, v, z)
    BY <1>12, Zenon DEF Encloses
  <2> QED
    BY <1>7, <1>9, <1>11, <2>1, Enclosed, Zenon
<1>13. ts[j] = "(" /\ Has(ts, i, u) /\ Has(ts, o, v) /\ ts[l] = ")"
  BY <1>9, <1>11, <1>22, Zenon DEF Parts, Inside
<1>14. /\ j \in 1 .. Len(ts) /\ o \in 1 .. Len(ts) /\ l \in 1 .. Len(ts) /\ i < j /\ j < l
       /\ j = i + Len(u) /\ o = j + 1 /\ l = o + Len(v) /\ l + 1 = i + Len(bare)
  BY <1>12, <1>22, Zenon DEF Parts, Inside
<1>15. PICK parse : parse = C[k - 1]
  OBVIOUS
<1>16. d <= 7 /\ DepthAt(9) = 7 /\ EndDepth(9) = 8
  BY <1>3, Depths
<1>17. Reaches(parse, ts, i, d, a, j)
  <2>1. DepthAfter(a, 9) = 8
    BY DepthAfterNine, Zenon
  <2>2. 8 \in 0 .. 8
    OBVIOUS
  <2>3. Stops(ts, j, 8)
    BY <2>2, StopsAt, Zenon
  <2>4. Has(ts, i, Written[a][9]) /\ Stops(ts, i + Len(Written[a][9]), DepthAfter(a, 9))
    BY <1>5, <1>13, <1>14, <2>1, <2>3, Zenon
  <2>5. Len(ts) \in Nat /\ d <= DepthAt(9)
    BY <1>3, Text, Zenon
  <2>6. Reaches(C[k - 1], ts, i, d, a, i + Len(Written[a][9]))
    BY <1>2, <1>4, <2>4, <2>5, LeftComes, Zenon
  <2> QED
    BY <1>5, <1>14, <1>15, <2>6, Zenon
<1>18. o > i /\ d \in 0 .. 7
  <2>1. j \in 1 .. Len(ts) /\ i < j /\ o = j + 1
    BY <1>14, Zenon
  <2> QED
    BY <1>16, <2>1
<1>19. Gives(parse, o, 1, b, l)
  <2>1. 1 <= DepthAt(0) /\ 1 \in 0 .. 8 /\ 0 \in 0 .. 8
    BY Depths
  <2>2. Stops(ts, l, 0) /\ Stops(ts, l, 1)
    <3>1. ts[l] \in {")", "]", ":"}
      BY <1>13
    <3> QED
      BY <2>1, <3>1, StopsAt, Zenon
  <2>3. Stops(ts, o + Len(v), IF BareLambdaAt(b, 0) THEN 0 ELSE 1)
    BY <1>14, <2>2, Zenon
  <2>4. Operand(ts, b, i, k, o, 0, 1)
    BY <1>4, <1>6, <1>13, <1>14, <1>18, <2>1, <2>3, Zenon DEF Operand
  <2>5. Gives(C[k - 1], o, 1, b, o + Len(Written[b][0]))
    BY <1>2, <2>4, OperandRead, Zenon
  <2> QED
    BY <1>6, <1>14, <1>15, <2>5, Zenon
<1>20. Goes(parse, ts, a, j, d, n, l + 1)
  <2>1. a # Error /\ a # Undefined /\ b # Error
    BY NotErroneous
  <2>2. Gives(parse, j + 1, 1, b, l)
    BY <1>14, <1>19, Zenon
  <2>5. j + 1 <= Len(ts) /\ ts[j + 1] # ")"
    <3>1. ts[o] = v[1] /\ o \in Nat \ {0}
      <4>1. o \in Nat \ {0}
        BY <1>14
      <4> QED
        BY <1>7, <1>13, <4>1, HasFirst, Zenon
    <3>2. v[1] # ")"
      BY <1>4, <1>6, AllWellWritten DEF WellWritten, Opens
    <3> QED
      BY <1>14, <3>1, <3>2
  <2>3. Goes(parse, ts, a, j, d, Node("call", "", <<a, b>>), l + 1)
    BY <1>13, <1>14, <1>18, <2>1, <2>2, <2>5, TurnCall, Zenon
  <2> QED
    BY <1>1, <2>3, Zenon
<1>21. Reaches(parse, ts, i, d, n, l + 1)
  <2>1. /\ Len(ts) \in Nat /\ i \in Nat \ {0} /\ j \in Nat /\ j <= Len(ts)
        /\ l + 1 \in Nat /\ l + 1 > j
    <3>1. j \in 1 .. Len(ts) /\ l \in 1 .. Len(ts) /\ j < l
      BY <1>14, Zenon
    <3> QED
      BY <3>1
  <2> QED
    BY <1>17, <1>20, <2>1, ReachesNext, Zenon
<1> QED
  BY <1>14, <1>15, <1>21, Zenon

(* A subscript.                                                            *)
LEMMA SubscriptComes ==
  ASSUME NEW ts \in Seq(Word), NEW C, NEW n \in Expr, IsBinary(n), n.op = "subscript",
         Reads(C, ts, n.args[1]), Reads(C, ts, n.args[2]),
         NEW i \in 1 .. Len(ts), NEW k \in 1 .. Len(ts) + 1, k + i > Len(ts) + 1,
         NEW d \in 0 .. 8, d <= DepthAt(Prec(n)),
         NEW bare, bare = Bare(Written, n), Has(ts, i, bare)
  PROVE  Reaches(C[k - 1], ts, i, d, n, i + Len(bare))
<1>1. PICK a \in Expr, b \in Expr :
        a = n.args[1] /\ b = n.args[2] /\ n = Node("subscript", "", <<a, b>>)
  BY DEF IsBinary, Smaller
<1>2. Reads(C, ts, a) /\ Reads(C, ts, b)
  BY <1>1, Zenon
<1>3. Prec(n) = 9
  BY BareBinary, Zenon
<1>4. 9 \in 0 .. 10 /\ 9 \in 1 .. 10 /\ 10 \in 0 .. 10 /\ 0 \in 0 .. 10
  OBVIOUS
<1>5. PICK u \in Seq(Word) : u = Written[a][9]
  BY <1>4, WrittenText, Zenon
<1>6. PICK v \in Seq(Word) : v = Written[b][0]
  BY <1>4, WrittenText, Zenon
<1>7. Len(u) \in Nat \ {0} /\ Len(v) \in Nat \ {0}
  BY <1>4, <1>5, <1>6, WrittenText, Zenon
<1>8. PICK x \in Seq(Word) : x = <<"[">> /\ Len(x) = 1 /\ x[1] = "["
  BY Words, OneWordText
<1>9. Len(x) = 1 /\ x[1] = "["
  BY <1>8, Zenon
<1>10. PICK z \in Seq(Word) : z = <<"]">> /\ Len(z) = 1 /\ z[1] = "]"
  BY Words, OneWordText
<1>11. Len(z) = 1 /\ z[1] = "]"
  BY <1>10, Zenon
<1>12. bare = u \o x \o v \o z
  BY <1>1, <1>5, <1>6, <1>8, <1>10, BareBinary, Zenon
<1>22. PICK j, o, l : Inside(ts, i, u, x, v, z, j, o, l)
  <2>1. Encloses(ts, i, u, x, v, z)
    BY <1>12, Zenon DEF Encloses
  <2> QED
    BY <1>7, <1>9, <1>11, <2>1, Enclosed, Zenon
<1>13. ts[j] = "[" /\ Has(ts, i, u) /\ Has(ts, o, v) /\ ts[l] = "]"
  BY <1>9, <1>11, <1>22, Zenon DEF Parts, Inside
<1>14. /\ j \in 1 .. Len(ts) /\ o \in 1 .. Len(ts) /\ l \in 1 .. Len(ts) /\ i < j /\ j < l
       /\ j = i + Len(u) /\ o = j + 1 /\ l = o + Len(v) /\ l + 1 = i + Len(bare)
  BY <1>12, <1>22, Zenon DEF Parts, Inside
<1>15. PICK parse : parse = C[k - 1]
  OBVIOUS
<1>16. d <= 7 /\ DepthAt(9) = 7 /\ EndDepth(9) = 8
  BY <1>3, Depths
<1>17. Reaches(parse, ts, i, d, a, j)
  <2>1. DepthAfter(a, 9) = 8
    BY DepthAfterNine, Zenon
  <2>2. 8 \in 0 .. 8
    OBVIOUS
  <2>3. Stops(ts, j, 8)
    BY <2>2, StopsAt, Zenon
  <2>4. Has(ts, i, Written[a][9]) /\ Stops(ts, i + Len(Written[a][9]), DepthAfter(a, 9))
    BY <1>5, <1>13, <1>14, <2>1, <2>3, Zenon
  <2>5. Len(ts) \in Nat /\ d <= DepthAt(9)
    BY <1>3, Text, Zenon
  <2>6. Reaches(C[k - 1], ts, i, d, a, i + Len(Written[a][9]))
    BY <1>2, <1>4, <2>4, <2>5, LeftComes, Zenon
  <2> QED
    BY <1>5, <1>14, <1>15, <2>6, Zenon
<1>18. o > i /\ d \in 0 .. 7
  <2>1. j \in 1 .. Len(ts) /\ i < j /\ o = j + 1
    BY <1>14, Zenon
  <2> QED
    BY <1>16, <2>1
<1>19. Gives(parse, o, 1, b, l)
  <2>1. 1 <= DepthAt(0) /\ 1 \in 0 .. 8 /\ 0 \in 0 .. 8
    BY Depths
  <2>2. Stops(ts, l, 0) /\ Stops(ts, l, 1)
    <3>1. ts[l] \in {")", "]", ":"}
      BY <1>13
    <3> QED
      BY <2>1, <3>1, StopsAt, Zenon
  <2>3. Stops(ts, o + Len(v), IF BareLambdaAt(b, 0) THEN 0 ELSE 1)
    BY <1>14, <2>2, Zenon
  <2>4. Operand(ts, b, i, k, o, 0, 1)
    BY <1>4, <1>6, <1>13, <1>14, <1>18, <2>1, <2>3, Zenon DEF Operand
  <2>5. Gives(C[k - 1], o, 1, b, o + Len(Written[b][0]))
    BY <1>2, <2>4, OperandRead, Zenon
  <2> QED
    BY <1>6, <1>14, <1>15, <2>5, Zenon
<1>20. Goes(parse, ts, a, j, d, n, l + 1)
  <2>1. a # Error /\ a # Undefined /\ b # Error
    BY NotErroneous
  <2>2. Gives(parse, j + 1, 1, b, l)
    BY <1>14, <1>19, Zenon
  <2>3. Goes(parse, ts, a, j, d, Node("subscript", "", <<a, b>>), l + 1)
    BY <1>13, <1>14, <1>18, <2>1, <2>2, TurnSubscript, Zenon
  <2> QED
    BY <1>1, <2>3, Zenon
<1>21. Reaches(parse, ts, i, d, n, l + 1)
  <2>1. /\ Len(ts) \in Nat /\ i \in Nat \ {0} /\ j \in Nat /\ j <= Len(ts)
        /\ l + 1 \in Nat /\ l + 1 > j
    <3>1. j \in 1 .. Len(ts) /\ l \in 1 .. Len(ts) /\ j < l
      BY <1>14, Zenon
    <3> QED
      BY <3>1
  <2> QED
    BY <1>17, <1>20, <2>1, ReachesNext, Zenon
<1> QED
  BY <1>14, <1>15, <1>21, Zenon

(* A ternary.                                                              *)
LEMMA TernaryComes ==
  ASSUME NEW ts \in Seq(Word), NEW C, NEW n \in Expr, IsTernary(n),
         Reads(C, ts, n.args[1]), Reads(C, ts, n.args[2]), Reads(C, ts, n.args[3]),
         NEW i \in 1 .. Len(ts), NEW k \in 1 .. Len(ts) + 1, k + i > Len(ts) + 1,
         NEW d \in 0 .. 8, d <= DepthAt(Prec(n)),
         NEW bare, bare = Bare(Written, n), Has(ts, i, bare),
         Stops(ts, i + Len(bare), EndDepth(Prec(n)))
  PROVE  Reaches(C[k - 1], ts, i, d, n, i + Len(bare))
<1>1. PICK a \in Expr, b \in Expr, c \in Expr :
        a = n.args[1] /\ b = n.args[2] /\ c = n.args[3] /\ n = Node("ternary", "", <<a, b, c>>)
  BY DEF IsTernary, Smaller
<1>2. Reads(C, ts, a) /\ Reads(C, ts, b) /\ Reads(C, ts, c)
  BY <1>1, Zenon
<1>3. Prec(n) = 2
  BY BareTernary, Zenon
<1>4. 2 \in 0 .. 10 /\ 2 \in 1 .. 10 /\ 4 \in 0 .. 10 /\ 3 \in 0 .. 8
  OBVIOUS
<1>5. PICK u \in Seq(Word) : u = Written[a][2]
  BY <1>4, WrittenText, Zenon
<1>6. PICK v \in Seq(Word) : v = Written[b][4]
  BY <1>4, WrittenText, Zenon
<1>7. PICK w \in Seq(Word) : w = Written[c][4]
  BY <1>4, WrittenText, Zenon
<1>8. Len(u) \in Nat \ {0} /\ Len(v) \in Nat \ {0} /\ Len(w) \in Nat \ {0}
  BY <1>4, <1>5, <1>6, <1>7, WrittenText, Zenon
<1>9. PICK x \in Seq(Word) : x = <<"?">> /\ Len(x) = 1 /\ x[1] = "?"
  BY Words, OneWordText
<1>10. PICK z \in Seq(Word) : z = <<":">> /\ Len(z) = 1 /\ z[1] = ":"
  BY Words, OneWordText
<1>11. Len(x) = 1 /\ x[1] = "?" /\ Len(z) = 1 /\ z[1] = ":"
  BY <1>9, <1>10, Zenon
<1>12. bare = u \o x \o v \o z \o w
  BY <1>1, <1>5, <1>6, <1>7, <1>9, <1>10, BareTernary, Zenon
<1>13. PICK j, o, l, m, e : Choice(ts, i, u, x, v, z, w, j, o, l, m, e)
  <2>1. Chooses(ts, i, u, x, v, z, w)
    BY <1>12, Zenon DEF Chooses
  <2> QED
    BY <1>8, <1>11, <2>1, Chosen, Zenon
<1>14. /\ ts[j] = "?" /\ Has(ts, i, u) /\ Has(ts, o, v) /\ ts[l] = ":" /\ Has(ts, m, w)
  BY <1>11, <1>13, Zenon DEF Parts, Inside, Choice
<1>15. /\ j \in 1 .. Len(ts) /\ o \in 1 .. Len(ts) /\ l \in 1 .. Len(ts) /\ i < j /\ j < l
       /\ j = i + Len(u) /\ o = j + 1 /\ l = o + Len(v) /\ m = l + 1 /\ m \in 1 .. Len(ts)
       /\ e = m + Len(w) /\ e = i + Len(bare) /\ e \in Nat /\ m < e
  BY <1>12, <1>13, Zenon DEF Parts, Inside, Choice
<1>16. o > i /\ m > i /\ e > j
  <2>1. j \in 1 .. Len(ts) /\ i < j /\ o = j + 1
    BY <1>15, Zenon
  <2>2. l \in 1 .. Len(ts) /\ j < l /\ m = l + 1
    BY <1>15, Zenon
  <2>3. m < e /\ e \in Nat
    BY <1>15, Zenon
  <2>4. o > i
    BY <2>1
  <2>5. m > i /\ m > j
    BY <2>1, <2>2
  <2>6. e > j
    BY <2>1, <2>2, <2>3
  <2> QED
    BY <2>4, <2>5, <2>6
<1>17. PICK parse : parse = C[k - 1]
  OBVIOUS
<1>18. d <= 2 /\ DepthAt(2) = 2 /\ DepthAt(4) = 3 /\ EndDepth(2) = 3
  BY <1>3, Depths
<1>19. d \in 0 .. 2
  BY <1>18
<1>20. Reaches(parse, ts, i, d, a, j)
  <2>1. PICK g \in 1 .. 8 : g = DepthAfter(a, 2) /\ 3 <= g
    BY <1>4, <1>18, DepthAfterIs, Zenon
  <2>2. g \in 0 .. 8 /\ g >= 3
    BY <2>1
  <2>3. Stops(ts, j, g)
    BY <1>14, <2>2, StopsAt, Zenon
  <2>4. Has(ts, i, Written[a][2]) /\ Stops(ts, i + Len(Written[a][2]), DepthAfter(a, 2))
    BY <1>5, <1>14, <1>15, <2>1, <2>3, Zenon
  <2>5. Len(ts) \in Nat /\ d <= DepthAt(2)
    BY <1>3, Text, Zenon
  <2>6. Reaches(C[k - 1], ts, i, d, a, i + Len(Written[a][2]))
    BY <1>2, <1>4, <2>4, <2>5, LeftComes, Zenon
  <2> QED
    BY <1>5, <1>15, <1>17, <2>6, Zenon
<1>21. ~ BareLambdaAt(b, 4) /\ ~ BareLambdaAt(c, 4) /\ 3 <= DepthAt(4)
  BY <1>18 DEF BareLambdaAt
<1>22. Gives(parse, o, 3, b, l)
  <2>1. Stops(ts, l, 3)
    <3>1. ts[l] \in {")", "]", ":"}
      BY <1>14
    <3> QED
      BY <1>4, <3>1, StopsAt, Zenon
  <2>2. Stops(ts, o + Len(v), IF BareLambdaAt(b, 4) THEN 0 ELSE 3)
    BY <1>15, <1>21, <2>1, Zenon
  <2>3. Operand(ts, b, i, k, o, 4, 3)
    BY <1>4, <1>6, <1>14, <1>15, <1>16, <1>21, <2>2, Zenon DEF Operand
  <2>4. Gives(C[k - 1], o, 3, b, o + Len(Written[b][4]))
    BY <1>2, <2>3, OperandRead, Zenon
  <2> QED
    BY <1>6, <1>15, <1>17, <2>4, Zenon
<1>23. Gives(parse, m, 3, c, e)
  <2>1. Stops(ts, m + Len(w), IF BareLambdaAt(c, 4) THEN 0 ELSE 3)
    BY <1>3, <1>15, <1>18, <1>21, Zenon
  <2>2. Operand(ts, c, i, k, m, 4, 3)
    BY <1>4, <1>7, <1>14, <1>15, <1>16, <1>21, <2>1, Zenon DEF Operand
  <2>3. Gives(C[k - 1], m, 3, c, m + Len(Written[c][4]))
    BY <1>2, <2>2, OperandRead, Zenon
  <2> QED
    BY <1>7, <1>15, <1>17, <2>3, Zenon
<1>24. Goes(parse, ts, a, j, d, n, e)
  <2>1. a # Error /\ a # Undefined /\ b # Error /\ c # Error
    BY NotErroneous
  <2>2. Gives(parse, j + 1, 3, b, l) /\ Gives(parse, l + 1, 3, c, e)
    BY <1>15, <1>22, <1>23, Zenon
  <2>3. Goes(parse, ts, a, j, d, Node("ternary", "", <<a, b, c>>), e)
    BY <1>14, <1>15, <1>19, <2>1, <2>2, TurnTernary, Zenon
  <2> QED
    BY <1>1, <2>3, Zenon
<1>25. Reaches(parse, ts, i, d, n, e)
  <2>1. Len(ts) \in Nat /\ i \in Nat \ {0} /\ j \in Nat /\ j <= Len(ts)
    <3>1. j \in 1 .. Len(ts)
      BY <1>15, Zenon
    <3> QED
      BY <3>1
  <2> QED
    BY <1>15, <1>16, <1>20, <1>24, <2>1, ReachesNext, Zenon
<1> QED
  BY <1>15, <1>17, <1>25, Zenon

(* Where the parameter m of the r parameters of n is read.                 *)
ParamAt(ts, at, n, r, m) ==
  /\ Token(ts, at + 2 * m) = n.args[m + 1].name
  /\ Token(ts, at + 2 * m + 1) = IF m = r - 1 THEN ":" ELSE ","
  /\ at + 2 * m + 1 <= Len(ts)

(* They are read there.                                                    *)
LEMMA ParamsThere ==
  ASSUME NEW ts \in Seq(Word), NEW at \in Nat \ {0}, NEW n, IsLambda(n), Has(ts, at, Params(n)),
         NEW r \in Nat \ {0}, r = Len(n.args) - 1, NEW m \in 0 .. r - 1
  PROVE  ParamAt(ts, at, n, r, m)
<1>1. PICK w : w = Params(n)
  OBVIOUS
<1>2. /\ Len(w) = 2 * r
      /\ \A l \in 1 .. r : w[2 * l - 1] = n.args[l].name /\ w[2 * l] = IF l = r THEN ":" ELSE ","
  BY <1>1, ParamsAre
<1>3. \A l \in 1 .. Len(w) : at + l - 1 <= Len(ts) /\ ts[at + l - 1] = w[l]
  BY <1>1, Zenon DEF Has
<1>4. PICK l \in 1 .. r : l = m + 1
  OBVIOUS
<1>5. PICK g \in 1 .. 2 * r, h \in 1 .. 2 * r : g = 2 * l - 1 /\ h = 2 * l
  OBVIOUS
<1>6. w[g] = n.args[l].name /\ w[h] = IF l = r THEN ":" ELSE ","
  BY <1>2, <1>5
<1>7. /\ at + g - 1 <= Len(ts) /\ ts[at + g - 1] = w[g]
      /\ at + h - 1 <= Len(ts) /\ ts[at + h - 1] = w[h]
  BY <1>2, <1>3
<1>8. PICK e \in 1 .. Len(ts), f \in 1 .. Len(ts) :
        e = at + g - 1 /\ f = at + h - 1 /\ e = at + 2 * m /\ f = at + 2 * m + 1
  BY <1>4, <1>5, <1>7
<1>9. Token(ts, e) = w[g] /\ Token(ts, f) = w[h]
  BY <1>7, <1>8, Text DEF Token
<1>10. l = r <=> m = r - 1
  BY <1>4
<1>11. Token(ts, at + 2 * m) = n.args[m + 1].name
  BY <1>4, <1>6, <1>8, <1>9, Zenon
<1>12. Token(ts, at + 2 * m + 1) = IF m = r - 1 THEN ":" ELSE ","
  BY <1>6, <1>8, <1>9, <1>10, Zenon
<1>13. at + 2 * m + 1 <= Len(ts)
  BY <1>8
<1> QED
  BY <1>11, <1>12, <1>13, Zenon DEF ParamAt

(* Parameters end at the last, which no comma follows.                     *)
LEMMA LastIs ==
  ASSUME NEW ts, Len(ts) \in Nat, NEW at \in Nat, NEW r \in Nat \ {0}, r - 1 <= Len(ts),
         \A m \in 0 .. r - 1 : More(ts, at, m) <=> m # r - 1
  PROVE  LastParam(ts, at) = r - 1
<1> DEFINE Ok(m) == ~ More(ts, at, m) /\ \A l \in 0 .. m - 1 : More(ts, at, l)
<1>1. PICK e \in 0 .. Len(ts) : e = r - 1
  OBVIOUS
<1>2. \A m \in 0 .. e : More(ts, at, m) <=> m # e
  BY <1>1
<1>3. Ok(e)
  BY <1>2
<1>4. ASSUME NEW m \in 0 .. Len(ts), Ok(m)
      PROVE  m = e
  <2>1. CASE m < e
    BY <1>2, <1>4, <2>1
  <2>2. CASE e < m
    <3>1. e \in 0 .. m - 1
      BY <2>2
    <3> QED
      BY <1>2, <1>4, <3>1
  <2> QED
    BY <2>1, <2>2
<1>5. LastParam(ts, at) = CHOOSE m \in 0 .. Len(ts) : Ok(m)
  BY DEF LastParam
<1> HIDE DEF Ok
<1>6. LastParam(ts, at) = e
  BY <1>3, <1>4, <1>5
<1> QED
  BY <1>1, <1>6

(* How many there are.                                                     *)
LEMMA ParamCount ==
  ASSUME NEW n, IsLambda(n)
  PROVE  \E r \in Nat \ {0} : r = Len(n.args) - 1 /\ r + 1 = Len(n.args)
<1>1. PICK a \in Seq(Expr) : a = n.args /\ Len(a) > 1
  BY DEF IsLambda
<1> QED
  BY <1>1

(* A lambda, which its call returns at once.                               *)
LEMMA LambdaRead ==
  ASSUME NEW ts \in Seq(Word), NEW C, Calling(C, ts), NEW n \in Expr, IsLambda(n),
         Reads(C, ts, n.args[Len(n.args)]),
         NEW i \in 1 .. Len(ts), NEW k \in 1 .. Len(ts) + 1, k + i > Len(ts) + 1, NEW d \in 0 .. 8,
         NEW bare, bare = Bare(Written, n), Has(ts, i, bare), Stops(ts, i + Len(bare), 0)
  PROVE  Gives(C[k], i, d, n, i + Len(bare))
<1>1. PICK r \in Nat \ {0} : r = Len(n.args) - 1 /\ r + 1 = Len(n.args)
  BY ParamCount, Zenon
<1>2. PICK b \in Expr : b = n.args[r + 1] /\ b = n.args[Len(n.args)]
  BY <1>1 DEF IsLambda, Smaller
<1>3. Reads(C, ts, b)
  BY <1>2, Zenon
<1>4. 0 \in 0 .. 10 /\ 0 \in 0 .. 8
  OBVIOUS
<1>5. PICK v \in Seq(Word) : v = Written[b][0]
  BY <1>4, WrittenText, Zenon
<1>6. Len(v) \in Nat \ {0}
  BY <1>4, <1>5, WrittenText, Zenon
<1>7. PICK x \in Seq(Word) : x = <<"lambda">> /\ Len(x) = 1 /\ x[1] = "lambda"
  BY Words, OneWordText
<1>8. Len(x) = 1 /\ x[1] = "lambda"
  BY <1>7, Zenon
<1>9. PICK w \in Seq(Word) : w = Params(n) /\ Len(w) = 2 * r
  BY <1>1, ParamsAre
<1>10. Len(w) = 2 * r
  BY <1>9, Zenon
<1>11. bare = x \o w \o v
  BY <1>2, <1>5, <1>7, <1>9, BareLambda, Zenon
<1>12. Len(ts) \in Nat /\ DOMAIN ts = 1 .. Len(ts) /\ i \in Nat \ {0}
  BY Text
<1>13. x \o w \in Seq(Word) /\ Len(x \o w) = Len(x) + Len(w)
  BY Joined, Zenon
<1>14. Has(ts, i, x \o w) /\ Has(ts, i + Len(x \o w), v)
  <2>1. Has(ts, i, x \o w \o v)
    BY <1>11, Zenon
  <2> QED
    BY <1>12, <1>13, <2>1, HasBoth, Zenon
<1>15. Has(ts, i, x) /\ Has(ts, i + Len(x), w)
  BY <1>12, <1>14, HasBoth, Zenon
<1>16. ts[i] = "lambda"
  BY <1>8, <1>12, <1>15, HasOne
<1>17. PICK at \in Nat \ {0} : at = i + 1 /\ at = i + Len(x)
  BY <1>8
<1>18. Has(ts, at, Params(n))
  BY <1>9, <1>15, <1>17, Zenon
<1>19. PICK p : p = Len(x \o w)
  OBVIOUS
<1>20. PICK o \in Nat \ {0} : o = i + p /\ o = at + 2 * (r - 1) + 2
  BY <1>8, <1>10, <1>13, <1>17, <1>19
<1>21. Has(ts, o, v)
  BY <1>14, <1>19, <1>20, Zenon
<1>22. o <= Len(ts)
  BY <1>6, <1>21, HasFirst, Zenon
<1>23. o \in 1 .. Len(ts)
  BY <1>12, <1>22
<1>24. i + Len(bare) = o + Len(v)
  <2>1. Len(x \o w \o v) = Len(x \o w) + Len(v)
    BY <1>13, Joined, Zenon
  <2>2. Len(bare) = p + Len(v)
    BY <1>11, <1>19, <2>1, Zenon
  <2>3. p \in Nat
    BY <1>8, <1>10, <1>13, <1>19
  <2> QED
    BY <1>20, <2>2, <2>3
<1>25. PICK parse : parse = C[k - 1]
  OBVIOUS
<1>26. Gives(parse, o, 0, b, i + Len(bare))
  <2>1. Stops(ts, o + Len(Written[b][0]), IF BareLambdaAt(b, 0) THEN 0 ELSE 0)
    BY <1>5, <1>24, Zenon
  <2>2. 0 <= DepthAt(0)
    BY Depths
  <2>3. o > i
    BY <1>17, <1>20
  <2>4. Operand(ts, b, i, k, o, 0, 0)
    BY <1>4, <1>5, <1>21, <1>23, <2>1, <2>2, <2>3, Zenon DEF Operand
  <2>5. Gives(C[k - 1], o, 0, b, o + Len(Written[b][0]))
    BY <1>3, <2>4, OperandRead, Zenon
  <2> QED
    BY <1>5, <1>24, <1>25, <2>5, Zenon
<1>27. LastParam(ts, at) = r - 1
  <2>1. r - 1 <= Len(ts)
    BY <1>20, <1>22
  <2>2. ASSUME NEW m \in 0 .. r - 1
        PROVE  More(ts, at, m) <=> m # r - 1
    <3>1. ParamAt(ts, at, n, r, m)
      BY <1>1, <1>18, ParamsThere, Zenon
    <3>2. n.args[m + 1].name \in Ident
      <4>1. m + 1 \in 1 .. Len(n.args) - 1
        BY <1>1
      <4> QED
        BY <4>1 DEF IsLambda
    <3> QED
      BY <3>1, <3>2, Zenon DEF More, ParamAt
  <2> QED
    BY <1>12, <2>1, <2>2, LastIs
<1>28. Token(ts, at + 2 * (r - 1)) \in Ident /\ Token(ts, at + 2 * (r - 1) + 1) = ":"
  <2>1. PICK m \in 0 .. r - 1 : m = r - 1
    OBVIOUS
  <2>2. ParamAt(ts, at, n, r, m)
    BY <1>1, <1>18, ParamsThere, Zenon
  <2>3. n.args[m + 1].name \in Ident
    <3>1. m + 1 \in 1 .. Len(n.args) - 1
      BY <1>1
    <3> QED
      BY <3>1 DEF IsLambda
  <2> QED
    BY <2>1, <2>2, <2>3, Zenon DEF ParamAt
<1>29. Append([l \in 1 .. r |-> Accepted(ts[at + 2 * l - 2])], b) = n.args
  <2>1. ASSUME NEW l \in 1 .. r
        PROVE  Accepted(ts[at + 2 * l - 2]) = n.args[l]
    <3>1. PICK m \in 0 .. r - 1 : m = l - 1
      OBVIOUS
    <3>6. ParamAt(ts, at, n, r, m)
      BY <1>1, <1>18, ParamsThere, Zenon
    <3>2. Token(ts, at + 2 * m) = n.args[m + 1].name /\ at + 2 * m + 1 <= Len(ts)
      BY <3>6, Zenon DEF ParamAt
    <3>3. at + 2 * m = at + 2 * l - 2 /\ at + 2 * m \in 1 .. Len(ts) /\ m + 1 = l
      BY <3>1, <3>2
    <3>4. ts[at + 2 * l - 2] = n.args[l].name
      BY <1>12, <3>2, <3>3, Zenon DEF Token
    <3>5. n.args[l] = Accepted(n.args[l].name)
      <4>1. l \in 1 .. Len(n.args) - 1
        BY <1>1
      <4> QED
        BY <4>1, Zenon DEF IsLambda
    <3> QED
      BY <3>4, <3>5, Zenon
  <2>2. PICK a \in Seq(Expr) : a = n.args /\ Len(a) = r + 1
    BY <1>1 DEF IsLambda
  <2>3. [l \in 1 .. r |-> Accepted(ts[at + 2 * l - 2])] = [l \in 1 .. r |-> a[l]]
    BY <2>1, <2>2
  <2>4. Append([l \in 1 .. r |-> a[l]], a[r + 1]) = a
    BY <2>2
  <2> QED
    BY <1>2, <2>2, <2>3, <2>4, Zenon
<1>30. Join("lambda", "", n.args) = n
  <2>1. n.args \in Seq(Expr) /\ n = Node("lambda", "", n.args)
    BY DEF IsLambda
  <2>2. Error \notin Range(n.args)
    BY <2>1, NoneErroneous, Zenon
  <2> QED
    BY <2>1, <2>2, Zenon DEF Join
<1>31. LambdaOf(parse, ts, at, r, o) = Parsed(n, i + Len(bare))
  <2>1. parse[o][0].node = b /\ parse[o][0].at = i + Len(bare)
    <3>1. parse[o][0] = Parsed(b, i + Len(bare))
      BY <1>26, Zenon DEF Gives
    <3>2. Parsed(b, i + Len(bare)).node = b /\ Parsed(b, i + Len(bare)).at = i + Len(bare)
      BY ParsedIs, Zenon
    <3> QED
      BY <3>1, <3>2, Zenon
  <2> QED
    BY <1>29, <1>30, <2>1, Zenon DEF LambdaOf
<1>32. ParseLambda(parse, ts, at, "whole") = Parsed(n, i + Len(bare))
  <2>1. r - 1 + 1 = r
    OBVIOUS
  <2>2. at + 2 * (r - 1) + 2 = o
    BY <1>20, Zenon
  <2> QED
    BY <1>27, <1>28, <1>31, <2>1, <2>2, Zenon DEF ParseLambda
<1>33. ParseExprPart(parse, ts, i, d, "whole") = Parsed(n, i + Len(bare))
  <2>1. Token(ts, i) = "lambda"
    BY <1>12, <1>16, Zenon DEF Token
  <2> QED
    BY <1>17, <1>32, <2>1, Zenon DEF ParseExprPart
<1> QED
  BY <1>25, <1>33, Zenon DEF Calling, Gives

-----------------------------------------------------------------------------
(* From the operands to the expression, and to the whole text.             *)

(* Whatever nests less deep is read.                                       *)
OperandsRead(C, ts, n) == \A m \in Expr : Nesting[m] < Nesting[n] => Reads(C, ts, m)

(* All that have a loop, in one.                                           *)
LEMMA BareComes ==
  ASSUME NEW ts \in Seq(Word), NoFalse(ts), NEW C, NEW n \in Expr, n.op # "lambda", OperandsRead(C, ts, n),
         NEW i \in 1 .. Len(ts), NEW k \in 1 .. Len(ts) + 1, k + i > Len(ts) + 1,
         NEW d \in 0 .. 8, d <= DepthAt(Prec(n)),
         NEW bare, bare = Bare(Written, n), Has(ts, i, bare),
         Stops(ts, i + Len(bare), EndDepth(Prec(n)))
  PROVE  Reaches(C[k - 1], ts, i, d, n, i + Len(bare))
<1>1. \A l : Smaller(n, l) => Reads(C, ts, n.args[l])
  BY Zenon DEF Smaller, OperandsRead
<1>2. CASE IsLeaf(n)
  BY <1>2, LeafComes, Zenon
<1>3. CASE IsUnary(n)
  <2>1. Smaller(n, 1)
    BY <1>3, Zenon DEF IsUnary
  <2>2. Reads(C, ts, n.args[1])
    BY <1>1, <2>1, Zenon
  <2> QED
    BY <1>3, <2>2, UnaryComes, Zenon
<1>4. CASE IsTernary(n)
  <2>1. Smaller(n, 1) /\ Smaller(n, 2) /\ Smaller(n, 3)
    BY <1>4, Zenon DEF IsTernary
  <2>2. Reads(C, ts, n.args[1]) /\ Reads(C, ts, n.args[2]) /\ Reads(C, ts, n.args[3])
    BY <1>1, <2>1, Zenon
  <2> QED
    BY <1>4, <2>2, TernaryComes, Zenon
<1>5. CASE IsBinary(n)
  <2>1. /\ Smaller(n, 1) /\ Smaller(n, 2)
        /\ n.op \in BinaryOp \/ n.op = "member" \/ n.op = "call" \/ n.op = "subscript"
    BY <1>5 DEF IsBinary
  <2>2. Reads(C, ts, n.args[1]) /\ Reads(C, ts, n.args[2])
    BY <1>1, <2>1, Zenon
  <2>3. CASE n.op \in BinaryOp
    BY <1>5, <2>2, <2>3, OperatorComes, Zenon
  <2>4. CASE n.op = "member"
    BY <1>5, <2>2, <2>4, MemberComes, Zenon
  <2>5. CASE n.op = "call"
    BY <1>5, <2>2, <2>5, CallComes, Zenon
  <2>6. CASE n.op = "subscript"
    BY <1>5, <2>2, <2>6, SubscriptComes, Zenon
  <2> QED
    BY <2>1, <2>3, <2>4, <2>5, <2>6, Zenon
<1> QED
  <2>1. ~ IsLambda(n)
    BY Zenon DEF IsLambda
  <2> QED
    BY <1>2, <1>3, <1>4, <1>5, <2>1, Kinds, Zenon

(* A call at i, which nests k deep, for what is written in a place of      *)
(* precedence p.                                                           *)
Call(ts, i, k, p, d) ==
  /\ i \in 1 .. Len(ts) /\ k \in 1 .. Len(ts) + 1 /\ k + i > Len(ts) + 1
  /\ p \in 0 .. 10 /\ d \in 0 .. 8 /\ d <= DepthAt(p)

(* When the loop comes to n, the call returns it.                          *)
LEMMA ReadWhenComes ==
  ASSUME NEW ts \in Seq(Word), NEW C, Calling(C, ts), NEW n \in Expr, NEW p, NEW i, NEW k, NEW d,
         Call(ts, i, k, p, d), Has(ts, i, Written[n][p]), ~ BareLambdaAt(n, p),
         Comes(C, ts, n, p, i, k, d)
  PROVE  Read(C, ts, n, p, i, k, d)
<1>1. /\ i \in 1 .. Len(ts) /\ k \in 1 .. Len(ts) + 1 /\ p \in 0 .. 10 /\ d \in 0 .. 8
      /\ d <= DepthAt(p)
  BY Zenon DEF Call
<1>2. PICK v \in Seq(Word) : v = Written[n][p]
  BY <1>1, WrittenText, Zenon
<1>3. Len(v) \in Nat \ {0}
  BY <1>1, <1>2, WrittenText, Zenon
<1>4. ts[i] # "lambda"
  <2>1. v[1] # "lambda"
    BY <1>1, <1>2, AllWellWritten DEF WellWritten, Opens, BareLambdaAt
  <2>2. Has(ts, i, v)
    BY <1>2, Zenon
  <2>3. i \in Nat \ {0}
    BY <1>1
  <2> QED
    BY <1>3, <2>1, <2>2, <2>3, HasFirst, Zenon
<1>5. PICK c \in 1 .. 8 : c = DepthAfter(n, p) /\ d <= c
  <2>1. PICK c \in 1 .. 8 :
          c = DepthAfter(n, p) /\ (p > 0 => DepthAt(p) <= c)
    BY <1>1, DepthAfterIs, Zenon
  <2>2. PICK g \in 1 .. 8 : g = DepthAt(p) /\ (p = 0 => g = 1)
    BY <1>1, Depths
  <2>3. d <= g /\ (p > 0 => g <= c)
    BY <1>1, <2>1, <2>2, Zenon
  <2>4. d <= c
    BY <1>1, <2>2, <2>3
  <2> QED
    BY <2>1, <2>4, Zenon
<1> SUFFICES ASSUME Stops(ts, i + Len(v), d)
             PROVE  C[k][i][d] = Parsed(n, i + Len(v))
  BY <1>2, Zenon DEF Read
<1>6. PICK j \in Nat \ {0} : j = i + Len(v)
  BY <1>1, <1>3
<1>7. Stops(ts, j, c)
  <2>1. c \in 0 .. 8
    OBVIOUS
  <2> QED
    BY <1>1, <1>5, <1>6, <2>1, StopsDeeper, Zenon
<1>8. PICK parse : parse = C[k - 1]
  OBVIOUS
<1>9. Reaches(parse, ts, i, d, n, j)
  BY <1>2, <1>5, <1>6, <1>7, <1>8, Zenon DEF Comes
<1>10. Answers(parse, ts, i, d, n, j)
  <2>1. n # Undefined
    BY NotErroneous
  <2>2. Stops(ts, j, d)
    BY <1>6, Zenon
  <2> QED
    BY <1>1, <1>4, <1>9, <2>1, <2>2, Returns, Zenon
<1> QED
  BY <1>1, <1>6, <1>8, <1>10, Zenon DEF Calling, Answers

(* What is written without parentheses is read,                            *)
LEMMA BareReads ==
  ASSUME NEW ts \in Seq(Word), NoFalse(ts), NEW C, Calling(C, ts), NEW n \in Expr, OperandsRead(C, ts, n),
         NEW p, NEW i, NEW k, NEW d, Call(ts, i, k, p, d), Has(ts, i, Written[n][p]), p <= Prec(n)
  PROVE  Read(C, ts, n, p, i, k, d) /\ (~ BareLambdaAt(n, p) => Comes(C, ts, n, p, i, k, d))
<1>1. /\ i \in 1 .. Len(ts) /\ k \in 1 .. Len(ts) + 1 /\ k + i > Len(ts) + 1
      /\ p \in 0 .. 10 /\ d \in 0 .. 8 /\ d <= DepthAt(p)
  BY Zenon DEF Call
<1>2. PICK q \in 0 .. 10 : q = Prec(n) /\ p <= q
  BY PrecIs, Zenon
<1>3. ~ (Prec(n) < p)
  BY <1>1, <1>2
<1>4. PICK bare : bare = Bare(Written, n) /\ bare = Written[n][p]
  BY <1>1, <1>3, WrittenIs, Zenon
<1>5. bare = Bare(Written, n) /\ Has(ts, i, bare)
  BY <1>4, Zenon
<1>6. CASE n.op = "lambda"
  <2>1. IsLambda(n)
    BY <1>6, Kinds DEF IsLeaf, IsUnary, IsBinary, IsTernary, BinaryOp
  <2>2. p = 0
    <3>1. Prec(n) = 0
      BY <2>1, BareLambda, Zenon
    <3> QED
      BY <1>1, <1>2, <3>1
  <2>3. BareLambdaAt(n, p)
    BY <1>6, <2>2, Zenon DEF BareLambdaAt
  <2>4. Reads(C, ts, n.args[Len(n.args)])
    BY <2>1, Zenon DEF IsLambda, Smaller, OperandsRead
  <2>5. Stops(ts, i + Len(bare), 0) => Gives(C[k], i, d, n, i + Len(bare))
    BY <1>1, <1>5, <2>1, <2>4, LambdaRead, Zenon
  <2>6. Read(C, ts, n, p, i, k, d)
    BY <1>4, <2>3, <2>5, Zenon DEF Read, Gives
  <2> QED
    BY <2>3, <2>6, Zenon
<1>7. CASE n.op # "lambda"
  <2>1. ~ BareLambdaAt(n, p)
    BY <1>7, Zenon DEF BareLambdaAt
  <2>2. DepthAfter(n, p) = EndDepth(Prec(n))
    BY <1>3, Zenon DEF DepthAfter
  <2>3. d <= DepthAt(Prec(n))
    <3>1. PICK g \in 1 .. 8, h \in 1 .. 8 : g = DepthAt(p) /\ h = DepthAt(q) /\ g <= h
      BY <1>1, <1>2, Depths, Zenon
    <3>2. d <= g
      BY <1>1, <3>1, Zenon
    <3>3. d <= h
      BY <1>1, <3>1, <3>2
    <3> QED
      BY <1>2, <3>1, <3>3, Zenon
  <2>4. Stops(ts, i + Len(bare), EndDepth(Prec(n))) => Reaches(C[k - 1], ts, i, d, n, i + Len(bare))
    BY <1>1, <1>5, <1>7, <2>3, BareComes, Zenon
  <2>5. Comes(C, ts, n, p, i, k, d)
    BY <1>4, <2>2, <2>4, Zenon DEF Comes
  <2> QED
    BY <2>1, <2>5, ReadWhenComes, Zenon
<1> QED
  BY <1>6, <1>7

(* and so is what needs them.                                              *)
LEMMA EnclosedReads ==
  ASSUME NEW ts \in Seq(Word), NoFalse(ts), NEW C, Calling(C, ts), NEW n \in Expr, OperandsRead(C, ts, n),
         NEW p, NEW i, NEW k, NEW d, Call(ts, i, k, p, d), Has(ts, i, Written[n][p]), Prec(n) < p
  PROVE  Read(C, ts, n, p, i, k, d) /\ (~ BareLambdaAt(n, p) => Comes(C, ts, n, p, i, k, d))
<1>1. /\ i \in 1 .. Len(ts) /\ k \in 1 .. Len(ts) + 1 /\ k + i > Len(ts) + 1
      /\ p \in 0 .. 10 /\ d \in 0 .. 8 /\ d <= DepthAt(p)
  BY Zenon DEF Call
<1>2. PICK q \in 0 .. 10 : q = Prec(n)
  BY PrecIs, Zenon
<1>3. PICK v \in Seq(Word) : v = Written[n][0]
  <2>1. 0 \in 0 .. 10
    OBVIOUS
  <2> QED
    BY <2>1, WrittenText, Zenon
<1>4. Len(v) \in Nat \ {0}
  <2>1. 0 \in 0 .. 10
    OBVIOUS
  <2> QED
    BY <1>3, <2>1, WrittenText, Zenon
<1>5. v = Bare(Written, n)
  <2>1. 0 \in 0 .. 10
    OBVIOUS
  <2>2. ~ (Prec(n) < 0)
    BY <1>2
  <2> QED
    BY <1>3, <2>1, <2>2, WrittenIs, Zenon
<1>6. PICK x \in Seq(Word) : x = <<"(">> /\ Len(x) = 1 /\ x[1] = "("
  BY Words, OneWordText
<1>7. PICK z \in Seq(Word) : z = <<")">> /\ Len(z) = 1 /\ z[1] = ")"
  BY Words, OneWordText
<1>8. Len(x) = 1 /\ x[1] = "(" /\ Len(z) = 1 /\ z[1] = ")"
  BY <1>6, <1>7, Zenon
<1>9. Written[n][p] = x \o v \o z
  BY <1>1, <1>5, <1>6, <1>7, WrittenIs, Zenon
<1>10. Len(ts) \in Nat /\ DOMAIN ts = 1 .. Len(ts) /\ i \in Nat \ {0}
  BY <1>1, Text
<1>11. x \o v \in Seq(Word) /\ Len(x \o v) = Len(x) + Len(v)
  BY Joined, Zenon
<1>12. Has(ts, i, x \o v) /\ Has(ts, i + Len(x \o v), z)
  <2>1. Has(ts, i, x \o v \o z)
    BY <1>9, Zenon
  <2> QED
    BY <1>10, <1>11, <2>1, HasBoth, Zenon
<1>13. Has(ts, i, x) /\ Has(ts, i + Len(x), v)
  BY <1>10, <1>12, HasBoth, Zenon
<1>14. ts[i] = "("
  <2>1. ts[i] = x[1]
    BY <1>8, <1>10, <1>13, HasOne, Zenon
  <2> QED
    BY <1>8, <2>1, Zenon
<1>15. PICK o \in Nat \ {0} : o = i + 1 /\ o = i + Len(x)
  BY <1>8, <1>10
<1>16. PICK y : y = Len(x \o v)
  OBVIOUS
<1>17. y = Len(x) + Len(v)
  BY <1>11, <1>16, Zenon
<1>18. PICK l \in Nat \ {0} : l = o + Len(v) /\ l = i + y
  <2>1. PICK f \in Nat \ {0} : f = i
    BY <1>10, Zenon
  <2>2. PICK w \in Nat \ {0} : w = Len(v)
    BY <1>4, Zenon
  <2>3. y = 1 + w /\ o = f + 1
    BY <1>8, <1>15, <1>17, <2>1, <2>2
  <2>4. o + w \in Nat \ {0} /\ o + w = f + y
    BY <2>3
  <2> QED
    BY <2>1, <2>2, <2>4, Zenon
<1>19. Has(ts, o, v) /\ Has(ts, l, z)
  BY <1>12, <1>13, <1>15, <1>16, <1>18, Zenon
<1>20. l <= Len(ts) /\ ts[l] = z[1]
  BY <1>8, <1>19, HasOne, Zenon
<1>21. o \in 1 .. Len(ts) /\ l \in 1 .. Len(ts)
  <2>1. o <= Len(ts)
    BY <1>4, <1>19, HasFirst, Zenon
  <2> QED
    BY <1>10, <1>20, <2>1
<1>22. PICK e \in Nat : e = l + 1 /\ e = i + Len(Written[n][p]) /\ e >= i
  <2>1. Len(x \o v \o z) = Len(x \o v) + Len(z)
    BY <1>11, Joined, Zenon
  <2>2. PICK w : w = Len(Written[n][p]) /\ w = y + Len(z)
    BY <1>9, <1>16, <2>1, Zenon
  <2>3. l + 1 = i + w /\ l + 1 \in Nat /\ l + 1 >= i
    BY <1>4, <1>8, <1>10, <1>15, <1>17, <1>18, <2>2
  <2> QED
    BY <2>2, <2>3, Zenon
<1>23. C[k - 1][o][1] = Parsed(n, l)
  <2>1. PICK m \in 1 .. Len(ts) + 1 : m = k - 1 /\ m + o > Len(ts) + 1
    BY <1>1, <1>15, <1>21
  <2>2. 1 <= DepthAt(0) /\ 1 \in 0 .. 8 /\ 0 \in 0 .. 8 /\ 0 \in 0 .. 10 /\ 0 <= Prec(n)
    BY <1>2, Depths
  <2>3. Call(ts, o, m, 0, 1)
    BY <1>21, <2>1, <2>2, Zenon DEF Call
  <2>4. Has(ts, o, Written[n][0])
    BY <1>3, <1>19, Zenon
  <2>5. Read(C, ts, n, 0, o, m, 1)
    BY <2>2, <2>3, <2>4, BareReads, Zenon
  <2>6. Stops(ts, l, 0) /\ Stops(ts, l, 1)
    <3>1. ts[l] \in {")", "]", ":"}
      BY <1>8, <1>20
    <3> QED
      BY <2>2, <3>1, StopsAt, Zenon
  <2>7. Stops(ts, o + Len(v), IF BareLambdaAt(n, 0) THEN 0 ELSE 1)
    BY <1>18, <2>6, Zenon
  <2> QED
    BY <1>3, <1>18, <2>1, <2>5, <2>7, Zenon DEF Read
<1>24. PICK parse : parse = C[k - 1]
  OBVIOUS
<1>25. First(parse, ts, i, "whole") = Parsed(n, e)
  <2>1. Token(ts, i) = "("
    BY <1>1, <1>10, <1>14, Zenon DEF Token
  <2>2. Expect(")", ts, Parsed(n, l), "whole") = Parsed(n, l + 1)
    <3>1. ts[l] = ")"
      BY <1>8, <1>20, Zenon
    <3> QED
      BY <1>21, <3>1, ExpectAt, Zenon
  <2>3. First(parse, ts, i, "whole") = Expect(")", ts, parse[i + 1][1], "whole")
    BY <2>1, Zenon DEF First
  <2> QED
    BY <1>15, <1>22, <1>23, <1>24, <2>2, <2>3, Zenon
<1>29. ~ EndsAtSign(parse, ts, i, d)
  <2>1. Token(ts, i) = "("
    BY <1>1, <1>10, <1>14, Zenon DEF Token
  <2>2. "(" \notin UnaryOp
    BY DEF UnaryOp
  <2> QED
    BY <2>1, <2>2, Zenon DEF EndsAtSign
<1>26. Reaches(parse, ts, i, d, n, e)
  BY <1>1, <1>10, <1>22, <1>25, <1>29, ReachesFirst, Zenon
<1>27. Comes(C, ts, n, p, i, k, d)
  BY <1>22, <1>24, <1>26, Zenon DEF Comes
<1>28. ~ BareLambdaAt(n, p)
  <2>1. p # 0
    BY <1>1, <1>2
  <2> QED
    BY <2>1, Zenon DEF BareLambdaAt
<1> QED
  BY <1>27, <1>28, ReadWhenComes, Zenon

(* Every expression is read.                                               *)
LEMMA AllRead ==
  ASSUME NEW ts \in Seq(Word), NoFalse(ts), NEW C, Calling(C, ts)
  PROVE  \A n \in Expr : Reads(C, ts, n)
<1> DEFINE G == {n \in Expr : Reads(C, ts, n)}
<1>1. ASSUME NEW n \in Expr, \A m \in Expr : Nesting[m] < Nesting[n] => m \in G
      PROVE  n \in G
  <2>1. OperandsRead(C, ts, n)
    BY <1>1, Zenon DEF OperandsRead
  <2>2. ASSUME NEW p \in 0 .. 10, NEW i \in 1 .. Len(ts), NEW k \in 1 .. Len(ts) + 1,
               NEW d \in 0 .. 8,
               Has(ts, i, Written[n][p]), k + i > Len(ts) + 1, d <= DepthAt(p)
        PROVE  Read(C, ts, n, p, i, k, d) /\ (~ BareLambdaAt(n, p) => Comes(C, ts, n, p, i, k, d))
    <3>1. Call(ts, i, k, p, d)
      BY <2>2, Zenon DEF Call
    <3>2. PICK q \in 0 .. 10 : q = Prec(n)
      BY PrecIs, Zenon
    <3>3. p <= q \/ q < p
      OBVIOUS
    <3>4. CASE p <= q
      <4>1. p <= Prec(n)
        BY <3>2, <3>4, Zenon
      <4> QED
        BY <2>1, <2>2, <3>1, <4>1, BareReads, Zenon
    <3>5. CASE q < p
      <4>1. Prec(n) < p
        BY <3>2, <3>5, Zenon
      <4> QED
        BY <2>1, <2>2, <3>1, <4>1, EnclosedReads, Zenon
    <3> QED
      BY <3>3, <3>4, <3>5
  <2>3. Reads(C, ts, n)
    BY <2>2, Zenon DEF Reads
  <2> QED
    BY <2>3
<1> HIDE DEF G
<1>2. \A n \in Expr : n \in G
  BY <1>1, ByNesting
<1> QED
  BY <1>2 DEF G

(* The calls of a parse are what Calling says.                             *)
LEMMA CallsCall ==
  ASSUME NEW ts \in Seq(Word)
  PROVE  Calling(Calls(ts, "whole"), ts)
<1>1. Len(ts) \in Nat
  OBVIOUS
<1> QED
  BY <1>1, CallsAre, Zenon DEF Calling

(* The parser (parseExpression and parseExprPart of parse.ts) reads what   *)
(* is written of any expression, by the precedences and with as few        *)
(* parentheses as they allow, as this very expression, unless the literal  *)
(* false is in it, which is read as true.                                  *)
THEOREM ParserReads ==
  ASSUME NEW n \in Expr, "false" \notin Range(Written[n][0])
  PROVE  ParseExpression(Written[n][0], "whole") = n
<1>1. PICK ts \in Seq(Word) : ts = Written[n][0] /\ Len(ts) \in Nat \ {0}
  <2>1. 0 \in 0 .. 10
    OBVIOUS
  <2> QED
    BY <2>1, WrittenText, Zenon
<1>2. PICK C : C = Calls(ts, "whole")
  OBVIOUS
<1>3. PICK k \in 1 .. Len(ts) + 1 : k = Len(ts) + 1 /\ k + 1 > Len(ts) + 1 /\ k > Len(ts) /\ k = 1 + Len(ts)
  <2>1. PICK l \in Nat : l = Len(ts)
    BY <1>1, Zenon
  <2>2. /\ l + 1 \in 1 .. l + 1 /\ l + 1 + 1 > l + 1 /\ l + 1 > l /\ l + 1 = 1 + l
    OBVIOUS
  <2> QED
    BY <2>1, <2>2, Zenon
<1>4. Calling(C, ts)
  BY <1>2, CallsCall, Zenon
<1>15. NoFalse(ts)
  BY <1>1 DEF NoFalse, Range
<1>5. Reads(C, ts, n)
  BY <1>4, <1>15, AllRead, Zenon
<1>6. 0 \in 0 .. 10 /\ 1 \in 1 .. Len(ts) /\ 0 \in 0 .. 8 /\ 0 <= DepthAt(0)
  BY <1>1, Depths
<1>7. Has(ts, 1, Written[n][0])
  <2>1. Has(ts, 1, ts)
    BY <1>1 DEF Has
  <2> QED
    BY <1>1, <2>1, Zenon
<1>8. Read(C, ts, n, 0, 1, k, 0)
  BY <1>3, <1>5, <1>6, <1>7, Zenon DEF Reads
<1>9. Stops(ts, k, 0)
  BY <1>3, Zenon DEF Stops
<1>10. Stops(ts, 1 + Len(Written[n][0]), IF BareLambdaAt(n, 0) THEN 0 ELSE 0)
  BY <1>1, <1>3, <1>9, Zenon
<1>11. C[k][1][0] = Parsed(n, k)
  BY <1>1, <1>3, <1>8, <1>10, Zenon DEF Read
<1>12. Calls(ts, "whole")[Len(ts) + 1][1][0] = Parsed(n, k)
  BY <1>2, <1>3, <1>11, Zenon
<1>13. Parsed(n, k).at = k /\ Parsed(n, k).node = n
  BY DEF Parsed
<1>14. ParseExpression(ts, "whole") = n
  BY <1>3, <1>12, <1>13, Zenon DEF ParseExpression
<1> QED
  BY <1>1, <1>14, Zenon

(* What a user means is an expression of Trees: this is inductive.         *)
MeantIsTree == meant \in Trees

(* What is executed is what was meant (ReadsAsMeant), for any expressions, *)
(* bookmarks and files: a text that is what the expression is written as   *)
(* is parsed as it, if the literal false is not in it.                     *)
THEOREM ExpressionReadAsMeant == Spec => []ReadsAsMeant
<1>1. Init => MeantIsTree
  BY DEF Init, MeantIsTree
<1>2. MeantIsTree /\ [Next]_vars => MeantIsTree'
  <2> SUFFICES ASSUME MeantIsTree, [Next]_vars
               PROVE  MeantIsTree'
    OBVIOUS
  <2>1. CASE LoadBookmark \/ Execute
    BY <2>1, TreesAssumption, Zenon DEF LoadBookmark, Execute, MeantIsTree
  <2>2. CASE Type \/ Finish \/ Erase \/ AcceptSuggestion \/ Open \/ Escape
    BY <2>2, Zenon DEF Type, Finish, Erase, AcceptSuggestion, Open, Escape, MeantIsTree
  <2>3. CASE ExecutionFails \/ FilterEnds \/ SortEnds \/ Opened
    BY <2>3, Zenon DEF ExecutionFails, FilterEnds, SortEnds, Opened, MeantIsTree
  <2>4. CASE SetPage \/ PageChanges \/ Load
    BY <2>4, Zenon DEF SetPage, PageChanges, Load, input, MeantIsTree
  <2>5. CASE UNCHANGED vars
    BY <2>5, Zenon DEF vars, input, MeantIsTree
  <2> QED
    BY <2>1, <2>2, <2>3, <2>4, <2>5, Zenon DEF Next
<1>3. MeantIsTree => ReadsAsMeant
  <2> SUFFICES ASSUME meant \in Trees, text = Meant, "false" \notin Range(Meant)
               PROVE  ParseExpression(text, "whole") = meant
    BY Zenon DEF MeantIsTree, ReadsAsMeant
  <2>1. meant \in Expr
    BY TreesAssumption, Zenon
  <2> QED
    BY <2>1, ParserReads, Zenon DEF Meant
<1> QED
  BY <1>1, <1>2, <1>3, PTL DEF Spec

-----------------------------------------------------------------------------
(* What a filter takes from a page.                                        *)

(* What a list has with an element appended.                               *)
LEMMA RangeAppended ==
  ASSUME NEW S, NEW t \in Seq(S), NEW x \in S
  PROVE  Range(Append(t, x)) = Range(t) \cup {x}
<1>1. PICK n \in Nat : n = Len(t)
  OBVIOUS
<1>2. PICK u : u = Append(t, x)
  OBVIOUS
<1>3. /\ DOMAIN t = 1 .. n /\ DOMAIN u = 1 .. n + 1
      /\ \A i \in 1 .. n : u[i] = t[i] /\ i \in 1 .. n + 1
      /\ u[n + 1] = x /\ n + 1 \in 1 .. n + 1
      /\ \A i \in 1 .. n + 1 : i \in 1 .. n \/ i = n + 1
  BY <1>1, <1>2
<1> QED
  BY <1>2, <1>3, Zenon DEF Range

(* Only keeps a list a list, and of its files those in the set.            *)
LEMMA OnlyIs ==
  ASSUME NEW s \in Seq(File), NEW files
  PROVE  Only(s, files) \in Seq(File) /\ Range(Only(s, files)) = Range(s) \cap files
<1> DEFINE n == Len(s)
           T == Seq(File)
           Add(t, k) == IF s[k] \in files THEN Append(t, s[k]) ELSE t
           step == [k \in 1 .. n |-> [t \in T |-> Add(t, k)]]
           Does(g) == g = [k \in 0 .. n |-> IF k = 0 THEN <<>> ELSE Add(g[k - 1], k)]
           Taken(k) == {s[j] : j \in 1 .. k} \cap files
<1>1. n \in Nat /\ \A k \in 1 .. n : s[k] \in File
  OBVIOUS
<1>2. ASSUME NEW k \in 1 .. n, NEW t \in T
      PROVE  Add(t, k) \in T
  BY <1>1
<1>3. step \in [1 .. n -> [T -> T]] /\ \A k \in 1 .. n, t \in T : step[k][t] = Add(t, k)
  <2> HIDE DEF T, n, Add
  <2> QED
    BY <1>2
<1>4. <<>> \in T
  OBVIOUS
<1> HIDE DEF n, T, step, Add
<1>5. PICK g : Iterates(g, n, T, <<>>, step)
  BY <1>1, <1>3, <1>4, Recursion
<1>6. \A k \in 0 .. n : k # 0 => k \in 1 .. n /\ k - 1 \in 0 .. n
  BY <1>1
<1>7. \A k \in 1 .. n : g[k - 1] \in T /\ g[k] = Add(g[k - 1], k)
  BY <1>1, <1>3, <1>5, <1>6 DEF Iterates
<1>8. \E h : Does(h)
  <2>1. g = [k \in 0 .. n |-> IF k = 0 THEN <<>> ELSE Add(g[k - 1], k)]
    BY <1>5, <1>6, <1>7 DEF Iterates
  <2> QED
    BY <2>1
<1> DEFINE h == CHOOSE x : Does(x)
<1>9. Only(s, files) = h[n]
  BY DEF Only, Add, n
<1>10. Does(h)
  BY <1>8
<1> DEFINE Good == {k \in 0 .. n : h[k] \in T /\ Range(h[k]) = Taken(k)}
<1> HIDE DEF h
<1>11. h[0] = <<>> /\ \A k \in 1 .. n : h[k] = Add(h[k - 1], k)
  BY <1>1, <1>10
<1>12. ASSUME NEW k \in 0 .. n - 1, k \in Good
       PROVE  k + 1 \in Good
  <2>1. h[k] \in T /\ Range(h[k]) = Taken(k) /\ k + 1 \in 1 .. n /\ k + 1 \in 0 .. n /\ (k + 1) - 1 = k
    BY <1>1, <1>12
  <2>2. h[k + 1] = Add(h[k], k + 1)
    BY <1>11, <2>1
  <2>3. h[k + 1] \in T
    BY <1>2, <2>1, <2>2
  <2>4. Taken(k + 1) = Taken(k) \cup ({s[k + 1]} \cap files)
    <3>1. 1 .. k + 1 = (1 .. k) \cup {k + 1}
      OBVIOUS
    <3>2. {s[j] : j \in 1 .. k + 1} = {s[j] : j \in 1 .. k} \cup {s[k + 1]}
      BY <3>1
    <3> QED
      BY <3>2
  <2>5. CASE s[k + 1] \in files
    <3>1. PICK t \in Seq(File) : t = h[k]
      BY <2>1, Zenon DEF T
    <3>2. PICK x \in File : x = s[k + 1]
      BY <1>1, <2>1
    <3>3. Range(Append(t, x)) = Range(t) \cup {x}
      BY RangeAppended
    <3>4. h[k + 1] = Append(t, x)
      BY <2>2, <2>5, <3>1, <3>2, Zenon DEF Add
    <3>5. Range(h[k + 1]) = Taken(k) \cup {s[k + 1]}
      BY <2>1, <3>1, <3>2, <3>3, <3>4, Zenon
    <3>6. Range(h[k + 1]) = Taken(k + 1)
      <4> HIDE DEF Taken
      <4> QED
        BY <2>4, <2>5, <3>5
    <3> QED
      BY <2>1, <2>3, <3>6
  <2>6. CASE s[k + 1] \notin files
    <3>1. h[k + 1] = h[k]
      BY <2>2, <2>6 DEF Add
    <3> QED
      BY <2>1, <2>3, <2>4, <2>6, <3>1
  <2> QED
    BY <2>5, <2>6
<1>13. 0 \in Good
  <2>1. Range(<<>>) = {} /\ Taken(0) = {}
    BY DEF Range
  <2> QED
    BY <1>1, <1>4, <1>11, <2>1
<1>14. n \in Good
  <2> HIDE DEF Good
  <2>1. 0 .. n \subseteq Good
    BY <1>1, <1>12, <1>13, UpTo
  <2> QED
    BY <1>1, <2>1
<1>15. Range(s) = {s[j] : j \in 1 .. n}
  BY DEF Range, n
<1> QED
  BY <1>9, <1>14, <1>15 DEF T

(* Every page has a list of files, and an execution one of its own: this   *)
(* is inductive.                                                           *)
Listed ==
  /\ active \in Page
  /\ lists \in [Page -> Seq(File)]
  /\ exec # Idle => "stage" \in DOMAIN exec /\ "list" \in DOMAIN exec /\ exec.list \in Seq(File)

(* A page that shows another list is left with a list,                     *)
LEMMA ShowsLists ==
  ASSUME Listed, NEW p \in Page, NEW s \in Seq(File), Shows(p, s)
  PROVE  lists' \in [Page -> Seq(File)] /\ lists' = [lists EXCEPT ![p] = s]
  BY DEF Listed, Shows

(* a sort makes one,                                                       *)
LEMMA SortedIsList ==
  ASSUME Listed, NEW s \in SetToSeqs(Sortable(active))
  PROVE  s \in Seq(File)
<1> DEFINE F == Sortable(active)
           l == lists[active]
<1>1. l \in Seq(File)
  BY DEF Listed
<1>2. F \subseteq Range(l) /\ F \subseteq File
  BY <1>1 DEF Sortable, Range
<1>3. IsFiniteSet(F)
  <2> HIDE DEF l, F
  <2>1. l \in [1 .. Len(l) -> File] /\ Len(l) \in Nat
    BY <1>1
  <2>2. l \in Surjection(1 .. Len(l), Range(l))
    BY <2>1, Fun_RangeProperties, Zenon
  <2>3. IsFiniteSet(1 .. Len(l))
    BY <2>1, FS_Interval
  <2>4. IsFiniteSet(Range(l))
    BY <2>2, <2>3, FS_Surjection, Zenon
  <2> QED
    BY <1>2, <2>4, FS_Subset, Zenon
<1> HIDE DEF F
<1>4. Cardinality(F) \in Nat
  BY <1>3, FS_CardinalityType
<1>5. s \in [1 .. Cardinality(F) -> F]
  BY DEF SetToSeqs, F
<1> QED
  BY <1>2, <1>4, <1>5

(* and so does any step.                                                   *)
LEMMA ListedStays == Listed /\ [Next]_vars => Listed'
<1> SUFFICES ASSUME Listed, [Next]_vars
             PROVE  Listed'
  OBVIOUS
<1>1. /\ active \in Page /\ lists \in [Page -> Seq(File)] /\ lists[active] \in Seq(File)
  BY DEF Listed
<1>2. CASE UNCHANGED vars
  BY <1>2, Zenon DEF vars, view, Listed
<1>3. CASE Type \/ Finish \/ Erase \/ AcceptSuggestion \/ LoadBookmark \/ Open
  BY <1>3, Zenon DEF Type, Finish, Erase, AcceptSuggestion, LoadBookmark, Open, view, Listed
<1>4. CASE Escape
  BY <1>4 DEF Escape, OnClose, view, Listed
<1>5. CASE Execute
  BY <1>1, <1>5 DEF Execute, view, Listed
<1>6. CASE ExecutionFails \/ Opened
  BY <1>6, Zenon DEF ExecutionFails, Opened, Ends, view, Listed
<1>7. CASE FilterEnds
  <2>1. CASE exec.page = "hydrus"
    <3>1. PICK s : OpensPage(s) /\ s = Only(exec.list, DOMAIN exec.found \ Rejected)
      BY <1>7, <2>1, Zenon DEF FilterEnds
    <3>2. exec # Idle
      BY <1>7, Zenon DEF FilterEnds, Evaluated
    <3>3. s \in Seq(File)
      BY <3>1, <3>2, OnlyIs, Zenon DEF Listed
    <3> QED
      BY <1>1, <3>1, <3>2, <3>3 DEF OpensPage, Listed, Page
  <2>2. CASE exec.page # "hydrus"
    <3>1. PICK p : p = exec.page /\ Shows(p, Only(lists[p], File \ Rejected)) /\ Ends /\ active' = active
      BY <1>7, <2>2, Zenon DEF FilterEnds, FilteredPage
    <3>2. CASE p \in Page
      <4>1. PICK s \in Seq(File) : s = Only(lists[p], File \ Rejected)
        BY <1>1, <3>2, OnlyIs
      <4>2. lists' \in [Page -> Seq(File)]
        BY <3>1, <3>2, <4>1, ShowsLists, Zenon
      <4> QED
        BY <1>1, <3>1, <4>2, Zenon DEF Ends, Listed
    <3>3. CASE p \notin Page
      <4>1. lists' = lists
        BY <1>1, <3>1, <3>3 DEF Shows
      <4> QED
        BY <1>1, <3>1, <4>1, Zenon DEF Ends, Listed
    <3> QED
      BY <3>2, <3>3
  <2> QED
    BY <2>1, <2>2
<1>8. CASE SortEnds
  <2>1. PICK s \in SetToSeqs(Sortable(active)) :
          IF active = "hydrus" THEN OpensPage(s)
          ELSE Shows(active, s) /\ Ends /\ active' = active
    BY <1>8, Zenon DEF SortEnds
  <2>2. s \in Seq(File)
    BY <2>1, SortedIsList, Zenon
  <2>3. CASE active = "hydrus"
    <3>1. exec # Idle
      BY <1>8, Zenon DEF SortEnds, Evaluated
    <3> QED
      BY <1>1, <2>1, <2>2, <2>3, <3>1 DEF OpensPage, Listed, Page
  <2>4. CASE active # "hydrus"
    <3>1. lists' \in [Page -> Seq(File)]
      BY <1>1, <2>1, <2>2, <2>4, ShowsLists, Zenon
    <3> QED
      BY <1>1, <2>1, <2>4, <3>1, Zenon DEF Ends, Listed
  <2> QED
    BY <2>3, <2>4
<1>9. CASE SetPage \/ Load
  BY <1>9 DEF SetPage, Load, Listed
<1>10. CASE PageChanges
  <2>1. PICK f : Shows(active, Only(lists[active], File \ {f}))
    BY <1>10, Zenon DEF PageChanges
  <2>2. Only(lists[active], File \ {f}) \in Seq(File)
    BY <1>1, OnlyIs
  <2>3. lists' \in [Page -> Seq(File)]
    BY <1>1, <2>1, <2>2, ShowsLists, Zenon
  <2> QED
    BY <1>1, <1>10, <2>3, Zenon DEF PageChanges, Listed
<1> QED
  BY <1>2, <1>3, <1>4, <1>5, <1>6, <1>7, <1>8, <1>9, <1>10, Zenon DEF Next

(* A step that ends a filter takes from the page that the filter started   *)
(* on what it has rejected, and from the others nothing.                   *)
LEMMA FilterStepTakesRejected ==
  ASSUME Listed, [Next]_vars, exec # Idle, exec'.stage # exec.stage, exec.kind = "filter",
         NEW p \in Page \ {"new"}
  PROVE  \/ lists'[p] = lists[p]
         \/ /\ p = exec.page /\ ~Failed
            /\ Range(lists'[p]) = Range(lists[p]) \ Rejected
<1>1. CASE UNCHANGED vars
  BY <1>1, Zenon DEF vars, view
<1>2. CASE Type \/ Finish \/ Erase \/ AcceptSuggestion \/ LoadBookmark \/ Open
  BY <1>2, Zenon DEF Type, Finish, Erase, AcceptSuggestion, LoadBookmark, Open, view
<1>3. CASE Escape \/ Execute \/ ExecutionFails \/ Opened
  BY <1>3, Zenon DEF Escape, Execute, ExecutionFails, Opened, view
<1>4. CASE SetPage \/ Load
  BY <1>4, Zenon DEF SetPage, Load
<1>5. CASE PageChanges
  BY <1>5, Zenon DEF PageChanges, input
<1>6. CASE SortEnds
  <2>1. exec.kind = "sort"
    BY <1>6, Zenon DEF SortEnds, Evaluated
  <2> QED
    BY <2>1
<1>7. CASE FilterEnds
  <2>1. CASE exec.page = "hydrus"
    <3>1. PICK s : lists' = [lists EXCEPT !["new"] = s]
      BY <1>7, <2>1, Zenon DEF FilterEnds, OpensPage
    <3> QED
      BY <3>1 DEF Listed
  <2>2. CASE exec.page # "hydrus"
    <3>1. ~Failed /\ lists' = [lists EXCEPT ![exec.page] = Only(lists[exec.page], File \ Rejected)]
      BY <1>7, <2>2, Zenon DEF FilterEnds, FilteredPage, Shows
    <3>2. CASE p # exec.page
      BY <3>1, <3>2 DEF Listed
    <3>3. CASE p = exec.page
      <4>1. lists[p] \in Seq(File)
        BY DEF Listed
      <4>2. lists'[p] = Only(lists[p], File \ Rejected)
        BY <3>1, <3>3 DEF Listed
      <4>3. Range(lists'[p]) = Range(lists[p]) \cap (File \ Rejected)
        BY <4>1, <4>2, OnlyIs, Zenon
      <4>4. Range(lists[p]) \subseteq File
        BY <4>1 DEF Range
      <4>5. Range(lists'[p]) = Range(lists[p]) \ Rejected
        BY <4>3, <4>4, Zenon
      <4> QED
        BY <3>1, <3>3, <4>5, Zenon
    <3> QED
      BY <3>2, <3>3
  <2> QED
    BY <2>1, <2>2
<1> QED
  BY <1>1, <1>2, <1>3, <1>4, <1>5, <1>6, <1>7, Zenon DEF Next

(* A filter takes exactly what it has rejected, from the page it was       *)
(* started on, and loses nothing when it fails or when the page was left   *)
(* (FilterTakesRejected), for any pages, files and number of executions.   *)
THEOREM FilterOnlyTakesRejected == Spec => FilterTakesRejected
<1>1. Init => Listed
  BY PagesAssumption DEF Init, Listed
<1>2. Listed /\ [Next]_vars =>
        (exec # Idle /\ exec'.stage # exec.stage /\ exec.kind = "filter" =>
           \A p \in Page \ {"new"} :
             \/ lists'[p] = lists[p]
             \/ /\ p = exec.page /\ ~Failed
                /\ Range(lists'[p]) = Range(lists[p]) \ Rejected)
  BY FilterStepTakesRejected, Zenon
<1>3. Listed /\ [Next]_vars =>
       [exec # Idle /\ exec'.stage # exec.stage /\ exec.kind = "filter" =>
           \A p \in Page \ {"new"} :
             \/ lists'[p] = lists[p]
             \/ /\ p = exec.page /\ ~Failed
                /\ Range(lists'[p]) = Range(lists[p]) \ Rejected]_vars
  BY <1>2
<1> QED
  BY <1>1, <1>3, ListedStays, PTL DEF Spec, FilterTakesRejected
==============================================================================
