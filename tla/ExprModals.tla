------------------------------ MODULE ExprModals ------------------------------
(***************************************************************************)
(* The modals that filter and sort the page on the screen by an expression *)
(* (web/hydrui-client/src/components/modals/ExpressionFilterModal and      *)
(* ExpressionSortModal), the input they share (components/widgets/         *)
(* ExprInput) with its suggestions, and what they do to the page           *)
(* (filterFilesFromView and sortFilesFromView of store/pageStore.ts).      *)
(*                                                                         *)
(* The user means an expression of Trees and types it as it is Written.    *)
(* The cursor stays at the end of the text. The evaluation of an           *)
(* expression waits for nothing, so that no event comes between two files, *)
(* unless it calls File, which asks the server for another file: then the  *)
(* modal may be closed, and the page left and changed, before the result   *)
(* is applied. Loading a page is that of PageStore.tla, in one step.       *)
(***************************************************************************)
EXTENDS Script, FiniteSets, FiniteSetsExt, TLC

CONSTANTS
  File,      \* file IDs
  Rated,     \* the files that have a rating
  Expr,      \* expressions, and their operands
  Nesting,   \* Nesting[n]: how deep the operands of n nest
  Written,   \* Written[n][p]: what n is written as in a place of precedence p
  TypesOf(_, _), \* the types of the value of an expression, for a file that is
                 \* rated or not
  SuggestionsFor(_), \* what may be suggested for a text, {} for nothing, in
                     \* ScriptTypes
  Trees,     \* the expressions a user may mean
  Short,     \* Short[i]: the beginning of the identifier i, where one stops
  Bookmarks, \* the expressions of Trees that are saved
  FirstPages, \* the pages that may be on the screen at first
  StartLists, \* what they list
  MaxRuns    \* bound: executions

\* The last one is the page a filter or a sort of a page of Hydrus opens.
Page == {"search", "virtual", "hydrus", "new"}

ASSUME RatedAssumption == Rated \subseteq File
ASSUME TreesAssumption == Bookmarks \subseteq Trees /\ Trees \subseteq Expr
ASSUME PagesAssumption ==
  FirstPages \subseteq Page /\ StartLists \in [Page -> Seq(File)]

VARIABLES
  modal,   \* "none", "filter" or "sort"
  meant,   \* the expression the user means
  text,    \* the value of the input
  sugg,    \* suggestions, and whether they are shown
  exec,    \* the execution under way: its closure
  active,  \* activePageKey
  lists,   \* the list of every page
  loaded,  \* the files of loadedFiles; the others are holes
  loading, \* isLoadingFiles
  runs     \* executions so far

input == <<meant, text, sugg>>
view == <<active, lists, loaded, loading>>
vars == <<modal, input, exec, view, runs>>

NoSuggestions == [shown |-> FALSE, items |-> {}, at |-> 0, over |-> 0]
Verdict == {"kept", "rejected", "failed", "scored"}
Idle == [stage |-> "idle"]

Init ==
  /\ modal = "none" /\ exec = Idle
  /\ meant \in Trees /\ text = <<>> /\ sugg = NoSuggestions
  /\ active \in FirstPages /\ lists = StartLists
  /\ loading = TRUE /\ loaded = {}
  /\ runs = 0

----------------------------------------------------------------------------
(* Expressions, and what they are written as: the operators of Go with the *)
(* precedence they have there, and as few parentheses as it allows. The    *)
(* branches of a ternary bind tighter than || here, unlike in C.           *)

Named == Ident \cup Keyword \cup Number \cup Boolean \cup String \cup {"null"}
BinaryOp ==
  {"*", "/", "%", "<<", ">>", "&", "+", "-", "|", "^",
   "==", "!=", "<", "<=", ">", ">=", "&&", "||", ","}

Compound(op, names, args) == [op : op, name : names, args : args]

ASSUME ExprAssumption ==
  /\ Expr \subseteq {Accepted(t) : t \in Named} \cup {Node("boolean", "false", <<>>)}
       \cup Compound({"unary"}, UnaryOp, [1..1 -> Expr])
       \cup Compound(BinaryOp \cup {"member", "call", "subscript"}, {""}, [1..2 -> Expr])
       \cup Compound({"ternary"}, {""}, [1..3 -> Expr])
       \cup Compound({"lambda"}, {""}, Seq(Expr))
  /\ \A n \in Expr : n.op = "lambda" =>
       Len(n.args) > 1 /\ \A i \in 1 .. Len(n.args) - 1 : n.args[i].op = "ident"
  /\ Nesting \in [Expr -> Nat]
  /\ \A n \in Expr : \A i \in DOMAIN n.args : Nesting[n.args[i]] < Nesting[n]

Prec(n) ==
  CASE n.op \in {"*", "/", "%", "<<", ">>", "&"}       -> 7
    [] n.op \in {"+", "-", "|", "^"}                   -> 6
    [] n.op \in {"==", "!=", "<", "<=", ">", ">="}     -> 5
    [] n.op = "&&"      -> 4
    [] n.op = "||"      -> 3
    [] n.op = "ternary" -> 2
    [] n.op = ","       -> 1
    [] n.op = "lambda"  -> 0
    [] n.op = "unary"   -> 8
    [] n.op \in {"member", "call", "subscript"} -> 9
    [] OTHER            -> 10

\* "a, b:", from the parameters of a lambda.
Params(n) ==
  LET last == Len(n.args) - 1
  IN  [i \in 1 .. 2 * last |-> CASE i % 2 = 1   -> n.args[(i + 1) \div 2].name
                               [] i = 2 * last -> ":"
                               [] OTHER        -> ","]

Bare(written, n) ==
  LET Arg(i, p) == written[n.args[i]][p]
  IN  CASE n.args = <<>>      -> <<n.name>>
        [] n.op = "lambda"    -> <<"lambda">> \o Params(n) \o Arg(Len(n.args), 0)
        [] n.op = "unary"     -> <<n.name>> \o Arg(1, 8)
        [] n.op = "member"    -> Arg(1, 9) \o <<".">> \o Arg(2, 10)
        [] n.op = "call"      -> Arg(1, 9) \o <<"(">> \o Arg(2, 0) \o <<")">>
        [] n.op = "subscript" -> Arg(1, 9) \o <<"[">> \o Arg(2, 0) \o <<"]">>
        [] n.op = "ternary"   -> Arg(1, 2) \o <<"?">> \o Arg(2, 4) \o <<":">> \o Arg(3, 4)
        [] OTHER              -> Arg(1, Prec(n)) \o <<n.op>> \o Arg(2, Prec(n) + 1)

Writing(written, n, p) ==
  IF Prec(n) < p THEN <<"(">> \o Bare(written, n) \o <<")">> ELSE Bare(written, n)

\* What is written is determined by this, from the operands up.
ASSUME WrittenAssumption ==
  Written = [n \in Expr |-> [p \in 0 .. 10 |-> Writing(Written, n, p)]]

Meant == Written[meant][0]

----------------------------------------------------------------------------
(* The input.                                                              *)

\* refreshSuggestions, for the new text: without a text nothing happens,
\* and a text that cannot be parsed throws before anything is set.
RefreshSuggestions ==
  IF text' = <<>> \/ ParseExpression(text', "partial") = Error THEN sugg' = sugg
  ELSE \E items \in SuggestionsFor(text') :
         IF items = {} THEN sugg' = NoSuggestions
         ELSE sugg' = [shown |-> TRUE, items |-> items,
                       at |-> Len(text') - (IF Last(text') = "." THEN 0 ELSE 1),
                       over |-> IF Last(text') = "." THEN 0 ELSE 1]

\* The input is disabled while an execution of its modal is under way.
Disabled == exec # Idle /\ exec.here
Typing == modal # "none" /\ runs = 0

\* The tokens that may be typed next: an identifier may be left unfinished.
NextTexts ==
  LET i == Meant[Len(text) + 1]
  IN  {Append(text, t) : t \in IF i \in DOMAIN Short THEN {i, Short[i]} ELSE {i}}

Type ==
  /\ Typing /\ IsStrictPrefix(text, Meant)
  /\ text' \in NextTexts
  /\ RefreshSuggestions
  /\ UNCHANGED <<modal, meant, exec, view, runs>>

\* The rest of an identifier.
Finish ==
  /\ Typing /\ text # <<>> /\ Len(text) <= Len(Meant)
  /\ LET i == Meant[Len(text)]
     IN  /\ i \in DOMAIN Short /\ Last(text) = Short[i]
         /\ text' = Front(text) \o <<i>>
  /\ RefreshSuggestions
  /\ UNCHANGED <<modal, meant, exec, view, runs>>

Erase ==
  /\ Typing /\ text # <<>>
  /\ text' \in {Front(text), <<>>}
  /\ RefreshSuggestions
  /\ UNCHANGED <<modal, meant, exec, view, runs>>

\* acceptSuggestion: Enter, Tab or a click, of the item that is selected.
\* The text is the one of now, the place the one of the suggestions.
AcceptSuggestion ==
  /\ Typing /\ sugg.shown
  /\ \E i \in sugg.items :
       text' = SubSeq(text, 1, Min({sugg.at, Len(text)})) \o <<i>>
               \o SubSeq(text, sugg.at + sugg.over + 1, Len(text))
  /\ sugg' = NoSuggestions
  /\ UNCHANGED <<modal, meant, exec, view, runs>>

\* loadBookmark. The suggestions stay as they are.
LoadBookmark ==
  /\ Typing
  /\ meant' \in Bookmarks /\ text' = Written[meant'][0]
  /\ UNCHANGED <<modal, sugg, exec, view, runs>>

\* No event is handled while an execution that waits for nothing goes on.
Free == exec # Idle => exec.waits

\* The input starts with the last expression that was executed: with none, or
\* one of Bookmarks.
Open ==
  /\ Free /\ modal = "none" /\ modal' \in {"filter", "sort"}
  /\ text' \in {<<>>} \cup {Written[b][0] : b \in Bookmarks}
  /\ sugg' = NoSuggestions
  /\ UNCHANGED <<meant, exec, view, runs>>

OnClose == modal' = "none" /\ sugg' = NoSuggestions /\ text' = <<>>

\* Escape hides the suggestions first; a click beside the modal does not.
\* An execution goes on when its modal is closed.
Escape ==
  /\ Free /\ modal # "none"
  /\ \/ /\ sugg.shown /\ sugg' = [sugg EXCEPT !.shown = FALSE]
        /\ UNCHANGED <<modal, text, exec>>
     \/ /\ OnClose
        /\ exec' = IF exec = Idle THEN Idle ELSE [exec EXCEPT !.here = FALSE]
  /\ UNCHANGED <<meant, view, runs>>

----------------------------------------------------------------------------
(* The execution.                                                          *)

\* What the expression n may turn out to be for a file. The file that File
\* asks for may not be found.
Verdicts(n, waits, f) ==
  LET types == TypesOf(n, f \in Rated)
      Of(t) == CASE modal = "filter" /\ t = "Boolean"            -> {"kept", "rejected"}
                 [] modal = "sort" /\ t \in {"Number", "String"} -> {"scored"}
                 [] OTHER                                        -> {"failed"}
  IN  UNION {Of(t) : t \in types} \cup IF waits \/ types = {} THEN {"failed"} ELSE {}

\* execute, by the button or by Enter when no suggestion is selected. What
\* it will find for the files of loadedFiles, which it evaluates for, is
\* chosen here. What is meant next is of no interest.
Execute ==
  /\ modal # "none" /\ exec = Idle /\ runs < MaxRuns
  /\ LET n == ParseExpression(text, "whole")
         waits == "File" \in Range(text)
     IN  \/ n = Error /\ OnClose /\ UNCHANGED exec
         \/ /\ n # Error
            /\ \E found \in [loaded -> Verdict] :
                 /\ \A f \in loaded : found[f] \in Verdicts(n, waits, f)
                 /\ exec' = [stage |-> "evaluates", kind |-> modal, page |-> active,
                             list |-> lists[active], partial |-> loading,
                             found |-> found, waits |-> waits, here |-> TRUE]
            /\ text' = <<>> /\ sugg' = NoSuggestions /\ UNCHANGED modal
  /\ meant' \in Bookmarks /\ runs' = runs + 1
  /\ UNCHANGED view

Rejected == {f \in DOMAIN exec.found : exec.found[f] = "rejected"}
Failed == \E f \in DOMAIN exec.found : exec.found[f] = "failed"
Evaluated(kind) == exec # Idle /\ exec.stage = "evaluates" /\ exec.kind = kind

\* The files of a list that are in a set, in their order.
Only(s, files) ==
  LET kept[i \in 0 .. Len(s)] ==
        IF i = 0 THEN <<>>
        ELSE IF s[i] \in files THEN Append(kept[i - 1], s[i]) ELSE kept[i - 1]
  IN  kept[Len(s)]

\* The page shows another list, and is loaded again.
Shows(p, s) ==
  /\ lists' = [lists EXCEPT ![p] = s]
  /\ IF p = active THEN loading' = TRUE /\ loaded' = {} ELSE UNCHANGED <<loading, loaded>>

\* addVirtualPage and setPage, which the execution waits for.
OpensPage(s) ==
  /\ active' = "new" /\ lists' = [lists EXCEPT !["new"] = s]
  /\ loading' = TRUE /\ loaded' = {}
  /\ exec' = [exec EXCEPT !.stage = "opens", !.waits = TRUE]
  /\ UNCHANGED <<modal, text, sugg>>

\* The last step of an execution closes the modal that is open, whichever.
Ends == exec' = Idle /\ OnClose

\* An error is shown, the page stays as it is. A sort calls the method of
\* the value of every file, which a hole does not have.
ExecutionFails ==
  /\ exec # Idle /\ exec.stage = "evaluates"
  /\ \/ Failed
     \/ exec.kind = "filter" /\ exec.partial
     \/ exec.kind = "sort" /\ (loading \/ ~ Range(exec.list) \subseteq DOMAIN exec.found)
  /\ Ends /\ UNCHANGED <<meant, view, runs>>

\* The page on the screen when the evaluation ends.
PageOfNow == active

\* removeFilesFromPage gets the page that the execution started on.
FilteredPage == exec.page

\* filterFilesFromView: files that are not loaded are not judged, and stay;
\* a page of Hydrus cannot be changed, so that a new one is opened.
FilterEnds ==
  /\ Evaluated("filter") /\ ~Failed /\ ~exec.partial
  /\ IF exec.page = "hydrus"
     THEN OpensPage(Only(exec.list, DOMAIN exec.found \ Rejected))
     ELSE /\ Shows(FilteredPage, Only(lists[FilteredPage], File \ Rejected))
          /\ Ends /\ UNCHANGED active
  /\ UNCHANGED <<meant, runs>>

\* The indices of loadedFiles: a hole has none.
Sortable(p) == Range(lists[p]) \cap loaded

\* sortFilesFromView: scores are those of the files that were loaded when the
\* execution started, by position; what is sorted is the page of now. Where
\* the page has changed, any order may result.
SortEnds ==
  /\ Evaluated("sort") /\ ~Failed /\ ~loading
  /\ Range(exec.list) \subseteq DOMAIN exec.found
  /\ \E s \in SetToSeqs(Sortable(active)) :
       IF active = "hydrus" THEN OpensPage(s)
       ELSE Shows(active, s) /\ Ends /\ UNCHANGED active
  /\ UNCHANGED <<meant, runs>>

\* setPage has returned: the page is loaded, or was left.
Opened ==
  /\ exec # Idle /\ exec.stage = "opens"
  /\ active = "new" => ~loading
  /\ Ends /\ UNCHANGED <<meant, view, runs>>

\* Another page is shown. A page is left while an execution goes on, or to
\* come back to it: otherwise nothing is executed for the page that was left.
SetPage ==
  /\ exec # Idle /\ Free
  /\ active' \in Page \ {active} /\ lists[active'] # <<>>
  /\ loading' = TRUE /\ loaded' = {}
  /\ UNCHANGED <<modal, input, exec, lists, runs>>

\* A file goes from the page for another reason.
PageChanges ==
  /\ exec # Idle /\ Free
  /\ \E f \in Range(lists[active]) :
       Shows(active, Only(lists[active], File \ {f}))
  /\ UNCHANGED <<modal, input, exec, active, runs>>

\* The loader of the page ends, and some files may have failed.
Load ==
  /\ Free /\ loading /\ loading' = FALSE
  /\ loaded' \in SUBSET Range(lists[active])
  /\ UNCHANGED <<modal, input, exec, active, lists, runs>>

Next ==
  \/ Type \/ Finish \/ Erase \/ AcceptSuggestion \/ LoadBookmark
  \/ Open \/ Escape \/ Execute \/ ExecutionFails \/ FilterEnds \/ SortEnds \/ Opened
  \/ SetPage \/ PageChanges \/ Load

Spec == Init /\ [][Next]_vars

----------------------------------------------------------------------------

\* What is executed is what was meant: the parser reads what is written by
\* the precedence of Go's operators as the expression that was written, unless
\* it holds the literal false, which is read as true.
ReadsAsMeant ==
  modal # "none" /\ text = Meant /\ "false" \notin Range(Meant)
    => ParseExpression(text, "whole") = meant

\* This is not so, and no run checks it: "!false" is read as "!true".
AllReadAsMeant == modal # "none" /\ text = Meant => ParseExpression(text, "whole") = meant


\* A filter takes from the page it was started on exactly the files it has
\* rejected, and a filter that fails, or a page it was not started on, loses
\* nothing: neither a file that is not loaded, nor any file when the page was
\* left meanwhile.
FilterTakesRejected ==
  [][exec # Idle /\ exec'.stage # exec.stage /\ exec.kind = "filter" =>
       \A p \in Page \ {"new"} :
         \/ lists'[p] = lists[p]
         \/ /\ p = exec.page /\ ~Failed
            /\ Range(lists'[p]) = Range(lists[p]) \ Rejected]_vars

===============================================================================
