----------------------------- MODULE MCAlgorithms -----------------------------
EXTENDS Algorithms

----------------------------------------------------------------------------
(* Graphs of four files, one of them the end of an edge to itself, and an   *)
(* edge to a file that is not there                                         *)

Ends == <<<<1, 2>>, <<1, 3>>, <<1, 4>>, <<2, 3>>, <<2, 4>>, <<3, 4>>, <<4, 4>>, <<1, 5>>>>
MCGraphs ==
  {[i \in DOMAIN Ends |-> [from |-> Ends[i][1], to |-> Ends[i][2], weight |-> w[i]]] :
     w \in {<<0, 0, 0, 0, 0, 0, 1, 1>>, <<1, 0, 0, 0, 0, 1, 0, 0>>, <<1, 1, 0, 1, 0, 0, 0, 0>>,
            <<1, 0, 0, 1, 0, 1, 0, 0>>, <<2, 1, 1, 1, 1, 2, 0, 0>>, <<1, 2, 1, 0, 0, 0, 1, 0>>}}

----------------------------------------------------------------------------

TupleSets(S, n) == UNION {[1..k -> S] : k \in 0..n}
SmallSubsets(S, n) == {T \in SUBSET S : Cardinality(T) <= n}

\* Files of up to four lines and up to two symbols, which end where they
\* begin, later, past the file, or nowhere.
MCSourceFiles ==
  {[lines |-> l, symbols |-> s] :
     l \in [1..1 -> {2, 9}] \cup [1..4 -> {2, 9}],
     s \in SmallSubsets({y \in [line : 1..4, endLine : {0, 2, 3, 5}] : y.endLine = 0 \/ y.endLine >= y.line}, 2)}

----------------------------------------------------------------------------
(* Three files, every set of imports between them, and two of calls; the    *)
(* order of paths is not that of ids                                        *)

Pairs == <<<<1, 2>>, <<2, 1>>, <<1, 3>>, <<3, 2>>, <<2, 3>>, <<3, 1>>>>
Kinds == <<"static", "require", "static", "dynamic", "static", "static">>
ImportsOf(S) ==
  [k \in 1..Cardinality(S) |->
     LET i == SetToSortSeq(S, <)[k]
     IN [from |-> Pairs[i][1], to |-> Pairs[i][2], kind |-> Kinds[i], specifier |-> i]]
Calls == <<[from |-> 1, to |-> 2, kind |-> "call", symbol |-> 7, count |-> 2, line |-> 1],
           [from |-> 3, to |-> 1, kind |-> "inheritance", symbol |-> 8, count |-> 1, line |-> 2]>>
MCRepos ==
  {[nodes |-> [i \in 1..3 |-> [id |-> i, path |-> 14 - i, lines |-> i, symbolCount |-> 1]],
    edges |-> ImportsOf(S), cpgEdges |-> c] : S \in SUBSET (1..6), c \in {<<>>, Calls}}

MCRequests ==
  [nodes : {{1, 2}}, requested : {1, 5}, endingIn : {{}, {1}, {2}, {1, 2}}, remembered : {Absent, 1, 2}]

\* Four tools, the last a general one.
MCToolUses ==
  {[tools |-> [i \in 1..4 |-> [id |-> i, matches |-> m[i], general |-> i = 4]],
    usage |-> [calls |-> [i \in 1..4 |-> IF i \in u THEN 1 + e[i] ELSE e[i]], empties |-> e]] :
     m \in [1..4 -> 0..1], u \in SUBSET {1, 4}, e \in {[i \in 1..4 |-> 0], [i \in 1..4 |-> IF i \in {1, 4} THEN 2 ELSE 1]}}

----------------------------------------------------------------------------

\* A file at the root, files below d, and one in a directory never entered.
MCFiles == {<<"x">>, <<"d", "x">>, <<"d", "y">>, <<"d", "d", "x">>, <<"dist", "y">>}
MCRules ==
  {[pattern |-> p, anchored |-> a, dirOnly |-> o, negate |-> n] :
     p \in {<<"d">>, <<"x">>, <<"*">>, <<"**", "x">>}, a \in BOOLEAN, o \in BOOLEAN, n \in BOOLEAN}
\* A negated pattern that names a directory is Git's and the code's only
\* disagreement here: only those that name x bring something back.
MCTrees ==
  {[files |-> MCFiles, rules |-> r] :
     r \in {s \in TupleSets(MCRules, 2) : \A i \in DOMAIN s : s[i].negate => s[i].pattern = <<"x">>}}

MCManifests ==
  {[pkg |-> [state |-> s, workspaces |-> w, bin |-> b, private |-> p, entry |-> e],
    others |-> o, workspaceFile |-> f, named |-> n] :
     s \in {"absent", "broken", "read"}, w \in BOOLEAN, b \in {"none", "empty", "paths"}, p \in BOOLEAN, e \in BOOLEAN,
     o \in {<<>>, <<{"cli"}>>, <<{}, {"library"}>>}, f \in BOOLEAN, n \in {{}, {<<"a", "bin">>, <<"b", "main">>}}}

MCDeclarations ==
  [declared : TupleSets([name : {"f", "g"}, exported : BOOLEAN], 3), exports : TupleSets({"f", "g", "h"}, 3)]

----------------------------------------------------------------------------
(* Five files, of which two are modules of one directory's name and one is  *)
(* Python; the first imports two names from what it is given                *)

Import(parts, ext, how, names) ==
  [relative |-> TRUE, parts |-> parts, ext |-> ext, kind |-> how, specifiers |-> names, dots |-> Len(parts)]
Outside(names) == [relative |-> FALSE, parts |-> <<"react">>, ext |-> "", kind |-> "static", specifiers |-> names, dots |-> 0]
File(dir, name, ext) ==
  [dir |-> dir, name |-> name, ext |-> ext, role |-> "source", readable |-> TRUE, imports |-> <<>>, refs |-> <<>>]
Others == <<File(<<"a">>, "x", ".ts"), File(<<"a", "b">>, "x", ".js"), File(<<"a", "x">>, "index", ".ts"),
            File(<<"a">>, "y", ".ts"), File(<<"a">>, "__init__", ".py")>>
ImportLists ==
  {<<i, k>> : i, k \in {Import(<<".", "x">>, "", "static", {"f"}), Import(<<".", "b", "x">>, "", "static", {"f", "g"}),
                        Import(<<"..", "a", "y">>, ".js", "require", {"g"}), Import(<<"..", "..", "a", "y">>, ".ts", "static", {"f"}),
                        Outside({"g"})}}
References == TupleSets([binding : {"f", "g"}, kind : {"call"}, symbol : {1, 2}, line : {4}], 2)
MCCodeBases ==
  {<<[File(<<"a">>, "main", ".ts") EXCEPT !.imports = i, !.refs = [k \in DOMAIN r |-> [r[k] EXCEPT !.line = 4 - k]]]>> \o Others :
     i \in ImportLists, r \in References}

----------------------------------------------------------------------------

MCSearches == [docs : [1..3 -> {<<1>>, <<1, 2>>, <<2, 2, 3>>}], query : TupleSets(1..3, 3)]
Orderings == {s \in TupleSets(1..3, 3) : IsInjective(s)}
MCRankings == Orderings \X Orderings

\* A model that gives each batch of at most two a score for each, or not.
Batches == {s \in TupleSets(1..3, 2) : s # <<>> /\ IsInjective(s)}
MCReranks ==
  {[candidates |-> c, named |-> n,
    answer |-> [b \in Batches |-> IF b = short THEN <<1>> ELSE [i \in DOMAIN b |-> up * b[i]]]] :
     c \in Orderings, n \in Orderings, short \in {<<>>, <<1, 2>>, <<2, 3>>}, up \in {-1, 1}}

MCChoices ==
  {[i \in 1..3 |-> [id |-> i, relevance |-> r[i], file |-> f[i]]] : r \in [1..3 -> 0..2], f \in [1..3 -> {"a", "b"}]}

\* What a file's lines can be above a declaration: a block is closed by a line
\* after the one that opened it.
MCComments ==
  {s \in TupleSets({"blank", "code", "line", "open", "in", "close", "whole"}, 4) :
     \A i \in DOMAIN s : s[i] \in {"in", "close"} =>
       \E o \in 1..(i - 1) : s[o] = "open" /\ \A k \in (o + 1)..(i - 1) : s[k] \in {"in", "blank"}}

----------------------------------------------------------------------------
(* What is made of an analysis.  Findings of up to three communities, which *)
(* repeat one another across lenses and name a file that is not there       *)

FileA == <<1, 1>>
FileB == <<1, 2>>
FileC == <<2>>
Ghost == <<3>>
Finding(c, l, h, d, i, f) ==
  [cluster |-> c, specialist |-> l, headline |-> h, detail |-> d, importance |-> i, files |-> f]
Templates ==
  {Finding(1, 1, <<1, 1>>, 1, 3, {FileA}), Finding(1, 2, <<1, 2>>, 4, 2, {FileB, Ghost}), Finding(1, 1, <<2, 1>>, 1, 1, {}),
   Finding(1, 2, <<3, 1>>, 1, 2, {FileC}), Finding(2, 1, <<1, 1>>, 2, 3, {FileC}), Finding(2, 1, <<2, 1>>, 1, 2, {Ghost}),
   Finding(3, 2, <<4, 1>>, 1, 1, {FileB})}
MCBoards ==
  {[findings |-> f,
    result |-> [nodes |-> {FileA, FileB, FileC}, edges |-> 1, entryPoints |-> {FileA}, cycles |-> c,
                degree |-> (FileA :> [fanIn |-> 0, fanOut |-> 1] @@ FileB :> [fanIn |-> 1, fanOut |-> 0]),
                clusters |-> (1 :> {FileA, FileB} @@ 2 :> {FileC})]] :
     f \in TupleSets(Templates, 3) \cup {t \in [1..4 -> Templates] : IsInjective(t)}, c \in {<<>>, <<{FileA, FileB}>>}}
MCLookups == [entries : TupleSets([text : SUBSET {1, 2}, question : SUBSET {1, 2}], 2), query : SUBSET {1, 2}]
MCHistories == TupleSets({"read", "x", "y"}, 5)

\* Five modules with every set of six imports, one of them in two kinds.
Imports == <<<<1, 2>>, <<2, 3>>, <<3, 4>>, <<4, 5>>, <<5, 1>>, <<2, 1>>, <<3, 3>>, <<1, 9>>>>
Module(i) ==
  [id |-> i, dir |-> <<<<"api">>, <<"lib", "db">>, <<"core">>, <<>>, <<"x", "http">>>>[i],
   role |-> <<"source", "source", "test", "doc", "source">>[i]]
MCDrawings ==
  {[nodes |-> [i \in 1..5 |-> Module(i)], cycles |-> {{1, 2}}, entryPoints |-> p,
    edges |-> LET drawn == SelectSeq(Imports, LAMBDA e : e \in S)
              IN [i \in DOMAIN drawn |-> [from |-> drawn[i][1], to |-> drawn[i][2], kind |-> "static"]]
                   \o (IF twice THEN <<[from |-> 1, to |-> 2, kind |-> "dynamic"]>> ELSE <<>>)] :
     S \in SUBSET Range(Imports), p \in {{}, {3}}, twice \in BOOLEAN}

\* Four files with their dependents; and counts alone, of up to twelve files.
MCMeasures ==
  {[fileCount |-> n, isolated |-> i, cycles |-> c, maxBlast |-> Max({0} \cup Range(b)),
    perFile |-> [k \in 1..n |-> [file |-> k, blast |-> b[k], degree |-> IF k = 1 THEN d ELSE 1]]] :
     n \in {4}, i \in {0, 2}, d \in {1, 3}, b \in [1..4 -> 0..2], c \in {<<>>, <<<<1, 2>>>>, <<<<2, 3, 1>>, <<1, 2>>>>}}
  \cup {[fileCount |-> n, isolated |-> i, cycles |-> [k \in 1..c |-> <<k>>], maxBlast |-> b, perFile |-> <<>>] :
          n \in {0, 1, 3, 12}, i \in 0..3, c \in 0..2, b \in 0..3}

\* What a run leaves (Pipeline.tla): its stages in order until one that is
\* required fails or it is aborted.
StageOrder == <<"ingest", "orient", "map-structure", "inventory", "connect", "analyze", "synthesize", "rag">>
ResultOf(o) ==
  LET registered == {i \in 1..8 : (i = 7 => o.chat) /\ (i = 8 => o.embedding)}
      Skipped(i) == i >= o.abortedAt \/ (o.fails < 7 /\ i > o.fails)
      Done(i) == i \in registered /\ ~Skipped(i) /\ i # o.fails
      Slice(i, n) == IF Done(i) THEN n ELSE R!Absent
      failed == o.fails \in registered /\ ~Skipped(o.fails)
      result ==
        [chat |-> o.chat, embedding |-> o.embedding,
         status |-> IF failed /\ o.fails < 7 THEN "failed" ELSE IF o.abortedAt < 9 THEN "aborted"
                    ELSE IF failed THEN "partial" ELSE "completed",
         reason |-> IF failed /\ o.fails > 6 /\ o.exhausted THEN "budget-exhausted" ELSE "none",
         records |-> [s \in {StageOrder[i] : i \in registered} |->
                        LET i == CHOOSE k \in 1..8 : StageOrder[k] = s
                        IN [status |-> IF Skipped(i) THEN "skipped" ELSE IF i = o.fails THEN "failed" ELSE "completed",
                            ms |-> IF Skipped(i) THEN R!Absent ELSE i]],
         commit |-> Slice(1, 7), structure |-> Slice(3, o.files), inventory |-> Slice(4, 1),
         graph |-> IF Done(5) THEN <<[nodes |-> o.files, edges |-> 1, resolved |-> 1, unresolved |-> o.unresolved]>> ELSE <<>>,
         perFile |-> IF Done(6) THEN o.files ELSE 0, communities |-> IF Done(6) THEN 1 ELSE 0,
         synthesis |-> Slice(7, 1), dropped |-> 0, rag |-> Slice(8, 3),
         cost |-> IF Done(7) THEN <<[usd |-> R!Absent]>> ELSE <<>>]
  IN result @@ [scope |-> R!classifyRun(R!skippedAiStages(result), result.reason)]
MCOutcomes ==
  {ResultOf(o) : o \in [chat : BOOLEAN, embedding : BOOLEAN, exhausted : BOOLEAN, fails : 1..9, abortedAt : 1..9,
                        files : {0, 2}, unresolved : {0, 1}]}

\* Three stages, each owning a slice and reading any, with Ingest first, in
\* between and reading itself, or not at all.
MCPlans ==
  LET Own(id) == [id |-> id, owns |-> {id}]
      Declared == [{"a", "b", "c"} -> SUBSET {"a", "b", "c"}]
      Reading(f, own) == f @@ ("ingest" :> own)
  IN {[stages |-> <<Own("ingest"), Own("a"), Own("b"), Own("c")>>, reads |-> Reading(f, {})] : f \in Declared}
       \cup {[stages |-> <<Own("c"), Own("ingest"), Own("b"), Own("a")>>, reads |-> Reading(f, {"a"})] : f \in Declared}
       \cup {[stages |-> <<Own("b"), Own("a")>>, reads |-> f] : f \in Declared}

MCLatencies == UNION {[1..n -> [ms : {-1, 1, 3}, answered : BOOLEAN]] : n \in 0..4}

----------------------------------------------------------------------------
(* Providers: a counter that is a number, a string or neither               *)

Number(n) == [kind |-> "number", n |-> n]
NoNumber == [kind |-> "other", n |-> 0]
MCCompletions ==
  [provider : {"anthropic", "gemini", "openai"},
   request : {[prefix |-> p, system |-> s, prompt |-> 5, maxTokens |-> R!Absent] : p \in {0, 3}, s \in {0, 8}},
   answer : {[ok |-> TRUE, texts |-> t, input |-> i, output |-> o, cached |-> c] :
               t \in {<<0>>, <<2, 3>>}, i, o \in {Number(0), Number(4), Number(-1), [kind |-> "string", n |-> 3], NoNumber},
               c \in {Number(1), NoNumber}}
            \cup {[ok |-> FALSE, texts |-> <<2>>, input |-> Number(1), output |-> Number(1), cached |-> NoNumber]}]
MCEmbeddings ==
  [texts : {SubSeq(<<5, 6, 9>>, 1, n) : n \in 0..3}, order : {s \in [1..3 -> 1..3] : IsInjective(s)},
   indexed : BOOLEAN, reports : BOOLEAN, short : BOOLEAN]
MCEnvironments ==
  [keys : SUBSET {"anthropic", "gemini", "openai", "voyage"}, chat : {"", "gemini", "anthropic", "mistral"},
   embedding : {"", "gemini", "voyage", "openai"}, wide : BOOLEAN,
   dim : {[kind |-> "none", n |-> 0], [kind |-> "fraction", n |-> 1]} \cup {[kind |-> "integer", n |-> n] : n \in {-2, 0, 3}}]
Clients == {<<>>} \cup {<<[provider |-> p, model |-> m]>> : p \in {1, 2}, m \in {1, 2}}
MCRoutings ==
  [fast : Clients, frontier : Clients,
   hint : {<<>>} \cup {<<h>> : h \in [task : {"specialist", "supervisor", "classification"}, complexity : 0..2]}]
MCPrices ==
  [raw : [kind : {"blank", "broken", "no object", "entries"},
          entries : SmallSubsets([model : {1, 2}, input : {R!Absent, 0, 3}, output : {R!Absent, 1}], 1)],
   env : SUBSET {"LANGFUSE_HOST", "LANGFUSE_PUBLIC_KEY", "LANGFUSE_SECRET_KEY", "HELICONE_API_KEY"}]

----------------------------------------------------------------------------
(* Source files.  Clauses whose names are the keywords; every statement, and *)
(* two of them where one bears on the other; Python of up to five lines      *)

NoName == "-"
ClauseWords == {"a", "type", "from", "as"}
Specifiers == [name : ClauseWords, alias : {NoName, "a", "type", "from", "as"}]
MCClauses ==
  {c \in [default : {NoName} \cup ClauseWords, namespace : {NoName} \cup ClauseWords, named : TupleSets(Specifiers, 2), braces : BOOLEAN, typed : BOOLEAN] :
     /\ c.named # <<>> => c.braces
     /\ c.namespace = NoName \/ ~c.braces
     /\ c.typed => Cardinality({p \in 1..3 : <<c.default # NoName, c.namespace # NoName, c.braces>>[p]}) = 1}
Sources == {[name |-> "./x", relative |-> TRUE], [name |-> "x", relative |-> FALSE]}
NoSource == [name |-> NoName, relative |-> FALSE]
Declarators ==
  {[name |-> n, pattern |-> IF n = NoName THEN <<"p", "q">> ELSE <<>>, value |-> v, source |-> IF v \in {"require", "dynamic"} THEN s ELSE NoSource] :
     n \in {NoName, "useIt", "It", "it"}, v \in {"arrow", "function", "callback", "other", "require", "dynamic"}, s \in Sources}
OneName == {[name |-> n, pattern |-> <<>>, value |-> "other", source |-> NoSource] : n \in {"useIt", "It", "it"}}
Decls ==
  {[type |-> "const", names |-> n, members |-> <<>>] : n \in (TupleSets(Declarators, 1) \ {<<>>}) \cup {<<a, b>> : a, b \in {d \in Declarators : d.name \in {NoName, "it"}}}}
  \cup {[type |-> t, names |-> <<n>>, members |-> IF t \in {"class", "abstract class"} THEN <<"m">> ELSE <<>>] :
          t \in {"function", "generator", "signature", "class", "abstract class", "interface", "type", "enum"}, n \in OneName}
DeclStatements ==
  {s \in [form : {"declaration"}, exported : BOOLEAN, default : BOOLEAN, declare : BOOLEAN, spread : {FALSE}, d : Decls] :
     /\ s.default => s.exported /\ ~s.declare /\ s.d.type \in {"function", "generator", "class", "abstract class", "interface"}
     /\ s.declare => \A n \in Range(s.d.names) : n.value = "other"}
ClauseStatements ==
  [form : {"clause"}, named : TupleSets([name : {"it"}, alias : {NoName, "It"}], 2), source : Sources \cup {NoSource}, spread : BOOLEAN]
  \cup [form : {"star"}, source : Sources, spread : BOOLEAN]
ImportStatements ==
  {[form |-> "import", clause |-> c, words |-> G!WordsOf(c), source |-> s, spread |-> b] :
     c \in {x \in MCClauses : x.default # "as" /\ Len(x.named) < 2}, s \in Sources, b \in BOOLEAN}
  \cup [form : {"importRequire"}, name : {"a"}, source : Sources, spread : {FALSE}]
Statements == DeclStatements \cup ClauseStatements \cup ImportStatements
MCSourceModules == {<<s>> : s \in Statements} \cup (ClauseStatements \X DeclStatements) \cup ({d \in DeclStatements : d.d.names[1].value \in {"require", "dynamic"}} \X {i \in ImportStatements : i.form = "importRequire" \/ Len(i.words) = 2})
MCCallSites == {c \in [callee : [base : {"app", "fs", G!Computed, NoName, "require"}, props : TupleSets({"get", "listen", "router"}, 2)], literal : {"/", "x", NoName}, new : BOOLEAN] :
   c.callee.base = NoName => c.callee.props = <<>>}
MCDecorators == [attribute : {"get", "route", "wraps"}, path : {"/", "x", NoName}, methods : TupleSets({"GET", "POST", "TRACE"}, 3)]
PyForms == {"class", "def", "if", "else", "loop", "pass"}
Follows(s, l) ==
  IF s = <<>> THEN l.indent = 0 /\ l.form # "else"
  ELSE LET p == Last(s) IN
       /\ IF p.form \in G!Opens THEN l.indent = p.indent + 1 ELSE l.indent <= p.indent
       /\ l.form = "else" => \E j \in DOMAIN s : s[j].indent = l.indent /\ s[j].form \in {"if", "loop"} /\ \A m \in (j+1)..Len(s) : s[m].indent > l.indent
Grow(S) == {s \in {Append(s, [indent |-> i, form |-> f, name |-> Len(s)]) : s \in S, i \in 0..3, f \in PyForms} : Follows(Front(s), Last(s))}
MCPythonFiles == LET f[n \in 0..5] == IF n = 0 THEN {<<>>} ELSE Grow(f[n-1]) IN f[5]
PyStatements ==
  {i \in [plain : BOOLEAN, module : {"m", ".m"}, names : TupleSets([name : {"a", "a.b"}, alias : {NoName, "c"}], 2),
          wildcard : BOOLEAN, spread : BOOLEAN] :
     (i.wildcard <=> i.names = <<>>) /\ (i.plain => ~i.wildcard /\ ~i.spread) /\ (i.wildcard => ~i.spread)}
MCPythonImports == [import : PyStatements, root : {[n \in {"a", "a.b"} |-> "a"]}]
----------------------------------------------------------------------------
(* Evaluations: three chunks of two files, questions of either or of none,  *)
(* two of which no data set may hold                                        *)

C1 == [id |-> 1, file |-> 1, first |-> 1, last |-> 1, text |-> TRUE, dim |-> 2]
C2 == [id |-> 2, file |-> 1, first |-> 2, last |-> 2, text |-> TRUE, dim |-> 2]
C3 == [id |-> 3, file |-> 2, first |-> 1, last |-> 2, text |-> TRUE, dim |-> 2]
Place(f, a, b) == [file |-> f, first |-> a, last |-> b]
EvalQuestions ==
  {[id |-> 1, files |-> q[1], lines |-> q[2]] :
     q \in {<<<<>>, <<>>>>, <<<<1>>, <<>>>>, <<<<2, 1>>, <<>>>>, <<<<1>>, <<Place(1, 1, 1)>>>>,
            <<<<1, 2>>, <<Place(1, 2, 2), Place(2, 1, 2)>>>>, <<<<1>>, <<Place(2, 1, 1)>>>>, <<<<1>>, <<Place(1, 2, 1)>>>>}}
EvalRankings == {<<>>, <<C1>>, <<C2, C3>>, <<C3, C1, C2>>}
Answered(a, cites, dropped, retrieved) == [answered |-> a, citations |-> cites, dropped |-> dropped, retrieved |-> retrieved]
EvalAnswers ==
  {Answered(FALSE, <<>>, 1, <<>>), Answered(TRUE, <<>>, 0, <<1>>), Answered(TRUE, <<Place(1, 1, 1)>>, 0, <<1, 3>>),
   Answered(TRUE, <<Place(1, 1, 2), Place(2, 1, 2)>>, 1, <<3, 2>>), Answered(TRUE, <<Place(2, 2, 2)>>, 0, <<>>)}
Sampled == [l \in [human : BOOLEAN, tenths : {6, 7}] |->
              IF l.human THEN (IF l.tenths = 7 THEN 20 ELSE 1) ELSE (IF l.tenths = 7 THEN 1 ELSE 9)]
Unsampled == [l \in [human : BOOLEAN, tenths : {6, 7}] |-> 0]
Vectors2 == [model |-> "a", dim |-> 2]
Evaluation(questions, rankings, answers, k) ==
  [questions |-> questions, rankings |-> rankings, answers |-> answers, k |-> k,
   space |-> Vectors2, clientSpace |-> Vectors2, indexSpace |-> Vectors2, pinned |-> TRUE,
   indexed |-> TRUE, stores |-> TRUE, answering |-> TRUE, judging |-> TRUE,
   synthesis |-> [present |-> TRUE, reading |-> <<1, 2>>, dropped |-> 0, keyFiles |-> <<1>>,
                  nodeIds |-> {1, 2}, expected |-> <<1>>],
   chunks |-> <<C1, C2, C3>>, texts |-> {1, 2, 3}, sidecar |-> <<C1, C2, C3>>,
   completions |-> [i \in DOMAIN questions |-> [numeric |-> TRUE, tenths |-> 5]], labelled |-> Sampled]
Single == {Evaluation(<<q>>, <<r>>, <<a>>, k) : q \in EvalQuestions, r \in EvalRankings, a \in EvalAnswers, k \in 1..2}
Double == {Evaluation(<<q, [p EXCEPT !.id = i]>>, <<<<C1>>, r>>, <<a, Answered(FALSE, <<>>, 0, <<>>)>>, 2) :
             q \in EvalQuestions, p \in EvalQuestions, i \in 1..2, r \in {<<C2>>, <<C2, C3>>}, a \in EvalAnswers}
Plain1 == Evaluation(<<[id |-> 1, files |-> <<1>>, lines |-> <<>>]>>, <<<<C1>>>>,
                     <<Answered(TRUE, <<Place(1, 1, 1)>>, 0, <<1>>)>>, 1)
MCEvaluations ==
  Single \cup Double
  \cup {[e EXCEPT !.judging = j, !.answering = n, !.labelled = l, !.texts = t,
                  !.completions = <<[numeric |-> TRUE, tenths |-> v]>>] :
          e \in {x \in Single : x.k = 1 /\ x.rankings = <<<<C1>>>>}, j \in BOOLEAN, n \in BOOLEAN,
          l \in {Sampled, Unsampled}, t \in {{}, {1, 2, 3}}, v \in {-1, 9, 12}}
  \cup {[Plain1 EXCEPT !.clientSpace.model = c, !.indexSpace.dim = d, !.indexed = i, !.stores = s,
                       !.synthesis.present = p, !.sidecar = x] :
          c \in {"a", "b"}, d \in {2, 3}, i \in BOOLEAN, s \in BOOLEAN, p \in BOOLEAN,
          x \in {<<C1, C2, C3>>, <<>>, <<C1, C1>>, <<C1, [C2 EXCEPT !.dim = 3]>>, <<[C1 EXCEPT !.text = FALSE]>>,
                 <<[C1 EXCEPT !.dim = 3]>>}}
  \cup {[Plain1 EXCEPT !.questions = <<>>, !.rankings = <<<<>>>>, !.answers = <<>>, !.completions = <<>>,
                       !.clientSpace.model = "b", !.synthesis.present = p] : p \in BOOLEAN}
  \cup {[Plain1 EXCEPT !.completions = <<[numeric |-> FALSE, tenths |-> 0]>>, !.pinned = FALSE]}

\* Faithful or not, and called so or not, of up to 96 examples.
MCLabelSets == [[human : BOOLEAN, tenths : {6, 7}] -> {0, 1, 2, 6, 24}]

MCArenaWorlds ==
  {[oracle |-> o, output |-> [fileIds |-> f, citations |-> c], files |-> {1, 2}, loc |-> (1 :> 2),
    retrieved |-> r, truth |-> t] :
     o \in BOOLEAN, f \in SUBSET {1, 3}, t \in {{}, {1}},
     c \in TupleSets({Place(1, 1, 2), Place(1, 2, 1), Place(1, 2, 9), Place(3, 1, 1), Place(2, 1, 1), Place(1, 0, 0)}, 2),
     r \in {<<>>, <<Place(1, 1, 2)>>, <<Place(1, 1, 1), Place(1, 2, 2)>>, <<Place(1, 1, 9), Place(2, 1, 1)>>}}

MCFlywheels ==
  {[repo |-> [nodes |-> r.nodes, edges |-> r.edges, cpgEdges |-> r.cpgEdges, sha |-> r.cpgEdges = <<>>,
              cluster |-> IF r.cpgEdges = <<>> THEN <<>> ELSE <<1, 1, 2>>,
              projected |-> IF r.cpgEdges = <<>> THEN {} ELSE {3}, inventoried |-> {1}],
    limits |-> l, space |-> Vectors2] :
     r \in MCRepos, l \in {[perKind |-> 1, negative |-> 1, hard |-> 1], [perKind |-> 5, negative |-> 0, hard |-> 3]}}

Found2 == {c \in [expected : SUBSET {1, 2}, core : {{}, {1}}, found : [tree : SUBSET {1, 2, 3}, scan : SUBSET {1, 2, 3}]] :
             c.core \subseteq c.expected}
MCCorpora ==
  {<<c>> : c \in Found2}
  \cup {<<c, [expected |-> {1}, core |-> {1}, found |-> [tree |-> t, scan |-> s]]>> :
          c \in Found2, t \in {{}, {1}, {1, 2}}, s \in {{1}, {2}}}

ArmQuestions == [expected : {{}, {1, 2}}, enriched : {<<>>, <<1>>, <<3, 1>>, <<1, 2>>}, raw : {<<>>, <<2>>, <<3, 2>>, <<2, 1>>}]
MCArmTrials == {<<a, b>> : a \in ArmQuestions, b \in ArmQuestions}
Surface(r) == r @@ [symbols |-> {[name |-> 1, holds |-> {1}, file |-> 3, line |-> 2], [name |-> 2, holds |-> {1, 2}, file |-> 1, line |-> 1],
                                 [name |-> 3, holds |-> {3, 5}, file |-> 3, line |-> 4], [name |-> 4, holds |-> {4, 5}, file |-> 2, line |-> 3]},
                    projected |-> {}, inventoried |-> {1}, indexed |-> TRUE, sameSpace |-> Len(r.edges) < 3]
Called(tool, kindOf, file, claimed, readable) ==
  [tool |-> tool, kind |-> kindOf, file |-> file, endingIn |-> IF file = 5 THEN {2} ELSE {}, claimed |-> claimed, readable |-> readable]
McpCalls ==
  {Called(t, "", f, {}, r) : t \in {"find_references", "get_callers", "symbol_search", "search_code"}, f \in {0, 1, 5}, r \in BOOLEAN}
  \cup {Called("graph_facts", "", 0, {}, r) : r \in BOOLEAN}
  \cup {Called("verify_answer", k, f, {1}, r) : k \in {"who-calls", "entry-points", "is it good"}, f \in {0, 2}, r \in BOOLEAN}
McpRepo(n) == Surface([nodes |-> [i \in 1..3 |-> [id |-> i, path |-> 14 - i, lines |-> i, symbolCount |-> 1]],
                       edges |-> ImportsOf(1..n), cpgEdges |-> Calls])
MCMcpSessions ==
  LET r3 == McpRepo(3)
      r2 == McpRepo(2)
  IN {[words |-> w, provider |-> p, repo |-> r3, limit |-> 1, calls |-> <<a, b>>] :
       w \in {<<>>, <<"verify", "retrieval">>, <<"all">>, <<"all", "graph">>, <<"grahp", "verify">>}, p \in BOOLEAN,
       a \in {c \in McpCalls : c.file # 5}, b \in {c \in McpCalls : c.file # 1}}
     \cup {[words |-> w, provider |-> TRUE, repo |-> r2, limit |-> 2, calls |-> <<a, b, c>>] :
       w \in {<<"graph", "retrieval">>}, a \in McpCalls,
       b \in {Called("get_blast_radius", "", 1, {}, r) : r \in BOOLEAN}, c \in {x \in McpCalls : x.file = 0 /\ x.readable}}
     \cup {[words |-> <<"all">>, provider |-> TRUE, repo |-> Surface(r), limit |-> 2, calls |-> <<>>] : r \in MCRepos}

LocalTrees ==
  {<<>>, <<[file |-> 1, text |-> <<1>>]>>, <<[file |-> 1, text |-> <<2, 2>>], [file |-> 2, text |-> <<1, 3>>]>>,
   <<[file |-> 1, text |-> <<>>], [file |-> 1, text |-> <<2>>], [file |-> 2, text |-> <<1, 2>>]>>,
   3 :> [file |-> 2, text |-> <<2, 4>>]}
LocalRun(tree, name, skipIndex, done, questionOf, k) ==
  [tree |-> tree, name |-> name, skipIndex |-> skipIndex, done |-> done, question |-> questionOf, k |-> k]
OtherSpace == [dim |-> 3, model |-> "another"]
MCLocalRuns ==
  {[disk |-> d, before |-> b, last |-> LocalRun(t, "a", FALSE, n, q, k)] :
     d \in {[vectors |-> <<>>, texts |-> <<>>],
           [vectors |-> "a" :> [space |-> OtherSpace, records |-> <<[i \in 0..2 |-> 1]>>], texts |-> "a" :> <<<<9>>>>]},
     b \in {<<>>} \cup {<<LocalRun(x, m, s, c, <<>>, 5)>> : x \in LocalTrees, m \in {"a", "b"}, s \in BOOLEAN, c \in {2, 3, 4}}
        \cup {<<LocalRun(x, "a", FALSE, 4, <<>>, 5), LocalRun(y, "a", FALSE, 1, <<>>, 5)>> : x \in LocalTrees, y \in LocalTrees},
     t \in LocalTrees, n \in {3, 4}, q \in {<<1>>, <<2, 4>>, <<>>}, k \in {0, 1, 2}}

Opts == {<<>>, <<"outTo">>, <<"none">>, <<"none", "k">>, <<"dir", "none">>}
MCCommandLines == [command : {"analyze", "ask"}, words : {<<>>, <<"what">>, <<"who", "calls">>}, first : Opts, between : Opts, last : Opts]

Entry(place, name, kindOf) == [at |-> place, name |-> name, kind |-> kindOf]
MCListings ==
  {[entries |-> <<a, b, c>>, other |-> <<c, a, b>>] :
     a \in {Entry(1, "dist", k) : k \in {"file", "dir", "none"}}, b \in {Entry(2, n, k) : n \in {"lib", "node_modules"}, k \in {"file", "dir", "none"}},
     c \in {Entry(3, "src", k) : k \in {"file", "dir", "none"}}}
=============================================================================
