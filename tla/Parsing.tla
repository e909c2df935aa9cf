-------------------------------- MODULE Parsing --------------------------------
(***************************************************************************)
(* The two engines that read a source file (packages/parsers/src): the     *)
(* syntax tree of a grammar, and the scan of its lines that stands in for  *)
(* it.  Both make a parsed file for Inventory; both make the facts of the  *)
(* code property graph for Connect.                                        *)
(*                                                                         *)
(* A file is a sequence of statements (or, in Python, of lines with their  *)
(* indentation), and the index of a statement is its line.  The grammar is *)
(* taken as given: what is modelled is what each engine makes of a         *)
(* statement.  A source is [name, relative].                               *)
(***************************************************************************)
EXTENDS Integers, Sequences, FiniteSets, SequencesExt, FiniteSetsExt

CONSTANTS
  HookNames, ComponentNames,       \* names that read as a hook's or a component's
  RoutePaths                       \* literals that begin with a slash

None == "-"                        \* a name that is not there
Unread == <<"?">>                  \* what is not a clause

Mapped(f(_), s) == [i \in DOMAIN s |-> f(s[i])]
Named(names) == SelectSeq(names, LAMBDA n : n # None)
Local(spec) == IF spec.alias = None THEN spec.name ELSE spec.alias

----------------------------------------------------------------------------
(* A line of words (importScan.ts)                                          *)

PartsAt(word, words) ==
  FoldLeft(LAMBDA parts, w : IF w = word THEN Append(parts, <<>>) ELSE Append(Front(parts), Append(Last(parts), w)),
           <<<<>>>>, words)

\* A keyword separates only where a word stands on both sides of it.
splitAliasSegments(words) ==
  FoldLeftDomain(LAMBDA parts, i : IF words[i] = "as" /\ Last(parts) # <<>> /\ i < Len(words) THEN Append(parts, <<>>)
                                   ELSE Append(Front(parts), Append(Last(parts), words[i])), <<<<>>>>, words)

namedBraceBody(words) ==
  LET open == {i \in DOMAIN words : words[i] = "{"}
      close == {i \in DOMAIN words : open # {} /\ i > Min(open) /\ words[i] = "}"}
  IN IF close = {} THEN <<>> ELSE SubSeq(words, Min(open) + 1, Min(close) - 1)

afterTypeKeyword(clause) ==
  IF clause # <<>> /\ clause[1] = "type" /\ (Len(clause) = 1 \/ clause[2] # ",") THEN Tail(clause) ELSE Unread

readImportClause(clause) ==
  IF clause \in {<<>>, Unread} THEN clause
  ELSE IF Len(clause) > 1 /\ Last(clause) = "from" THEN Front(clause) ELSE Unread

\* Mutant: a leading `type` is always the keyword.
importClauseTyped(words) ==
  IF afterTypeKeyword(words) # Unread THEN readImportClause(afterTypeKeyword(words)) ELSE readImportClause(words)

\* What stands between `import` and the string: with `type` as the keyword if
\* that reads, with `type` as a name otherwise.
importClause(words) ==
  LET typed == readImportClause(afterTypeKeyword(words))
  IN IF typed # Unread THEN typed ELSE readImportClause(words)

\* Each name as the words it is written with.
parseImportSpecifiers(clause) ==
  LET star == {i \in 1..(Len(clause) - 2) : clause[i] = "*" /\ clause[i + 1] = "as"}
      body == Mapped(LAMBDA part : Last(splitAliasSegments(part)), PartsAt(",", namedBraceBody(clause)))
      first == PartsAt(",", clause)[1]
  IN (IF Len(first) = 1 /\ first[1] # "*" THEN <<first>> ELSE <<>>)
     \o (IF star = {} THEN <<>> ELSE <<<<clause[Min(star) + 2]>>>>)
     \o SelectSeq(body, LAMBDA name : name # <<>>)

\* The tree's: the default, the namespace, the named ones by their aliases.
importSpecifiers(clause) ==
  Named(<<clause.default, clause.namespace>>) \o Mapped(Local, clause.named)

----------------------------------------------------------------------------
(* Statements of JavaScript and TypeScript.  A declaration is [type, names, *)
(* members], and each of its names [name, pattern, value, source].          *)

FUNCTION_DECLARATIONS == {"function", "generator", "signature"}
CLASS_DECLARATIONS == {"class", "abstract class"}
TYPE_DECLARATIONS == {"interface", "type", "enum"}

namedKind(name, base) ==
  IF name \in HookNames THEN "hook" ELSE IF base = "function" /\ name \in ComponentNames THEN "component" ELSE base

Symbol(name, kind, exported) == [name |-> name, kind |-> kind, exported |-> exported]
Import(source, names, kind) == [source |-> source, names |-> names, kind |-> kind]

\* A pattern has no one name.
declaredSymbols(d, exported) ==
  LET first == d.names[1].name
      isFunction(v) == v.value \in {"arrow", "function"}
  IN CASE d.type \in FUNCTION_DECLARATIONS -> <<Symbol(first, namedKind(first, "function"), exported)>>
       [] d.type \in CLASS_DECLARATIONS ->
            <<Symbol(first, namedKind(first, "class"), exported)>> \o Mapped(LAMBDA m : Symbol(m, "method", FALSE), d.members)
       [] d.type \in TYPE_DECLARATIONS -> <<Symbol(first, "unknown", exported)>>
       [] d.type = "const" ->
            Mapped(LAMBDA v : Symbol(v.name, IF isFunction(v) THEN namedKind(v.name, "function") ELSE "variable", exported),
                   SelectSeq(d.names, LAMBDA v : v.name # None))

\* What an `export` wraps in a `declare` is neither a symbol nor an export.
treeSymbols(s) ==
  IF s.form # "declaration" \/ (s.declare /\ s.exported) THEN <<>> ELSE declaredSymbols(s.d, s.exported)

exportKindFor(type) ==
  CASE type \in FUNCTION_DECLARATIONS -> "function" [] type \in CLASS_DECLARATIONS -> "class"
    [] type = "const" -> "variable" [] type \in {"interface", "type"} -> type [] OTHER -> "unknown"

treeExports(s) ==
  CASE s.form = "clause" -> Mapped(LAMBDA n : [name |-> Local(n), kind |-> "unknown"], s.named)
    [] s.form = "declaration" /\ s.exported /\ ~s.declare ->
         Mapped(LAMBDA v : [name |-> v.name, kind |-> exportKindFor(s.d.type)], SelectSeq(s.d.names, LAMBDA v : v.name # None))
    [] OTHER -> <<>>

\* The names a require binds: one, or those of a pattern.
requireBindings(v) == IF v.name # None THEN <<v.name>> ELSE v.pattern
requireBinding(v) == Named(<<v.name>>)

\* A call for a source, anywhere in a statement.
Requested(s, kind) == IF s.form # "declaration" THEN <<>> ELSE SelectSeq(s.d.names, LAMBDA v : v.value = kind)

statementImports(s) ==
  CASE s.form = "import" -> <<Import(s.source, importSpecifiers(s.clause), "static")>>
    [] s.form = "importRequire" -> <<Import(s.source, <<s.name>>, "commonjs")>>
    [] OTHER -> <<>>

expressionImports(s) ==
  Mapped(LAMBDA v : Import(v.source, <<>>, "dynamic"), Requested(s, "dynamic"))
  \o Mapped(LAMBDA v : Import(v.source, requireBinding(v), "commonjs"), Requested(s, "require"))

treeImports(s) == statementImports(s) \o expressionImports(s)

Reexports(s) == IF s.form \in {"clause", "star"} /\ s.source.name # None THEN <<Import(s.source, <<>>, "reexport")>> ELSE <<>>

FactKind(kind) == CASE kind = "static" -> "import" [] kind = "commonjs" -> "require" [] OTHER -> kind

\* The facts' imports, a require with every name of its pattern.
treeFactImports(s) ==
  (CASE s.form = "import" -> <<Import(s.source, importSpecifiers(s.clause), "import")>>
     [] s.form = "importRequire" -> <<Import(s.source, <<s.name>>, "require")>>
     [] OTHER -> Reexports(s))
  \o Mapped(LAMBDA v : Import(v.source, <<>>, "dynamic"), Requested(s, "dynamic"))
  \o Mapped(LAMBDA v : Import(v.source, requireBindings(v), "require"), Requested(s, "require"))

treeConfidence(i) ==
  IF i.kind = "dynamic" THEN (IF i.source.relative THEN 90 ELSE 30) ELSE IF i.source.relative THEN 100 ELSE 95

----------------------------------------------------------------------------
(* The same by lines.  Only the first declarator of a line is seen, and of  *)
(* what is spread over several lines only its first                         *)

\* What follows a keyword on the line the expressions look at.
Plain(s, keywords) == s.form = "declaration" /\ ~s.declare /\ s.d.type \in keywords
Head1(s) == s.d.names[1]

lineImports(s) ==
  LET clause == IF s.form = "import" /\ ~s.spread THEN importClause(s.words) ELSE Unread
      First(kind) == s.form = "declaration" /\ s.d.type = "const" /\ Head1(s).value = kind
  IN (IF clause = Unread THEN <<>> ELSE <<Import(s.source, parseImportSpecifiers(clause), "static")>>)
     \o (IF First("require") /\ Head1(s).name # None
         THEN <<Import(Head1(s).source, <<<<Head1(s).name>>>>, "commonjs")>> ELSE <<>>)
     \o (IF Requested(s, "dynamic") = <<>> THEN <<>> ELSE <<Import(Requested(s, "dynamic")[1].source, <<>>, "dynamic")>>)

lineConfidence(i) ==
  IF i.kind = "dynamic" THEN (IF i.source.relative THEN 80 ELSE 20) ELSE IF i.source.relative THEN 100 ELSE 90

lineExports(s) ==
  CASE s.form = "clause" /\ ~s.spread -> Mapped(LAMBDA n : [name |-> Local(n), kind |-> "unknown"], s.named)
    [] Plain(s, {"function", "signature", "class", "const", "interface", "type"}) /\ s.exported /\ Head1(s).name # None ->
         <<[name |-> Head1(s).name, kind |-> exportKindFor(s.d.type)]>>
    [] OTHER -> <<>>

\* exported: the names of the lines so far.
lineSymbols(s, exported) ==
  LET name == Head1(s).name
      Found(kind) == <<Symbol(name, kind, s.exported \/ name \in exported)>>
  IN IF s.form # "declaration" \/ s.default THEN <<>>
     ELSE CASE Plain(s, {"function", "signature"}) -> Found(namedKind(name, "function"))
            [] Plain(s, {"class"}) -> Found(namedKind(name, "class"))
            [] Plain(s, {"const"}) /\ name # None /\ Head1(s).value \in {"arrow", "function", "callback"} ->
                 Found(namedKind(name, "function"))
            [] Plain(s, {"interface", "type"}) -> <<Symbol(name, "unknown", s.exported)>>
            [] OTHER -> <<>>

lineFactImports(s) ==
  Mapped(LAMBDA i : Import(i.source, <<>>, FactKind(i.kind)), lineImports(s)) \o (IF s.spread THEN <<>> ELSE Reexports(s))

----------------------------------------------------------------------------
(* A file of either engine                                                  *)

toDependency(i) ==
  [to |-> i.source, type |-> CASE i.kind = "dynamic" -> "dynamic-import" [] i.kind = "commonjs" -> "require"
                               [] i.kind = "python" -> "python-import" [] OTHER -> "import"]

\* What of(file[i]) gives for every line i, with the line.
InLines(of(_), file) ==
  FlattenSeq([i \in DOMAIN file |-> Mapped(LAMBDA x : [line |-> i, is |-> x], of(file[i]))])

\* The tree is walked twice: for statements, then for expressions.
parseFile(file, grammar) ==
  LET imports == IF grammar THEN InLines(statementImports, file) \o InLines(expressionImports, file)
                 ELSE InLines(lineImports, file)
  IN [imports |-> imports, dependencies |-> Mapped(LAMBDA x : toDependency(x.is), imports),
      reexports |-> IF grammar THEN InLines(Reexports, file) ELSE <<>>]

extractCpgFacts(file, grammar) ==
  [imports |-> IF grammar THEN InLines(treeFactImports, file) ELSE InLines(lineFactImports, file), enriched |-> grammar]

----------------------------------------------------------------------------
(* Calls and routes of the tree.  A callee is [base, props]: a    *)
(* name or a computed expression, and the properties taken of it; an        *)
(* expression of another form has neither                                   *)

Computed == "()"

\* A computed base leaves the properties alone.
calleeName(callee) == (IF callee.base \in {Computed, None} THEN <<>> ELSE <<callee.base>>) \o callee.props

JS_ROUTE_METHODS ==
  [get |-> "GET", post |-> "POST", put |-> "PUT", patch |-> "PATCH", delete |-> "DELETE", options |-> "OPTIONS",
   head |-> "HEAD", all |-> "ALL", route |-> "ALL", use |-> "USE"]
RouteObjects == {"app", "api", "server", "router", "route", "routes"}
IsRequest(name) == name \in {<<"require">>, <<"import">>}

\* A call [callee, literal, new], at its line.
callFacts(call, line) ==
  LET name == calleeName(call.callee)
  IN IF name = <<>> \/ (~call.new /\ IsRequest(name)) THEN <<>> ELSE <<[binding |-> name[1], symbol |-> name, line |-> line]>>

collectJsRoute(call, line) ==
  LET name == calleeName(call.callee)
      object == calleeName([call.callee EXCEPT !.props = Front(@)])
  IN IF call.new \/ call.callee.props = <<>> \/ call.literal \notin RoutePaths \/ Last(name) \notin DOMAIN JS_ROUTE_METHODS THEN <<>>
     ELSE <<[method |-> JS_ROUTE_METHODS[Last(name)], path |-> call.literal, line |-> line,
             framework |-> IF object # <<>> /\ Last(object) \in RouteObjects THEN "express" ELSE "unknown"]>>

PY_ROUTE_METHODS == [m \in {"get", "post", "put", "patch", "delete", "options", "head", "route"} |-> JS_ROUTE_METHODS[m]]
Verbs == {PY_ROUTE_METHODS[m] : m \in DOMAIN PY_ROUTE_METHODS} \ {"ALL"}

\* A decorator [attribute, path, methods]: one route for each declared verb,
\* GET where Flask declares none.
collectPyRoute(decorator) ==
  LET framework == IF decorator.attribute = "route" THEN "flask" ELSE "fastapi"
      declared == SelectSeq(decorator.methods, LAMBDA m : m \in Verbs)
      Route(method) == [method |-> method, path |-> decorator.path, framework |-> framework]
  IN IF decorator.attribute \notin DOMAIN PY_ROUTE_METHODS \/ decorator.path \notin RoutePaths THEN <<>>
     ELSE IF declared # <<>> THEN Mapped(Route, declared)
     ELSE <<Route(IF framework = "flask" THEN "GET" ELSE PY_ROUTE_METHODS[decorator.attribute])>>

----------------------------------------------------------------------------
(* Python: lines [indent, form, name, imports], a block being the lines     *)
(* that are indented more than the line that opens it                       *)

Opens == {"class", "def", "if", "else", "loop"}

\* The lines a line is nested in.
Around(lines, i) ==
  {j \in 1..(i - 1) : lines[j].form \in Opens /\ \A k \in (j + 1)..i : lines[k].indent > lines[j].indent}

\* The walk enters classes, and the first block of an `if`, a `try` or a `with`.
treeDefinitions(lines) ==
  {[name |-> lines[i].name, line |-> i,
    kind |-> CASE lines[i].form = "class" -> "class"
               [] \E j \in Around(lines, i) : lines[j].form = "class" -> "method" [] OTHER -> "function"] :
     i \in {i \in DOMAIN lines : lines[i].form \in {"class", "def"}
                                 /\ \A j \in Around(lines, i) : lines[j].form \in {"class", "if"}}}

\* The scan remembers the indentation of one class.
lineDefinitions(lines) ==
  LET Seen(state, i) ==
        LET l == lines[i]
            open == IF l.indent <= state.open THEN -1 ELSE state.open
            method == open >= 0 /\ l.indent > open
        IN [open |-> IF l.form = "class" THEN l.indent ELSE open,
            found |-> IF l.form \notin {"class", "def"} THEN state.found
                      ELSE state.found \cup {[name |-> l.name, line |-> i,
                             kind |-> IF l.form = "class" THEN "class" ELSE IF method THEN "method" ELSE "function"]}]
  IN FoldLeftDomain(Seen, [open |-> -1, found |-> {}], lines).found

\* An import [plain, module, names, wildcard, spread]: a list of modules, or
\* names of one; spread over several lines, its first ends in a parenthesis.
treePyImports(i) ==
  IF i.plain THEN Mapped(LAMBDA n : Import(n.name, <<>>, "python"), i.names)
  ELSE <<Import(i.module, IF i.wildcard THEN <<"*">> ELSE Mapped(LAMBDA n : n.name, i.names), "python")>>

Written(n) == IF n.alias = None THEN <<n.name>> ELSE <<n.name, "as", n.alias>>

linePyImports(i) ==
  LET names == IF i.spread THEN <<<<"(">>>> ELSE IF i.wildcard THEN <<<<"*">>>> ELSE Mapped(Written, i.names)
  IN IF i.plain THEN Mapped(LAMBDA n : Import(splitAliasSegments(Written(n))[1][1], <<>>, "python"), i.names)
     ELSE <<Import(i.module, Mapped(LAMBDA w : splitAliasSegments(w)[1][1], names), "python")>>

\* The facts have what a call site uses: the alias, or the root of a module.
factPyImports(i, root) ==
  IF i.plain THEN Mapped(LAMBDA n : Import(n.name, <<IF n.alias = None THEN root[n.name] ELSE n.alias>>, "import"), i.names)
  ELSE <<Import(i.module, IF i.wildcard THEN <<>> ELSE Mapped(Local, i.names), "import")>>

----------------------------------------------------------------------------
(* What must hold of the two                                                *)

\* How an import is written.
WordsOf(clause) ==
  LET Comma(left, right) == IF left = <<>> \/ right = <<>> THEN left \o right ELSE left \o <<",">> \o right
      named == FoldLeft(Comma, <<>>, Mapped(Written, clause.named))
      parts == <<Named(<<clause.default>>), IF clause.namespace = None THEN <<>> ELSE <<"*", "as", clause.namespace>>,
                 IF clause.braces THEN <<"{">> \o named \o <<"}">> ELSE <<>>>>
      body == FoldLeft(Comma, <<>>, parts)
  IN (IF clause.typed THEN <<"type">> ELSE <<>>) \o body \o (IF body = <<>> THEN <<>> ELSE <<"from">>)

\* The scan of a line reads of an import what the tree reads, though `type`,
\* `as` and `from` be names in it (importScan.ts:129-165).
ClausesAgree(clause) ==
  parseImportSpecifiers(importClause(WordsOf(clause))) = Mapped(LAMBDA n : <<n>>, importSpecifiers(clause))

Words(names) == Mapped(LAMBDA n : <<n>>, names)

\* One declarator with a name, on one line, in a form both engines know.
Simple(s) ==
  CASE s.form = "declaration" ->
         /\ ~s.declare /\ ~s.default /\ Len(s.d.names) = 1 /\ Head1(s).name # None
         /\ s.d.type \notin {"generator", "abstract class", "enum"}
    [] s.form = "importRequire" -> FALSE
    [] OTHER -> ~s.spread

\* Both engines find the same imports, of the same names, and the tree is never
\* less sure of one; the scan invents none (parseTreeSitter.ts:15, jsLike.ts:308).
ImportsAgree(s) ==
  LET ofTree == {[i EXCEPT !.names = Words(@)] : i \in Range(treeImports(s))}
      ofLines == Range(lineImports(s))
  IN /\ ofLines \subseteq ofTree
     /\ Simple(s) => ofLines = ofTree
     /\ \A i \in ofLines : lineConfidence(i) <= treeConfidence(i)

\* The facts Connect links by have every import of the parsed file, and what is
\* exported from elsewhere besides, whichever engine read them; no dependency is
\* lost or made twice (cpg.ts:101-105, jsLike.ts:15-20).
FactsHaveEveryImport(file) ==
  \A grammar \in BOOLEAN :
    LET parsed == parseFile(file, grammar)
        facts == extractCpgFacts(file, grammar)
        Bare(imports) == {<<x.line, x.is.source, FactKind(x.is.kind)>> : x \in Range(imports)}
        again == {x \in Range(InLines(Reexports, file)) : grammar \/ ~file[x.line].spread}
    IN /\ Bare(facts.imports) = Bare(parsed.imports) \cup Bare(SetToSeq(again))
       /\ Len(facts.imports) = Len(parsed.imports) + Cardinality(again)
       /\ grammar => \A x \in Range(parsed.imports) : \E f \in Range(facts.imports) :
            f.line = x.line /\ f.is.source = x.is.source /\ Range(x.is.names) \subseteq Range(f.is.names)
       /\ Mapped(LAMBDA d : d.to, parsed.dependencies) = Mapped(LAMBDA x : x.is.source, parsed.imports)

\* The scan exports and declares nothing that the tree does not, of another kind
\* neither, but where an arrow is only an argument; and what the tree calls
\* exported it does too.
DeclarationsAgree(file) ==
  \A i \in DOMAIN file :
    LET s == file[i]
        sofar == UNION {{e.name : e \in Range(lineExports(file[k]))} : k \in 1..i}
        found == Range(lineSymbols(s, sofar))
        tree == Range(treeSymbols(s))
        Same(a, b) == a.name = b.name /\ a.kind = b.kind /\ (b.exported => a.exported)
        Argument == s.form = "declaration" /\ Head1(s).value = "callback"
    IN /\ Range(lineExports(s)) \subseteq Range(treeExports(s))
       /\ Simple(s) => Range(lineExports(s)) = Range(treeExports(s))
       /\ Argument \/ \A a \in found : \E b \in tree : Same(a, b)
       /\ (Simple(s) /\ s.form = "declaration")
            => \A b \in tree : b.kind \in {"method", "variable"} \/ \E a \in found : Same(a, b)

\* A call is filed under the name it goes through, and is a route only of a
\* known verb on a path; what is taken for Express's is one of its objects.
CallsAreFiled(call) ==
  LET facts == callFacts(call, 1)
      routes == collectJsRoute(call, 1)
  IN /\ (call.callee.base \notin {Computed, None} /\ ~IsRequest(calleeName(call.callee)))
          => facts # <<>> /\ facts[1].binding = call.callee.base
     /\ routes # <<>> => facts # <<>> /\ routes[1].path \in RoutePaths
     /\ Len(routes) <= 1 /\ \A r \in Range(routes) : r.framework = "express" => Len(facts[1].symbol) >= 2

\* A decorated handler answers each verb it declares, once, and some verb.
HandlersAnswer(decorator) ==
  LET routes == collectPyRoute(decorator)
  IN routes # <<>> =>
       /\ \A r \in Range(routes) : r.method \in Verbs
       /\ \A m \in Range(decorator.methods) \cap Verbs : \E r \in Range(routes) : r.method = m
       /\ Len(routes) = Max({1, Cardinality({i \in DOMAIN decorator.methods : decorator.methods[i] \in Verbs})})

\* What the tree finds the scan finds, and of the same kind where no class ended
\* within the class around it; what it finds besides is nested where the tree
\* does not look (python.ts:84-91).
DefinitionsAgree(lines) ==
  LET tree == treeDefinitions(lines)
      found == lineDefinitions(lines)
      At(defs) == {d.line : d \in defs}
      InnerEnded(i) == \E j \in Around(lines, i), k \in 1..(i - 1) :
        /\ lines[j].form = "class" /\ lines[k].form = "class"
        /\ j \in Around(lines, k) /\ k \notin Around(lines, i)
  IN /\ At(tree) \subseteq At(found)
     /\ \A d \in tree : InnerEnded(d.line) \/ d \in found
     /\ \A i \in At(found) \ At(tree) : \E j \in Around(lines, i) : lines[j].form \in {"def", "else", "loop"}

\* Both engines import the same of the same modules, and the facts what a call
\* site can name.
PyImportsAgree(i, root) ==
  LET facts == factPyImports(i, root)
  IN /\ i.spread \/ linePyImports(i) = treePyImports(i)
     /\ Mapped(LAMBDA f : f.source, facts) = Mapped(LAMBDA t : t.source, linePyImports(i))
     /\ i.plain => \A k \in DOMAIN facts : Len(facts[k].names) = 1
===============================================================================
