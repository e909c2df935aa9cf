----------------------------- MODULE LocalTools -----------------------------
(***************************************************************************)
(* The two ways into the system that need no server of its own: the tools  *)
(* an outside agent calls over MCP (apps/mcp/src) and the analysis of a     *)
(* working tree on the machine it lies on (apps/local-cli/src), with the    *)
(* stores it keeps in files (packages/retrieval/src/stores/fileVectorStore, *)
(* localEmbedding).                                                         *)
(*                                                                         *)
(* A file is a number, and 0 is none; a text is a sequence of words, and a *)
(* word is a number.  A repository is as in CodeGraph, with symbols.        *)
(***************************************************************************)
EXTENDS Scoring

H == INSTANCE Retrieval

----------------------------------------------------------------------------
(* Which tools there are                                                    *)

MCP_SCOPES == {"graph", "retrieval", "verify"}

\* "all" is a word of its own only; no word allows nothing.
parseScopes(words) ==
  IF words = <<"all">> THEN [scopes |-> MCP_SCOPES, errors |-> {}]
  ELSE [scopes |-> Range(words) \cap MCP_SCOPES, errors |-> Range(words) \ MCP_SCOPES]

GraphTools == {"find_references", "get_callers", "get_blast_radius", "symbol_search", "graph_facts"}
scopeOf(tool) == CASE tool \in GraphTools -> "graph" [] tool = "search_code" -> "retrieval" [] OTHER -> "verify"

\* A tool that may not be used, or that has no provider, is not there.
buildMcpTools(scopes, provider) ==
  {t \in GraphTools \cup {"search_code", "verify_answer"} :
     /\ scopeOf(t) \in scopes
     /\ t = "search_code" => provider}

----------------------------------------------------------------------------
(* What a call says                                                         *)

Failed(why) == [isError |-> TRUE, why |-> why, files |-> {}, passed |-> FALSE, paid |-> FALSE]
Says(files) == [isError |-> FALSE, why |-> "", files |-> files, passed |-> FALSE, paid |-> FALSE]

\* Those of that name, or else those that hold it; the first of them.
symbolSearch(symbols, name, limit) ==
  LET exact == {s \in symbols : s.name = name}
      found == IF exact # {} THEN exact ELSE {s \in symbols : name \in s.holds}
      Before(a, b) == a.file < b.file \/ (a.file = b.file /\ a.line < b.line)
  IN Says({s.file : s \in Range(Prefix(SortedBy(found, Before), limit))})

\* The tools that are about one file.  Nobody asked before, so nothing is "it".
aboutFile(tool, repo, file) ==
  CASE file = Absent -> {}
    [] tool = "find_references" -> find_references(repo, file)
    [] tool = "get_callers" -> get_callers(repo, file)
    [] tool = "get_blast_radius" -> get_blast_radius(repo, file)
fileTool(tool, repo, call) ==
  Says(aboutFile(tool, repo, resolveFileArg({n.id : n \in Range(repo.nodes)}, call.file, call.endingIn, Absent).fileId))

Gradeable == {"who-calls", "imports-of", "blast-radius", "entry-points", "cycle-through"}
\* What is wrong with a claim, before anything is read.
refused(call) ==
  IF call.kind \notin Gradeable THEN "cannot grade"
  ELSE IF call.kind # "entry-points" /\ call.file = Absent THEN "needs a file"
  ELSE ""

verdict(truth, call, ids) == [Says(truth) EXCEPT !.passed = verify(truth, call.claimed, ids).passed]
verifyTool(repo, call) == verdict(answerTo(call.kind, repo, call.file), call, {n.id : n \in Range(repo.nodes)})

\* A search with no words, or of an analysis without an index, costs nothing, nor
\* does one of an index that another model wrote.
searchTool(repo, call) ==
  IF call.file = Absent \/ ~repo.indexed THEN Says({})
  ELSE IF ~repo.sameSpace THEN Failed("another space")
  ELSE [Says({}) EXCEPT !.paid = TRUE]

handler(repo, call, limit) ==
  CASE call.tool = "verify_answer" -> verifyTool(repo, call)
    [] call.tool = "search_code" -> searchTool(repo, call)
    [] call.tool = "symbol_search" -> symbolSearch(repo.symbols, call.file, limit)
    [] call.tool = "graph_facts" -> Says(repo.projected)
    [] OTHER -> fileTool(call.tool, repo, call)

\* The analysis is read at the first call that needs it, once: as it was then,
\* or not at all.
loadResult(loaded, readable) == IF loaded # "unread" THEN loaded ELSE IF readable THEN "read" ELSE "failed"

answered(loaded, repo, limit, call) ==
  [loaded |-> loaded, answer |-> IF loaded = "failed" THEN Failed("no analysis") ELSE handler(repo, call, limit)]
\* A failure of whatever kind is an answer.
callTool(tools, repo, limit, loaded, call) ==
  IF call.tool \notin tools THEN [loaded |-> loaded, answer |-> Failed("unknown tool")]
  ELSE IF call.tool = "verify_answer" /\ refused(call) # "" THEN [loaded |-> loaded, answer |-> Failed(refused(call))]
  ELSE answered(loadResult(loaded, call.readable), repo, limit, call)

\* The answers to a sequence of calls.
served(tools, repo, limit, calls) ==
  LET Add(st, r) == [loaded |-> r.loaded, answers |-> Append(st.answers, r.answer)]
  IN FoldLeft(LAMBDA st, c : Add(st, callTool(tools, repo, limit, st.loaded, c)),
              [loaded |-> "unread", answers |-> <<>>], calls).answers
\* A server does not start when it cannot tell what is allowed.
mcpServer(policy, provider, repo, limit, calls) ==
  IF policy.errors # {} THEN [started |-> FALSE, tools |-> {}, answers |-> <<>>]
  ELSE [started |-> TRUE, tools |-> buildMcpTools(policy.scopes, provider),
        answers |-> served(buildMcpTools(policy.scopes, provider), repo, limit, calls)]

----------------------------------------------------------------------------
(* The stores in files: a name is the namespace's, and vectors says in which *)
(* space its records are                                                    *)

\* How often words fall into each of the places of a vector.
localEmbed(text, dim) == [d \in 0..(dim - 1) |-> Cardinality({i \in DOMAIN text : text[i] % dim = d})]
Dot(a, b) == Total(LAMBDA d : a[d] * b[d], DOMAIN a)
\* The square of it: no place is negative.
cosineSimilarity(a, b) ==
  IF Dot(a, a) * Dot(b, b) = 0 THEN Zero ELSE Ratio(Dot(a, b) * Dot(a, b), Dot(a, a) * Dot(b, b))

\* A file of another space is as good as none.
loadVectors(disk, name, space) ==
  IF name \in DOMAIN disk.vectors /\ disk.vectors[name].space = space THEN disk.vectors[name].records ELSE <<>>
saveVectors(disk, name, space, records) ==
  [disk EXCEPT !.vectors = (name :> [space |-> space, records |-> records]) @@ @]
upsert(disk, name, space, records) == saveVectors(disk, name, space, records @@ loadVectors(disk, name, space))
search(disk, name, space, vector, k) ==
  LET records == loadVectors(disk, name, space)
      Score(id) == cosineSimilarity(vector, records[id])
      Nearer(a, b) == Below(Score(b), Score(a)) \/ (Same(Score(a), Score(b)) /\ a < b)
  IN Prefix(SortedBy(DOMAIN records, Nearer), k)

loadTexts(disk, name) == IF name \in DOMAIN disk.texts THEN disk.texts[name] ELSE <<>>
putTexts(disk, name, texts) == [disk EXCEPT !.texts = (name :> (texts @@ loadTexts(disk, name))) @@ @]
dropTexts(disk, name) == [disk EXCEPT !.texts = (name :> <<>>) @@ @]

----------------------------------------------------------------------------
(* An analysis of a working tree: a run has the tree, the [file, text] of   *)
(* each of its chunks, and done, how far the writing of its index came      *)

\* Two that stand for the eleven.
SKIP_DIRS == {"node_modules", "dist"}
\* entries: [at, name, kind], at by the path, kind "none" where it cannot be told.
readRepoDir(entries) ==
  SortSeq(SelectSeq(entries, LAMBDA e : \/ e.kind = "file"
                                        \/ e.kind = "dir" /\ e.name \notin SKIP_DIRS),
          LAMBDA a, b : a.at < b.at)

\* So few places that different words often share one, as two in 256 do at times.
Local == [dim |-> 2, model |-> "codeflow-local-bow"]

\* The steps of writing the index: what was there is dropped, then the texts are
\* put, then the vectors.
Steps == <<"drop vectors", "drop texts", "put texts", "put vectors">>
writeIndex(disk, name, tree, step) ==
  CASE step = "drop vectors" -> saveVectors(disk, name, Local, <<>>)
    [] step = "drop texts" -> dropTexts(disk, name)
    [] step = "put texts" -> putTexts(disk, name, [id \in DOMAIN tree |-> tree[id].text])
    [] step = "put vectors" ->
         upsert(disk, name, Local, [id \in DOMAIN tree |-> localEmbed(tree[id].text, Local.dim)])

rebuild(disk, run) ==
  FoldLeft(LAMBDA d, step : writeIndex(d, run.name, run.tree, step), disk, SubSeq(Steps, 1, run.done))

\* What is left in files, and the chunks the result speaks of, if of any: not
\* where no index was wanted, nor where it could not be written.
NoIndex == [present |-> FALSE, ids |-> {}]
analyzeLocal(disk, run) ==
  IF run.skipIndex THEN [disk |-> disk, rag |-> NoIndex]
  ELSE [disk |-> rebuild(disk, run),
        rag |-> IF run.done < Len(Steps) THEN NoIndex ELSE [present |-> TRUE, ids |-> DOMAIN run.tree]]

\* 15 hundredths, squared.
LOCAL_MIN_SIMILARITY == Ratio(225, 10000)

\* What was found, of the chunks the result speaks of.
groundedChunks(texts, words, fileOf, question, k, hits) ==
  LET found == H!hybridSearch(hits, H!bm25Search(words, question, H!armCandidates(k, 4)), fileOf, DOMAIN texts,
                              H!lexicalOverlap(question, words), k, 7).ids
  IN Each(LAMBDA id : [id |-> id, text |-> texts[id]], found)

Refused == [refused |-> TRUE, chunks |-> <<>>]
\* The nearest is near enough, or it is refused.
answerNear(best, chunks) ==
  IF Below(best, LOCAL_MIN_SIMILARITY) THEN Refused ELSE [refused |-> FALSE, chunks |-> chunks]
queryIndex(texts, ids, fileOf, question, k, best, hits) ==
  IF hits = <<>> THEN Refused
  ELSE answerNear(best[hits[1]], groundedChunks(texts, [id \in ids \cap DOMAIN texts |-> texts[id]], fileOf, question, k, hits))
queryLocal(disk, rag, run) ==
  LET vector == localEmbed(run.question, Local.dim)
      records == loadVectors(disk, run.name, Local)
  IN IF ~rag.present THEN Refused
     ELSE IF run.k <= 0 THEN [refused |-> FALSE, chunks |-> <<>>]
     ELSE queryIndex(loadTexts(disk, run.name), rag.ids, [id \in rag.ids |-> run.tree[id].file], run.question, run.k,
            [id \in DOMAIN records |-> cosineSimilarity(vector, records[id])],
            search(disk, run.name, Local, vector, H!armCandidates(run.k, 4)))

\* A question is always put to an index that was just written.
askIn(analysis, run) == queryLocal(analysis.disk, analysis.rag, run)
ask(disk, run) == askIn(analyzeLocal(disk, [run EXCEPT !.skipIndex = FALSE]), run)

\* The last of a sequence of commands asks; the others analyse.
askedAfter(runs, last) ==
  ask(FoldLeft(LAMBDA disk, run : analyzeLocal(disk, run).disk, runs.disk, runs.before), last)

----------------------------------------------------------------------------
(* The command line.  A token is [flag, name, value]: a word, a flag, or a  *)
(* flag with "=" and its value                                              *)

Given == "<given>"
Word(w) == [flag |-> FALSE, name |-> w, value |-> ""]
Flag(f) == [flag |-> TRUE, name |-> f, value |-> ""]

\* A flag takes the word that follows it for its value.
RECURSIVE readArgs(_, _)
readArgs(argv, read) ==
  LET Set(name, value) == [read EXCEPT !.flags = (name :> value) @@ @]
  IN IF argv = <<>> THEN read
     ELSE IF ~argv[1].flag THEN readArgs(Tail(argv), [read EXCEPT !.words = Append(@, argv[1].name)])
     ELSE IF argv[1].value # "" THEN readArgs(Tail(argv), Set(argv[1].name, argv[1].value))
     ELSE IF Len(argv) > 1 /\ ~argv[2].flag THEN readArgs(SubSeq(argv, 3, Len(argv)), Set(argv[1].name, argv[2].name))
     ELSE readArgs(Tail(argv), Set(argv[1].name, Given))
parseArgs(argv) == readArgs(argv, [words |-> <<>>, flags |-> "" :> ""])

\* The value of a flag, where it has one.
ValueOf(flags, f, otherwise) == IF f \in DOMAIN flags /\ flags[f] # Given THEN flags[f] ELSE otherwise
\* What is done, and with what.
command(words, flags) ==
  LET Usage(code) == [exit |-> code, does |-> "usage"]
  IN IF words = <<>> \/ words[1] = "help" \/ "help" \in DOMAIN flags THEN Usage(0)
     ELSE IF words[1] \notin {"analyze", "ask"} \/ Len(words) < (IF words[1] = "ask" THEN 3 ELSE 2) THEN Usage(1)
     ELSE [exit |-> 0, does |-> words[1], repo |-> words[2], question |-> SubSeq(words, 3, Len(words)),
           dir |-> ValueOf(flags, "index-dir", "default"), out |-> ValueOf(flags, "out", "none"), k |-> ValueOf(flags, "k", "5"),
           index |-> ~("no-index" \in DOMAIN flags /\ flags["no-index"] = Given)]
commandOf(args) == command(args.words, args.flags)
main(argv) == commandOf(parseArgs(argv))

----------------------------------------------------------------------------
(* What should hold                                                         *)

\* Nothing runs, and nothing is paid for, that was not allowed by its name; a
\* call that is not refused says what it says when it is the only one; what was
\* read stays read.
AnswerStands(call, a, alone, before) ==
  /\ a.paid => ~a.isError /\ call.tool = "search_code"
  /\ a.isError \/ a = alone
  /\ (a.isError /\ ~alone.isError) => \A b \in before : b.isError
\* Who names nothing is told of nothing, and a name that is declared is told of
\* alone.
NothingIsGuessed(repo, call, a) ==
  LET named == {x.file : x \in {y \in repo.symbols : y.name = call.file}}
  IN /\ (call.file = Absent /\ call.tool \notin {"graph_facts", "verify_answer"}) => a.files = {}
     /\ (call.tool = "symbol_search" /\ named # {}) => a.files \subseteq named
SurfaceIsGuarded(words, provider, repo, limit, calls, server) ==
  /\ server.started <=> (words = <<"all">> \/ Range(words) \subseteq MCP_SCOPES)
  /\ "search_code" \in server.tools => provider /\ ("retrieval" \in Range(words) \/ words = <<"all">>)
  /\ \A i \in DOMAIN server.answers :
       /\ NothingIsGuessed(repo, calls[i], server.answers[i])
       /\ AnswerStands(calls[i], server.answers[i], served(server.tools, repo, limit, <<[calls[i] EXCEPT !.readable = TRUE]>>)[1],
                       {server.answers[j] : j \in 1..(i - 1)})

\* The verifier passes what the tool of the same question says of the same file
\* and nothing else.
ToolFor(kind) == CASE kind = "who-calls" -> "get_callers" [] kind = "blast-radius" -> "get_blast_radius"
VerifierAgrees(repo) ==
  LET Question(kind, file, claimed) ==
        [tool |-> ToolFor(kind), kind |-> kind, file |-> file, endingIn |-> {}, claimed |-> claimed, readable |-> TRUE]
      Passes(kind, file, said) == \A claimed \in SUBSET (1..(Len(repo.nodes) + 1)) :
        verifyTool(repo, Question(kind, file, claimed)).passed <=> claimed = said
  IN \A file \in {n.id : n \in Range(repo.nodes)}, kind \in {"who-calls", "blast-radius"} :
       Passes(kind, file, fileTool(ToolFor(kind), repo, Question(kind, file, {})).files)

SurfaceIsHonest(s) ==
  SurfaceIsGuarded(s.words, s.provider, s.repo, s.limit, s.calls,
                   mcpServer(parseScopes(s.words), s.provider, s.repo, s.limit, s.calls))

\* Whatever an earlier command left in the files, or left undone, a question is
\* answered from the tree as it is: as in a directory nobody has used.
AnswerIsOfTheTree(last, answer) ==
  LET near == {id \in DOMAIN last.tree :
                 ~Below(cosineSimilarity(localEmbed(last.question, Local.dim), localEmbed(last.tree[id].text, Local.dim)),
                        LOCAL_MIN_SIMILARITY)}
      written == last.done = Len(Steps)
  IN /\ \A c \in Range(answer.chunks) : c.id \in DOMAIN last.tree /\ c.text = last.tree[c.id].text
     /\ answer.refused <=> (~written \/ (near = {} /\ last.k > 0))
     /\ Len(answer.chunks) <= Max({0, last.k})
     /\ answer.chunks = <<>> <=> (answer.refused \/ last.k <= 0)
SameAnswer(last, answer, fresh) == AnswerIsOfTheTree(last, answer) /\ answer = fresh
LocalAnswersAreOfTheTree(runs) ==
  SameAnswer(runs.last, askedAfter(runs, runs.last),
             askedAfter([disk |-> [vectors |-> <<>>, texts |-> <<>>], before |-> <<>>], runs.last))

\* A command is done as the usage says it, wherever its options are, unless an
\* option that takes no value stands before a word.
Swallows(argv, i) == argv[i] = Flag("no-index") /\ i < Len(argv) /\ ~argv[i + 1].flag
Options == [outTo |-> <<Flag("out"), Word("f")>>, dir |-> <<Flag("index-dir"), Word("d")>>,
            none |-> <<Flag("no-index")>>, k |-> <<[flag |-> TRUE, name |-> "k", value |-> "3"]>>]
DoneAsMeant(c, named, argv, done) ==
  LET meant == [exit |-> 0, does |-> c.command, repo |-> "repo", question |-> c.words,
                dir |-> IF "dir" \in named THEN "d" ELSE "default", out |-> IF "outTo" \in named THEN "f" ELSE "none",
                k |-> IF "k" \in named THEN "3" ELSE "5", index |-> "none" \notin named]
  IN IF c.command = "ask" /\ c.words = <<>> THEN done.does # "ask"
     ELSE done = meant <=> \A i \in DOMAIN argv : ~Swallows(argv, i)
Typed(c, argv) == DoneAsMeant(c, Range(c.first) \cup Range(c.between) \cup Range(c.last), argv, main(argv))
CommandsAreMeant(c) ==
  LET Of(names) == FlattenSeq(Each(LAMBDA n : Options[n], names))
  IN Typed(c, Of(c.first) \o <<Word(c.command), Word("repo")>> \o Of(c.between) \o Each(Word, c.words) \o Of(c.last))

\* What a directory holds does not depend on the order it is listed in, and
\* what cannot be read hides nothing else.
WalkIsStable(entries, other) ==
  /\ readRepoDir(entries) = readRepoDir(other)
  /\ \A e \in Range(entries) : e.kind = "file" => e \in Range(readRepoDir(entries))
  /\ \A e \in Range(readRepoDir(entries)) : e.kind = "dir" => e.name \notin SKIP_DIRS
=============================================================================
