------------------------------ MODULE RepoMemory ------------------------------
(***************************************************************************)
(* The repository memory: the tool what_changed (packages/agents/src/tools *)
(* /whatChangedTool.ts) snapshots the commit it is asked about and         *)
(* compares it with an earlier one, kept in Redis (packages/memory/src/    *)
(* redisRepoStore.ts) or in the memory of one process (repoMemory.ts).     *)
(* One repository; a commit is its position in Snapshots.                  *)
(***************************************************************************)
EXTENDS Naturals, Sequences, FiniteSets

CONSTANTS
  Snapshots,    \* of each commit: files, edges, symbols of a file, cycles
  Commits,      \* what each call of the tool is about
  Sinces,       \* the commits each sinceSha may stand for, none for no sinceSha
  Overlap,      \* how many calls at once
  MaxSnapshots  \* REPO_MAX_SNAPSHOTS

VARIABLES
  backend,   \* "redis" or "memory"
  hash,      \* Redis: the fields of the repository's key
  history,   \* memory: the snapshots, the most recent last
  clock,
  call,      \* the state of each call of the tool
  \* The rest only observes.
  calm       \* no two calls overlapped, none failed and nothing expired

memoryVars == <<backend, hash, history, clock, call, calm>>

None == 0
Commit == DOMAIN Snapshots
Call == DOMAIN Commits
Entry == [commit : Commit, capturedAt : Nat]

Init ==
  /\ backend \in {"redis", "memory"}
  /\ hash = {} /\ history = <<>>
  /\ clock = 0
  /\ call = [c \in Call |-> [at |-> "idle", capturedAt |-> 0, doomed |-> {}, known |-> <<>>,
                             since |-> {}, answer |-> "none", baseline |-> None]]
  /\ calm = TRUE

----------------------------------------------------------------------------
(* Snapshots                                                                *)

Symbols(s, f) == IF f \in DOMAIN s.symbols THEN s.symbols[f] ELSE {}

diffSnapshots(before, after) ==
  [addedFiles |-> after.files \ before.files,
   removedFiles |-> before.files \ after.files,
   changedFiles |-> {[file |-> f, added |-> Symbols(after, f) \ Symbols(before, f),
                      removed |-> Symbols(before, f) \ Symbols(after, f)] :
                       f \in {g \in after.files \cap before.files : Symbols(after, g) # Symbols(before, g)}},
   addedEdges |-> after.edges \ before.edges,
   removedEdges |-> before.edges \ after.edges,
   newCycles |-> after.cycles \ before.cycles,
   resolvedCycles |-> before.cycles \ after.cycles]

identical(diff) == \A part \in DOMAIN diff : diff[part] = {}

\* What may be cited: files of the commit at hand only.
Citable(diff) == diff.addedFiles \cup {entry.file : entry \in diff.changedFiles}

----------------------------------------------------------------------------
(* The stores                                                               *)

\* The elements of a set, in a strict total order.
InOrder(S, Before) ==
  CHOOSE s \in [1..Cardinality(S) -> S] :
    \A i, k \in 1..Cardinality(S) : i < k => <<s[i], s[k]>> \in Before

Newer(x, y) == x.capturedAt > y.capturedAt \/ (x.capturedAt = y.capturedAt /\ x.commit > y.commit)
NewestFirst(entries) == InOrder(entries, {p \in entries \X entries : Newer(p[1], p[2])})
Shown(entries) == SubSeq(entries, 1, IF Len(entries) < MaxSnapshots THEN Len(entries) ELSE MaxSnapshots)
Reversed(entries) == [i \in DOMAIN entries |-> entries[Len(entries) - i + 1]]

\* What is not of a commit, in the order it had.
Others(entries, commit) ==
  LET kept == {i \in DOMAIN entries : entries[i].commit # commit}
      place == InOrder(kept, {p \in kept \X kept : p[1] < p[2]})
  IN [k \in 1..Cardinality(kept) |-> entries[place[k]]]

At(c, pc) == call[c].at = pc
Goto(c, pc) == call' = [call EXCEPT ![c].at = pc]
Busy == {c \in Call : call[c].at \notin {"idle", "done"}}

\* The tool is called, and stamps its snapshot; in memory the put is part of
\* the same step: last in, at most MaxSnapshots kept.
Begin(c) ==
  /\ At(c, "idle") /\ \A d \in 1..(c - 1) : ~At(d, "idle")
  /\ Cardinality(Busy) < Overlap
  /\ clock' = clock + 1
  /\ LET entry == [commit |-> Commits[c], capturedAt |-> clock']
         all == Append(Others(history, entry.commit), entry)
     IN history' = IF backend = "redis" THEN history
                   ELSE IF Len(all) > MaxSnapshots THEN SubSeq(all, Len(all) - MaxSnapshots + 1, Len(all)) ELSE all
  /\ call' = [call EXCEPT ![c].at = IF backend = "redis" THEN "put" ELSE "list",
                          ![c].capturedAt = clock']
  /\ calm' = (calm /\ Busy = {})
  /\ UNCHANGED <<backend, hash>>

\* HSET replaces the snapshot of the same commit.
HSet(c) ==
  /\ At(c, "put")
  /\ hash' = {e \in hash : e.commit # Commits[c]} \cup {[commit |-> Commits[c], capturedAt |-> call[c].capturedAt]}
  /\ Goto(c, "trim")
  /\ UNCHANGED <<backend, history, clock, calm>>

\* Reads what there is; what is past the bound is doomed, oldest first.
ReadToTrim(c) ==
  /\ At(c, "trim")
  /\ LET all == NewestFirst(hash)
     IN call' = [call EXCEPT ![c].at = IF Len(all) > MaxSnapshots THEN "delete" ELSE "list",
                             ![c].doomed = {all[i].commit : i \in (MaxSnapshots + 1)..Len(all)}]
  /\ UNCHANGED <<backend, hash, history, clock, calm>>

\* HDEL by commit, whatever was put there since.
HDel(c) ==
  /\ At(c, "delete")
  /\ hash' = {e \in hash : e.commit \notin call[c].doomed}
  /\ Goto(c, "list")
  /\ UNCHANGED <<backend, history, clock, calm>>

\* A step of put fails: reported, and the tool goes on to list.
PutFails(c) ==
  /\ call[c].at \in {"put", "trim", "delete"}
  /\ Goto(c, "list")
  /\ calm' = FALSE
  /\ UNCHANGED <<backend, hash, history, clock>>

\* The key's time to live passes.
Expire ==
  /\ hash # {} /\ hash' = {}
  /\ calm' = FALSE
  /\ UNCHANGED <<backend, history, clock, call>>

\* list: newest first, bounded again; a list that fails is empty.
List(c) ==
  /\ At(c, "list")
  /\ \/ /\ call' = [call EXCEPT ![c].at = "answer",
                      ![c].known = IF backend = "memory" THEN Reversed(history) ELSE Shown(NewestFirst(hash))]
        /\ UNCHANGED calm
     \/ /\ backend = "redis"
        /\ call' = [call EXCEPT ![c].at = "answer", ![c].known = <<>>]
        /\ calm' = FALSE
  /\ UNCHANGED <<backend, hash, history, clock>>

\* The most recent other commit, or the one commit sinceSha stands for.
Answer(c, since) ==
  /\ At(c, "answer")
  /\ LET others == Others(call[c].known, Commits[c])
         matches == {i \in DOMAIN others : others[i].commit \in since}
         Say(answer, baseline) ==
           call' = [call EXCEPT ![c].at = "done", ![c].answer = answer, ![c].baseline = baseline,
                                ![c].since = since, ![c].known = <<>>, ![c].doomed = {}]
     IN \/ others = <<>> /\ Say("only one", None)
        \/ others # <<>> /\ since = {} /\ Say("diff", others[1].commit)
        \/ \E i \in matches : matches = {i} /\ Say("diff", others[i].commit)
        \/ others # <<>> /\ since # {} /\ matches = {} /\ Say("unknown", None)
        \/ (\E i, k \in matches : i # k) /\ Say("ambiguous", None)
  /\ UNCHANGED <<backend, hash, history, clock, calm>>

Next ==
  \/ Expire
  \/ \E c \in Call :
       \/ Begin(c) \/ HSet(c) \/ ReadToTrim(c) \/ HDel(c) \/ PutFails(c)
       \/ List(c) \/ \E since \in Sinces : Answer(c, since)

----------------------------------------------------------------------------

\* Nobody is shown more history than the bound, or one commit twice, or out of
\* order, whatever overlapped and failed (redisRepoStore.ts:125-131).
HistoryIsBounded ==
  \A c \in Call :
    LET known == call[c].known
    IN /\ Len(known) <= MaxSnapshots
       /\ \A i, j \in DOMAIN known : i < j => Newer(known[i], known[j]) /\ known[i].commit # known[j].commit

\* Without overlap and failure the store holds the newest commits the tool was
\* asked about, and both stores hold the same (repoMemory.ts:158-177).
NewestAreKept ==
  calm /\ Busy = {} =>
    LET done == {c \in Call : At(c, "done")}
        LastAsked(commit) == LET times == {call[c].capturedAt : c \in {d \in done : Commits[d] = commit}}
                        IN CHOOSE t \in times : \A u \in times : u <= t
        newest == Shown(NewestFirst({[commit |-> m, capturedAt |-> LastAsked(m)] : m \in {Commits[c] : c \in done}}))
        Of(entries) == {entries[i] : i \in DOMAIN entries}
    IN Of(newest) = IF backend = "memory" THEN Of(history) ELSE hash

\* A diff is against another commit that was analysed and, where a prefix was
\* given, against none but the one it stands for (whatChangedTool.ts:66-92).
\* That only one commit is known is said without failure only when it is so.
BaselineIsMeant ==
  \A c \in Call :
    /\ call[c].answer = "diff" =>
         /\ call[c].baseline # Commits[c]
         /\ \E d \in Call : Commits[d] = call[c].baseline /\ call[d].capturedAt > 0
         /\ call[c].since # {} => call[c].baseline \in call[c].since
    /\ call[c].answer = "only one" /\ calm /\ MaxSnapshots > 1 =>
         \A d \in Call : call[d].at = "done" /\ call[d].capturedAt < call[c].capturedAt => Commits[d] = Commits[c]

\* The diff carries one snapshot into the other, is empty for the same one
\* alone, and offers for citation only files there are (repoMemory.ts:51-61,
\* whatChangedTool.ts:99-110).
DiffIsExact ==
  \A b, a \in Commit :
    LET before == Snapshots[b]
        after == Snapshots[a]
        diff == diffSnapshots(before, after)
        back == diffSnapshots(after, before)
    IN /\ (before.files \ diff.removedFiles) \cup diff.addedFiles = after.files
       /\ (before.edges \ diff.removedEdges) \cup diff.addedEdges = after.edges
       /\ (before.cycles \ diff.resolvedCycles) \cup diff.newCycles = after.cycles
       /\ \A f \in after.files \cap before.files :
            LET entries == {e \in diff.changedFiles : e.file = f}
            IN IF entries = {} THEN Symbols(before, f) = Symbols(after, f)
               ELSE \A e \in entries : (Symbols(before, f) \ e.removed) \cup e.added = Symbols(after, f)
       /\ identical(diff) <=> identical(back)
       /\ Citable(diff) \subseteq after.files

RepoMemoryIsHonest == HistoryIsBounded /\ NewestAreKept /\ BaselineIsMeant /\ DiffIsExact
=============================================================================
