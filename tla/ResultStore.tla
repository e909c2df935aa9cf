----------------------------- MODULE ResultStore -----------------------------
(***************************************************************************)
(* The API's store of analyses (apps/api/src/services/analysisCacheService *)
(* .ts and analysisOverflow.ts) for one key: a document in Mongo, with the *)
(* heavy fields of a large result in a second document, or a map in memory *)
(* while Mongo is not connected.  A size is a number of JSON bytes.        *)
(***************************************************************************)
EXTENDS Integers, Sequences, FiniteSets

CONSTANTS
  Results,    \* what each call of saveAnalysis is given
  Readers,    \* the calls of findCachedAnalysis
  Budget,     \* OVERFLOW_BUDGET_JSON_BYTES
  HardLimit,  \* what fits a document
  Changes     \* how often the connection to Mongo may change

VARIABLES
  connected,
  document,    \* the result stored, its saver and its manifest
  overflow,    \* the payload, and its saver
  memory,      \* inMemoryAnalyses: the last saver's result
  saver,       \* the state of each call of saveAnalysis
  reader,      \* and of findCachedAnalysis
  changes,     \* how often the connection changed
  \* The rest only observes.
  payloads     \* the savers whose payload was written

storeVars == <<connected, document, overflow, memory, saver, reader, changes, payloads>>

None == 0
Saver == DOMAIN Results
OVERFLOW_CANDIDATES == <<"cpgEdges", "routes", "edges">>
Field == {"cpgEdges", "routes", "edges"}

\* How much of a field there is: nothing at all, or an array.
Absent == -1
jsonBytes(result) ==
  LET bytes(f) == IF result[f] > 0 THEN result[f] ELSE 0
  IN result.rest + bytes("cpgEdges") + bytes("routes") + bytes("edges")

\* `edges` is required, so it is emptied where the others are deleted.
Cleared(f) == IF f = "edges" THEN 0 ELSE Absent
Without(result, fields) ==
  [k \in DOMAIN result |-> IF k \in fields THEN Cleared(k) ELSE result[k]]

\* Candidates go in order, and only while the rest is too large.
shed(result) ==
  {f \in Field :
     /\ result[f] > 0
     /\ LET before == {g \in Field : \E i, j \in 1..3 : /\ i < j /\ result[g] > 0
                                                        /\ OVERFLOW_CANDIDATES[i] = g
                                                        /\ OVERFLOW_CANDIDATES[j] = f}
        IN jsonBytes(Without(result, before)) > Budget}

splitOverflow(result) ==
  LET fields == shed(result)
  IN [stored |-> Without(result, fields),
      payload |-> [f \in fields |-> result[f]],
      manifest |-> fields,
      stillTooLarge |-> jsonBytes(Without(result, fields)) > HardLimit]

\* Mutant: what is missing is defaulted to an empty list.
rehydrateDefaulting(stored, manifest, payload) ==
  [result |-> [k \in DOMAIN stored |-> IF k \notin manifest THEN stored[k]
                                       ELSE IF k \in DOMAIN payload THEN payload[k] ELSE 0],
   missing |-> {}]

\* What cannot be restored is left as it was stored, and named.
rehydrateAnalysis(stored, manifest, payload) ==
  [result |-> [k \in DOMAIN stored |-> IF k \in manifest \cap DOMAIN payload THEN payload[k] ELSE stored[k]],
   missing |-> manifest \ DOMAIN payload]

----------------------------------------------------------------------------

Nothing == [by |-> None, result |-> <<>>, manifest |-> {}]
NoPayload == [by |-> None, payload |-> <<>>]
Unread == [at |-> "idle", doc |-> Nothing, by |-> None, result |-> <<>>, missing |-> {}]

Init ==
  /\ connected \in BOOLEAN
  /\ document = Nothing /\ overflow = NoPayload /\ memory = Nothing
  /\ saver = [s \in Saver |-> "idle"]
  /\ reader = [r \in Readers |-> Unread]
  /\ changes = 0 /\ payloads = {}

Change ==
  /\ changes < Changes
  /\ changes' = changes + 1 /\ connected' = ~connected
  /\ UNCHANGED <<document, overflow, memory, saver, reader, payloads>>

\* saveAnalysis: in memory at once; else the split decides what comes next.
Save(s) ==
  /\ saver[s] = "idle"
  /\ IF ~connected
     THEN /\ memory' = [by |-> s, result |-> Results[s], manifest |-> {}]
          /\ saver' = [saver EXCEPT ![s] = "saved"]
     ELSE /\ UNCHANGED memory
          /\ LET split == splitOverflow(Results[s])
             IN saver' = [saver EXCEPT ![s] = IF split.stillTooLarge THEN "refused"
                                              ELSE IF split.manifest # {} THEN "overflow" ELSE "document"]
  /\ UNCHANGED <<connected, document, overflow, reader, changes, payloads>>

\* The payload of the last writer stays.
WriteOverflow(s) ==
  /\ saver[s] = "overflow"
  /\ overflow' = [by |-> s, payload |-> splitOverflow(Results[s]).payload]
  /\ saver' = [saver EXCEPT ![s] = "document"]
  /\ payloads' = payloads \cup {s}
  /\ UNCHANGED <<connected, document, memory, reader, changes>>

\* $setOnInsert: the document of the first writer stays.
WriteDocument(s) ==
  /\ saver[s] = "document"
  /\ LET split == splitOverflow(Results[s])
     IN document' = IF document # Nothing THEN document
                    ELSE [by |-> s, result |-> split.stored, manifest |-> split.manifest]
  /\ saver' = [saver EXCEPT ![s] = "saved"]
  /\ UNCHANGED <<connected, overflow, memory, reader, changes, payloads>>

\* Either write is refused, or the process dies before it.
SaveFails(s) ==
  /\ saver[s] \in {"overflow", "document"}
  /\ saver' = [saver EXCEPT ![s] = "failed"]
  /\ UNCHANGED <<connected, document, overflow, memory, reader, changes, payloads>>

Served(r, doc, rehydrated) ==
  reader' = [reader EXCEPT ![r] = [at |-> "served", doc |-> doc, by |-> doc.by,
                                   result |-> rehydrated.result, missing |-> rehydrated.missing]]

\* findCachedAnalysis, and getAnalysisById: a document with a manifest needs
\* the second one.
Find(r) ==
  /\ reader[r].at = "idle"
  /\ LET doc == IF connected THEN document ELSE memory
     IN IF doc = Nothing THEN reader' = [reader EXCEPT ![r].at = "missed"]
        ELSE IF doc.manifest = {} THEN Served(r, doc, [result |-> doc.result, missing |-> {}])
        ELSE reader' = [reader EXCEPT ![r].at = "overflow", ![r].doc = doc]
  /\ UNCHANGED <<connected, document, overflow, memory, saver, changes, payloads>>

\* A payload that is not there, or cannot be read, does not fail the read.
withOverflow(r) ==
  /\ reader[r].at = "overflow"
  /\ \E payload \in {overflow.payload, <<>>} :
       LET doc == reader[r].doc
       IN Served(r, doc, rehydrateAnalysis(doc.result, doc.manifest, payload))
  /\ UNCHANGED <<connected, document, overflow, memory, saver, changes, payloads>>

Next ==
  \/ Change
  \/ \E s \in Saver : Save(s) \/ WriteOverflow(s) \/ WriteDocument(s) \/ SaveFails(s)
  \/ \E r \in Readers : Find(r) \/ withOverflow(r)

----------------------------------------------------------------------------

\* A document is never larger than Mongo takes, gives up no field in vain, and
\* the nodes citations are checked against never (analysisOverflow.ts:61-71,
\* :132-137).
SplitIsMinimal ==
  document # Nothing =>
    LET original == Results[document.by]
    IN /\ jsonBytes(document.result) <= HardLimit
       /\ document.result.rest = original.rest
       /\ document.manifest # {} =>
            \E f \in document.manifest : jsonBytes(Without(original, document.manifest \ {f})) > Budget

\* What a manifest names was written before it, whatever failed: only another
\* result of the same key can take it away (analysisCacheService.ts:154-156).
PayloadComesFirst ==
  payloads \subseteq {document.by} =>
    document.manifest \subseteq DOMAIN overflow.payload

\* A field that was stored elsewhere is served whole or named as missing,
\* never as one the repository has none of (analysisOverflow.ts:201-207); all
\* else is the writer's result, unless two saved different results.
ServedIsHonest ==
  \A r \in Readers :
    reader[r].at = "served" =>
      LET original == Results[reader[r].by]
      IN /\ reader[r].result.rest = original.rest
         /\ \A f \in Field :
              \/ reader[r].result[f] = original[f]
              \/ f \in reader[r].missing /\ reader[r].result[f] = Cleared(f)
              \/ \E s \in payloads \ {reader[r].by} : reader[r].result[f] = Results[s][f]

ResultStoreIsHonest == SplitIsMinimal /\ PayloadComesFirst /\ ServedIsHonest
=============================================================================
