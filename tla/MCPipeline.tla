----------------------------- MODULE MCPipeline -----------------------------
(* The eight stages of the product, in the order the worker declares them:  *)
(* 1 ingest, 2 orient, 3 map-structure, 4 inventory, 5 connect, 6 analyze,  *)
(* 7 synthesize, 8 rag.                                                     *)
EXTENDS Pipeline

MCSlice == {"orientation", "structure", "inventory", "graph", "metrics",
            "aiSynthesis", "aiDomains", "aiRag"}

MCOwns == << {}, {"orientation"}, {"structure"}, {"inventory"}, {"graph"},
             {"metrics"}, {"aiSynthesis", "aiDomains"}, {"aiRag"} >>

\* STAGE_READS
MCReads == << {}, {}, {"orientation"}, {"structure"}, {"structure", "inventory"},
              {"graph"},
              {"graph", "metrics", "orientation", "structure", "inventory"},
              {"graph", "structure", "inventory"} >>
=============================================================================
