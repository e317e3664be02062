---------------------------- MODULE MCCandidatePool ----------------------------
EXTENDS CandidatePool

\* Ids order the rows otherwise than the index does.
MCId == <<2, 4, 1, 3>>
MCChannels == <<"full_document_bm25", "special_token_boosted_bm25", "dense">>
MCDerived == [c \in {"special_token_boosted_bm25"} |-> "full_document_bm25"]
MCWeight == [c \in {"full_document_bm25", "special_token_boosted_bm25", "dense"} |->
               IF c = "dense" THEN 2 ELSE 1]

===============================================================================
