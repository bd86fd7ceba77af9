------------------------- MODULE MC_DatasetPipeline -------------------------
(* Small instances of DatasetPipeline for TLC. *)
EXTENDS DatasetPipeline

MC_Rows == 1..6
\* Rows 1 and 2 have the same key, 3 breaks the contract, 4 has no text, 5 is
\* not a JSON object, 6 has one more field than the others.  The fingerprint looks at
\* two rows: it meets row 5 in {1, 5} and not in {1, 2, 4, 5}.
MC_KeyOf == [r \in MC_Rows |-> IF r = 2 THEN 1 ELSE r]
MC_FieldsOf == [r \in MC_Rows |-> IF r = 6 THEN {"id", "title", "price"} ELSE {"id", "title"}]
MC_Objects == {{1, 2, 3, 4}, {1, 2, 4, 5}, {3, 4, 6}, {3, 4}, {1, 5}, {}}
\* Half of the rows break the contract, where 95 in a hundred must not.
MC_UnderRate == {{1, 3}}
MC_Drifting == {{1}, {6}}
=============================================================================
