----------------------------- MODULE MCCsvImport -----------------------------
(* Model values for CsvImport: two uploads of one tenant that share an e-mail. *)
EXTENDS CsvImport

CONSTANTS j1, t1, a, b, c

MCTenant == [j \in Job |-> t1]

\* Three chunks, the last one short, and one chunk.
MCFile == [j \in Job |-> IF j = j1 THEN <<a, Bad, Bad, b, a>> ELSE <<b, c>>]
=============================================================================
