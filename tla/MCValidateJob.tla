---------------------------- MODULE MCValidateJob ----------------------------
(* ValidateJob instantiated for TLC.  Range a has rows that differ - or agree, where cells are not   *)
(* compared - and rows that are missing; range b has one row that is null on the origin only,        *)
(* competes for the permits and shares the report.                                                   *)
EXTENDS ValidateJob
CONSTANTS a, b
RangeSet == {a, b}
RowsOf == [r \in RangeSet |-> IF r = a THEN {<<1, 2>>, <<1, Absent>>}
                                       ELSE {<<Null, 1>>}]
LookupsOf == [r \in RangeSet |-> IF r = a THEN 3 ELSE 1]
SettingSet ==
    { {"missing", "mismatch", "stamped"},                          \* writetimes carried over
      {"missing", "mismatch", "counter", "explode", "report"},     \* counters, rows explode
      {"missing", "keysOnly", "counter", "missingCounter"},        \* deleted counters re-inserted
      {"mismatch", "extracted", "report"} }                        \* extracted JSON, left alone
=============================================================================
