---------------------------- MODULE MCGuardrailJob ---------------------------
(* GuardrailJob instantiated for TLC: two ranges share one read slot, one of up to three pages and *)
(* one of a single page.                                                                          *)
EXTENDS GuardrailJob
CONSTANTS a, b
RangeSet == {a, b}
Pages == {<<>>, <<2>>, <<3>>, <<2, 3>>}
Scans == UNION {[1..n -> Pages] : n \in 1..3}
TableSet == {t \in [RangeSet -> Scans] : Len(t[b]) = 1}
=============================================================================
