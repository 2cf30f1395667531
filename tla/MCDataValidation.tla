--------------------------- MODULE MCDataValidation ---------------------------
(* A small instance of DataValidation for TLC: a table of two rows, and    *)
(* one that should be empty.                                               *)
EXTENDS DataValidation

CONSTANTS orders, audit, k1, k2, k3, old, new

Row(key, payload) == [key |-> key, payload |-> payload]
MCSource == [t \in Table |-> IF t = audit THEN <<>> ELSE <<Row(k1, old), Row(k2, old)>>]
MCContents == [t \in Table |-> IF t = audit THEN {<<>>, <<Row(k1, old)>>} ELSE
  { <<>>, <<Row(k1, old)>>, <<Row(k2, old), Row(k1, old)>>, <<Row(k1, old), Row(k2, new)>>,
    <<Row(k1, old), Row(k1, old)>>, <<Row(k1, old), Row(k2, old), Row(k3, old)>> }]
MCFaults == {{}, {"type_family"}, {"unique_identity"}, {"check_predicates"}}
Full == [sourceOnly |-> FALSE, catalog |-> TRUE, adaptation |-> "full",
         registered |-> TRUE, keyless |-> {}]
MCInputs == { Full, [Full EXCEPT !.sourceOnly = TRUE], [Full EXCEPT !.catalog = FALSE],
  [Full EXCEPT !.adaptation = "none"], [Full EXCEPT !.adaptation = "partial"],
  [Full EXCEPT !.registered = FALSE], [Full EXCEPT !.keyless = {orders}] }
MCSelections == {<<orders, audit>>, <<orders>>, <<audit, audit>>}
=============================================================================
