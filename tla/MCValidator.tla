----------------------------- MODULE MCValidator -----------------------------
(* A small instance of Validator for TLC: a text that may compile, or not, *)
(* and one that is rejected unseen; answers with each kind of row.         *)
EXTENDS QueueAttempt, TLC

CONSTANTS t1, t2, n1, n2

Row(name, passed) == [name |-> name, passed |-> passed]
MCAnswers ==
  { <<Row(n1, "t"), Row(n2, "t")>>, <<Row(n1, "f"), Row(n2, "t")>>,
    <<Row(n1, "t"), Row(n1, "t")>>, <<Row(n1, "t"), Row(Null, "t")>>,
    <<Row(n1, "f"), Row(n2, Null)>> }
=============================================================================
