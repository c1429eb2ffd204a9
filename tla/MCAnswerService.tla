-------------------------- MODULE MCAnswerService ---------------------------
(***************************************************************************)
(* An instance of AnswerService for TLC.  Two versions of a corpus: "limit"  *)
(* has another answer in each, and "meals" is disputed in the first and has  *)
(* no clause in the second.  "bare" lacks its context.                       *)
(***************************************************************************)
EXTENDS AnswerService, TLC

MCQuestions == {"limit", "meals", "bare"}
MCIncomplete == {"bare"}
MCTwoQuestions == {"limit", "meals"}
MCWithBare == {"limit", "bare"}
MCNone == {}
MCClauses == {"a", "b", "c"}

MCHits(v, q, s) ==
    CASE q = "limit" -> IF s = "vector" THEN {"a", "b"} ELSE {"a", "c"}
      [] q = "meals" -> IF v = 1 THEN {"b"} ELSE {"c"}
      [] OTHER -> {}
MCSelected(v, q) ==
    CASE q = "limit" -> IF v = 1 THEN {"a"} ELSE {"b"}
      [] q = "meals" -> IF v = 1 THEN {"b", "c"} ELSE {}
      [] OTHER -> {}
MCDisputed(v, q) == IF q = "meals" /\ v = 1 THEN {"b", "c"} ELSE {}

\* The second version was embedded for the second build only.
MCMismatch(v, b) == v = 2 /\ b = 1
MCMatch(v, b) == FALSE

MCVersions == 1..2
MCBuilds == 1..2

MCDrafts == {{[id |-> id, exact |-> exact]} : id \in {"a", "b"}, exact \in BOOLEAN}
MCTwoDrafts == {{[id |-> "a", exact |-> exact]} : exact \in BOOLEAN}

MCSymmetry == Permutations(Threads)
=============================================================================
