------------------------------- MODULE Pricing -------------------------------
(***************************************************************************)
(* What a model call costs, in units of 10^-8 dollar, in which every price   *)
(* is a whole number and which the ledger's Numeric(14, 8) columns hold      *)
(* exactly.  The ledger's ceiling rests on one fact outside it: no call is   *)
(* billed more than was reserved for it.                                     *)
(***************************************************************************)
EXTENDS Naturals

\* 0.15 and 0.60 dollars per million tokens (_usage).
AnswerPrice(incoming, outgoing) == 15 * incoming + 60 * outgoing
\* 0.5 and 1.5 dollars per million tokens (run_judge).
JudgePrice(incoming, outgoing) == 50 * incoming + 150 * outgoing

MAXIMUM_COST == 2000000        \* Decimal("0.02")
JUDGE_COST == 10000000         \* Decimal("0.10")
AnswerPayload == 40000         \* len(payload.encode()) > 40000 is refused
JudgePayload == 80000
MaxTokens == 1024              \* max_tokens of both clients
=============================================================================
