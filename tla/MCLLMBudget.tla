----------------------------- MODULE MCLLMBudget -----------------------------
(* LLMBudget with small caps: every cap is reached within a few calls, and  *)
(* a reply is either priced, or (pricing unknown) costs tokens only.        *)
EXTENDS LLMBudget, TLC

MCBudget == [m \in Meters |-> CASE m = "cost" -> 2 [] m = "calls" -> 2 [] OTHER -> 3]

MCReplyCharges ==
    {[m \in Meters |-> CASE m = "cost" -> c [] m = "calls" -> 1 [] OTHER -> t] :
        <<c, t>> \in {<<0, 1>>, <<2, 1>>}}

MCMaxCharge == [m \in Meters |-> IF m = "cost" THEN 2 ELSE 1]

SessionSymmetry == Permutations(Sessions)
=============================================================================
