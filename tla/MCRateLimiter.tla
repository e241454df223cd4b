---------------------------- MODULE MCRateLimiter ---------------------------
(* A thread of the worker and one of the API share a budget.                *)
EXTENDS RateLimiter

CONSTANTS worker, api, w1, a1

MCProcessOf == [c \in Callers |-> IF c = a1 THEN api ELSE worker]
=============================================================================
