----------------------------- MODULE MCMessageBus -----------------------------
(***************************************************************************)
(* Small instances of MessageBus for TLC: an idempotent subscription s1 of *)
(* topic A, a plain subscription s2 of topic B, and one cron job.          *)
(***************************************************************************)
EXTENDS MessageBus, TLC

CONSTANTS s1, s2, j1, tA, tB

MCTopicOf == (s1 :> tA) @@ (s2 :> tB)

KeySymmetry == Permutations(Keys)

===============================================================================
