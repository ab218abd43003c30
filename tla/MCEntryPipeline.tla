--------------------------- MODULE MCEntryPipeline ---------------------------
(* Small instances of EntryPipeline for TLC: the paper daemon, which polls   *)
(* Telegram, the live daemon, and one or two configurations.                 *)
EXTENDS EntryPipeline, TLC

CONSTANTS paper, live, c1, c2, s1, s2

MCModeOf == [c \in Configs |-> IF c = c1 THEN paper ELSE live]
MCAllPaper == [c \in Configs |-> paper]
MCSymbolOf == (c1 :> s1) @@ (c2 :> s2)
MCOneSymbol == [c \in Configs |-> s1]

ProposalSymmetry == Permutations(Proposals)
===============================================================================
