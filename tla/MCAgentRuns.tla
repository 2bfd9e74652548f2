---------------------------- MODULE MCAgentRuns ----------------------------
(***************************************************************************)
(* AgentRuns with a small task and a large one, four models of which one    *)
(* has no key, and a Memory agent that pins another model than its tier's.  *)
(***************************************************************************)
EXTENDS AgentRuns

CONSTANTS haiku, opus, other, mini

Small == [kind |-> "bugfix", points |-> 1, criteria |-> 1]
Large == [kind |-> "feature", points |-> 8, criteria |-> 3]
LargeOnly == {Large}
Both == {Small, Large}
Models == {haiku, opus, other, mini}
TierModels == [t \in Tier |-> IF t = "complex" THEN opus
                              ELSE IF t = "standard" THEN other
                              ELSE IF t = "trivial" THEN mini ELSE haiku]
KeyedModels == {haiku, opus, mini}
Fallbacks == [t \in Tier |-> IF t = "complex" THEN opus ELSE haiku]
Pins == [r \in Role |-> IF r = "memory" THEN haiku ELSE None]
Prices == [m \in Models |-> 1]
=============================================================================
