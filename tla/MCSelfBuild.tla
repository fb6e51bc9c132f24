---------------------------- MODULE MCSelfBuild -----------------------------
(* SelfBuild on small instances: two agents, who follow one another. *)
EXTENDS SelfBuild, TLC

CONSTANTS ann, bob

MCAgents == {ann, bob}
MCPairs == {<<ann, bob>>, <<bob, ann>>}
MCRegistries == {{}, {<<ann, bob>>}}
\* The watcher alone, and the two mechanisms that write when they please.
MCMixes == {{"watch"}, {"usage", "inspect"}}

\* File names that tell the agents apart.
Apart == [a \in MCAgents |-> a]
=============================================================================
