---------------------------- MODULE MCDeployment ----------------------------
(* A small instance of Deployment for TLC. *)
EXTENDS Deployment

Only(keys) == [k \in Keys |-> IF k \in keys THEN "good" ELSE Unset]
Base(source, keys) ==
  [Only((Required \ {"registry_source"}) \cup keys) EXCEPT !["registry_source"] = source]

SelfBuildKeys == {"base_dir", "mcp"} \cup WatchKeys \cup UsageKeys
HostKeys == {"env_file", "token_file", "timeout", "readyz_url", "listen", "log_level"}

\* The least file of each source, and one with nearly everything set.
MCBases == {
  Base("git", {"git_url"}),
  [Base("file", ModeKeys.file \cup SelfBuildKeys \cup HostKeys)
     EXCEPT !["supersedes"] = "default"],
  Base("git", (ModeKeys.git \cup SelfBuildKeys \cup HostKeys) \ {"readyz_url"})}

MCSeconds == [f \in {Unset, "good", "short"} |->
                CASE f = Unset -> 2 [] f = "good" -> 1 [] f = "short" -> 0]
=============================================================================
