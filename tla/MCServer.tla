------------------------------ MODULE MCServer ------------------------------
(***************************************************************************)
(* Server for TLC: a usable configuration, and configurations that each     *)
(* differ from it in one setting.                                           *)
(***************************************************************************)
EXTENDS Server, TLC

Good == [rateLimit |-> TRUE, rate |-> 1, burst |-> 1,
         jwtSecret |-> "strong", accessExpiry |-> 1, refreshExpiry |-> 1,
         auth |-> TRUE, backend |-> "bolt", boltPath |-> "db",
         blacklistInterval |-> 1, jobsTTL |-> 1, jobsInterval |-> 1,
         tokenCache |-> FALSE, cacheTTL |-> 0, tracing |-> TRUE, endpoint |-> "e",
         buildTimeout |-> 1, healthTimeout |-> 1, stackTTL |-> 1, mountCLI |-> TRUE]

Numbers == {"rate", "burst", "accessExpiry", "refreshExpiry", "blacklistInterval",
            "jobsTTL", "jobsInterval", "buildTimeout", "healthTimeout", "stackTTL"}

MCConfigs ==
    {Good}
    \cup {[Good EXCEPT ![f] = v] : f \in Numbers, v \in {0, -1}}
    \cup {[Good EXCEPT !.jwtSecret = s] : s \in {"empty", "short", "placeholder"}}
    \cup {[Good EXCEPT !.backend = "redis"], [Good EXCEPT !.boltPath = ""],
          [Good EXCEPT !.endpoint = ""], [Good EXCEPT !.tokenCache = TRUE]}

Symmetry == Permutations(Callers) \cup Permutations(Agents)
=============================================================================
