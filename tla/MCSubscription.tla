--------------------------- MODULE MCSubscription ---------------------------
(* An instance of Subscription for TLC: an organisation on the first host with *)
(* one repository that is allowed and one that is not, and a pull request from *)
(* a fork; a repository on a host the deployment is not configured for.        *)
EXTENDS Subscription

MCRepos == {"app", "tools", "elsewhere"}
MCHostOf == [app |-> "github.com", tools |-> "github.com", elsewhere |-> "ghe"]
MCInstances == {"github.com"}
MCAllowedRepositories == {"app", "elsewhere"}
MCPulls == {"fork_pr", "branch_pr", "other_pr"}
MCBaseRepo == [fork_pr |-> "app", branch_pr |-> "tools", other_pr |-> "elsewhere"]
MCHeadRepo == [fork_pr |-> "fork", branch_pr |-> "tools", other_pr |-> "elsewhere"]
MCHeadRef == [p \in MCPulls |-> "main"]
MCAuthors == {"bot", "human"}
MCBotLogins == {"bot"}
MCScopes == {"acme/app", "acme"}
MCCovers == [s \in MCScopes |-> IF s = "acme" THEN {"app", "tools"} ELSE {"app"}]

=============================================================================
