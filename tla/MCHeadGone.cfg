SPECIFICATION Spec
CONSTANTS
  Repos <- MCRepos
  HostOf <- MCHostOf
  Instances <- MCInstances
  AllowedRepositories <- MCAllowedRepositories
  Pulls <- MCPulls
  BaseRepo <- MCBaseRepo
  HeadRepo <- MCHeadRepo
  HeadRef <- MCHeadRef
  Authors <- MCAuthors
  BotLogins <- MCBotLogins
  Scopes <- MCScopes
  Covers <- MCCovers
  MaxHooks = 2
  MaxSecrets = 2
INVARIANTS
  WorksOnHeadBranch
