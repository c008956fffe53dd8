\* Two activations, calls that outlive the first one, a schema operator beside them
\* and POSTs that may hang for ever. Pools of one connection: whoever holds it makes
\* every other call wait. No symmetry: the run checks liveness.
SPECIFICATION FairSpec
CONSTANTS
  Call = {c1, c2}
  PoolSize = 1
  Authored = 2
  Release <- MCReleases
  MaxActivations = 2
INVARIANTS
  TypeOK
  QuietWhenInactive
  NoConnectionOfAnEarlierPool
  StatementsFindTheirSchema
PROPERTIES
  ImplementsInstanceContract
  DeactivationEnds
  NoCallStarves
