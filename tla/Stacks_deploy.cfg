\* Any two requests at once on a stack, cut short at any step.
SPECIFICATION PageSpec
CONSTANTS
  h1 = h1
  h2 = h2
  c1 = c1
  c2 = c2
  c3 = c3
  Handlers <- Both
  Kinds <- Anything
  Names = {"a"}
  Files <- MCFiles
  Networks = {"net"}
  MaxStacks = 1
  ContainerIds <- Three
INVARIANTS TypeOK RunsWhatIsStored DeployConverges ActConverges DependenciesFirst
SYMMETRY Symmetry
CHECK_DEADLOCK FALSE
