SPECIFICATION LifecycleSpec
CONSTANTS
  Root = root
  Children = {}
  MaxGeneration = 1
  MaxInvocation = 2
INVARIANT NoInvocationStuck
CHECK_DEADLOCK FALSE
