SPECIFICATION LifecycleSpec
CONSTANTS
  Root = root
  Children = {draft}
  MaxGeneration = 3
  MaxInvocation = 3
INVARIANTS GenerationWhole NoHookForgotten OwnGeneration
PROPERTY FailStop
CHECK_DEADLOCK FALSE
