CONSTANTS
  power = power
  mouse = mouse
  sound = sound
  Plugin <- ThreePlugins
  Priority <- ThreePriorities
SPECIFICATION FairSpec
INVARIANTS FollowsSetting
PROPERTIES StartedInOrder SwitchedOnRuns
\* The daemon ends.
CHECK_DEADLOCK FALSE
