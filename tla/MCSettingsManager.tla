------------------------- MODULE MCSettingsManager -------------------------
\* SettingsManager with three plugins, two of them of the same priority.
EXTENDS SettingsManager
CONSTANTS power, mouse, sound
ThreePlugins == {power, mouse, sound}
ThreePriorities == [p \in ThreePlugins |-> IF p = power THEN 1 ELSE 2]
=============================================================================
