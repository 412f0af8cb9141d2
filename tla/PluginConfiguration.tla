------------------------- MODULE PluginConfiguration -------------------------
(***************************************************************************)
(* What the plug-in can be configured to: JammerNetzPluginConfiguration    *)
(* with its defaults, the limits every configuration is brought into, and  *)
(* how it is written to and read from the project of the host.  Of the     *)
(* fields only those are kept that are limited together or that decide     *)
(* whether a session can be started: no name stands for one that names no  *)
(* server, localhost included.                                             *)
(***************************************************************************)
EXTENDS Integers, FiniteSetsExt

CONSTANTS
  ServerNames,    \* names of servers a user may enter
  JitterFrames,   \* values the two sliders, or the project, may have
  FrameLimit      \* 256: more frames than that are never buffered

NoName == "noServer"

ASSUME ConfigurationAssumption ==
  NoName \notin ServerNames /\ FrameLimit \in Nat \ {0} /\ JitterFrames \subseteq Nat

DefaultConfiguration ==
  [serverName |-> NoName, minimumJitterFrames |-> 1, maximumJitterFrames |-> FrameLimit]

\* What a user can enter.
EnteredConfigurations ==
  [serverName : ServerNames, minimumJitterFrames : JitterFrames, maximumJitterFrames : JitterFrames]

\* The limits: the minimum comes first and the maximum follows it.
Sanitise(c) ==
  LET minimum == Min({FrameLimit, c.minimumJitterFrames})
  IN  [c EXCEPT !.minimumJitterFrames = minimum,
                !.maximumJitterFrames = Min({FrameLimit, Max({minimum, @})})]

\* getStateInformation: every field is a property of the saved tree.
SavedState(c) ==
  [p \in DOMAIN c \cup {"schemaVersion"} |-> IF p = "schemaVersion" THEN 1 ELSE c[p]]

\* setStateInformation: a property the tree does not have keeps its default, one
\* it should not have is not looked at.
RestoredState(state) ==
  [p \in DOMAIN DefaultConfiguration |->
     IF p \in DOMAIN state THEN state[p] ELSE DefaultConfiguration[p]]
=============================================================================
