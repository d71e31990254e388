SPECIFICATION Spec
CONSTANTS
  \* recipes and the disk
  Default = 0
  HookNames = {"pre_step", "post_step"}
  TooLarge = {}
  WalkUpMax = 2
  \* files
  MaxSafeName = 4
  MaxStepName = 2
  MaxAge = 3
  MaxDrift = 1
  PidBits = 4
  MaxDepth = 2
  MaxWarnings = 2
  \* agents
  MaxInline = 7
  Preview = 3
  Guard <- GuardText
  Footer <- FooterText
  Bits = 10
  MaxOutput = 6
INVARIANTS
  
  TemplatesReachTheirPlace
  InheritanceIsSound
  DiscoveryIsConsistent
  AgentsAreAskedAndHeard
  FilesAreReadAsMeant
  CommandLinesAreObeyed
CHECK_DEADLOCK FALSE
