SPECIFICATION Spec
CONSTANTS
  PortSpace = 4
  WordSpace = 8
  LongSpace = 16
  Defaults <- MCDefaults
  EnvLines <- MCEnvLines
  ProfileLines <- MCProfileLines
  Environments <- SoundOverrides
  MaxEnvLines = 2
  MaxProfileLines = 3
INVARIANT ClientDefinesRemote
