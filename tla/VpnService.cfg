SPECIFICATION Spec
CONSTANTS
  Binder = {b1}
  MaxStarts = 2
  MaxDeaths = 1
  SendAttempts = 2
INVARIANTS
  NoOrphanDaemon
  DaemonsKnown
  VerticleLeakNeedsRace
PROPERTY DescriptorServed
