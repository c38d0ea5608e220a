CONSTANTS
  Events = {none, announced}
  Start = 1
  REGISTRY_CHUNK_BLOCKS = 2
  REORG_SAFETY_BLOCKS = 1
  ReorgDepth = 1
  Absent = Absent
  MaxBlock = 5
  MaxReorgs = 1
SPECIFICATION Spec
INVARIANTS CacheFaithful SnapshotComplete
