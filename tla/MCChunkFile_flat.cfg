SPECIFICATION Spec
CONSTANTS
  Byte = {1, 2}
  ChunkSize = 2
  MaxSize = 6
  MaxData = 4
INVARIANTS WholeRowsReadBack PushesWhatIsStored
PROPERTIES StoresFlat
