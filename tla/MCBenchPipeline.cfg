\* Seven records through a channel of three, written in transactions of at most
\* three records or six bytes, to one database or to segments of two or three.
SPECIFICATION PipelineSpec
CONSTANTS
  TotalRecords = 7
  ChannelCapacity = 3
  MaxRecordsPerTx = 3
  MaxBytesPerTx = 6
  SizeOf <- MCSizeOf
  Streams = 2
  NoRollover = NoRollover
  Rollovers = {2, 3, NoRollover}
  MaxFaults = 2
INVARIANTS
  EveryRecordAccounted
  SegmentsPartition
  WrittenInOrder
PROPERTIES
  PipelineFinishes
