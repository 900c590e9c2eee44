SPECIFICATION MCSpec
CONSTANTS
  Null = Null
  Files <- MCFiles
  Assignments <- MCAssignments
  SchemaOf <- MCSchemaOf
  MaxRuns = 3
  MaxLayers = 2
  Handles = {h1, h2}
  InitialReservationSize = 40
  ReservationOverrides = {24}
  ObjectSizes = {1, 3}
  MaxObjects = 2
  MaxDrafts = 3
  RollWords = 28
  imu = imu
  raw = raw
  lost = lost
  imuSchema = imuSchema
  rawSchema = rawSchema
  Topics = {imu, raw, lost}
  Known = {imu, raw}
  TopicSchema <- MCTopicSchema
  Shipped = {imuSchema}
  WithHeader = {imuSchema, rawSchema}
  Stamps = {0, 1, 3}
  MaxRecords = 3
SYMMETRY AnyHandle
CHECK_DEADLOCK FALSE
INVARIANTS SegmentsZeroFilled
