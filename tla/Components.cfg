\* Startup
CONSTANTS
  Apps = {"csi_send", "csi_recv", "csi_recv_router", "slave_send", "slave_recv",
          "master_recv", "console_test", "connect_rainmaker"}
  MaxFaults = 2
  MaxRestarts = 1
\* PingCmd
  MaxSessions = 2
  MaxAborts = 2
\* EvalServer
  RX_BUFFER_SIZE = 7
  Short = 2
  RecordSizes = {1, 2, 6}
  OtherSizes = {1, 3}
  MaxLines = 2
  MaxConnections = 2
\* RadarConfig
  Intervals = {10, 100}
  NullData = TRUE
  MaxCommands = 1
  MaxConnects = 1
\* RadarPresence
  RADAR_BUFF_MAX_LEN = 3
  Jitters = {0, 1, 3}
  NOISE = 1
  SENSITIVITY = 2
  Thresholds = {1, 2}
  BuffSizes = {1, 4}
  OutlierNumbers = {1, 2}
  MaxValues = 4
  MaxRadarCommands = 1
\* Fft
  WrongFactors = {7}
\* CsiGain
  SAMPLES = 2
  BYTE = 4
  WORD = 16
  AgcGains = {0, 3}
  FftBytes = {1, 2}
  MaxPackets = 4
\* HostTool
  CollectNumbers = {1, 2}
  QueueSize = 2
  PipeSize = 1
  MaxSamples = 2
  MaxCleans = 1
SPECIFICATION Spec
CHECK_DEADLOCK FALSE
INVARIANTS
  TypeOK
  NothingElseEarly
  HandleSound
  EachRecordOnce
  UpdatesKept
  MovesCounted
  Transformed
  GainIsAverage
  SamplesApart
  ButtonHonest
PROPERTIES
  BootEnds
  HostEnds
