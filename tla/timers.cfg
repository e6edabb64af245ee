SPECIFICATION Spec
CONSTANTS
  UPDATE_INTERVAL_MS = 3
  UPDATE_IO_MS = 6
  AIO_PING_INTERVAL = 8
  Wrap = 70
  UpdateMax = 2
  IoMin = 1
  IoMax = 3
  PingMax = 1
  DrawMax = 3
  MaxTime = 150
INVARIANT
  TypeOK
INVARIANT
  UpdatesNotLate
INVARIANT
  PingsInTime
PROPERTY
  UpdatesSpaced
