SPECIFICATION Spec
CONSTANTS
  Topics <- MCTopics
  Readers <- MCReaders
  Writers <- MCWriters
  Channels <- MCChannels
  CAPACITY = 1
INVARIANTS TypeOK NoReaderCutOff NoChannelLeftBehind
PROPERTY UnreadIsReclaimed
