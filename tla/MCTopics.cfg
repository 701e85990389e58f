\* Each transport by itself.  In process: two publishers, two subscriptions and room for one
\* message.  The mirror: two publications of up to two chunks, their chunks in any order, in
\* pages of two, with room for one message, and groups that are forgotten after a minute.
CONSTANTS
  Publishers = {p1, p2}
  Subscribers = {s1, s2}
  BufferCap = 1
  MaxMessages = 2
  TopicWriters = {w1, w2}
  TopicReaders = {r1, r2}
  SubBufferSize = 1
  MaxSeqNum = 2
  a1 = a1
  a2 = a2
  b1 = b1
  Long = long
  Short = short
  Publications = {a1, a2, b1}
  ChunksOf <- MCChunksOf
  MessageOf <- MCMessageOf
  Feeds <- MCFeeds
  PageLimit = 2
  OutCap = 1
  Ttl = 0
  MaxClock = 1
SPECIFICATION TopicsSpec
INVARIANTS TopicsTypeOK DeliveredExactlyOnce HistoryThenEveryLive
  TimelyIsCompleted WholeInOrderOnce
PROPERTIES CancelledIsClosed PublishReturns CompletedIsDelivered
CHECK_DEADLOCK FALSE
