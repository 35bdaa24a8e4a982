\* A publisher meets a channel that has been closed.
SPECIFICATION ServiceSpec
CONSTANTS
  Publisher = {p1, p2}
  Viewer = {v1, v2}
  Nobody = Nobody
  TailBuffer = 1
  MaxPublished = 1
  File = {f1, f2}
  Content = {1, 2, 3, 5}
  MaxDigestBytes = 2
  MaxChanges = 3
  Proc = {c1, d1}
  Child = c1
  Watch = {w1, w2}
  MaxFlips = 4
  MaxFaults = 0
  Session = {s1}
  Host = {h1, h2}
  BurstThreshold = 2
  BurstWindow = 1
  TrifectaWindow = 1
  MaxObserved = 3
  MaxNow = 2
  Writer = {w1, w2}
  NoWriter = NoWriter
  Parts = 2
  Room = 2
  MaxFrames = 2
  QueueRoom = 1
  UpRoom = 1
  DownRoom = 1
  MaxEvents = 3
INVARIANT
  TailIsInert
CHECK_DEADLOCK FALSE
