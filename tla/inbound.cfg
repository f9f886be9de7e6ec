SPECIFICATION FairSpec
CONSTANTS
  m1 = m1
  m2 = m2
  Message = {m1, m2}
  Request = {r1, r2}
  MaxRemovals = 1
  Scene <- Scenes12
INVARIANTS
  TypeOK
  AcceptedMeansQueued
  AnsweredOncePerLife
PROPERTIES
  WorkerOwnsTheRow
  EveryMessageIsSettled
CHECK_DEADLOCK FALSE
