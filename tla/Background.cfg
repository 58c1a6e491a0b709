SPECIFICATION MCSpec
CONSTANTS
  t1 = t1  t2 = t2  i1 = i1  i2 = i2
  Tickets = {t1, t2}
  Requests = {r1, r2}
  NoJob = NoJob
  QueueSize = 1
  ReconcileBatch = 1
  MaxConcurrent = 1
  Starts <- MCStarts
  Instances = {i1, i2}
  Pool = {s1, s2}
  NoSession = NoSession
  TableCount = 2
  LastUser = 4
  BatchSize = 1
  MaxRetentionPasses = 2
  MaxDerivedStateFailures = 2
  Commands = {m1, m2}
  MaxCommands = 3
  MaxText = 6
INVARIANTS
  MailSound 
PROPERTIES
  SchemaSound  MailEnds SweepEnds
CHECK_DEADLOCK FALSE
