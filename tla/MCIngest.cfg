SPECIFICATION FairIngestSpec
CONSTANTS
  sflow = sflow
  gnmi = gnmi
  agent = agent
  leaf1 = leaf1
  leaf2 = leaf2
  other = other
  SFlow = sflow
  Gnmi = gnmi
  Loop = {sflow, gnmi}
  Source = {agent, leaf1}
  SourcesOf <- MCSourcesOf
  Answers <- MCAnswers
  QueueId <- MCQueueId
  Spelling <- MCSpelling
  IntMax = 7
  Percent = 100
  PollSeconds = 30
  None = None
  Tenant = {other}
  Default = Default
  NoMapping = NoMapping
  TTL = 1
  MaxEdits = 1
  MaxFailures = 1
INVARIANTS IngestTypeOK VolumeConserved QueuesKept SplitOnlyByRefresh
PROPERTIES RegressOnlyByOverlap EventuallyRouted RoutingSpec
CHECK_DEADLOCK FALSE
