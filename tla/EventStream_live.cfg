SPECIFICATION FairSpec
CONSTANTS
  HttpCalls = {h1, h2}
  StdioCalls = {}
  BadTexts = {}
  Streams = {s1}
INVARIANTS
  EventsOfACallInOrder
PROPERTIES
  OnlyClientGetsEvents
  StreamsEndAfterStop
