SPECIFICATION FairSpec
CONSTANTS
  HttpCalls = {h1}
  StdioCalls = {}
  BadTexts = {}
  Streams = {s1, s2}
PROPERTIES
  OnlyClientGetsEvents
