SPECIFICATION Spec
CONSTANTS
  c1 = c1  inside = inside  outside = outside  link = link  doc = doc  more = more
  Callers = {c1}
  Paths = {inside, outside, link}
  Leads <- LinkLeadsOut
  Allowed = {inside, link}
  NameOf <- FileNames
  Contents = {doc, more}
  Image = {}
  Big = {}
  Part = Part
  NoFile = NoFile
  Backoffs = 1
  Requests <- Transfers
  MaxCalls = 2
  MaxEvents = 1
PROPERTIES
  WritesStayAllowed
\* the calls permitted are used up
CHECK_DEADLOCK FALSE
