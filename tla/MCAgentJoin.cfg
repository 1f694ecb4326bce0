SPECIFICATION FairSpec
CONSTANTS
  MaxAgents = 2
  Clients = {c1, c2}
  MaxDialogs = 2
  Codes = {k1}
  MaxArrivals = 3
INVARIANTS TypeOK EnrolledIsWanted ToldIsRecorded WaitingIsFound
PROPERTY JoinsEnd
CHECK_DEADLOCK FALSE
