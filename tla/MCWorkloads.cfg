SPECIFICATION Spec
CONSTANTS
  Target = 30
  Interval = 2
  Spin = 1
  Costs = {3, 90}
  Deadline = 4000
  SettlesIn = 17
  MaxChanges = 2
  MaxSlow = 4
  MaxForks = 3
  MaxThreads = 3
  Workers = {w1, w2, w3}
  MaxSeconds = 2
  Rounds = 5
  Stalls = {0, 40}
  Overruns = {0, 1}
  PairTimes = {240, 250, 270}
  Queries <- MCQueries
  Delays = {0, 1}
  Hands = {h1, h2, h3}
  Each = 20
  Loops = 6
  Works = {3, 50}
  Oversleeps = {0, 2}
  Gaps = {0, 1}
  Requests = 3
INVARIANT PaceHolds
 
INVARIANT SharesHold
PROPERTY WorkloadsEnd
CHECK_DEADLOCK FALSE
