SPECIFICATION LiveSpec
CONSTANTS
  Handler = {h1, h2}
  Download = {d1, d2, d3}
  NoDownload = NoDownload
  Ops = {"get", "post", "delete"}
  MaxPulls = 1
INVARIANTS RunningListed LimitHeld
PROPERTY RequestsReturn
