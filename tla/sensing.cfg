SPECIFICATION Spec
CONSTANTS
  Signals = {"vehicle.ready"}
  Cars = {"asleep", "off", "driving"}
  home = home
  away = away
  Places = {home, away}
  Roads <- OneTrip
  Nowhere = Nowhere
  ReportsSpeed = TRUE
  Kinds = {"profile", "standard"}
  Driving = 1
  Parked = 1
  Grace = 2
  Retry = 1
  ConnectTime = 1
  DefaultFixMaxAge = 1
  Monitors = 2
INVARIANTS SensingInv
PROPERTIES SamplingGoesOn Reconnects DrivingIsNoticed ParkedInTheEnd
