\* Two devices, two temperatures and two humidities.
CONSTANTS
  MaxDev = 2
  FirstOption = 25
  LastOption = 26
  MaxHumidity = 1
SPECIFICATION Spec
INVARIANTS TypeOK OnlyLiveWidgetsUsed ShowsSelected
