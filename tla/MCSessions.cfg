SPECIFICATION Spec
CONSTANTS
 Clients = {c1, c2}
 pupil = pupil
 watcher = watcher
 restarter = restarter
 secret = secret
 none = none
 Logins = {pupil, watcher, restarter}
 Monitors = {watcher}
 AlwaysNew = {restarter}
 Codes <- MCCodes
 NoCode = none
 First <- MCFirst
 Versions <- MCVersions
 Removed = removed
 None = None
 Unheld = unheld
 MaxClock = 3
 MaxTokens = 5
 MaxNew = 1
 MaxChanges = 1
SYMMETRY Devices
INVARIANTS
  OneDevicePerPerson
  
PROPERTIES
  SessionsEndForAReason
  MonitorRegistersEveryMember
CHECK_DEADLOCK FALSE
