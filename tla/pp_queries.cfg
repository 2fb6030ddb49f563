\* Setup loads 0..6 devices with any failed handle lookups, the loop calls the proxy, EXIT exits it.
CONSTANTS
  nullptr = nullptr
  deleted = deleted
  NullPtr <- nullptr
  Deleted <- deleted
  MaxDevices = 6
SPECIFICATION Spec
\* After a failed LoadPlatformData, and after Exit, the process stops.
CHECK_DEADLOCK FALSE
INVARIANT DeviceQueriesAgree
