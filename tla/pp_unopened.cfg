\* A device whose handle lookup failed is registered anyway.
CONSTANTS
  nullptr = nullptr
  deleted = deleted
  NullPtr <- nullptr
  Deleted <- deleted
  MaxDevices = 2
SPECIFICATION Spec
\* After a failed LoadPlatformData, and after Exit, the process stops.
CHECK_DEADLOCK FALSE


INVARIANT RegisteredDevicesOpened
