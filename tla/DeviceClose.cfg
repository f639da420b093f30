\* Two sockets, a call of device() and one of adevice() on one or both.
CONSTANTS
  Socket = {s1, s2}
  SyncDevice = {d1}
  AsyncDevice = {d2}
  Nobody = Nobody
SPECIFICATION FairSpec
INVARIANTS NoDeviceOutlivesClose ListedAioLives
PROPERTIES CloseReturns CloseEndsDevice
