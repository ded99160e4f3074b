SPECIFICATION TransportSpec
CONSTANTS
  Transports = {t1, t2}
  Owner <- OneThread
  WellBehaved = {t1, t2}
  Polls = 2
  Capacity = 1
INVARIANT WellBehavedExits
