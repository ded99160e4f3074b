SPECIFICATION FairTransportSpec
CONSTANTS
  Transports = {t1, t2}
  Owner <- OneThread
  WellBehaved = {t1}
  Polls = 2
  Capacity = 1
PROPERTIES KilledForCause ChildReaped CallersReleased
