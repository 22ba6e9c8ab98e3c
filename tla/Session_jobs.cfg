SPECIFICATION SSpec
CONSTANTS
  Worker = {rxw, usbw}
  NoJob = none
INVARIANTS
  ResetAlone
PROPERTIES
  RestartEnds
  ServiceSpec
