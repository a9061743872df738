CONSTANTS
  VLA_ANTENNA_COUNT = 2
  STATE_N_EOP = 1
  VLITE_XML_MAX_DEPTH = 5
  VLITE_XML_CHAR_SIZE = 3
  MaxElements = 6
  ObservationFields <- NameAndScanNo
  AntennaFields <- XAndOffset
  EopFields <- Epoch
SPECIFICATION Spec
INVARIANTS TypeOK FieldsBelong
 
CHECK_DEADLOCK FALSE
