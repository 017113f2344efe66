SPECIFICATION DeliverySpec
CONSTANTS
  PrimaryCapacity = 1
  TerminalCapacity = 1
  Nobody = Nobody
PROPERTIES
  DeliveredInOrder
