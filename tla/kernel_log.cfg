SPECIFICATION KSpec
CONSTANTS
  Texts = {"a", "b"}
  RingSize = 3
  MaxLines = 7
PROPERTIES OnlyNewReported NewReported
