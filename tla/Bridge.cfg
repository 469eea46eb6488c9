CONSTANTS
  Codes = {OpA}
  Transactions = {1, 2}
  Words = {0, 1}
  Bytes = {0, 255}
  MaxParams = 5
  MaxPayload = 3

SPECIFICATION Spec

INVARIANT CommandRoundTrip
INVARIANT DataSplit
