\* Two devices at one book; everything may fail, and the app may close.
SPECIFICATION LiveSpec
CONSTANTS
  d1 = d1
  d2 = d2
  b1 = b1
  b2 = b2
  Devices = {d1, d2}
  Books = {b1}
  MaxBatch = 1
  MaxTime = 2
  Events = {"itemerror", "close"}
  Rows <- MCRows
  Blank <- MCBlank
 
PROPERTIES QueueDrains
