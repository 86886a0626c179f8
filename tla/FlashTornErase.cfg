\* The default flash_empty_device clears a page upwards with memset: power fails
\* after the header is cleared, with some or all of the blocks still there.
CONSTANTS
  Values = {v1, v2}
  BlockNum = 2
  Erased = erased
  Torn = torn
  Other = other
  NoValue = novalue
  ErasePrefixes = {0, 1}
SPECIFICATION Spec
INVARIANT WrittenIsRead
