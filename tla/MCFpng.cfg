SPECIFICATION Spec
CONSTANTS
  Pictures <- SmallPictures
  FPNG_MAX_SUPPORTED_DIM = 500
  HeaderDim = 490
  MaxPixels = 480
  UINT32_MAX = 1919
  MaxRawBlock = 100
  Losses <- SmallLosses
INVARIANTS DecodesToPicture TruncatedIsRefused TablesAgree CodesAreOptimal BuffersHold
\* A picture that is decoded, or that never was encoded, is the end.
CHECK_DEADLOCK FALSE
