SPECIFICATION Spec
CONSTANTS
  a = a
  b = b
  s1 = s1
  s2 = s2
  padded = padded
  short = short
  None = None
  Labels <- TwoLabels
  Secrets <- FourSecrets
  Short <- OnlyShort
  Trim <- Padding
  TTL = 3
  Second = 2
  MaxClock = 5
  MaxCookies = 1
SYMMETRY LabelSymmetry
INVARIANTS TypeOK CurrentKeysOnly CookieLasts RevokedIsOut
