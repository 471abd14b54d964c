SPECIFICATION Spec
CONSTANTS
  s1 = s1
  s2 = s2
  raw = raw
  shared = shared
  private = private
  unsupported = unsupported
  odd = odd
  Procs = {p1, p2}
  Logged = {e1}
  Fresh = {f1}
  Summaries = {s1, s2, raw}
  Rests = {shared, private, unsupported, odd}
  Contents <- MCContents
  Unsupported = unsupported
  Raising = {odd}
  Redacted <- MCRedacted
  Safe <- MCSafe
  Prefix <- MCPrefix
  Substring <- MCSubstring
  None = None
  MaxAppends = 2
  MaxOpens = 3
  MaxCrashes = 1
INVARIANT StoreOpens
SYMMETRY Alike
