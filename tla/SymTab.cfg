\* Three names share a bucket with the true value's, one is alone in its own.
SPECIFICATION Spec
CONSTANTS
  a = a  b = b  c = c  yes = yes
  Names <- MCNames
  TVAL = yes
  Buckets = {1, 2}
  hash <- MCHash
INVARIANTS TypeOK NoTwins ReadsBack
PROPERTIES NoLeak
SYMMETRY Alike
