SPECIFICATION psSpec
CONSTANTS
  MAX_TOPICS = 2
  MAX_SUBSCRIBERS_PER_TOPIC = 3
  Thread = {t1, t2}
  Topic = {a, b, c}
  Fd = {f1, f2, f3, f4}
  NULL = NULL
SYMMETRY Symmetry
INVARIANTS TableWellFormed CursorInside
 
