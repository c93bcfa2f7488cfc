SPECIFICATION regSpec
CONSTANTS
  Thread = {t1, t2, t3}
  Fd = {f1, f2}
  Client = {c1, c2}
  Hostname = {h1}
  MaxConn = 2
  NULL = NULL
  Key <- MCKey
  Chars <- MCChars
  WORD = 65536
  TABLE_SIZE = 2
SYMMETRY Symmetry
INVARIANTS HeldIsLive RegisteredIsOpen OneDestroyer WalkedIsLive TableAgrees
