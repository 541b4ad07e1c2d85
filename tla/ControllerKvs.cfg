SPECIFICATION KvsSpec
CONSTANTS
  Groups = {1, 2}
  MapIds = {10000, 10001, 10002, 10003, 10004, 10005}
  Operations = {"add", "send", "restart", "reset", "reuse"}
  MaxKey = 4
INVARIANTS
  KeysetListSound
  SentUnderStoredKey
