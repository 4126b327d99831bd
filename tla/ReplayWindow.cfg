\* Two words of three bits and twice as many nonces: every shift within a word,
\* across words and beyond the window.
CONSTANTS
  Words = 2
  WordBits = 3
  Threads = {1}
  MaxNonce = 11
SPECIFICATION Spec
INVARIANTS
  NoReplay
  WindowIsExact
CHECK_DEADLOCK FALSE
