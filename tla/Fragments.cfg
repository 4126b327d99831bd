\* One sender on an ordered channel, five messages and eight packets in any order
\* of arrival; two senders on an unordered one; one on a sequenced one; and two
\* senders against a small store, whose fragment IDs are reused after the
\* fragments of their last message can neither arrive any more nor be in a buffer
\* that is not stale.
CONSTANTS
  AckBits = 8
  MaxReorderWindow = 8
  Nil = Nil
  Empty = Empty
  FragmentTimeout = 1
  Threads <- TwoThreads
  Plans <- AllPlans
  Parts <- MixedParts
  Compressed = {3, 6}
  Undecodable = {6}
  MaxFragments = 3
  Lifetime = 1
  ReuseAfter = 2
SPECIFICATION Spec
INVARIANTS
  MessagesInOrder
  MessagesAtMostOnce
  TakenIsDelivered
  
  WholeMessages
  StoreAccounts
CHECK_DEADLOCK FALSE
