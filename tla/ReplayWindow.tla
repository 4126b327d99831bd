---------------------------- MODULE ReplayWindow ----------------------------
(***************************************************************************)
(* The receiving side of crypto.CipherState: a sliding window over the     *)
(* nonces of the packets that decrypted, kept as an array of machine words *)
(* and shifted word by word and bit by bit.                                *)
(*                                                                         *)
(* Decrypt checks the nonce under the lock, opens the packet without it    *)
(* and takes the lock again to update the window; Threads is the set of    *)
(* goroutines that decrypt.  The network may repeat, reorder, lose and     *)
(* damage packets; a damaged one fails to open.                            *)
(***************************************************************************)
EXTENDS Integers

CONSTANTS
  Words,       \* words of the window; 16 in the code
  WordBits,    \* bits of a word; 64 in the code
  Threads,     \* goroutines that call Decrypt
  MaxNonce     \* bound: packets that the sender encrypts

ASSUME WindowAssumption ==
  /\ Words \in Nat \ {0} /\ WordBits \in Nat \ {0} /\ MaxNonce \in Nat

VARIABLES
  nonce,       \* the sender's counter
  maxNonce,    \* the highest nonce that was accepted; 0 if none
  window,      \* window[w]: the bits that are set in word w
  opening,     \* opening[t]: the packet that t has checked and not yet opened
  accepted     \* history: how often each nonce was accepted

vars == <<nonce, maxNonce, window, opening, accepted>>

WindowSize == Words * WordBits
Word == 0..(Words - 1)
Bit  == 0..(WordBits - 1)

Idle == [nonce |-> 0, genuine |-> FALSE]

Init ==
  /\ nonce = 0 /\ maxNonce = 0
  /\ window = [w \in Word |-> {}]
  /\ opening = [t \in Threads |-> Idle]
  /\ accepted = [n \in 1..MaxNonce |-> 0]

-----------------------------------------------------------------------------

IsSet(diff) == (diff % WordBits) \in window[diff \div WordBits]

\* Mutant: a nonce that has fallen out of the window is taken for a new one.
MutCheck(n) ==
  /\ n # 0
  /\ \/ maxNonce = 0
     \/ n > maxNonce
     \/ maxNonce - n >= WindowSize
     \/ maxNonce - n \in 0..(WindowSize - 1) /\ ~IsSet(maxNonce - n)

check(n) ==
  /\ n # 0
  /\ \/ maxNonce = 0
     \/ n > maxNonce
     \/ maxNonce - n \in 0..(WindowSize - 1) /\ ~IsSet(maxNonce - n)

\* Mutant: the bits that leave a word are not carried into the next one.
MutShiftWindowLeft(win, shift) ==
  [w \in Word |->
     IF w >= shift \div WordBits
     THEN {b + (shift % WordBits) : b \in win[w - shift \div WordBits]} \intersect Bit
     ELSE {}]

shiftWindowLeft(win, shift) ==
  LET wordShift == shift \div WordBits
      bitShift  == shift % WordBits
      words     == [w \in Word |-> IF w >= wordShift THEN win[w - wordShift] ELSE {}]
      carried(w) == IF w > 0
                    THEN {b + bitShift - WordBits : b \in words[w - 1]} \intersect Bit
                    ELSE {}
  IN  IF shift >= WindowSize
      THEN [w \in Word |-> {}]
      ELSE [w \in Word |->
              ({b + bitShift : b \in words[w]} \intersect Bit) \union carried(w)]

SetBit(win, diff) ==
  [win EXCEPT ![diff \div WordBits] = @ \union {diff % WordBits}]

update(n) ==
  \/ /\ maxNonce = 0 \/ n > maxNonce
     /\ maxNonce' = n
     /\ window' = SetBit(IF maxNonce = 0 THEN window
                         ELSE shiftWindowLeft(window, n - maxNonce), 0)
  \/ /\ maxNonce # 0 /\ n <= maxNonce
     /\ window' = IF maxNonce - n < WindowSize
                  THEN SetBit(window, maxNonce - n) ELSE window
     /\ UNCHANGED maxNonce

-----------------------------------------------------------------------------

Encrypt ==
  /\ nonce < MaxNonce
  /\ nonce' = nonce + 1
  /\ UNCHANGED <<maxNonce, window, opening, accepted>>

\* Decrypt up to the first unlock.  A packet whose nonce does not check is
\* refused, which changes nothing.
BeginDecrypt(t, n, genuine) ==
  /\ opening[t] = Idle
  /\ genuine => n \in 1..nonce
  /\ check(n)
  /\ opening' = [opening EXCEPT ![t] = [nonce |-> n, genuine |-> genuine]]
  /\ UNCHANGED <<nonce, maxNonce, window, accepted>>

\* The packet does not open: the window is left as it is.
OpenFails(t) ==
  /\ opening[t] # Idle /\ ~opening[t].genuine
  /\ opening' = [opening EXCEPT ![t] = Idle]
  /\ UNCHANGED <<nonce, maxNonce, window, accepted>>

\* The packet opens, and its nonce is marked as seen.
EndDecrypt(t) ==
  /\ opening[t].genuine
  /\ update(opening[t].nonce)
  /\ accepted' = [accepted EXCEPT ![opening[t].nonce] = @ + 1]
  /\ opening' = [opening EXCEPT ![t] = Idle]
  /\ UNCHANGED nonce

Next ==
  \/ Encrypt
  \/ \E t \in Threads :
       \/ \E n \in 0..MaxNonce, genuine \in BOOLEAN : BeginDecrypt(t, n, genuine)
       \/ OpenFails(t)
       \/ EndDecrypt(t)

Spec == Init /\ [][Next]_vars

-----------------------------------------------------------------------------
(* Properties.                                                              *)

\* The window is made of words, and no packet is opened that was not checked.
TypeOK ==
  /\ nonce \in 0..MaxNonce /\ maxNonce \in 0..nonce
  /\ window \in [Word -> SUBSET Bit]
  /\ opening \in [Threads -> [nonce : 0..MaxNonce, genuine : BOOLEAN]]
  /\ accepted \in [1..MaxNonce -> Nat]

\* No packet is decrypted twice, however often the network repeats it.
NoReplay == \A n \in 1..MaxNonce : accepted[n] <= 1

\* check answers for the history: it refuses exactly the nonces that were
\* accepted before and those that have fallen out of the window, across every
\* shift over word boundaries and by more than the window; and damaged packets
\* have left no trace.
WindowIsExact ==
  /\ maxNonce = 0 \/ accepted[maxNonce] > 0
  /\ \A n \in 1..MaxNonce :
       /\ accepted[n] > 0 => n <= maxNonce
       /\ check(n) <=> accepted[n] = 0 /\ n > maxNonce - WindowSize
\* The library decrypts the packets of a connection on one goroutine.
OneReader == \A t, u \in Threads : t = u

\* The inductive invariant, for one reader.  The bits of the window are the
\* nonces accepted within its reach; nothing was accepted above maxNonce; and
\* what the reader is opening has been neither accepted nor left behind.
IInv ==
  /\ OneReader /\ TypeOK /\ NoReplay
  /\ maxNonce = 0 => window = [w \in Word |-> {}]
  /\ maxNonce # 0 => accepted[maxNonce] > 0
  /\ \A n \in 1..MaxNonce : accepted[n] > 0 => n <= maxNonce
  /\ \A n \in 1..maxNonce :
       maxNonce - n < WindowSize => (IsSet(maxNonce - n) <=> accepted[n] > 0)
  /\ \A t \in Threads : opening[t].genuine =>
       opening[t].nonce \in 1..nonce /\ check(opening[t].nonce)
=============================================================================
