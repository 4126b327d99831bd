------------------------- MODULE ReplayWindowProofs -------------------------
(***************************************************************************)
(* The safety theorems of ReplayWindow, for every number of words and of   *)
(* bits in a word, and so for the 16 words of 64 bits of the code.         *)
(***************************************************************************)
EXTENDS ReplayWindow, TLAPS

-----------------------------------------------------------------------------
(* Division.                                                                *)

\* Multiplication by a positive number is strictly monotone.
LEMMA TimesMonotone ==
  ASSUME NEW B \in Nat \ {0}, NEW p \in Int, NEW q \in Int, p < q
  PROVE  B * p + B <= B * q
<1>1. PICK k \in Nat : q = p + 1 + k
  <2>1. q - p - 1 \in Nat /\ q = p + 1 + (q - p - 1)
    OBVIOUS
  <2> QED BY <2>1
<1>2. B * (p + 1 + k) = B * p + B + B * k
  OBVIOUS
<1>3. B * k \in Nat /\ B * p \in Int
  OBVIOUS
<1> QED BY <1>1, <1>2, <1>3

\* A quotient and a remainder determine each other.
LEMMA DivisionUnique ==
  ASSUME NEW B \in Nat \ {0}, NEW p \in Int, NEW q \in Int,
         NEW r \in 0..(B - 1), NEW s \in 0..(B - 1), B * p + r = B * q + s
  PROVE  p = q /\ r = s
<1>0. B * p \in Int /\ B * q \in Int
  OBVIOUS
<1>1. CASE p < q
  <2>1. B * p + B <= B * q
    BY <1>1, TimesMonotone
  <2> QED BY <2>1, <1>0
<1>2. CASE q < p
  <2>1. B * q + B <= B * p
    BY <1>2, TimesMonotone
  <2> QED BY <2>1, <1>0
<1>3. CASE p = q
  BY <1>0, <1>3
<1> QED BY <1>1, <1>2, <1>3

\* What \div and % compute.
LEMMA Division ==
  ASSUME NEW B \in Nat \ {0}, NEW d \in Nat
  PROVE  d \div B \in Nat /\ d % B \in 0..(B - 1) /\ d = B * (d \div B) + (d % B)
<1>1. d % B \in 0..(B - 1)
  OBVIOUS
<1>2. d \div B \in Int
  OBVIOUS
<1>3. d = B * (d \div B) + (d % B)
  OBVIOUS
<1>4. d \div B >= 0
  <2>1. CASE d \div B < 0
    <3>1. B * (d \div B) + B <= B * 0
      BY <2>1, <1>2, TimesMonotone
    <3> QED BY <3>1, <1>1, <1>2, <1>3
  <2> QED BY <2>1, <1>2
<1> QED BY <1>1, <1>2, <1>3, <1>4

\* Their results are the only ones that fit.
LEMMA DivisionIs ==
  ASSUME NEW B \in Nat \ {0}, NEW d \in Nat, NEW q \in Int, NEW r \in 0..(B - 1),
         d = B * q + r
  PROVE  d \div B = q /\ d % B = r
<1>1. PICK p, s : p = d \div B /\ s = d % B
  OBVIOUS
<1>2. p \in Nat /\ s \in 0..(B - 1) /\ d = B * p + s
  BY <1>1, Division
<1> QED BY <1>1, <1>2, DivisionUnique
-----------------------------------------------------------------------------
(* The window.                                                              *)

\* Bit d of a window: the nonce d below maxNonce.
Has(win, d) == (d % WordBits) \in win[d \div WordBits]

Windows == [Word -> SUBSET Bit]
Reach == 0..(WindowSize - 1)

\* Where bit d is.
LEMMA Place ==
  ASSUME NEW d \in Reach
  PROVE  /\ d \in Nat /\ WindowSize \in Nat \ {0}
         /\ d \div WordBits \in Word /\ d % WordBits \in Bit
         /\ d = WordBits * (d \div WordBits) + (d % WordBits)
<1>1. WordBits \in Nat \ {0} /\ Words \in Nat \ {0}
  BY WindowAssumption
<1>2. WindowSize = WordBits * Words /\ WindowSize \in Nat \ {0}
  BY <1>1 DEF WindowSize
<1>3. d \in Nat /\ d < WindowSize
  BY <1>2 DEF Reach
<1>4. PICK q, r : q = d \div WordBits /\ r = d % WordBits
  OBVIOUS
<1>5. q \in Nat /\ r \in 0..(WordBits - 1) /\ d = WordBits * q + r
  BY <1>1, <1>3, <1>4, Division
<1>6. q < Words
  <2>1. CASE Words < q
    <3>1. WordBits * Words + WordBits <= WordBits * q
      BY <2>1, <1>1, <1>5, TimesMonotone
    <3>2. PICK x, y \in Nat : x = WordBits * Words /\ y = WordBits * q
      BY <1>1, <1>5
    <3>3. x + WordBits <= y /\ d = y + r /\ d < x
      BY <3>1, <3>2, <1>2, <1>3, <1>5
    <3> QED BY <3>2, <3>3, <1>1, <1>5
  <2>2. CASE Words = q
    <3>1. PICK x \in Nat : x = WordBits * q
      BY <1>1, <1>5
    <3>2. d = x + r /\ d < x
      BY <3>1, <2>2, <1>2, <1>3, <1>5
    <3> QED BY <3>1, <3>2, <1>1, <1>5
  <2> QED BY <2>1, <2>2, <1>1, <1>5
<1>7. q \in 0..(Words - 1)
  BY <1>1, <1>5, <1>6
<1> QED BY <1>2, <1>3, <1>4, <1>5, <1>7 DEF Word, Bit

\* Setting a bit sets that bit.
LEMMA SetBitFacts ==
  ASSUME NEW win \in Windows, NEW x \in Reach
  PROVE  /\ SetBit(win, x) \in Windows
         /\ \A d \in Reach : Has(SetBit(win, x), d) <=> Has(win, d) \/ d = x
<1>1. /\ x \div WordBits \in Word /\ x % WordBits \in Bit
      /\ x = WordBits * (x \div WordBits) + (x % WordBits)
  BY Place
<1>2. SetBit(win, x) \in Windows
  BY <1>1 DEF SetBit, Windows
<1>3. ASSUME NEW d \in Reach
      PROVE  Has(SetBit(win, x), d) <=> Has(win, d) \/ d = x
  <2>1. /\ d \div WordBits \in Word /\ d % WordBits \in Bit
        /\ d = WordBits * (d \div WordBits) + (d % WordBits)
    BY Place
  <2>2. PICK q, r, p, s : /\ q = d \div WordBits /\ r = d % WordBits
                          /\ p = x \div WordBits /\ s = x % WordBits
    OBVIOUS
  <2>3. Has(SetBit(win, x), d) <=> r \in win[q] \/ (q = p /\ r = s)
    BY <1>1, <2>1, <2>2 DEF Has, SetBit, Windows
  <2>4. (q = p /\ r = s) <=> d = x
    <3>1. d = WordBits * q + r /\ x = WordBits * p + s
      BY <1>1, <2>1, <2>2
    <3>2. q = p /\ r = s => d = x
      BY <3>1
    <3>3. d = x => q = p /\ r = s
      BY <2>2
    <3> QED BY <3>2, <3>3
  <2> QED BY <2>2, <2>3, <2>4 DEF Has
<1> QED BY <1>2, <1>3
\* Shifting by words and by bits, with the carry between words, moves every bit
\* by the same distance and drops those that leave the window.
LEMMA ShiftFacts ==
  ASSUME NEW win \in Windows, NEW shift \in Nat \ {0},
         NEW out, out = shiftWindowLeft(win, shift)
  PROVE  /\ out \in Windows
         /\ \A d \in Reach : Has(out, d) <=> d - shift \in Reach /\ Has(win, d - shift)
<1>0. /\ WordBits \in Nat \ {0} /\ Words \in Nat \ {0} /\ WindowSize \in Nat \ {0}
      /\ 0 \in Reach
  BY WindowAssumption DEF WindowSize, Reach
<1>1. CASE shift >= WindowSize
  <2>1. out = [w \in Word |-> {}]
    BY <1>1 DEF shiftWindowLeft
  <2>2. \A d \in Reach : d \div WordBits \in Word /\ d - shift \notin Reach
    <3>1. \A d \in Reach : d \div WordBits \in Word
      BY Place
    <3>2. \A d \in Reach : d - shift \notin Reach
      BY <1>0, <1>1 DEF Reach
    <3> QED BY <3>1, <3>2
  <2> QED BY <2>1, <2>2 DEF Windows, Has
<1>2. CASE shift < WindowSize
  <2>1. PICK B, ws, bs : B = WordBits /\ ws = shift \div B /\ bs = shift % B
    OBVIOUS
  <2>2. /\ B \in Nat \ {0} /\ ws \in Nat /\ ws \in Word /\ bs \in 0..(B - 1)
        /\ shift = B * ws + bs
    <3>1. shift \in Reach
      BY <1>0, <1>2 DEF Reach
    <3>2. /\ shift \div WordBits \in Word /\ shift % WordBits \in Bit
          /\ shift = WordBits * (shift \div WordBits) + (shift % WordBits)
      BY <3>1, Place
    <3> QED BY <3>2, <2>1, <1>0 DEF Word, Bit
  <2>3. PICK words : words = [w \in Word |-> IF w >= ws THEN win[w - ws] ELSE {}]
    OBVIOUS
  <2>4. out = [w \in Word |->
                 ({b + bs : b \in words[w]} \intersect Bit)
                 \union (IF w > 0 THEN {b + bs - B : b \in words[w - 1]} \intersect Bit
                                  ELSE {})]
    BY <1>0, <1>2, <2>1, <2>3 DEF shiftWindowLeft
  <2>5. out \in Windows
    BY <2>4 DEF Windows
  <2>6. /\ \A w \in Word : w >= ws => w - ws \in Word
        /\ \A w \in Word : w > 0 => w - 1 \in Word
    BY <1>0, <2>2 DEF Word
  <2>7. \A w \in Word : /\ words[w] \subseteq 0..(B - 1)
                        /\ w >= ws => words[w] = win[w - ws]
                        /\ w < ws => words[w] = {}
    <3>1. SUFFICES ASSUME NEW w \in Word
                   PROVE  /\ words[w] \subseteq 0..(B - 1)
                          /\ w >= ws => words[w] = win[w - ws]
                          /\ w < ws => words[w] = {}
      OBVIOUS
    <3>2. words[w] = IF w >= ws THEN win[w - ws] ELSE {}
      BY <2>3
    <3>3. w \in Int /\ ws \in Int
      BY <2>2 DEF Word
    <3>4. w >= ws => win[w - ws] \subseteq 0..(B - 1)
      BY <2>1, <2>6 DEF Windows, Bit
    <3> QED BY <3>2, <3>3, <3>4
  <2>8. ASSUME NEW d \in Reach
        PROVE  Has(out, d) <=> d - shift \in Reach /\ Has(win, d - shift)
    <3>1. PICK w, b : w = d \div B /\ b = d % B
      OBVIOUS
    <3>2. /\ w \in Word /\ w \in Nat /\ b \in 0..(B - 1) /\ b \in Bit
          /\ d = B * w + b /\ d \in Nat
      BY <2>1, <3>1, Place DEF Word, Bit
    <3>3. Has(out, d) <=> \/ \E c \in words[w] : b = c + bs
                          \/ w > 0 /\ \E c \in words[w - 1] : b = c + bs - B
      <4>1. Has(out, d) <=> b \in out[w]
        BY <2>1, <3>1 DEF Has
      <4> QED BY <4>1, <2>4, <3>2
    <3>4. ASSUME NEW q \in Word, NEW r \in 0..(B - 1), d - shift = B * q + r
          PROVE  d - shift \in Reach /\ (Has(win, d - shift) <=> r \in win[q])
      <4>1. q \in Nat /\ B * q \in Nat /\ r \in Nat
        BY <2>2 DEF Word
      <4>2. d - shift \in Nat /\ d - shift \in Reach
        <5>1. PICK x \in Nat : x = B * q
          BY <4>1
        <5>2. d - shift = x + r /\ d \in 0..(WindowSize - 1)
          BY <5>1, <3>4 DEF Reach
        <5>3. d - shift \in Nat
          BY <5>1, <5>2, <4>1
        <5>4. d - shift \in 0..(WindowSize - 1)
          BY <5>2, <5>3, <1>0
        <5> QED BY <5>3, <5>4 DEF Reach
      <4>3. (d - shift) \div B = q /\ (d - shift) % B = r
        <5>1. PICK x \in Nat : x = d - shift
          BY <4>2
        <5>2. x = B * q + r /\ q \in Int
          BY <5>1, <4>1, <3>4
        <5>3. x \div B = q /\ x % B = r
          BY <5>2, <2>2, DivisionIs
        <5> QED BY <5>1, <5>3
      <4> QED BY <4>2, <4>3, <2>1 DEF Has
    <3>5. ASSUME w < ws
          PROVE  d - shift \notin Reach
      <4>1. B * w + B <= B * ws
        BY <3>5, <2>2, <3>2, TimesMonotone
      <4>2. PICK x, y \in Int : x = B * w /\ y = B * ws
        BY <2>2, <3>2
      <4>3. d = x + b /\ shift = y + bs /\ x + B <= y
        BY <4>1, <4>2, <2>2, <3>2
      <4>4. d < shift
        BY <4>2, <4>3, <2>2, <3>2
      <4> QED BY <4>4, <3>2 DEF Reach
    <3>6. B * (w - ws) = B * w - B * ws /\ B * (w - 1 - ws) = B * w - B - B * ws
          /\ B * w \in Int /\ B * ws \in Int
      BY <2>2, <3>2
    <3>7. CASE b >= bs /\ w >= ws
      <4>1. /\ w - ws \in Word /\ b - bs \in 0..(B - 1)
            /\ d - shift = B * (w - ws) + (b - bs)
        BY <2>2, <2>6, <3>2, <3>6, <3>7
      <4>2. d - shift \in Reach /\ (Has(win, d - shift) <=> b - bs \in win[w - ws])
        BY <4>1, <3>4
      <4>3. ~(w > 0 /\ \E c \in words[w - 1] : b = c + bs - B)
        BY <2>2, <2>6, <2>7, <3>2, <3>7
      <4>4. (\E c \in words[w] : b = c + bs) <=> b - bs \in words[w]
        BY <2>2, <2>7, <3>2
      <4>5. words[w] = win[w - ws]
        BY <2>7, <3>2, <3>7
      <4> QED BY <4>2, <4>3, <4>4, <4>5, <3>3
    <3>8. CASE b >= bs /\ w < ws
      <4>1. ~(w > 0 /\ \E c \in words[w - 1] : b = c + bs - B)
        BY <2>2, <2>6, <2>7, <3>2, <3>8
      <4>2. words[w] = {}
        BY <2>7, <3>2, <3>8
      <4> QED BY <4>1, <4>2, <3>3, <3>5, <3>8
    <3>9. CASE b < bs /\ w > ws
      <4>1. /\ w - 1 \in Word /\ w - 1 >= ws /\ w > 0 /\ (w - 1) - ws \in Word
            /\ w - 1 - ws = (w - 1) - ws
        BY <2>2, <2>6, <3>2, <3>9
      <4>2. /\ b - bs + B \in 0..(B - 1)
            /\ d - shift = B * (w - 1 - ws) + (b - bs + B)
        BY <2>2, <3>2, <3>6, <3>9
      <4>3. d - shift \in Reach
            /\ (Has(win, d - shift) <=> b - bs + B \in win[(w - 1) - ws])
        BY <4>1, <4>2, <3>4
      <4>4. ~ \E c \in words[w] : b = c + bs
        BY <2>2, <2>7, <3>2, <3>9
      <4>5. (\E c \in words[w - 1] : b = c + bs - B) <=> b - bs + B \in words[w - 1]
        BY <2>2, <2>7, <3>2, <4>1
      <4>6. words[w - 1] = win[(w - 1) - ws]
        BY <2>7, <4>1
      <4> QED BY <4>1, <4>3, <4>4, <4>5, <4>6, <3>3
    <3>10. CASE b < bs /\ w <= ws
      <4>1. ~ \E c \in words[w] : b = c + bs
        BY <2>2, <2>7, <3>2, <3>10
      <4>2. w > 0 => words[w - 1] = {}
        BY <2>2, <2>6, <2>7, <3>2, <3>10
      <4>3. d - shift \notin Reach
        <5>1. CASE w = ws
          BY <5>1, <2>2, <3>2, <3>6, <3>10 DEF Reach
        <5> QED BY <5>1, <2>2, <3>2, <3>5, <3>10
      <4> QED BY <4>1, <4>2, <4>3, <3>3
    <3> QED BY <3>7, <3>8, <3>9, <3>10, <2>2, <3>2
  <2> QED BY <2>5, <2>8
<1> QED BY <1>0, <1>1, <1>2
-----------------------------------------------------------------------------
(* The inductive invariant.                                                 *)

\* What the invariant says of the numbers.
LEMMA Types ==
  ASSUME IInv
  PROVE  /\ nonce \in Nat /\ maxNonce \in Nat /\ maxNonce <= nonce /\ nonce <= MaxNonce
         /\ MaxNonce \in Nat /\ WindowSize \in Nat \ {0}
         /\ window \in Windows
         /\ accepted \in [1..MaxNonce -> Nat]
         /\ 0 \in Reach
BY WindowAssumption DEF IInv, TypeOK, Windows, WindowSize, Reach

\* A new CipherState satisfies the invariant.
LEMMA InitIInv == OneReader /\ Init => IInv
<1> SUFFICES ASSUME OneReader, Init PROVE IInv
  OBVIOUS
<1>1. TypeOK
  BY WindowAssumption DEF Init, TypeOK, Idle
<1>2. NoReplay
  BY DEF Init, NoReplay
<1> QED BY <1>1, <1>2, WindowAssumption DEF Init, IInv, Idle

\* A nonce that checks was not accepted before.
LEMMA CheckedIsNew ==
  ASSUME IInv, NEW n \in 1..MaxNonce, check(n)
  PROVE  accepted[n] = 0
<1>1. n \in Nat /\ accepted[n] \in Nat
  BY Types
<1>2. accepted[n] > 0 => n <= maxNonce
  BY DEF IInv
<1>3. CASE maxNonce = 0 \/ n > maxNonce
  BY <1>1, <1>2, <1>3, Types
<1>4. CASE maxNonce - n \in 0..(WindowSize - 1) /\ ~IsSet(maxNonce - n)
  <2>1. n \in 1..maxNonce /\ maxNonce - n < WindowSize
    BY <1>1, <1>4, Types
  <2>2. ~(accepted[n] > 0)
    BY <2>1, <1>4 DEF IInv
  <2> QED BY <2>2, <1>1
<1> QED BY <1>3, <1>4 DEF check

\* The update of the window for a nonce that checks: the history and the window
\* gain the same entry, across a shift too.
LEMMA UpdateKeeps ==
  ASSUME IInv, NEW n \in 1..nonce, check(n), update(n),
         accepted' = [accepted EXCEPT ![n] = @ + 1], UNCHANGED nonce
  PROVE  /\ maxNonce' \in 1..nonce /\ window' \in Windows
         /\ accepted' \in [1..MaxNonce -> Nat] /\ NoReplay'
         /\ accepted'[maxNonce'] > 0
         /\ \A m \in 1..MaxNonce : accepted'[m] > 0 => m <= maxNonce'
         /\ \A m \in 1..maxNonce' :
              maxNonce' - m < WindowSize => (Has(window', maxNonce' - m) <=> accepted'[m] > 0)
<1>1. n \in Nat /\ n \in 1..MaxNonce /\ accepted[n] = 0
  BY Types, CheckedIsNew
<1>2. /\ \A m \in 1..MaxNonce : accepted'[m] = IF m = n THEN 1 ELSE accepted[m]
      /\ accepted' \in [1..MaxNonce -> Nat]
  BY <1>1, Types
<1>3. NoReplay'
  BY <1>2 DEF IInv, NoReplay
<1>4. \A m \in 1..MaxNonce : accepted[m] > 0 => m <= maxNonce
  BY DEF IInv
<1>5. \A m \in 1..maxNonce :
        maxNonce - m < WindowSize => (Has(window, maxNonce - m) <=> accepted[m] > 0)
  BY DEF IInv, IsSet, Has
<1>6. CASE maxNonce = 0 \/ n > maxNonce
  <2>1. PICK w1 : w1 = IF maxNonce = 0 THEN window
                       ELSE shiftWindowLeft(window, n - maxNonce)
    OBVIOUS
  <2>2. maxNonce' = n /\ window' = SetBit(w1, 0)
    BY <2>1, <1>1, <1>6, Types DEF update
  <2>3. w1 \in Windows
        /\ \A m \in 1..n : n - m < WindowSize => (Has(w1, n - m) <=> accepted[m] > 0)
    <3>1. CASE maxNonce = 0
      <4>1. w1 = [w \in Word |-> {}]
        BY <2>1, <3>1 DEF IInv
      <4>2. ASSUME NEW m \in 1..n, n - m < WindowSize
            PROVE  ~Has(w1, n - m) /\ ~(accepted[m] > 0)
        <5>1. n - m \in Reach /\ m \in 1..MaxNonce /\ m > 0
          BY <4>2, <1>1, Types DEF Reach
        <5>2. (n - m) \div WordBits \in Word
          BY <5>1, Place
        <5>3. ~Has(w1, n - m)
          BY <5>2, <4>1 DEF Has
        <5> QED BY <5>1, <5>3, <3>1, <1>4
      <4> QED BY <4>1, <4>2 DEF Windows
    <3>2. CASE maxNonce # 0
      <4>1. n - maxNonce \in Nat \ {0} /\ w1 = shiftWindowLeft(window, n - maxNonce)
        BY <2>1, <3>2, <1>1, <1>6, Types
      <4>2. /\ w1 \in Windows
            /\ \A d \in Reach : Has(w1, d) <=> /\ d - (n - maxNonce) \in Reach
                                               /\ Has(window, d - (n - maxNonce))
        BY <4>1, Types, ShiftFacts
      <4>3. ASSUME NEW m \in 1..n, n - m < WindowSize
            PROVE  Has(w1, n - m) <=> accepted[m] > 0
        <5>1. /\ n - m \in Reach /\ m \in 1..MaxNonce
              /\ (n - m) - (n - maxNonce) = maxNonce - m
          BY <4>3, <1>1, Types DEF Reach
        <5>2. Has(w1, n - m) <=> maxNonce - m \in Reach /\ Has(window, maxNonce - m)
          BY <4>2, <5>1
        <5>3. CASE m <= maxNonce
          <6>1. m \in 1..maxNonce /\ maxNonce - m < WindowSize /\ maxNonce - m \in Reach
            BY <4>1, <4>3, <5>3, <1>1, Types DEF Reach
          <6> QED BY <6>1, <5>2, <1>5
        <5>4. CASE ~(m <= maxNonce)
          <6>1. maxNonce - m \notin Reach
            BY <5>4, <5>1, Types DEF Reach
          <6> QED BY <6>1, <5>1, <5>2, <5>4, <1>4
        <5> QED BY <5>3, <5>4
      <4> QED BY <4>2, <4>3
    <3> QED BY <3>1, <3>2
  <2>4. /\ window' \in Windows
        /\ \A d \in Reach : Has(window', d) <=> Has(w1, d) \/ d = 0
    BY <2>2, <2>3, Types, SetBitFacts
  <2>5. ASSUME NEW m \in 1..n, n - m < WindowSize
        PROVE  Has(window', n - m) <=> accepted'[m] > 0
    <3>1. n - m \in Reach /\ m \in 1..MaxNonce /\ (n - m = 0 <=> m = n)
      BY <2>5, <1>1, Types DEF Reach
    <3> QED BY <3>1, <2>3, <2>4, <2>5, <1>2
  <2>6. \A m \in 1..MaxNonce : accepted'[m] > 0 => m <= n
    BY <1>1, <1>2, <1>4, <1>6, Types
  <2>7. accepted'[n] > 0
    BY <1>1, <1>2
  <2> QED BY <2>2, <2>4, <2>5, <2>6, <2>7, <1>2, <1>3
<1>7. CASE maxNonce # 0 /\ n <= maxNonce
  <2>1. maxNonce - n \in Reach
    BY <1>1, <1>7, Types DEF check, Reach
  <2>2. maxNonce' = maxNonce /\ window' = SetBit(window, maxNonce - n)
    BY <2>1, <1>1, <1>7, Types DEF update, Reach
  <2>3. /\ window' \in Windows
        /\ \A d \in Reach : Has(window', d) <=> Has(window, d) \/ d = maxNonce - n
    BY <2>1, <2>2, Types, SetBitFacts
  <2>4. ASSUME NEW m \in 1..maxNonce, maxNonce - m < WindowSize
        PROVE  Has(window', maxNonce - m) <=> accepted'[m] > 0
    <3>1. /\ maxNonce - m \in Reach /\ m \in 1..MaxNonce
          /\ (maxNonce - m = maxNonce - n <=> m = n)
      BY <2>4, <1>1, Types DEF Reach
    <3> QED BY <3>1, <2>3, <2>4, <1>2, <1>5
  <2>5. \A m \in 1..MaxNonce : accepted'[m] > 0 => m <= maxNonce
    BY <1>2, <1>4, <1>7
  <2>6. maxNonce \in 1..nonce /\ maxNonce \in 1..MaxNonce /\ accepted'[maxNonce] > 0
    BY <1>1, <1>2, <1>7, Types DEF IInv
  <2> QED BY <2>2, <2>3, <2>4, <2>5, <2>6, <1>2, <1>3
<1> QED BY <1>1, <1>6, <1>7, Types
\* The sender takes a nonce.
LEMMA EncryptStep ==
  ASSUME IInv, Encrypt
  PROVE  IInv'
<1>1. /\ nonce' = nonce + 1 /\ nonce < MaxNonce
      /\ UNCHANGED <<maxNonce, window, opening, accepted>>
  BY DEF Encrypt
<1>2. nonce' \in 0..MaxNonce /\ maxNonce \in 0..nonce'
  BY <1>1, Types
<1>3. TypeOK'
  BY <1>1, <1>2 DEF IInv, TypeOK
<1>4. 1..nonce \subseteq 1..nonce'
  BY <1>1, Types
<1>5. \A t \in Threads : opening[t].genuine =>
        opening[t].nonce \in 1..nonce' /\ check(opening[t].nonce)
  BY <1>4 DEF IInv
<1>6. NoReplay' /\ OneReader'
  BY <1>1 DEF IInv, NoReplay, OneReader
<1> QED BY <1>1, <1>3, <1>5, <1>6 DEF IInv, IsSet, check

\* A step that leaves the window, the history and the counter alone.
LEMMA OpeningStep ==
  ASSUME IInv, UNCHANGED <<nonce, maxNonce, window, accepted>>,
         opening' \in [Threads -> [nonce : 0..MaxNonce, genuine : BOOLEAN]],
         \A t \in Threads : opening'[t].genuine =>
           opening'[t].nonce \in 1..nonce /\ check(opening'[t].nonce)
  PROVE  IInv'
<1>1. TypeOK'
  BY DEF IInv, TypeOK
<1>2. NoReplay' /\ OneReader'
  BY DEF IInv, NoReplay, OneReader
<1> QED BY <1>1, <1>2 DEF IInv, IsSet, check

\* Decrypt begins: the nonce checks.
LEMMA BeginDecryptStep ==
  ASSUME IInv, NEW t \in Threads, NEW n \in 0..MaxNonce, NEW genuine \in BOOLEAN,
         BeginDecrypt(t, n, genuine)
  PROVE  IInv'
<1>1. PICK x : x = [nonce |-> n, genuine |-> genuine]
  OBVIOUS
<1>2. /\ genuine => n \in 1..nonce
      /\ check(n) /\ opening' = [opening EXCEPT ![t] = x]
      /\ UNCHANGED <<nonce, maxNonce, window, accepted>>
  BY <1>1 DEF BeginDecrypt
<1>3. /\ x \in [nonce : 0..MaxNonce, genuine : BOOLEAN]
      /\ x.nonce = n /\ x.genuine = genuine
  BY <1>1
<1>4. opening \in [Threads -> [nonce : 0..MaxNonce, genuine : BOOLEAN]]
  BY DEF IInv, TypeOK
<1>5. opening' \in [Threads -> [nonce : 0..MaxNonce, genuine : BOOLEAN]]
  BY <1>2, <1>3, <1>4
<1>6. ASSUME NEW u \in Threads, opening'[u].genuine
      PROVE  opening'[u].nonce \in 1..nonce /\ check(opening'[u].nonce)
  <2>1. u = t
    BY DEF IInv, OneReader
  <2>2. opening'[u] = x
    BY <2>1, <1>2, <1>4
  <2> QED BY <2>2, <1>2, <1>3, <1>6
<1> QED BY <1>2, <1>5, <1>6, OpeningStep

\* The packet does not open.
LEMMA OpenFailsStep ==
  ASSUME IInv, NEW t \in Threads, OpenFails(t)
  PROVE  IInv'
<1>1. /\ opening' = [opening EXCEPT ![t] = Idle]
      /\ UNCHANGED <<nonce, maxNonce, window, accepted>>
  BY DEF OpenFails
<1>2. Idle \in [nonce : 0..MaxNonce, genuine : BOOLEAN] /\ Idle.genuine = FALSE
  BY WindowAssumption DEF Idle
<1>3. opening \in [Threads -> [nonce : 0..MaxNonce, genuine : BOOLEAN]]
  BY DEF IInv, TypeOK
<1>4. opening' \in [Threads -> [nonce : 0..MaxNonce, genuine : BOOLEAN]]
  BY <1>1, <1>2, <1>3
<1>5. \A u \in Threads : ~opening'[u].genuine
  <2>1. \A u \in Threads : opening'[u] = Idle
    BY <1>1, <1>3 DEF IInv, OneReader
  <2> QED BY <2>1, <1>2
<1> QED BY <1>1, <1>4, <1>5, OpeningStep

\* The packet opens: its nonce is marked.
LEMMA EndDecryptStep ==
  ASSUME IInv, NEW t \in Threads, EndDecrypt(t)
  PROVE  IInv'
<1>1. PICK n : n = opening[t].nonce
  OBVIOUS
<1>2. /\ opening[t].genuine /\ update(n)
      /\ accepted' = [accepted EXCEPT ![n] = @ + 1]
      /\ opening' = [opening EXCEPT ![t] = Idle] /\ UNCHANGED nonce
  BY <1>1 DEF EndDecrypt
<1>3. n \in 1..nonce /\ check(n)
  BY <1>1, <1>2 DEF IInv
<1>4. /\ maxNonce' \in 1..nonce /\ window' \in Windows
      /\ accepted' \in [1..MaxNonce -> Nat] /\ NoReplay'
      /\ accepted'[maxNonce'] > 0
      /\ \A m \in 1..MaxNonce : accepted'[m] > 0 => m <= maxNonce'
      /\ \A m \in 1..maxNonce' :
           maxNonce' - m < WindowSize => (Has(window', maxNonce' - m) <=> accepted'[m] > 0)
  BY <1>2, <1>3, UpdateKeeps
<1>5. Idle \in [nonce : 0..MaxNonce, genuine : BOOLEAN] /\ Idle.genuine = FALSE
  BY WindowAssumption DEF Idle
<1>6. opening \in [Threads -> [nonce : 0..MaxNonce, genuine : BOOLEAN]]
  BY DEF IInv, TypeOK
<1>7. opening' \in [Threads -> [nonce : 0..MaxNonce, genuine : BOOLEAN]]
  BY <1>2, <1>5, <1>6
<1>8. \A u \in Threads : ~opening'[u].genuine
  <2>1. \A u \in Threads : opening'[u] = Idle
    BY <1>2, <1>6 DEF IInv, OneReader
  <2> QED BY <2>1, <1>5
<1>9. TypeOK'
  <2>1. nonce' \in 0..MaxNonce /\ maxNonce' \in 0..nonce'
    BY <1>2, <1>4, Types
  <2> QED BY <2>1, <1>4, <1>7 DEF TypeOK, Windows
<1>10. maxNonce' # 0
  BY <1>4, Types
<1>11. OneReader'
  BY DEF IInv, OneReader
<1> QED BY <1>4, <1>8, <1>9, <1>10, <1>11 DEF IInv, IsSet, Has

\* Every step preserves the invariant.
LEMMA NextIInv == IInv /\ [Next]_vars => IInv'
<1> SUFFICES ASSUME IInv, [Next]_vars PROVE IInv'
  OBVIOUS
<1>1. CASE Encrypt
  BY <1>1, EncryptStep
<1>2. ASSUME NEW t \in Threads, NEW n \in 0..MaxNonce, NEW genuine \in BOOLEAN,
             BeginDecrypt(t, n, genuine)
      PROVE  IInv'
  BY <1>2, BeginDecryptStep
<1>3. ASSUME NEW t \in Threads, OpenFails(t) PROVE IInv'
  BY <1>3, OpenFailsStep
<1>4. ASSUME NEW t \in Threads, EndDecrypt(t) PROVE IInv'
  BY <1>4, EndDecryptStep
<1>5. CASE UNCHANGED vars
  BY <1>5, OpeningStep DEF vars, IInv, TypeOK
<1> QED BY <1>1, <1>2, <1>3, <1>4, <1>5 DEF Next

-----------------------------------------------------------------------------
(* The theorems.                                                            *)

\* The inductive invariant holds in every reachable state, for one reader.
THEOREM Invariance == OneReader /\ Spec => []IInv
<1>1. QED BY InitIInv, NextIInv, PTL DEF Spec

\* No packet is decrypted twice, for a window of any size.
THEOREM NoReplayAlways == OneReader /\ Spec => []NoReplay
<1>1. IInv => NoReplay
  BY DEF IInv
<1>2. QED BY <1>1, Invariance, PTL

\* check refuses exactly the nonces accepted before and those that have fallen
\* out of the window.
THEOREM WindowIsExactAlways == OneReader /\ Spec => []WindowIsExact
<1>1. ASSUME IInv PROVE WindowIsExact
  <2>1. ASSUME NEW n \in 1..MaxNonce
        PROVE  check(n) <=> accepted[n] = 0 /\ n > maxNonce - WindowSize
    <3>1. n \in Nat /\ n # 0 /\ accepted[n] \in Nat
      BY <1>1, Types
    <3>2. accepted[n] > 0 => n <= maxNonce
      BY <1>1 DEF IInv
    <3>3. check(n) => accepted[n] = 0
      BY <1>1, CheckedIsNew
    <3>4. check(n) => n > maxNonce - WindowSize
      BY <1>1, <3>1, Types DEF check
    <3>5. ASSUME accepted[n] = 0, n > maxNonce - WindowSize, n <= maxNonce
          PROVE  check(n)
      <4>1. /\ n \in 1..maxNonce /\ maxNonce - n < WindowSize
            /\ maxNonce - n \in 0..(WindowSize - 1)
        BY <1>1, <3>1, <3>5, Types
      <4>2. ~IsSet(maxNonce - n)
        BY <1>1, <3>5, <4>1 DEF IInv
      <4> QED BY <3>1, <4>1, <4>2 DEF check
    <3>6. n > maxNonce => check(n)
      BY <3>1 DEF check
    <3>7. n > maxNonce \/ n <= maxNonce
      BY <1>1, <3>1, Types
    <3> QED BY <3>3, <3>4, <3>5, <3>6, <3>7
  <2> QED BY <1>1, <2>1 DEF WindowIsExact, IInv
<1>2. QED BY <1>1, Invariance, PTL
=============================================================================
