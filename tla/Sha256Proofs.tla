---------------------------- MODULE Sha256Proofs ----------------------------
(***************************************************************************)
(* Proofs about the buffering and padding of sha256.c: the bytes of a      *)
(* message reach the compression function once, in order and padded,       *)
(* however long the message is and wherever its parts end within a block.  *)
(***************************************************************************)
EXTENDS KernelsProofs, SequenceTheorems

DataBytes == {Data(p) : p \in Nat}
Bytes256 == DataBytes \cup {One, Zero} \cup {LengthByte(b, i) : b \in Nat, i \in Nat}

(* While the message is not finished, `hashed' is its beginning, and the   *)
(* buffer holds what follows.                                              *)
OrderInv ==
  /\ hashed \in Seq(DataBytes)
  /\ Len(hashed) + curlen = fed
  /\ \E m \in Nat : Len(hashed) = m * BlockSize
  /\ length = 8 * Len(hashed)
  /\ \A p \in 1 .. Len(hashed) : hashed[p] = Data(p)
  /\ \A j \in 0 .. curlen - 1 : buf[j] = Data(Len(hashed) + 1 + j)

HInv ==
  /\ HashTypeOK
  /\ ~finished => OrderInv
  /\ PaddedRight

LEMMA BlockFacts ==
  /\ BlockSize \in Nat \ {0} /\ LengthSize \in Nat \ {0} /\ LengthSize < BlockSize
  /\ Limit \in Nat \ {0} /\ Limit = BlockSize - LengthSize
BY Sha256Assumption DEF Limit

LEMMA RestartKeeps ==
  ASSUME HInv, Restart, inlen' \in Nat
  PROVE  HInv'
<1>1. 0 = 0 * BlockSize
  BY BlockFacts
<1>2. OrderInv'
  BY <1>1 DEF Restart, OrderInv
<1>3. HashTypeOK'
  <2>1. 0 \in 0 .. BlockSize - 1
    BY BlockFacts
  <2>2. /\ curlen' = 0 /\ length' = 0 /\ fed' = 0 /\ finished' = FALSE
        /\ DOMAIN buf' = 0 .. BlockSize - 1
    BY DEF Restart, HInv, HashTypeOK
  <2> QED
    BY <2>1, <2>2 DEF HashTypeOK
<1>4. PaddedRight'
  BY DEF Restart, PaddedRight
<1> QED
  BY <1>2, <1>3, <1>4 DEF HInv

LEMMA TakeBlockKeeps ==
  ASSUME HInv, TakeBlock, ~finished
  PROVE  HInv'
<1>1. HashTypeOK'
  BY BlockFacts DEF TakeBlock, HInv, HashTypeOK
<1>2. OrderInv'
  <2> DEFINE next == NextBytes(BlockSize)
  <2>1. OrderInv /\ curlen = 0 /\ fed \in Nat
    BY DEF HInv, TakeBlock, HashTypeOK
  <2>2. hashed \in Seq(DataBytes) /\ Len(hashed) = fed /\ Len(hashed) \in Nat
    BY <2>1, LenProperties DEF OrderInv
  <2>3. next \in Seq(DataBytes) /\ Len(next) = BlockSize
    <3>1. \A j \in 1 .. BlockSize : Data(fed + j) \in DataBytes
      BY <2>1 DEF DataBytes
    <3> QED
      BY <3>1, BlockFacts DEF NextBytes
  <2>4. \A j \in 1 .. BlockSize : next[j] = Data(fed + j)
    BY DEF NextBytes
  <2> HIDE DEF next
  <2>5. hashed' = hashed \o next
    BY DEF TakeBlock, next
  <2>6. /\ hashed' \in Seq(DataBytes) /\ Len(hashed') = Len(hashed) + BlockSize
        /\ \A i \in 1 .. Len(hashed) + BlockSize :
             hashed'[i] = IF i <= Len(hashed) THEN hashed[i] ELSE next[i - Len(hashed)]
    BY <2>2, <2>3, <2>5, ConcatProperties
  <2>7. \E m \in Nat : Len(hashed') = m * BlockSize
    <3>1. PICK m \in Nat : Len(hashed) = m * BlockSize
      BY <2>1 DEF OrderInv
    <3>2. Len(hashed') = (m + 1) * BlockSize
      BY <2>6, <3>1, BlockFacts
    <3> QED
      BY <3>2
  <2>8. \A i \in 1 .. Len(hashed') : hashed'[i] = Data(i)
    <3> SUFFICES ASSUME NEW i \in 1 .. Len(hashed')
                 PROVE  hashed'[i] = Data(i)
      OBVIOUS
    <3>1. CASE i <= Len(hashed)
      BY <2>1, <2>2, <2>6, <3>1, BlockFacts DEF OrderInv
    <3>2. CASE i > Len(hashed)
      <4>1. i - Len(hashed) \in 1 .. BlockSize /\ fed + (i - Len(hashed)) = i
        BY <2>2, <2>6, <3>2, BlockFacts
      <4> QED
        BY <2>2, <2>4, <2>6, <3>2, <4>1
    <3> QED
      BY <2>2, <2>6, <3>1, <3>2, BlockFacts
  <2>9. /\ curlen' = 0 /\ fed' = fed + BlockSize /\ length' = length + BlockSize * 8
    BY <2>1 DEF TakeBlock
  <2>10. length' = 8 * Len(hashed') /\ Len(hashed') + curlen' = fed'
    BY <2>1, <2>2, <2>6, <2>9, BlockFacts DEF OrderInv
  <2> QED
    BY <2>6, <2>7, <2>8, <2>9, <2>10 DEF OrderInv
<1>3. UNCHANGED finished
  BY DEF TakeBlock
<1> QED
  BY <1>1, <1>2, <1>3 DEF HInv, PaddedRight

(* What the buffer holds when it was full. *)
LEMMA BufferedBytes ==
  ASSUME NEW S, NEW b, NEW n \in Nat, \A j \in 0 .. n - 1 : b[j] \in S
  PROVE  /\ Buffered(b, n) \in Seq(S) /\ Len(Buffered(b, n)) = n
         /\ \A i \in 1 .. n : Buffered(b, n)[i] = b[i - 1]
<1>1. \A i \in 1 .. n : b[i - 1] \in S
  OBVIOUS
<1> QED
  BY <1>1 DEF Buffered

LEMMA TakePartKeeps ==
  ASSUME HInv, TakePart, ~finished
  PROVE  HInv'
<1> DEFINE n == Smaller(inlen, BlockSize - curlen)
           full == curlen + n = BlockSize
<1>1. /\ OrderInv /\ curlen \in 0 .. BlockSize - 1 /\ length \in Nat /\ inlen \in Nat /\ fed \in Nat
      /\ DOMAIN buf = 0 .. BlockSize - 1 /\ inlen > 0
  BY DEF HInv, HashTypeOK, TakePart
<1>2. n \in Nat \ {0} /\ n <= inlen /\ curlen + n <= BlockSize
  BY <1>1, BlockFacts DEF Smaller
<1>3. /\ buf' = Copied(n)
      /\ curlen' = IF full THEN 0 ELSE curlen + n
      /\ length' = IF full THEN length + 8 * BlockSize ELSE length
      /\ hashed' = IF full THEN hashed \o Buffered(buf', BlockSize) ELSE hashed
      /\ fed' = fed + n
      /\ inlen' = inlen - n
      /\ finished' = finished
  BY DEF TakePart, Filled
<1> HIDE DEF n
<1>4. HashTypeOK'
  <2>1. DOMAIN buf' = 0 .. BlockSize - 1
    BY <1>3 DEF Copied
  <2>2. curlen' \in 0 .. BlockSize - 1
    BY <1>1, <1>2, <1>3, BlockFacts
  <2>3. length' \in Nat /\ inlen' \in Nat /\ fed' \in Nat /\ finished' = FALSE
    BY <1>1, <1>2, <1>3, BlockFacts
  <2> QED
    BY <2>1, <2>2, <2>3 DEF HashTypeOK
<1>5. hashed \in Seq(DataBytes) /\ Len(hashed) \in Nat /\ Len(hashed) + curlen = fed
  BY <1>1, LenProperties DEF OrderInv
<1>6. \A j \in 0 .. curlen + n - 1 : buf'[j] = Data(Len(hashed) + 1 + j)
  <2> SUFFICES ASSUME NEW j \in 0 .. curlen + n - 1
               PROVE  buf'[j] = Data(Len(hashed) + 1 + j)
    OBVIOUS
  <2>1. j \in 0 .. BlockSize - 1
    BY <1>1, <1>2, BlockFacts
  <2>2. CASE j < curlen
    BY <1>1, <1>3, <2>1, <2>2 DEF Copied, OrderInv
  <2>3. CASE j >= curlen
    <3>1. buf'[j] = Data(fed + 1 + j - curlen)
      BY <1>1, <1>2, <1>3, <2>1, <2>3 DEF Copied
    <3>2. fed + 1 + j - curlen = Len(hashed) + 1 + j
      BY <1>1, <1>5
    <3> QED
      BY <3>1, <3>2
  <2> QED
    BY <1>1, <1>2, <2>2, <2>3
<1>7. CASE full
  <2> DEFINE block == Buffered(buf', BlockSize)
  <2>1. \A j \in 0 .. BlockSize - 1 : buf'[j] = Data(Len(hashed) + 1 + j) /\ buf'[j] \in DataBytes
    <3> SUFFICES ASSUME NEW j \in 0 .. BlockSize - 1
                 PROVE  buf'[j] = Data(Len(hashed) + 1 + j) /\ buf'[j] \in DataBytes
      OBVIOUS
    <3>1. j \in 0 .. curlen + n - 1
      BY <1>1, <1>2, <1>7
    <3>2. Len(hashed) + 1 + j \in Nat
      BY <1>5, BlockFacts
    <3>3. Data(Len(hashed) + 1 + j) \in DataBytes
      BY <3>2 DEF DataBytes
    <3> QED
      BY <1>6, <3>1, <3>3
  <2>2. /\ block \in Seq(DataBytes) /\ Len(block) = BlockSize
        /\ \A i \in 1 .. BlockSize : block[i] = buf'[i - 1]
    <3>1. BlockSize \in Nat /\ \A j \in 0 .. BlockSize - 1 : buf'[j] \in DataBytes
      BY <2>1, BlockFacts
    <3> QED
      BY <3>1, BufferedBytes
  <2>3. hashed' = hashed \o block
    BY <1>3, <1>7
  <2> HIDE DEF block
  <2>4. /\ hashed' \in Seq(DataBytes) /\ Len(hashed') = Len(hashed) + BlockSize
        /\ \A i \in 1 .. Len(hashed) + BlockSize :
             hashed'[i] = IF i <= Len(hashed) THEN hashed[i] ELSE block[i - Len(hashed)]
    BY <1>5, <2>2, <2>3, ConcatProperties
  <2>5. \E m \in Nat : Len(hashed') = m * BlockSize
    <3>1. PICK m \in Nat : Len(hashed) = m * BlockSize
      BY <1>1 DEF OrderInv
    <3>2. Len(hashed') = (m + 1) * BlockSize
      BY <2>4, <3>1, BlockFacts
    <3> QED
      BY <3>2
  <2>6. \A i \in 1 .. Len(hashed') : hashed'[i] = Data(i)
    <3> SUFFICES ASSUME NEW i \in 1 .. Len(hashed')
                 PROVE  hashed'[i] = Data(i)
      OBVIOUS
    <3>1. CASE i <= Len(hashed)
      BY <1>1, <1>5, <2>4, <3>1, BlockFacts DEF OrderInv
    <3>2. CASE i > Len(hashed)
      <4> DEFINE k == i - Len(hashed)
      <4>1. k \in 1 .. BlockSize /\ k - 1 \in 0 .. BlockSize - 1 /\ Len(hashed) + 1 + (k - 1) = i
        BY <1>5, <2>4, <3>2, BlockFacts
      <4>2. hashed'[i] = block[k]
        BY <1>5, <2>4, <3>2, BlockFacts
      <4> HIDE DEF k
      <4> QED
        BY <2>1, <2>2, <4>1, <4>2
    <3> QED
      BY <1>5, <2>4, <3>1, <3>2, BlockFacts
  <2>7. length' = 8 * Len(hashed') /\ Len(hashed') + curlen' = fed' /\ curlen' = 0
    <3>1. curlen' = 0 /\ length' = length + 8 * BlockSize /\ fed' = fed + n
      BY <1>3, <1>7
    <3>2. length = 8 * Len(hashed) /\ curlen + n = BlockSize
      BY <1>1, <1>7 DEF OrderInv
    <3>3. n \in Nat /\ curlen \in Nat /\ BlockSize \in Nat
      BY <1>1, <1>2, BlockFacts
    <3>4. fed' = Len(hashed) + BlockSize
      BY <1>5, <3>1, <3>2, <3>3
    <3>5. length' = 8 * (Len(hashed) + BlockSize)
      BY <1>5, <3>1, <3>2, <3>3
    <3> QED
      BY <1>5, <2>4, <3>1, <3>3, <3>4, <3>5
  <2>8. OrderInv'
    BY <2>4, <2>5, <2>6, <2>7 DEF OrderInv
  <2> QED
    BY <1>3, <1>4, <2>8 DEF HInv, PaddedRight
<1>8. CASE ~full
  <2>1. /\ hashed' = hashed /\ length' = length /\ curlen' = curlen + n /\ fed' = fed + n
    BY <1>3, <1>8
  <2>2. Len(hashed') + curlen' = fed'
    BY <1>1, <1>2, <1>5, <2>1
  <2>3. OrderInv'
    <3>1. \A j \in 0 .. curlen' - 1 : buf'[j] = Data(Len(hashed') + 1 + j)
      <4> SUFFICES ASSUME NEW j \in 0 .. curlen' - 1
                   PROVE  buf'[j] = Data(Len(hashed) + 1 + j)
        BY <2>1
      <4>1. j \in 0 .. curlen + n - 1
        BY <1>1, <1>2, <2>1
      <4> QED
        BY <1>6, <4>1
    <3>2. /\ hashed' \in Seq(DataBytes) /\ \E m \in Nat : Len(hashed') = m * BlockSize
          /\ length' = 8 * Len(hashed') /\ \A i \in 1 .. Len(hashed') : hashed'[i] = Data(i)
      BY <1>1, <2>1 DEF OrderInv
    <3> QED
      BY <2>2, <3>1, <3>2 DEF OrderInv
  <2> QED
    BY <1>3, <1>4, <2>3 DEF HInv, PaddedRight
<1> QED
  BY <1>7, <1>8

-----------------------------------------------------------------------------
(* How many zeros pad a message, in whole blocks and c more bytes.         *)
Zeros(c) == IF c + 1 > Limit THEN (BlockSize - (c + 1)) + Limit ELSE Limit - (c + 1)

LEMMA MultiplesApart ==
  ASSUME NEW a \in Int, NEW b \in Int, NEW size \in Nat \ {0}, a * size < b * size + size
  PROVE  a <= b
<1> SUFFICES ASSUME a > b PROVE FALSE
  OBVIOUS
<1>1. a - (b + 1) \in Nat
  OBVIOUS
<1>2. (a - (b + 1)) * size >= 0
  BY <1>1
<1>3. (a - (b + 1)) * size = a * size - (b * size + size)
  OBVIOUS
<1>4. a * size \in Int /\ b * size \in Int
  OBVIOUS
<1> QED
  BY <1>2, <1>3, <1>4

LEMMA Multiple ==
  ASSUME NEW x \in Nat, NEW size \in Nat \ {0}
  PROVE  x % size = 0 <=> \E q \in Int : x = q * size
<1>1. x % size = 0 => x = (x \div size) * size /\ x \div size \in Int
  OBVIOUS
<1>2. ASSUME NEW q \in Int, x = q * size
      PROVE  x % size = 0
  BY <1>2
<1> QED
  BY <1>1, <1>2

LEMMA ZerosOfPadding ==
  ASSUME NEW n \in Nat, NEW m \in Nat, NEW c \in 0 .. BlockSize - 1, n = m * BlockSize + c
  PROVE  /\ Zeros(c) \in 0 .. BlockSize - 1
         /\ Zeros(c) = CHOOSE k \in 0 .. BlockSize - 1 : (n + 1 + k + LengthSize) % BlockSize = 0
<1> DEFINE z == Zeros(c)
           e == IF c + 1 > Limit THEN m + 2 ELSE m + 1
           P(k) == (n + 1 + k + LengthSize) % BlockSize = 0
<1>1. z \in 0 .. BlockSize - 1 /\ e \in Nat
  BY BlockFacts DEF Zeros
<1>2. n + 1 + z + LengthSize = e * BlockSize
  <2>1. m * BlockSize \in Nat /\ (m + 1) * BlockSize = m * BlockSize + BlockSize
    BY BlockFacts
  <2>2. (m + 2) * BlockSize = m * BlockSize + 2 * BlockSize
    BY BlockFacts
  <2> QED
    BY <2>1, <2>2, BlockFacts DEF Zeros
<1> HIDE DEF e, z
<1>3. P(z)
  <2>1. n + 1 + z + LengthSize \in Nat
    BY <1>1, BlockFacts
  <2> QED
    BY <1>1, <1>2, <2>1, BlockFacts, Multiple
<1>4. ASSUME NEW k \in 0 .. BlockSize - 1, P(k)
      PROVE  k = z
  <2>1. n + 1 + k + LengthSize \in Nat
    BY BlockFacts
  <2>2. PICK q \in Int : n + 1 + k + LengthSize = q * BlockSize
    BY <1>4, <2>1, BlockFacts, Multiple
  <2>3. q * BlockSize - e * BlockSize = k - z
    BY <1>1, <1>2, <2>2, BlockFacts
  <2>4. q * BlockSize \in Int /\ e * BlockSize \in Int
    BY <1>1, BlockFacts
  <2>5. q <= e
    <3>1. q * BlockSize < e * BlockSize + BlockSize
      BY <1>1, <2>3, <2>4, BlockFacts
    <3> QED
      BY <1>1, <3>1, BlockFacts, MultiplesApart
  <2>6. e <= q
    <3>1. e * BlockSize < q * BlockSize + BlockSize
      BY <1>1, <2>3, <2>4, BlockFacts
    <3> QED
      BY <1>1, <3>1, BlockFacts, MultiplesApart
  <2>7. q = e
    BY <1>1, <2>5, <2>6
  <2> QED
    BY <1>1, <2>3, <2>4, <2>7, BlockFacts
<1>5. z = CHOOSE k \in 0 .. BlockSize - 1 : P(k)
  <2> HIDE DEF P
  <2> QED
    BY <1>1, <1>3, <1>4
<1> QED
  BY <1>1, <1>5 DEF z, P

(* The bytes of a padded message, by their places. *)
LEMMA PaddedBytes ==
  ASSUME NEW n \in Nat, NEW m \in Nat, NEW c \in 0 .. BlockSize - 1, n = m * BlockSize + c
  PROVE  /\ Padded(n) \in Seq(Bytes256)
         /\ Len(Padded(n)) = n + 1 + Zeros(c) + LengthSize
         /\ \A i \in 1 .. n + 1 + Zeros(c) + LengthSize :
              Padded(n)[i] = IF i <= n THEN Data(i)
                             ELSE IF i = n + 1 THEN One
                             ELSE IF i <= n + 1 + Zeros(c) THEN Zero
                             ELSE LengthByte(8 * n, i - (n + 1 + Zeros(c)) - 1)
<1> DEFINE z == Zeros(c)
           data == [p \in 1 .. n |-> Data(p)]
           zeros == [j \in 1 .. z |-> Zero]
           len == [i \in 1 .. LengthSize |-> LengthByte(8 * n, i - 1)]
           d1 == data \o <<One>>
           d2 == d1 \o zeros
<1>1. z \in Nat
  BY ZerosOfPadding
<1>2. Padded(n) = d2 \o len
  BY ZerosOfPadding DEF Padded
<1>3. data \in Seq(Bytes256) /\ Len(data) = n
  <2>1. \A p \in 1 .. n : Data(p) \in Bytes256
    BY DEF Bytes256, DataBytes
  <2> QED
    BY <2>1
<1>4. <<One>> \in Seq(Bytes256) /\ Len(<<One>>) = 1 /\ <<One>>[1] = One
  BY DEF Bytes256
<1>5. zeros \in Seq(Bytes256) /\ Len(zeros) = z
  <2>1. Zero \in Bytes256
    BY DEF Bytes256
  <2> HIDE DEF z
  <2> QED
    BY <1>1, <2>1
<1>6. len \in Seq(Bytes256) /\ Len(len) = LengthSize
  <2>1. \A i \in 1 .. LengthSize : LengthByte(8 * n, i - 1) \in Bytes256
    BY BlockFacts DEF Bytes256
  <2> QED
    BY <2>1, BlockFacts
<1>7. /\ \A p \in 1 .. n : data[p] = Data(p)
      /\ \A j \in 1 .. z : zeros[j] = Zero
      /\ \A i \in 1 .. LengthSize : len[i] = LengthByte(8 * n, i - 1)
  OBVIOUS
<1> HIDE DEF z, data, zeros, len
<1>8. /\ d1 \in Seq(Bytes256) /\ Len(d1) = n + 1
      /\ \A i \in 1 .. n + 1 : d1[i] = IF i <= n THEN data[i] ELSE <<One>>[i - n]
  BY <1>3, <1>4, ConcatProperties
<1> HIDE DEF d1
<1>9. /\ d2 \in Seq(Bytes256) /\ Len(d2) = n + 1 + z
      /\ \A i \in 1 .. n + 1 + z : d2[i] = IF i <= n + 1 THEN d1[i] ELSE zeros[i - (n + 1)]
  <2>1. /\ d1 \o zeros \in Seq(Bytes256) /\ Len(d1 \o zeros) = Len(d1) + Len(zeros)
        /\ \A i \in 1 .. Len(d1) + Len(zeros) :
             (d1 \o zeros)[i] = IF i <= Len(d1) THEN d1[i] ELSE zeros[i - Len(d1)]
    BY <1>5, <1>8, ConcatProperties
  <2>2. Len(d1) = n + 1 /\ Len(zeros) = z
    BY <1>5, <1>8
  <2> QED
    BY <2>1, <2>2
<1> HIDE DEF d2
<1>10. /\ Padded(n) \in Seq(Bytes256) /\ Len(Padded(n)) = n + 1 + z + LengthSize
       /\ \A i \in 1 .. n + 1 + z + LengthSize :
            Padded(n)[i] = IF i <= n + 1 + z THEN d2[i] ELSE len[i - (n + 1 + z)]
  <2>1. /\ d2 \o len \in Seq(Bytes256) /\ Len(d2 \o len) = Len(d2) + Len(len)
        /\ \A i \in 1 .. Len(d2) + Len(len) :
             (d2 \o len)[i] = IF i <= Len(d2) THEN d2[i] ELSE len[i - Len(d2)]
    BY <1>6, <1>9, ConcatProperties
  <2>2. Len(d2) = n + 1 + z /\ Len(len) = LengthSize
    BY <1>6, <1>9
  <2> QED
    BY <1>2, <2>1, <2>2
<1>11. ASSUME NEW i \in 1 .. n + 1 + z + LengthSize
       PROVE  Padded(n)[i] = IF i <= n THEN Data(i)
                             ELSE IF i = n + 1 THEN One
                             ELSE IF i <= n + 1 + z THEN Zero
                             ELSE LengthByte(8 * n, i - (n + 1 + z) - 1)
  <2>1. Padded(n)[i] = IF i <= n + 1 + z THEN d2[i] ELSE len[i - (n + 1 + z)]
    BY <1>10
  <2>2. CASE i <= n
    <3>1. i \in 1 .. n /\ i \in 1 .. n + 1 /\ i \in 1 .. n + 1 + z /\ i <= n + 1 /\ i <= n + 1 + z
      BY <1>1, <2>2, BlockFacts
    <3>2. Padded(n)[i] = d2[i] /\ d2[i] = d1[i]
      BY <1>9, <2>1, <3>1
    <3>3. d1[i] = data[i] /\ data[i] = Data(i)
      BY <1>7, <1>8, <2>2, <3>1
    <3> QED
      BY <2>2, <3>2, <3>3
  <2>3. CASE i = n + 1
    <3>1. /\ i \in 1 .. n + 1 /\ i \in 1 .. n + 1 + z /\ i <= n + 1 /\ i <= n + 1 + z
          /\ i - n = 1 /\ ~(i <= n)
      BY <1>1, <2>3, BlockFacts
    <3>2. Padded(n)[i] = d2[i] /\ d2[i] = d1[i]
      BY <1>9, <2>1, <3>1
    <3>3. d1[i] = <<One>>[i - n]
      BY <1>8, <3>1
    <3>4. d1[i] = One
      BY <1>4, <3>1, <3>3
    <3> QED
      BY <2>3, <3>1, <3>2, <3>4
  <2>4. CASE n + 1 < i /\ i <= n + 1 + z
    <3>1. i - (n + 1) \in 1 .. z /\ i \in 1 .. n + 1 + z /\ ~(i <= n + 1) /\ ~(i <= n) /\ i # n + 1
      BY <1>1, <2>4, BlockFacts
    <3>2. Padded(n)[i] = d2[i] /\ d2[i] = zeros[i - (n + 1)]
      BY <1>9, <2>1, <2>4, <3>1
    <3>3. zeros[i - (n + 1)] = Zero
      BY <1>7, <3>1
    <3> QED
      BY <2>4, <3>1, <3>2, <3>3
  <2>5. CASE i > n + 1 + z
    <3> DEFINE k == i - (n + 1 + z)
    <3>1. /\ k \in 1 .. LengthSize
          /\ ~(i <= n + 1 + z) /\ ~(i <= n) /\ i # n + 1
      BY <1>1, <2>5, BlockFacts
    <3>2. Padded(n)[i] = len[k]
      BY <2>1, <3>1
    <3>3. len[k] = LengthByte(8 * n, k - 1)
      <4> HIDE DEF k
      <4> QED
        BY <1>7, <3>1
    <3> QED
      BY <3>1, <3>2, <3>3
  <2> QED
    BY <1>1, <2>2, <2>3, <2>4, <2>5, BlockFacts
<1> QED
  BY <1>10, <1>11 DEF z

(* The blocks that sha256_done makes of the buffer: the one with the mark, *)
(* padded with zeros if there is another one, and the one with the length. *)
Marked(j) == IF j < curlen THEN Data(Len(hashed) + 1 + j) ELSE IF j = curlen THEN One ELSE Zero
LastByte(j) == IF j >= Limit THEN LengthByte(8 * fed, j - Limit)
               ELSE IF curlen + 1 > Limit THEN Zero ELSE Marked(j)

LEMMA DoneBlocks ==
  ASSUME HInv, Done
  PROVE  \E room, last :
           /\ curlen + 1 > Limit => \A j \in 0 .. BlockSize - 1 : room[j] = Marked(j)
           /\ \A j \in 0 .. BlockSize - 1 : last[j] = LastByte(j)
           /\ hashed' = hashed \o (IF curlen + 1 > Limit THEN Buffered(room, BlockSize) ELSE <<>>)
                               \o Buffered(last, BlockSize)
           /\ DOMAIN buf' = 0 .. BlockSize - 1
           /\ length' = 8 * fed
<1> DEFINE bits == length + curlen * 8
           n == curlen + 1
           marked == [buf EXCEPT ![curlen] = One]
           ZeroFrom(b, m, end) == [j \in DOMAIN b |-> IF m <= j /\ j < end THEN Zero ELSE b[j]]
           room == IF ExtraBlock(n) THEN ZeroFrom(marked, n, BlockSize) ELSE marked
           last == ZeroFrom(room, IF ExtraBlock(n) THEN 0 ELSE n, Limit)
           stored == [j \in DOMAIN last |-> IF j >= Limit THEN LengthByte(bits, j - Limit) ELSE last[j]]
<1>1. /\ OrderInv /\ curlen \in 0 .. BlockSize - 1 /\ fed \in Nat
      /\ DOMAIN buf = 0 .. BlockSize - 1
  BY DEF HInv, HashTypeOK, Done
<1>2. /\ length' = bits /\ buf' = stored
      /\ hashed' = hashed \o (IF ExtraBlock(n) THEN Buffered(room, BlockSize) ELSE <<>>)
                          \o Buffered(stored, BlockSize)
  BY DEF Done
<1>3. ExtraBlock(n) <=> curlen + 1 > Limit
  BY DEF ExtraBlock
<1>4. bits = 8 * fed
  <2>1. Len(hashed) \in Nat /\ length = 8 * Len(hashed) /\ Len(hashed) + curlen = fed
    BY <1>1, LenProperties DEF OrderInv
  <2> QED
    BY <1>1, <2>1, BlockFacts
<1>5. /\ DOMAIN marked = 0 .. BlockSize - 1
      /\ \A j \in 0 .. BlockSize - 1 : marked[j] = IF j = curlen THEN One ELSE buf[j]
  BY <1>1
<1> HIDE DEF marked
<1>6. /\ DOMAIN room = 0 .. BlockSize - 1
      /\ ExtraBlock(n) => \A j \in 0 .. BlockSize - 1 :
           room[j] = IF n <= j /\ j < BlockSize THEN Zero ELSE marked[j]
      /\ ~ExtraBlock(n) => room = marked
  BY <1>5
<1>7. ExtraBlock(n) => \A j \in 0 .. BlockSize - 1 : room[j] = Marked(j)
  <2> SUFFICES ASSUME ExtraBlock(n), NEW j \in 0 .. BlockSize - 1
               PROVE  room[j] = Marked(j)
    OBVIOUS
  <2>1. room[j] = IF n <= j /\ j < BlockSize THEN Zero ELSE IF j = curlen THEN One ELSE buf[j]
    BY <1>5, <1>6
  <2>2. j < curlen => buf[j] = Data(Len(hashed) + 1 + j)
    BY <1>1, BlockFacts DEF OrderInv
  <2> HIDE DEF room
  <2> QED
    BY <1>1, <2>1, <2>2, BlockFacts DEF Marked
<1>8. /\ DOMAIN stored = 0 .. BlockSize - 1
      /\ \A j \in 0 .. BlockSize - 1 :
           stored[j] = IF j >= Limit THEN LengthByte(bits, j - Limit)
                       ELSE IF (IF ExtraBlock(n) THEN 0 ELSE n) <= j /\ j < Limit THEN Zero ELSE room[j]
  <2> HIDE DEF room
  <2> QED
    BY <1>6
<1>9. \A j \in 0 .. BlockSize - 1 : stored[j] = LastByte(j)
  <2> SUFFICES ASSUME NEW j \in 0 .. BlockSize - 1
               PROVE  stored[j] = LastByte(j)
    OBVIOUS
  <2>1. stored[j] = IF j >= Limit THEN LengthByte(bits, j - Limit)
                    ELSE IF (IF ExtraBlock(n) THEN 0 ELSE n) <= j /\ j < Limit THEN Zero ELSE room[j]
    BY <1>8
  <2>2. j < curlen => buf[j] = Data(Len(hashed) + 1 + j)
    BY <1>1, BlockFacts DEF OrderInv
  <2>3. ~ExtraBlock(n) => room[j] = IF j = curlen THEN One ELSE buf[j]
    BY <1>5, <1>6
  <2> HIDE DEF room, stored, bits
  <2>4. CASE j >= Limit
    BY <1>4, <2>1, <2>4 DEF LastByte
  <2>5. CASE j < Limit /\ ExtraBlock(n)
    <3>1. 0 <= j /\ ~(j >= Limit)
      BY <2>5, BlockFacts
    <3> QED
      BY <1>3, <2>1, <2>5, <3>1 DEF LastByte
  <2>6. CASE j < Limit /\ ~ExtraBlock(n)
    <3>1. ~(j >= Limit)
      BY <2>6, BlockFacts
    <3>2. LastByte(j) = Marked(j)
      BY <1>3, <2>6, <3>1 DEF LastByte
    <3>3. stored[j] = IF n <= j THEN Zero ELSE IF j = curlen THEN One ELSE buf[j]
      BY <2>1, <2>3, <2>6, <3>1
    <3> QED
      BY <1>1, <2>2, <3>2, <3>3, BlockFacts DEF Marked
  <2> QED
    BY <2>4, <2>5, <2>6, BlockFacts
<1> HIDE DEF room, stored, bits
<1> QED
  BY <1>2, <1>3, <1>4, <1>7, <1>8, <1>9

(* What has been hashed then, by places. *)
DoneByte(p) ==
  IF p <= fed THEN Data(p)
  ELSE IF p = fed + 1 THEN One
  ELSE IF p <= fed + 1 + Zeros(curlen) THEN Zero
  ELSE LengthByte(8 * fed, p - (fed + 1 + Zeros(curlen)) - 1)

(* The bytes of the blocks are those of the padded message after the       *)
(* hashed ones.                                                            *)
LEMMA BlockBytes ==
  ASSUME OrderInv, curlen \in 0 .. BlockSize - 1, fed \in Nat, NEW j \in 0 .. BlockSize - 1
  PROVE  /\ curlen + 1 > Limit => /\ Marked(j) = DoneByte(Len(hashed) + 1 + j)
                                  /\ LastByte(j) = DoneByte(Len(hashed) + BlockSize + 1 + j)
         /\ curlen + 1 <= Limit => LastByte(j) = DoneByte(Len(hashed) + 1 + j)
         /\ Marked(j) \in Bytes256 /\ LastByte(j) \in Bytes256
<1> DEFINE len == Len(hashed)
           c == curlen
<1>1. len \in Nat /\ len + c = fed
  BY LenProperties DEF OrderInv
<1> HIDE DEF len
<1>2. Marked(j) = IF j < c THEN Data(len + 1 + j) ELSE IF j = c THEN One ELSE Zero
  BY DEF Marked, len
<1>3. ASSUME c + 1 > Limit
      PROVE  /\ Marked(j) = DoneByte(len + 1 + j)
             /\ LastByte(j) = DoneByte(len + BlockSize + 1 + j)
  <2>1. fed + 1 + Zeros(c) = len + BlockSize + Limit
    BY <1>1, <1>3, BlockFacts DEF Zeros
  <2>2. Marked(j) = DoneByte(len + 1 + j)
    <3> DEFINE p == len + 1 + j
    <3>1. /\ p <= fed <=> j < c
          /\ p = fed + 1 <=> j = c
          /\ p <= fed + 1 + Zeros(c)
      BY <1>1, <2>1, BlockFacts
    <3> QED
      BY <1>2, <3>1 DEF DoneByte
  <2>3. LastByte(j) = DoneByte(len + BlockSize + 1 + j)
    <3> DEFINE p == len + BlockSize + 1 + j
    <3>1. /\ ~(p <= fed) /\ p # fed + 1
          /\ p <= fed + 1 + Zeros(c) <=> ~(j >= Limit)
          /\ p - (fed + 1 + Zeros(c)) - 1 = j - Limit
      BY <1>1, <2>1, BlockFacts
    <3>2. LastByte(j) = IF j >= Limit THEN LengthByte(8 * fed, j - Limit) ELSE Zero
      BY <1>3 DEF LastByte
    <3>3. DoneByte(p) = IF p <= fed + 1 + Zeros(c) THEN Zero
                        ELSE LengthByte(8 * fed, p - (fed + 1 + Zeros(c)) - 1)
      BY <3>1 DEF DoneByte
    <3> QED
      BY <3>1, <3>2, <3>3
  <2> QED
    BY <2>2, <2>3
<1>4. ASSUME c + 1 <= Limit
      PROVE  LastByte(j) = DoneByte(len + 1 + j)
  <2>1. fed + 1 + Zeros(c) = len + Limit /\ ~(c + 1 > Limit)
    BY <1>1, <1>4, BlockFacts DEF Zeros
  <2> DEFINE p == len + 1 + j
  <2>2. /\ p <= fed <=> j < c
        /\ p = fed + 1 <=> j = c
        /\ p <= fed + 1 + Zeros(c) <=> ~(j >= Limit)
        /\ p - (fed + 1 + Zeros(c)) - 1 = j - Limit
        /\ j >= Limit => ~(j < c) /\ j # c
    BY <1>1, <1>4, <2>1, BlockFacts
  <2>3. LastByte(j) = IF j >= Limit THEN LengthByte(8 * fed, j - Limit) ELSE Marked(j)
    BY <2>1 DEF LastByte
  <2>4. DoneByte(p) = IF j < c THEN Data(p) ELSE IF j = c THEN One
                      ELSE IF ~(j >= Limit) THEN Zero ELSE LengthByte(8 * fed, j - Limit)
    BY <2>2 DEF DoneByte
  <2> QED
    BY <1>2, <2>2, <2>3, <2>4
<1>5. Marked(j) \in Bytes256
  <2>1. len + 1 + j \in Nat
    BY <1>1, BlockFacts
  <2> QED
    BY <1>2, <2>1 DEF Bytes256, DataBytes
<1>6. LastByte(j) \in Bytes256
  <2>1. 8 * fed \in Nat /\ (j >= Limit => j - Limit \in Nat)
    BY BlockFacts
  <2> QED
    BY <1>5, <2>1 DEF LastByte, Bytes256
<1> QED
  BY <1>1, <1>3, <1>4, <1>5, <1>6, BlockFacts DEF len

LEMMA DoneIsPadded ==
  ASSUME OrderInv, curlen \in 0 .. BlockSize - 1, fed \in Nat, fed' = fed,
         finished' = TRUE, HashTypeOK', hashed' \in Seq(Bytes256),
         Len(hashed') = fed + 1 + Zeros(curlen) + LengthSize,
         \A i \in 1 .. fed + 1 + Zeros(curlen) + LengthSize : hashed'[i] = DoneByte(i)
  PROVE  HInv'
<1>1. PICK m \in Nat : Len(hashed) = m * BlockSize
  BY DEF OrderInv
<1>2. fed = m * BlockSize + curlen
  BY <1>1 DEF OrderInv
<1>3. /\ Padded(fed) \in Seq(Bytes256)
      /\ Len(Padded(fed)) = fed + 1 + Zeros(curlen) + LengthSize
      /\ \A i \in 1 .. fed + 1 + Zeros(curlen) + LengthSize : Padded(fed)[i] = DoneByte(i)
  BY <1>2, PaddedBytes DEF DoneByte
<1>4. hashed' = Padded(fed)
  BY <1>3, SeqEqual
<1>5. PaddedRight'
  BY <1>4 DEF PaddedRight, Padded
<1> QED
  BY <1>5 DEF HInv

LEMMA DoneKeeps ==
  ASSUME HInv, Done
  PROVE  HInv'
<1>1. /\ OrderInv /\ curlen \in 0 .. BlockSize - 1 /\ fed \in Nat /\ inlen \in Nat
      /\ curlen' = Limit /\ finished' = TRUE /\ inlen' = inlen /\ fed' = fed
  BY DEF HInv, HashTypeOK, Done
<1>2. PICK room, last :
        /\ curlen + 1 > Limit => \A j \in 0 .. BlockSize - 1 : room[j] = Marked(j)
        /\ \A j \in 0 .. BlockSize - 1 : last[j] = LastByte(j)
        /\ hashed' = hashed \o (IF curlen + 1 > Limit THEN Buffered(room, BlockSize) ELSE <<>>)
                            \o Buffered(last, BlockSize)
        /\ DOMAIN buf' = 0 .. BlockSize - 1
        /\ length' = 8 * fed
  BY DoneBlocks, Zenon
<1>3. HashTypeOK'
  <2>1. Limit \in 0 .. BlockSize - 1 /\ 8 * fed \in Nat
    BY <1>1, BlockFacts
  <2> QED
    BY <1>1, <1>2, <2>1 DEF HashTypeOK
<1> DEFINE len == Len(hashed)
           b == Buffered(last, BlockSize)
<1>4. len \in Nat /\ len + curlen = fed /\ hashed \in Seq(Bytes256) /\ \A p \in 1 .. len : hashed[p] = Data(p)
  <2>1. DataBytes \subseteq Bytes256
    BY DEF Bytes256
  <2> QED
    BY <1>1, <2>1, LenProperties, SeqMonotonic DEF OrderInv
<1>5. /\ b \in Seq(Bytes256) /\ Len(b) = BlockSize
      /\ \A i \in 1 .. BlockSize : b[i] = LastByte(i - 1)
  <2>1. \A j \in 0 .. BlockSize - 1 : last[j] \in Bytes256 /\ last[j] = LastByte(j)
    BY <1>1, <1>2, BlockBytes
  <2>2. /\ b \in Seq(Bytes256) /\ Len(b) = BlockSize
        /\ \A i \in 1 .. BlockSize : b[i] = last[i - 1]
    <3>1. BlockSize \in Nat /\ \A j \in 0 .. BlockSize - 1 : last[j] \in Bytes256
      BY <2>1, BlockFacts
    <3> QED
      BY <3>1, BufferedBytes
  <2> QED
    BY <2>1, <2>2, BlockFacts
<1> HIDE DEF len, b
<1>6. \A p \in 1 .. len : hashed[p] = DoneByte(p)
  BY <1>1, <1>4 DEF DoneByte
<1>7. CASE curlen + 1 <= Limit
  <2>1. hashed' = hashed \o b
    <3>1. hashed' = hashed \o <<>> \o b
      <4>1. ~(curlen + 1 > Limit)
        BY <1>1, <1>7, BlockFacts
      <4> QED
        BY <1>2, <4>1 DEF b
    <3> QED
      BY <1>4, <3>1, ConcatEmptySeq
  <2>2. /\ hashed' \in Seq(Bytes256) /\ Len(hashed') = len + BlockSize
        /\ \A i \in 1 .. len + BlockSize : hashed'[i] = IF i <= len THEN hashed[i] ELSE b[i - len]
    BY <1>4, <1>5, <2>1, ConcatProperties DEF len
  <2>3. ASSUME NEW i \in 1 .. len + BlockSize
        PROVE  hashed'[i] = DoneByte(i)
    <3>1. CASE i <= len
      BY <1>4, <1>6, <2>2, <3>1, BlockFacts
    <3>2. CASE i > len
      <4> DEFINE j == i - len - 1
      <4>1. j \in 0 .. BlockSize - 1 /\ len + 1 + j = i /\ i - len \in 1 .. BlockSize /\ i - len - 1 = j
        BY <1>4, <3>2, BlockFacts
      <4>2. hashed'[i] = LastByte(i - len - 1)
        BY <1>4, <1>5, <2>2, <3>2, <4>1, BlockFacts
      <4>3. hashed'[i] = LastByte(j)
        BY <4>2
      <4> HIDE DEF j
      <4>4. LastByte(j) = DoneByte(len + 1 + j)
        BY <1>1, <1>7, <4>1, BlockBytes DEF len
      <4> QED
        BY <4>1, <4>3, <4>4
    <3> QED
      BY <1>4, <3>1, <3>2, BlockFacts
  <2>4. fed + 1 + Zeros(curlen) + LengthSize = len + BlockSize
    BY <1>1, <1>4, <1>7, BlockFacts DEF Zeros
  <2> QED
    BY <1>1, <1>3, <2>2, <2>3, <2>4, DoneIsPadded
<1>8. CASE curlen + 1 > Limit
  <2> DEFINE a == Buffered(room, BlockSize)
  <2>1. hashed' = hashed \o a \o b
    BY <1>2, <1>8 DEF b
  <2>2. /\ a \in Seq(Bytes256) /\ Len(a) = BlockSize
        /\ \A i \in 1 .. BlockSize : a[i] = Marked(i - 1)
    <3>1. \A j \in 0 .. BlockSize - 1 : room[j] \in Bytes256 /\ room[j] = Marked(j)
      BY <1>1, <1>2, <1>8, BlockBytes
    <3>2. /\ a \in Seq(Bytes256) /\ Len(a) = BlockSize
          /\ \A i \in 1 .. BlockSize : a[i] = room[i - 1]
      <4>1. BlockSize \in Nat /\ \A j \in 0 .. BlockSize - 1 : room[j] \in Bytes256
        BY <3>1, BlockFacts
      <4> QED
        BY <4>1, BufferedBytes
    <3> QED
      BY <3>1, <3>2, BlockFacts
  <2> HIDE DEF a
  <2> DEFINE h == hashed \o a
  <2>3. /\ h \in Seq(Bytes256) /\ Len(h) = len + BlockSize
        /\ \A i \in 1 .. len + BlockSize : h[i] = IF i <= len THEN hashed[i] ELSE a[i - len]
    BY <1>4, <2>2, ConcatProperties DEF len
  <2>4. hashed' = h \o b
    BY <2>1
  <2> HIDE DEF h
  <2>5. /\ hashed' \in Seq(Bytes256) /\ Len(hashed') = len + BlockSize + BlockSize
        /\ \A i \in 1 .. len + BlockSize + BlockSize :
             hashed'[i] = IF i <= len + BlockSize THEN h[i] ELSE b[i - (len + BlockSize)]
    BY <1>5, <2>3, <2>4, ConcatProperties
  <2>6. ASSUME NEW i \in 1 .. len + BlockSize + BlockSize
        PROVE  hashed'[i] = DoneByte(i)
    <3>1. CASE i <= len
      <4>1. i \in 1 .. len /\ i \in 1 .. len + BlockSize /\ i <= len + BlockSize
        BY <1>4, <3>1, BlockFacts
      <4> QED
        BY <1>6, <2>3, <2>5, <3>1, <4>1
    <3>2. CASE len < i /\ i <= len + BlockSize
      <4> DEFINE j == i - len - 1
      <4>1. /\ j \in 0 .. BlockSize - 1 /\ len + 1 + j = i /\ i - len \in 1 .. BlockSize
            /\ i - len - 1 = j /\ i \in 1 .. len + BlockSize /\ ~(i <= len)
        BY <1>4, <3>2, BlockFacts
      <4>2. hashed'[i] = a[i - len]
        BY <2>3, <2>5, <3>2, <4>1
      <4>3. hashed'[i] = Marked(j)
        BY <2>2, <4>1, <4>2
      <4> HIDE DEF j
      <4>4. Marked(j) = DoneByte(len + 1 + j)
        BY <1>1, <1>8, <4>1, BlockBytes DEF len
      <4> QED
        BY <4>1, <4>3, <4>4
    <3>3. CASE i > len + BlockSize
      <4> DEFINE k == i - (len + BlockSize)
                 j == k - 1
      <4>1. /\ j \in 0 .. BlockSize - 1 /\ len + BlockSize + 1 + j = i /\ k \in 1 .. BlockSize
            /\ ~(i <= len + BlockSize)
        BY <1>4, <3>3, BlockFacts
      <4>2. hashed'[i] = b[k]
        BY <2>5, <4>1
      <4>3. hashed'[i] = LastByte(j)
        BY <1>5, <4>1, <4>2
      <4> HIDE DEF k, j
      <4>4. LastByte(j) = DoneByte(len + BlockSize + 1 + j)
        BY <1>1, <1>8, <4>1, BlockBytes DEF len
      <4> QED
        BY <4>1, <4>3, <4>4
    <3> QED
      BY <1>4, <3>1, <3>2, <3>3, BlockFacts
  <2>7. fed + 1 + Zeros(curlen) + LengthSize = len + BlockSize + BlockSize
    BY <1>1, <1>4, <1>8, BlockFacts DEF Zeros
  <2> QED
    BY <1>1, <1>3, <2>5, <2>6, <2>7, DoneIsPadded
<1> QED
  BY <1>1, <1>7, <1>8, BlockFacts

-----------------------------------------------------------------------------
(* Nothing is fed to a finished message: SHA256_init_arg has begun a new   *)
(* one whenever SHA256_call can come.                                      *)
LinkInv ==
  /\ finished => inlen = 0
  /\ tested \in 0 .. Len(Messages)
  /\ hpc \in {"free", "test", "call"}
  /\ hpc = "test" => tested < Len(Messages)
  /\ kpc = "call" /\ tested = 0 /\ hpc # "test" /\ kernel = "sha256" => ~finished

BInv == KInv /\ KernelsTypeOK /\ HInv /\ LinkInv

NaturalSizes == \A x \in DOMAIN sizes : sizes[x] \in Nat

LEMMA SizesTyped == Initialised => NaturalSizes
<1> SUFFICES ASSUME Initialised
             PROVE  \A x \in DOMAIN sizes : sizes[x] \in Nat
  BY DEF NaturalSizes
<1>1. CASE kernel \in Streams
  <2>1. DOMAIN sizes = Streams
    BY <1>1 DEF Initialised, SizesOf, Streams
  <2> QED
    BY <1>1, <2>1, StreamSizes
<1>2. CASE kernel = "dgemm"
  BY <1>2, DgemmSize
<1>3. CASE kernel = "HACCmk"
  BY <1>3, HACCmkSize
<1>4. CASE kernel = "sha256"
  BY <1>4, Sha256Size
<1>5. CASE kernel = "capacity"
  <2>1. sizes = [size |-> config.size * 2, num_lines |-> config.size \div config.line]
    BY <1>5, CapacitySize
  <2>2. config.size * 2 \in Nat /\ config.size \div config.line \in Nat
    <3>1. config.size \in Nat /\ config.line \in Nat \ {0}
      BY ConfigFacts DEF Initialised
    <3> QED
      BY <3>1, Quotient
  <2> QED
    BY <2>1, <2>2
<1> QED
  BY <1>1, <1>2, <1>3, <1>4, <1>5 DEF Initialised, Kinds

LEMMA SizesTypedNext == Initialised' => NaturalSizes'
BY SizesTyped, PTL

LEMMA CopiesTyped ==
  ASSUME Initialised
  PROVE  Copies \in Nat
BY DgemmSize, Sha256Size DEF Copies

(* The types of the memory, from the invariant of the next state. *)
LEMMA KernelsTyped ==
  ASSUME KInv, KernelsTypeOK, [BenchmarkNext]_bvars
  PROVE  KernelsTypeOK'
<1>1. KInv'
  BY KernelsStep
<1>2. CASE UNCHANGED kvars
  BY <1>2 DEF kvars, KernelsTypeOK
<1>3. CASE InitKernel
  <2>1. inits' \in 0 .. 2 /\ UNCHANGED <<copied, arrays, pass>> /\ kpc' = "init_arg"
    BY <1>3 DEF InitKernel, ReadyForInit, KernelsTypeOK
  <2>2. Initialised'
    BY <1>1, <2>1 DEF KInv
  <2>3. \A x \in DOMAIN sizes' : sizes'[x] \in Nat
    BY <2>2, SizesTypedNext DEF NaturalSizes
  <2> QED
    BY <1>1, <2>1, <2>3 DEF KernelsTypeOK, KInv
<1>4. ASSUME UNCHANGED <<kernel, config, sizes, inits>>, kpc' = "call"
      PROVE  KernelsTypeOK'
  <2>1. Initialised' /\ CallInv' /\ (Initialised' <=> Initialised) /\ Copies' = Copies
    BY <1>1, <1>4, SameMemory DEF KInv
  <2>2. copied' \in Nat
    BY <2>1, CopiesTyped DEF CallInv
  <2>3. \A x \in DOMAIN arrays' : arrays'[x] \in [len : Nat, written : Nat, used : Nat]
    BY <2>1 DEF CallInv, ArrayInv
  <2>4. pass' \in Nat
    BY <2>1 DEF CallInv
  <2> QED
    BY <1>1, <1>4, <2>2, <2>3, <2>4 DEF KernelsTypeOK, KInv
<1>5. InitArg \/ CallPass \/ CallReturns => UNCHANGED <<kernel, config, sizes, inits>> /\ kpc' = "call"
  BY DEF InitArg, CallPass, CallReturns
<1>6. TestBegin \/ Take \/ TestDone \/ TestEnd \/ CallBegin => UNCHANGED kvars
  BY DEF TestBegin, Take, TestDone, TestEnd, CallBegin
<1>7. UNCHANGED bvars => UNCHANGED kvars
  BY DEF bvars
<1> QED
  BY <1>2, <1>3, <1>4, <1>5, <1>6, <1>7 DEF BenchmarkNext, Initialise, Argument, CallStep, Return

LEMMA SameHash ==
  ASSUME HInv, UNCHANGED hvars
  PROVE  HInv'
BY DEF HInv, hvars, HashTypeOK, OrderInv, PaddedRight

LEMMA LinkTestEnd ==
  ASSUME HInv, LinkInv, TestEnd
  PROVE  HInv' /\ LinkInv'
<1>1. /\ UNCHANGED hvars /\ hpc' = "free" /\ tested' = tested + 1 /\ tested < Len(Messages)
  BY DEF TestEnd, LinkInv
<1>2. tested \in Nat /\ Len(Messages) \in Nat
  BY BenchmarkAssumption, LenProperties DEF LinkInv
<1>3. tested' \in 0 .. Len(Messages) /\ tested' # 0
  BY <1>1, <1>2
<1>4. HInv' /\ (finished' => inlen' = 0)
  BY <1>1, SameHash DEF LinkInv, hvars
<1> QED
  BY <1>1, <1>3, <1>4 DEF LinkInv

LEMMA HashStep ==
  ASSUME BInv, [BenchmarkNext]_bvars
  PROVE  HInv' /\ LinkInv'
<1> USE DEF BInv, LinkInv
<1>1. CASE TestBegin
  <2>1. inlen' \in Nat
    <3>1. tested + 1 \in 1 .. Len(Messages) /\ Messages \in Seq(Nat)
      BY <1>1, BenchmarkAssumption DEF TestBegin
    <3>2. Messages[tested + 1] \in Nat
      BY <3>1, ElementOfSeq
    <3> QED
      BY <1>1, <3>2 DEF TestBegin
  <2>2. HInv'
    BY <1>1, <2>1, RestartKeeps DEF TestBegin
  <2>3. finished' = FALSE /\ hpc' = "test" /\ tested' = tested /\ tested < Len(Messages)
    BY <1>1 DEF TestBegin, Restart
  <2> QED
    BY <2>2, <2>3
<1>2. CASE Take
  <2>1. ~finished
    BY <1>2, BlockFacts DEF Take, TakeBlock, TakePart
  <2>2. HInv' /\ finished' = finished
    BY <1>2, <2>1, TakeBlockKeeps, TakePartKeeps DEF Take, TakeBlock, TakePart
  <2>3. hpc' = hpc /\ tested' = tested
    BY <1>2 DEF Take
  <2> QED
    BY <2>1, <2>2, <2>3
<1>3. CASE TestDone
  <2>1. HInv'
    BY <1>3, DoneKeeps DEF TestDone
  <2>2. inlen' = 0 /\ hpc = "test" /\ hpc' = "test" /\ tested' = tested
    BY <1>3 DEF TestDone, Done
  <2> QED
    BY <2>1, <2>2
<1>4. CASE TestEnd
  BY <1>4, LinkTestEnd
<1>5. CASE Initialise
  <2>1. /\ UNCHANGED hvars /\ hpc' = hpc /\ tested' = 0 /\ kpc' = "init_arg"
        /\ tested = Len(Messages)
    BY <1>5 DEF Initialise, InitKernel
  <2>2. HInv' /\ (finished' => inlen' = 0)
    BY <2>1, SameHash DEF hvars
  <2>3. 0 \in 0 .. Len(Messages)
    BY BenchmarkAssumption, LenProperties
  <2> QED
    BY <2>1, <2>2, <2>3
<1>6. CASE Argument
  <2>1. hpc' = hpc /\ tested' = tested /\ kernel' = kernel
    BY <1>6 DEF Argument, InitArg
  <2>2. CASE kernel = "sha256"
    <3>1. Restart /\ inlen' = inlen
      BY <1>6, <2>2 DEF Argument
    <3>2. HInv'
      BY <3>1, RestartKeeps DEF HInv, HashTypeOK
    <3>3. finished' = FALSE
      BY <3>1 DEF Restart
    <3> QED
      BY <2>1, <3>2, <3>3
  <2>3. CASE kernel # "sha256"
    <3>1. UNCHANGED hvars
      BY <1>6, <2>3 DEF Argument
    <3>2. HInv' /\ (finished' => inlen' = 0)
      BY <3>1, SameHash DEF hvars
    <3> QED
      BY <2>1, <2>3, <3>2
  <2> QED
    BY <2>2, <2>3
<1>7. CASE CallBegin
  <2>1. /\ Process(copied) /\ hpc' = "call" /\ tested' = tested /\ UNCHANGED kvars
        /\ kernel = "sha256" /\ kpc = "call" /\ tested = 0 /\ hpc = "free"
    BY <1>7 DEF CallBegin, Hashes, Accessing
  <2>2. ~finished /\ copied \in Nat
    BY <2>1 DEF KernelsTypeOK
  <2>3. HInv' /\ finished' = finished
    BY <2>1, <2>2 DEF Process, HInv, HashTypeOK, OrderInv, PaddedRight
  <2> QED
    BY <2>1, <2>2, <2>3
<1>8. CASE CallStep
  <2>1. /\ UNCHANGED hvars /\ hpc' = "free" /\ tested' = tested /\ hpc # "test"
        /\ kpc' = "call" /\ kpc = "call" /\ kernel' = kernel
    BY <1>8 DEF CallStep, CallPass
  <2>2. HInv' /\ (finished' => inlen' = 0) /\ finished' = finished
    BY <2>1, SameHash DEF hvars
  <2> QED
    BY <2>1, <2>2
<1>9. CASE Return
  <2>1. /\ UNCHANGED hvars /\ hpc' = hpc /\ tested' = tested
        /\ kpc' = kpc /\ kernel' = kernel
    BY <1>9 DEF Return, CallReturns
  <2>2. HInv' /\ (finished' => inlen' = 0) /\ finished' = finished
    BY <2>1, SameHash DEF hvars
  <2> QED
    BY <2>1, <2>2
<1>10. CASE UNCHANGED bvars
  <2>1. /\ UNCHANGED hvars /\ hpc' = hpc /\ tested' = tested
        /\ kpc' = kpc /\ kernel' = kernel
    BY <1>10 DEF bvars, kvars
  <2>2. HInv' /\ (finished' => inlen' = 0) /\ finished' = finished
    BY <2>1, SameHash DEF hvars
  <2> QED
    BY <2>1, <2>2
<1> QED
  BY <1>1, <1>2, <1>3, <1>4, <1>5, <1>6, <1>7, <1>8, <1>9, <1>10 DEF BenchmarkNext

(* The hash state is in order, and no call feeds a finished message.       *)
THEOREM BenchmarkInductive == BenchmarkSpec => []BInv
<1>1. BenchmarkInit => BInv
  <2> SUFFICES ASSUME BenchmarkInit
               PROVE  BInv
    OBVIOUS
  <2>1. KInv /\ KernelsTypeOK
    BY DEF BenchmarkInit, KernelsInit, KInv, KernelsTypeOK, Array
  <2>2. HInv
    <3>1. 0 = 0 * BlockSize /\ 0 \in 0 .. BlockSize - 1
      BY BlockFacts
    <3>2. OrderInv
      BY <3>1 DEF BenchmarkInit, HashInit, OrderInv
    <3>3. HashTypeOK /\ PaddedRight
      BY <3>1 DEF BenchmarkInit, HashInit, HashTypeOK, PaddedRight
    <3> QED
      BY <3>2, <3>3 DEF HInv
  <2>3. LinkInv
    <3>1. 0 \in 0 .. Len(Messages)
      BY BenchmarkAssumption, LenProperties
    <3> QED
      BY <3>1 DEF BenchmarkInit, HashInit, LinkInv
  <2> QED
    BY <2>1, <2>2, <2>3 DEF BInv
<1>2. BInv /\ [BenchmarkNext]_bvars => BInv'
  BY KernelsStep, KernelsTyped, HashStep DEF BInv
<1> QED
  BY <1>1, <1>2, PTL DEF BenchmarkSpec

(* The type invariant of Benchmark, and with it those of Kernels and       *)
(* Sha256.                                                                 *)
THEOREM BenchmarkTypeCorrect == BenchmarkSpec => []BenchmarkTypeOK
<1>1. BInv => BenchmarkTypeOK
  BY DEF BInv, HInv, LinkInv, BenchmarkTypeOK
<1> QED
  BY <1>1, BenchmarkInductive, PTL

(* However a message is cut into calls, its bytes are hashed or buffered   *)
(* once and in order (BytesInOrder, sha256.c:71-93).                       *)
THEOREM BytesStayInOrder == BenchmarkSpec => []BytesInOrder
<1>1. BInv => BytesInOrder
  <2> SUFFICES ASSUME BInv, ~finished
               PROVE  /\ hashed \o Buffered(buf, curlen) = [p \in 1 .. fed |-> Data(p)]
                      /\ length = 8 * Len(hashed)
    BY DEF BytesInOrder
  <2> DEFINE rest == Buffered(buf, curlen)
             all == [p \in 1 .. fed |-> Data(p)]
  <2>1. OrderInv /\ curlen \in Nat /\ fed \in Nat
    BY BlockFacts DEF BInv, HInv, HashTypeOK
  <2>2. /\ hashed \in Seq(DataBytes) /\ Len(hashed) \in Nat /\ Len(hashed) + curlen = fed
        /\ \A p \in 1 .. Len(hashed) : hashed[p] = Data(p)
        /\ \A j \in 0 .. curlen - 1 : buf[j] = Data(Len(hashed) + 1 + j)
        /\ length = 8 * Len(hashed)
    BY <2>1, LenProperties DEF OrderInv
  <2>3. \A p \in Nat : Data(p) \in DataBytes
    BY DEF DataBytes
  <2>4. /\ rest \in Seq(DataBytes) /\ Len(rest) = curlen
        /\ \A i \in 1 .. curlen : rest[i] = buf[i - 1]
    <3>1. \A j \in 0 .. curlen - 1 : buf[j] \in DataBytes
      BY <2>1, <2>2, <2>3
    <3> QED
      BY <2>1, <3>1, BufferedBytes
  <2>5. all \in Seq(DataBytes) /\ Len(all) = fed /\ \A p \in 1 .. fed : all[p] = Data(p)
    BY <2>1, <2>3
  <2> HIDE DEF rest, all
  <2>6. /\ hashed \o rest \in Seq(DataBytes) /\ Len(hashed \o rest) = fed
        /\ \A i \in 1 .. fed : (hashed \o rest)[i] = IF i <= Len(hashed) THEN hashed[i] ELSE rest[i - Len(hashed)]
    <3>1. /\ hashed \o rest \in Seq(DataBytes) /\ Len(hashed \o rest) = Len(hashed) + Len(rest)
          /\ \A i \in 1 .. Len(hashed) + Len(rest) :
               (hashed \o rest)[i] = IF i <= Len(hashed) THEN hashed[i] ELSE rest[i - Len(hashed)]
      BY <2>2, <2>4, ConcatProperties
    <3>2. Len(hashed) + Len(rest) = fed
      BY <2>2, <2>4
    <3> QED
      BY <3>1, <3>2
  <2>7. \A i \in 1 .. fed : (hashed \o rest)[i] = all[i]
    <3> SUFFICES ASSUME NEW i \in 1 .. fed
                 PROVE  (hashed \o rest)[i] = Data(i)
      BY <2>5
    <3>1. CASE i <= Len(hashed)
      BY <2>2, <2>6, <3>1
    <3>2. CASE i > Len(hashed)
      <4> DEFINE k == i - Len(hashed)
      <4>1. k \in 1 .. curlen /\ k - 1 \in 0 .. curlen - 1 /\ Len(hashed) + 1 + (k - 1) = i /\ ~(i <= Len(hashed))
        BY <2>1, <2>2, <3>2
      <4>2. (hashed \o rest)[i] = rest[k]
        BY <2>6, <4>1
      <4> HIDE DEF k
      <4> QED
        BY <2>2, <2>4, <4>1, <4>2
    <3>3. i <= Len(hashed) \/ i > Len(hashed)
      BY <2>1, <2>2
    <3> QED
      BY <3>1, <3>2, <3>3
  <2>8. hashed \o rest = all
    BY <2>5, <2>6, <2>7, SeqEqual
  <2> QED
    BY <2>2, <2>8 DEF rest, all
<1> QED
  BY <1>1, BenchmarkInductive, PTL

(* What has been hashed when sha256_done returns is the message with the   *)
(* padding of the standard (PaddedRight, sha256.c:378-408), for every      *)
(* length of the message and every size of a block.                        *)
THEOREM PaddingIsRight == BenchmarkSpec => []PaddedRight
<1>1. BInv => PaddedRight
  BY DEF BInv, HInv
<1> QED
  BY <1>1, BenchmarkInductive, PTL

=============================================================================
