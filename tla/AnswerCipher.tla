---------------------------- MODULE AnswerCipher ----------------------------
(***************************************************************************)
(* How a terminal's answer is encrypted and decrypted                      *)
(* (internal/crypto/aes.go): PKCS5 padding, then AES block by block.  AES  *)
(* itself is a library: a key is a function from blocks to blocks, and all *)
(* that is used of it is that decrypting undoes encrypting.  Base64 and    *)
(* the derivation of the key are the same on both sides and left out.      *)
(***************************************************************************)
EXTENDS Integers, Sequences, TLAPS

BlockSize == 16
Byte == 0 .. 255
Block == [1 .. BlockSize -> Byte]

\* pkcs5Pad: between 1 and BlockSize bytes, each their number.
PaddingOf(data) == BlockSize - (Len(data) % BlockSize)
Pad(data) ==
    [i \in 1 .. Len(data) + PaddingOf(data) |->
        IF i <= Len(data) THEN data[i] ELSE PaddingOf(data)]

\* pkcs5Unpad: the last byte says how many bytes to remove, all of which must
\* be equal to it.  Nothing excludes 0.
Padding(data) == data[Len(data)]
Unpaddable(data) ==
    /\ Len(data) > 0
    /\ Padding(data) <= Len(data)
    /\ Padding(data) <= BlockSize
    /\ \A i \in 0 .. Padding(data) - 1 : data[Len(data) - i] = Padding(data)
Unpad(data) == [i \in 1 .. Len(data) - Padding(data) |-> data[i]]

\* ECB mode: every block by itself.
BlockAt(data, k) == [j \in 1 .. BlockSize |-> data[BlockSize * k + j]]
EachBlock(crypt, data) ==
    [i \in 1 .. Len(data) |->
        crypt[BlockAt(data, (i - 1) \div BlockSize)][((i - 1) % BlockSize) + 1]]

\* EncryptAES128ECB, and when DecryptAES128ECB succeeds and with what.
Encrypt(crypt, plain) == EachBlock(crypt, Pad(plain))
Decryptable(crypt, cipher) ==
    /\ Len(cipher) % BlockSize = 0
    /\ Unpaddable(EachBlock(crypt, cipher))
Decrypt(crypt, cipher) == Unpad(EachBlock(crypt, cipher))

-----------------------------------------------------------------------------
\* The arithmetic of whole blocks.
LEMMA WholeBlocks ==
    ASSUME NEW l \in Nat, l % 16 = 0
    PROVE  /\ \A i \in 1 .. l :
                 /\ (i - 1) \div 16 \in Nat
                 /\ ((i - 1) % 16) + 1 \in 1 .. 16
                 /\ i = 16 * ((i - 1) \div 16) + ((i - 1) % 16) + 1
                 /\ 16 * ((i - 1) \div 16) + 16 <= l
           /\ \A n \in 1 .. 16 : n <= l => 16 - ((l - n) % 16) = n
  OBVIOUS

\* Padding fills the last block; there is always some.
LEMMA PadFillsBlocks ==
    ASSUME NEW data \in Seq(Byte)
    PROVE  /\ PaddingOf(data) \in 1 .. BlockSize
           /\ Pad(data) \in Seq(Byte)
           /\ Len(Pad(data)) = Len(data) + PaddingOf(data)
           /\ Len(Pad(data)) % BlockSize = 0
  <1>1. Len(data) \in Nat /\ \A i \in 1 .. Len(data) : data[i] \in Byte
    OBVIOUS
  <1>2. PaddingOf(data) \in 1 .. BlockSize
    BY <1>1 DEF PaddingOf, BlockSize
  <1>3. (Len(data) + PaddingOf(data)) % BlockSize = 0
    BY <1>1 DEF PaddingOf, BlockSize
  <1>4. Pad(data) \in [1 .. Len(data) + PaddingOf(data) -> Byte]
    BY <1>1, <1>2 DEF Pad, Byte, BlockSize
  <1>5. Len(data) + PaddingOf(data) \in Nat
    BY <1>1, <1>2 DEF BlockSize
  <1>6. Pad(data) \in Seq(Byte) /\ Len(Pad(data)) = Len(data) + PaddingOf(data)
    BY <1>4, <1>5
  <1> QED
    BY <1>2, <1>3, <1>6

\* What was padded is unpadded to what it was.
LEMMA UnpadUndoesPad ==
    ASSUME NEW data \in Seq(Byte)
    PROVE  Unpaddable(Pad(data)) /\ Unpad(Pad(data)) = data
  <1> DEFINE n == PaddingOf(data)
             l == Len(data)
  <1>1. /\ n \in 1 .. BlockSize
        /\ Len(Pad(data)) = l + n
        /\ l \in Nat
    BY PadFillsBlocks
  <1>2. \A i \in 1 .. l + n : Pad(data)[i] = IF i <= l THEN data[i] ELSE n
    BY DEF Pad
  <1> HIDE DEF n, l
  <1>3. Padding(Pad(data)) = n
    BY <1>1, <1>2 DEF Padding, BlockSize
  <1>4. Unpaddable(Pad(data))
    BY <1>1, <1>2, <1>3 DEF Unpaddable, BlockSize
  <1>5. Unpad(Pad(data)) = [i \in 1 .. l |-> Pad(data)[i]]
    BY <1>1, <1>3 DEF Unpad, BlockSize
  <1>6. [i \in 1 .. l |-> Pad(data)[i]] = [i \in 1 .. l |-> data[i]]
    BY <1>1, <1>2 DEF BlockSize
  <1>7. data = [i \in 1 .. l |-> data[i]]
    BY DEF l
  <1> QED
    BY <1>4, <1>5, <1>6, <1>7

\* Encrypting whole blocks and decrypting them again changes nothing.
LEMMA BlocksUndone ==
    ASSUME NEW data \in Seq(Byte), Len(data) % BlockSize = 0,
           NEW enc \in [Block -> Block], NEW dec \in [Block -> Block],
           \A b \in Block : dec[enc[b]] = b
    PROVE  /\ EachBlock(enc, data) \in Seq(Byte)
           /\ Len(EachBlock(enc, data)) = Len(data)
           /\ EachBlock(dec, EachBlock(enc, data)) = data
  <1> DEFINE l == Len(data)
             c == EachBlock(enc, data)
             q(i) == (i - 1) \div BlockSize
             o(i) == ((i - 1) % BlockSize) + 1
  <1>1. l \in Nat /\ l % BlockSize = 0 /\ data = [i \in 1 .. l |-> data[i]]
           /\ \A i \in 1 .. l : data[i] \in Byte
    OBVIOUS
  <1>2. ASSUME NEW i \in 1 .. l
        PROVE  /\ q(i) \in Nat
               /\ o(i) \in 1 .. BlockSize
               /\ i = BlockSize * q(i) + o(i)
               /\ BlockSize * q(i) + BlockSize <= l
    <2> HIDE DEF l
    <2>1. l \in Nat /\ l % 16 = 0
      BY <1>1 DEF BlockSize
    <2>2. /\ (i - 1) \div 16 \in Nat
          /\ ((i - 1) % 16) + 1 \in 1 .. 16
          /\ i = 16 * ((i - 1) \div 16) + ((i - 1) % 16) + 1
          /\ 16 * ((i - 1) \div 16) + 16 <= l
      BY <2>1, WholeBlocks
    <2>3. 16 * ((i - 1) \div 16) + ((i - 1) % 16) + 1
            = 16 * ((i - 1) \div 16) + (((i - 1) % 16) + 1)
      BY <2>1, <2>2
    <2> QED
      BY <2>2, <2>3 DEF BlockSize
  <1>3. ASSUME NEW k \in Nat, BlockSize * k + BlockSize <= l
        PROVE  BlockAt(data, k) \in Block
    <2>1. \A j \in 1 .. BlockSize : BlockSize * k + j \in 1 .. l
      BY SMTT(60), <1>1, <1>3 DEF BlockSize
    <2>2. \A j \in 1 .. BlockSize : data[BlockSize * k + j] \in Byte
      BY <1>1, <2>1
    <2> QED
      BY <2>2 DEF BlockAt, Block
  <1>4. \A i \in 1 .. l : c[i] = enc[BlockAt(data, q(i))][o(i)]
    BY DEF EachBlock
  <1>5. \A i \in 1 .. l : c[i] \in Byte
    <2> TAKE i \in 1 .. l
    <2>1. enc[BlockAt(data, q(i))] \in Block
      BY <1>2, <1>3
    <2> QED
      BY <1>2, <1>4, <2>1 DEF Block
  <1>6. c \in Seq(Byte) /\ Len(c) = l
    BY <1>1, <1>5 DEF EachBlock
  <1>7. ASSUME NEW k \in Nat, BlockSize * k + BlockSize <= l
        PROVE  BlockAt(c, k) = enc[BlockAt(data, k)]
    <2> DEFINE b == enc[BlockAt(data, k)]
    <2>1. b \in Block
      BY <1>3, <1>7
    <2>2. ASSUME NEW j \in 1 .. BlockSize
          PROVE  c[BlockSize * k + j] = b[j]
      <3>1. BlockSize * k + j \in 1 .. l
        BY SMTT(60), <1>1, <1>7 DEF BlockSize
      <3>2. q(BlockSize * k + j) = k /\ o(BlockSize * k + j) = j
        BY DEF BlockSize
      <3> QED
        BY <1>4, <3>1, <3>2
    <2>3. b = [j \in 1 .. BlockSize |-> b[j]]
      BY <2>1 DEF Block
    <2> QED
      BY <2>2, <2>3 DEF BlockAt
  <1>8. \A i \in 1 .. l : EachBlock(dec, c)[i] = data[i]
    <2> TAKE i \in 1 .. l
    <2>1. EachBlock(dec, c)[i] = dec[BlockAt(c, q(i))][o(i)]
      BY <1>6 DEF EachBlock
    <2>2. BlockAt(c, q(i)) = enc[BlockAt(data, q(i))]
      BY <1>2, <1>7
    <2>3. dec[BlockAt(c, q(i))] = BlockAt(data, q(i))
      BY <1>2, <1>3, <2>2
    <2>4. BlockAt(data, q(i))[o(i)] = data[i]
      BY <1>2 DEF BlockAt
    <2> QED
      BY <2>1, <2>3, <2>4
  <1>9. EachBlock(dec, c) = [i \in 1 .. l |-> EachBlock(dec, c)[i]]
    BY <1>6 DEF EachBlock
  <1>10. [i \in 1 .. l |-> EachBlock(dec, c)[i]] = [i \in 1 .. l |-> data[i]]
    BY <1>8
  <1> QED
    BY <1>1, <1>6, <1>9, <1>10

\* Whatever a terminal encrypts with the key of the middleware, the middleware
\* accepts and reads as it was (DecryptAES128ECB after EncryptAES128ECB): no
\* answer is dropped for its length.
THEOREM DecryptUndoesEncrypt ==
    ASSUME NEW plain \in Seq(Byte),
           NEW enc \in [Block -> Block], NEW dec \in [Block -> Block],
           \A b \in Block : dec[enc[b]] = b
    PROVE  LET cipher == Encrypt(enc, plain) IN
           Decryptable(dec, cipher) /\ Decrypt(dec, cipher) = plain
  <1>1. Pad(plain) \in Seq(Byte) /\ Len(Pad(plain)) % BlockSize = 0
    BY PadFillsBlocks
  <1>2. /\ Len(Encrypt(enc, plain)) % BlockSize = 0
        /\ EachBlock(dec, Encrypt(enc, plain)) = Pad(plain)
    BY <1>1, BlocksUndone DEF Encrypt
  <1>3. Unpaddable(Pad(plain)) /\ Unpad(Pad(plain)) = plain
    BY UnpadUndoesPad
  <1> QED
    BY <1>2, <1>3 DEF Decryptable, Decrypt

\* pkcs5Unpad accepts whole blocks only if they are the padding of what it
\* returns, or end in a byte 0 that no padding has, in which case they are
\* returned as they are.
THEOREM UnpaddableIsPadded ==
    ASSUME NEW data \in Seq(Byte), Len(data) % BlockSize = 0, Unpaddable(data)
    PROVE  \/ data = Pad(Unpad(data))
           \/ Padding(data) = 0 /\ Unpad(data) = data
  <1> DEFINE n == Padding(data)
             l == Len(data)
             u == Unpad(data)
  <1>1. /\ l \in Nat \ {0} /\ l % BlockSize = 0
        /\ \A i \in 1 .. l : data[i] \in Byte
        /\ data = [i \in 1 .. l |-> data[i]]
    BY DEF Unpaddable
  <1>2. n \in 0 .. BlockSize /\ n <= l
    <2>1. data[l] \in Nat
      <3>1. l \in 1 .. l
        BY <1>1
      <3>2. data[l] \in Byte
        BY <1>1, <3>1
      <3>3. \A b \in Byte : b \in Nat
        BY DEF Byte
      <3> QED
        BY <3>2, <3>3
    <2>2. data[l] <= l /\ data[l] <= BlockSize
      BY DEF Unpaddable, Padding
    <2> QED
      BY SMTT(60), <2>1, <2>2 DEF Padding, BlockSize
  <1>3. u = [i \in 1 .. l - n |-> data[i]]
    BY DEF Unpad
  <1>4. CASE n = 0
    BY <1>1, <1>3, <1>4
  <1>5. CASE n # 0
    <2>1. u \in Seq(Byte) /\ Len(u) = l - n
      BY SMTT(60), <1>1, <1>2, <1>3 DEF BlockSize
    <2>2. PaddingOf(u) = n
      <3> HIDE DEF n, l, u
      <3>1. n \in 1 .. 16 /\ n <= l
        BY <1>1, <1>2, <1>5 DEF BlockSize
      <3>2. 16 - ((l - n) % 16) = n
        BY <1>1, <3>1, WholeBlocks DEF BlockSize
      <3> QED
        BY <2>1, <3>2 DEF PaddingOf, BlockSize
    <2>3. \A i \in l - n + 1 .. l : data[i] = n
      <3> TAKE i \in l - n + 1 .. l
      <3>1. l - i \in 0 .. n - 1 /\ l - (l - i) = i
        BY SMTT(60), <1>1, <1>2 DEF BlockSize
      <3> QED
        BY <3>1 DEF Unpaddable
    <2>4. Pad(u) = [i \in 1 .. l |-> IF i <= l - n THEN u[i] ELSE n]
      BY <1>1, <1>2, <2>1, <2>2 DEF Pad, BlockSize
    <2>5. \A i \in 1 .. l : data[i] = IF i <= l - n THEN u[i] ELSE n
      BY SMTT(60), <1>1, <1>2, <1>3, <2>3 DEF BlockSize
    <2> QED
      BY <1>1, <2>4, <2>5
  <1> QED
    BY <1>4, <1>5
=============================================================================
