------------------------- MODULE TlsTransferProofs -------------------------
(* Proofs about the loops of tls_send() and tls_receive(), for any sizes   *)
(* of buffers, records and strings.                                        *)
EXTENDS TlsTransfer, TLAPS

(* Facts of arithmetic.                                                    *)
LEMMA DivBounds ==
    ASSUME NEW a \in Nat, NEW w \in Nat \ {0}
    PROVE  a \div w \in Nat /\ (a \div w) * w <= a /\ a < (a \div w) * w + w
OBVIOUS

LEMMA TimesGrows ==
    ASSUME NEW a \in Nat, NEW b \in Nat, NEW w \in Nat, a <= b
    PROVE  a * w \in Nat /\ a * w <= b * w
<1>1. PICK c \in Nat : b = a + c
  <2>1. b - a \in Nat /\ b = a + (b - a) OBVIOUS
  <2> QED BY <2>1
<1>2. b * w = a * w + c * w BY <1>1
<1>3. c * w \in Nat /\ a * w \in Nat OBVIOUS
<1> QED BY <1>2, <1>3

LEMMA LeastIs ==
    ASSUME NEW a \in Nat, NEW b \in Nat
    PROVE  Least(a, b) \in Nat /\ Least(a, b) <= a /\ Least(a, b) <= b
BY DEF Least

LEMMA WireIs == Wire \in Nat \ {0} /\ Wire <= Cap
BY SizesAssumption DEF Wire

(* What one call of SSL_read_ex() does to the counts.                      *)
ReadOK(r, b, room) ==
    /\ r.bio \in 0 .. b /\ r.rbuf \in 0 .. Wire - 1 /\ r.plain \in 0 .. PeerRec
    /\ r.recs \in Nat /\ r.size \in 0 .. room /\ r.answer \in Nat
    /\ PeerRec * DataRecs(recs + r.recs) + plain = PeerRec * DataRecs(recs) + r.size + r.plain
    /\ recs >= Hs => r.answer = 0
    /\ recs + r.recs < Hs => r.answer = r.recs * HsOut
    /\ recs < Hs => r.answer <= (Hs - recs) * HsOut
    /\ recs + r.recs < Hs => r.bio = 0 /\ r.plain = 0
    /\ recs >= Hs /\ room > 0 /\ b >= Wire => r.size > 0

LEMMA ReadFacts ==
    ASSUME NEW b \in 0 .. Cap, NEW room \in Nat,
           rbuf \in 0 .. Wire - 1, plain \in 0 .. PeerRec, recs \in Nat,
           recs < Hs => plain = 0
    PROVE  ReadOK(SSL_read(b, room), b, room)
<1> USE SizesAssumption, WireIs
<1>1. CASE plain > 0
  <2>1. Least(plain, room) \in 0 .. plain /\ Least(plain, room) \in 0 .. room
    BY DEF Least
  <2>2. 0 * HsOut = 0 /\ (recs < Hs => 0 <= (Hs - recs) * HsOut)
    OBVIOUS
  <2> DEFINE took == Least(plain, room)
  <2> HIDE DEF took
  <2>3. SSL_read(b, room) = [bio |-> b, rbuf |-> rbuf, plain |-> plain - took, recs |-> 0,
                             size |-> took, answer |-> 0]
    BY <1>1 DEF SSL_read, took
  <2>4. recs + 0 = recs /\ took \in 0 .. plain /\ took \in 0 .. room
    BY <2>1 DEF took
  <2>5. PeerRec * DataRecs(recs) \in Nat
    BY DEF DataRecs
  <2>6. room > 0 => took > 0
    BY <1>1 DEF took, Least
  <2> QED BY <1>1, <2>2, <2>3, <2>4, <2>5, <2>6 DEF ReadOK
<1>2. CASE plain = 0
  <2> DEFINE all == rbuf + b
             full == all \div Wire
             hs == IF recs < Hs THEN Least(full, Hs - recs) ELSE 0
             data == IF full > hs THEN 1 ELSE 0
             rest == all - (hs + data) * Wire
             size == data * Least(PeerRec, room)
  <2>1. full \in Nat /\ full * Wire <= all /\ all < full * Wire + Wire
    BY DivBounds
  <2>2. /\ hs \in Nat /\ hs <= full
        /\ recs < Hs => hs <= Hs - recs
        /\ recs >= Hs => hs = 0
        /\ full > hs => recs + hs >= Hs
    BY <2>1 DEF Least
  <2>3. data \in {0, 1} /\ hs + data <= full /\ (data = 0 => hs = full)
    BY <2>1, <2>2
  <2>4. size \in 0 .. room /\ size <= data * PeerRec
    <3> DEFINE most == Least(PeerRec, room)
    <3>1. most \in 0 .. room /\ most \in 0 .. PeerRec
      BY DEF Least
    <3>2. size = data * most
      OBVIOUS
    <3> HIDE DEF most, data, size
    <3>3. CASE data = 0
      <4>1. data * most = 0 /\ data * PeerRec = 0 BY <3>1, <3>3
      <4> QED BY <3>2, <4>1
    <3>4. CASE data = 1
      <4>1. data * most = most /\ data * PeerRec = PeerRec BY <3>1, <3>4
      <4> QED BY <3>1, <3>2, <4>1
    <3> QED BY <2>3, <3>3, <3>4
  <2>5. rest \in Nat /\ (data = 0 => rest < Wire) /\ (data = 1 => rest <= b)
    <3>1. (hs + data) * Wire \in Nat /\ (hs + data) * Wire <= full * Wire
      BY <2>1, <2>2, <2>3, TimesGrows
    <3>2. data = 0 => (hs + data) * Wire = full * Wire
      BY <2>3
    <3>3. data = 1 => (hs + data) * Wire >= Wire
      <4>1. data = 1 => (hs + data) * Wire = hs * Wire + Wire BY <2>2
      <4>2. hs * Wire \in Nat BY <2>2
      <4> QED BY <4>1, <4>2
    <3> HIDE DEF full, hs, data
    <3> QED BY <2>1, <3>1, <3>2, <3>3
  <2>15. recs >= Hs /\ room > 0 /\ b >= Wire => size > 0
    <3> SUFFICES ASSUME recs >= Hs, room > 0, b >= Wire PROVE size > 0
      OBVIOUS
    <3>1. all \in Nat /\ all >= Wire
      OBVIOUS
    <3>2. full # 0
      <4>1. full = 0 => full * Wire = 0 BY <2>1
      <4> HIDE DEF full
      <4> QED BY <2>1, <3>1, <4>1
    <3>3. data = 1
      <4> HIDE DEF full
      <4> QED BY <2>1, <2>2, <3>2
    <3>4. Least(PeerRec, room) > 0 /\ Least(PeerRec, room) \in Nat
      BY DEF Least
    <3> HIDE DEF data, full, hs
    <3> QED BY <3>3, <3>4
  <2>6. SSL_read(b, room) = [bio |-> IF data = 1 THEN rest ELSE 0,
                             rbuf |-> IF data = 1 THEN 0 ELSE rest,
                             plain |-> data * PeerRec - size,
                             recs |-> hs + data, size |-> size, answer |-> hs * HsOut]
    BY <1>2 DEF SSL_read
  <2> HIDE DEF all, full, hs, data, rest, size
  <2>7. hs * HsOut \in Nat /\ (recs < Hs => hs * HsOut <= (Hs - recs) * HsOut)
    <3>1. CASE recs < Hs BY <2>2, <3>1, TimesGrows
    <3>2. CASE recs >= Hs BY <2>2, <3>2
    <3> QED BY <3>1, <3>2
  <2>8. data * PeerRec - size \in 0 .. PeerRec
    <3>1. data * PeerRec \in {0, PeerRec} BY <2>3
    <3> QED BY <2>4, <3>1
  <2>9. PeerRec * DataRecs(recs + (hs + data)) = PeerRec * DataRecs(recs) + data * PeerRec
    <3>1. DataRecs(recs + (hs + data)) = DataRecs(recs) + data
      BY <2>1, <2>2, <2>3 DEF DataRecs
    <3>2. DataRecs(recs) \in Nat BY DEF DataRecs
    <3>3. PeerRec * (DataRecs(recs) + data) = PeerRec * DataRecs(recs) + data * PeerRec
      BY <2>3, <3>2
    <3> QED BY <3>1, <3>3
  <2>10. PeerRec * DataRecs(recs) \in Nat /\ data * PeerRec \in Nat
    BY <2>3 DEF DataRecs
  <2>11. recs + (hs + data) < Hs => data = 0
    BY <2>1, <2>2, <2>3
  <2>12. recs >= Hs => hs * HsOut = 0
    BY <2>2
  <2> DEFINE P == PeerRec * DataRecs(recs) 
             Q == PeerRec * DataRecs(recs + (hs + data))
             D == data * PeerRec
             A == hs * HsOut
  <2>13. Q + plain = P + size + (D - size)
    BY <1>2, <2>3, <2>4, <2>9, <2>10
  <2>14. recs + (hs + data) < Hs => A = (hs + data) * HsOut
    BY <2>2, <2>3, <2>11
  <2>16. recs + (hs + data) < Hs => /\ (IF data = 1 THEN rest ELSE 0) = 0
                                    /\ D - size = 0
    <3>1. data = 0 => D = 0
      OBVIOUS
    <3> QED BY <2>4, <2>11, <3>1
  <2> QED BY <2>2, <2>3, <2>4, <2>5, <2>6, <2>7, <2>8, <2>12, <2>13, <2>14,
            <2>15, <2>16 DEF ReadOK
<1> QED BY <1>1, <1>2

-----------------------------------------------------------------------------
(* The strengthening: what was received and sent is accounted for; before  *)
(* the end of the handshake nothing but its answers is under way, and no   *)
(* bytes wait in the BIO; and a round of tls_receive() has room for data.  *)
(***************************************************************************)
Accounts ==
    /\ got + plain = PeerRec * DataRecs(recs)
    /\ sent + pend + unput = produced
    /\ recs < Hs => unput = 0 /\ pend <= recs * HsOut

Waiting ==
    /\ recs < Hs => bio = 0 /\ plain = 0
    /\ loop = "receive" => buflen # Buf

IInv == TransferOK /\ Accounts /\ Waiting

LEMMA TlsInit == TransferInit => IInv
<1> SUFFICES ASSUME TransferInit PROVE IInv
  OBVIOUS
<1> USE SizesAssumption, WireIs DEF TransferInit
<1>1. PeerRec * DataRecs(recs) = 0
  BY DEF DataRecs
<1>2. Accounts
  BY <1>1 DEF Accounts
<1> QED BY <1>2 DEF IInv, TransferOK, Waiting

LEMMA EncryptedIs == ASSUME NEW k \in 1 .. Buf PROVE Encrypted(k) \in Nat
<1>1. (k + Rec - 1) \div Rec \in Nat
  BY SizesAssumption, DivBounds
<1> QED BY <1>1, SizesAssumption DEF Encrypted

LEMMA SendRoundStep == IInv /\ SendRound => IInv'
<1> SUFFICES ASSUME IInv, SendRound PROVE IInv'
  OBVIOUS
<1> USE SizesAssumption
<1> DEFINE fresh == IF unput = 0 THEN Encrypted(len) ELSE 0
           w == IF recs >= Hs THEN SSL_write(unput + fresh)
                              ELSE [put |-> 0, unput |-> 0, size |-> 0]
           pending == pend + w.put
           o == Least(pending, Room(buflen))
           made == IF recs >= Hs THEN fresh ELSE 0
<1>1. fresh \in Nat
  <2>1. CASE len = 0
    <3>0. 0 + Rec - 1 \in Nat /\ Rec \in Nat \ {0} OBVIOUS
    <3>1. (0 + Rec - 1) \div Rec \in Nat BY <3>0, DivBounds
    <3> QED BY <2>1, <3>1 DEF Encrypted
  <2>2. CASE len # 0
    BY <2>2, EncryptedIs DEF IInv, TransferOK
  <2> QED BY <2>1, <2>2
<1>2. /\ w.put \in Nat /\ pend + w.put <= Cap
      /\ w.unput \in Nat /\ w.put + w.unput = unput + made
      /\ w.size \in 0 .. len
      /\ recs < Hs => w.put = 0 /\ w.unput = 0
  <2>1. CASE recs >= Hs
    <3> DEFINE todo == unput + fresh
               put == Least(todo, Cap - pend)
    <3>1. todo \in Nat /\ Cap - pend \in Nat
      BY <1>1 DEF IInv, TransferOK
    <3>2. put \in Nat /\ put <= todo /\ put <= Cap - pend
      BY <3>1, LeastIs
    <3>3. w = [put |-> put, unput |-> todo - put, size |-> IF put = todo THEN len ELSE 0]
      BY <2>1 DEF SSL_write
    <3> HIDE DEF put, w, fresh
    <3> QED BY <1>1, <2>1, <3>1, <3>2, <3>3 DEF IInv, TransferOK
  <2>2. CASE recs < Hs
    <3>1. w = [put |-> 0, unput |-> 0, size |-> 0] /\ made = 0
      BY <2>2 DEF IInv, TransferOK
    <3> HIDE DEF w, made
    <3> QED BY <2>2, <3>1 DEF IInv, TransferOK, Accounts
  <2> QED BY <2>1, <2>2 DEF IInv, TransferOK
<1>3. made \in Nat
  BY <1>1
<1>4. /\ loop = "send" /\ loop' \in {"send", "idle"}
      /\ len' = len - w.size /\ pend' = pending - o /\ unput' = w.unput
      /\ produced' = produced + made
      /\ buflen' = buflen + o /\ sent' = sent + buflen' - buflen
      /\ UNCHANGED <<str, text, outbuflen, inVars, leftover, got>>
  BY DEF SendRound, Appended, IInv, TransferOK
<1> HIDE DEF w, made
<1>5. pending \in Nat /\ pending <= Cap
  BY <1>2 DEF IInv, TransferOK
<1>6. o \in Nat /\ o <= pending /\ o <= Buf - buflen
  <2>1. Room(buflen) \in Nat /\ Room(buflen) = Buf - buflen
    BY DEF Room, IInv, TransferOK
  <2> HIDE DEF pending
  <2> QED BY <1>5, <2>1, LeastIs
<1> HIDE DEF o
<1>7. TransferOK'
  BY <1>2, <1>3, <1>4, <1>5, <1>6 DEF IInv, TransferOK, inVars
<1>8. Accounts'
  <2>1. got' + plain' = PeerRec * DataRecs(recs')
    BY <1>4 DEF IInv, Accounts, inVars
  <2>2. sent' + pend' + unput' = produced'
    BY <1>2, <1>3, <1>4, <1>6 DEF IInv, Accounts, TransferOK
  <2>3. recs' < Hs => unput' = 0 /\ pend' <= recs' * HsOut
    <3>1. recs * HsOut \in Nat BY DEF IInv, TransferOK
    <3> QED BY <1>2, <1>4, <1>6, <3>1 DEF IInv, Accounts, TransferOK, inVars
  <2> QED BY <2>1, <2>2, <2>3 DEF Accounts
<1>9. Waiting'
  BY <1>4 DEF IInv, Waiting, inVars
<1> QED BY <1>7, <1>8, <1>9 DEF IInv

LEMMA ReceiveRoundStep == IInv /\ ReceiveRound => IInv'
<1> SUFFICES ASSUME IInv, ReceiveRound PROVE IInv'
  OBVIOUS
<1> USE SizesAssumption, WireIs
<1> DEFINE w == Least(len, Cap - bio)
           r == SSL_read(bio + w, Room(buflen))
           o == Least(pend + r.answer, Room(outbuflen))
<1>1. CASE w > 0 /\ text # written
  <2>1. /\ loop = "receive" /\ loop' = "bad record"
        /\ UNCHANGED <<argVars, buflen, outbuflen, inVars, outVars, leftover, got, sent>>
    BY <1>1 DEF ReceiveRound
  <2> QED BY <1>1, <2>1 DEF IInv, TransferOK, Accounts, Waiting, argVars, inVars, outVars, Failures
<1>2. CASE ~(w > 0 /\ text # written)
  <2>1. w \in 0 .. len /\ w <= Cap - bio
    <3>1. len \in Nat /\ Cap - bio \in Nat
      BY DEF IInv, TransferOK
    <3> DEFINE free == Cap - bio
    <3>2. w = Least(len, free)
      OBVIOUS
    <3> HIDE DEF w, free
    <3>3. w \in Nat /\ w <= len /\ w <= free
      BY <3>1, <3>2, LeastIs DEF free
    <3> QED BY <3>1, <3>3 DEF free
  <2>2. Room(buflen) = Buf - buflen /\ Room(outbuflen) = Buf - outbuflen
    BY DEF Room
  <2>3. ReadOK(r, bio + w, Room(buflen))
    BY <2>1, <2>2, ReadFacts DEF IInv, TransferOK, Waiting
  <2>4. /\ loop = "receive" /\ loop' \in {"receive", "idle"}
        /\ text' = text + w /\ len' = len - w /\ written' = written + w
        /\ bio' = r.bio /\ rbuf' = r.rbuf /\ plain' = r.plain /\ recs' = recs + r.recs
        /\ buflen' = buflen + r.size /\ got' = got + buflen' - buflen
        /\ outbuflen' = outbuflen + o /\ pend' = pend + r.answer - o
        /\ produced' = produced + r.answer /\ sent' = sent + o
        /\ leftover' \in {leftover, [from |-> text' + str - len', len |-> len']}
        /\ loop' = "receive" => buflen' # Buf
        /\ UNCHANGED <<str, unput>>
    BY <1>2 DEF ReceiveRound, Counted, Remainder
  <2> HIDE DEF r, w
  <2>5. pend + r.answer \in Nat /\ pend + r.answer <= Cap
    <3>1. CASE recs >= Hs
      BY <2>3, <3>1 DEF ReadOK, IInv, TransferOK
    <3>2. CASE recs < Hs
      <4>1. recs * HsOut + (Hs - recs) * HsOut = Hs * HsOut
        BY DEF IInv, TransferOK
      <4>2. recs * HsOut \in Nat /\ (Hs - recs) * HsOut \in Nat
        BY <3>2 DEF IInv, TransferOK
      <4> QED BY <2>3, <3>2, <4>1, <4>2 DEF ReadOK, IInv, TransferOK, Accounts
    <3> QED BY <3>1, <3>2 DEF IInv, TransferOK
  <2>6. o \in Nat /\ o <= pend + r.answer /\ o <= Buf - outbuflen
    <3> DEFINE all == pend + r.answer
               room == Room(outbuflen)
    <3>1. all \in Nat /\ room \in Nat /\ room = Buf - outbuflen
      BY <2>2, <2>5 DEF IInv, TransferOK
    <3>2. o = Least(all, room)
      OBVIOUS
    <3> HIDE DEF o, all, room
    <3>3. o \in Nat /\ o <= all /\ o <= room
      BY <3>1, <3>2, LeastIs
    <3> QED BY <3>1, <3>3 DEF all
  <2> HIDE DEF o
  <2>7. TransferOK'
    <3>1. /\ bio' \in 0 .. Cap /\ rbuf' \in 0 .. Wire - 1 /\ plain' \in 0 .. PeerRec
          /\ recs' \in Nat /\ pend' \in 0 .. Cap /\ unput' \in Nat
      BY <2>1, <2>3, <2>4, <2>5, <2>6 DEF ReadOK, IInv, TransferOK
    <3>2. buflen' \in 0 .. Buf /\ outbuflen' \in 0 .. Buf
      BY <2>2, <2>3, <2>4, <2>6 DEF ReadOK, IInv, TransferOK
    <3>3. {text', written', produced', got', sent'} \subseteq Nat
      BY <2>1, <2>2, <2>3, <2>4, <2>6 DEF ReadOK, IInv, TransferOK
    <3>4. str' \in 0 .. Buf /\ len' \in 0 .. str'
      BY <2>1, <2>4 DEF IInv, TransferOK
    <3>5. leftover' \in [from : Nat, len : 0 .. Buf]
      <4>1. text' + str - len' \in Nat /\ len' \in 0 .. Buf
        BY <2>4, <3>3, <3>4 DEF IInv, TransferOK
      <4> QED BY <2>4, <4>1 DEF IInv, TransferOK
    <3>6. loop' \in {"idle", "send", "receive"} \cup Failures
      BY <2>4
    <3> QED BY <3>1, <3>2, <3>3, <3>4, <3>5, <3>6 DEF TransferOK
  <2>8. got' + plain' = PeerRec * DataRecs(recs')
    <3> DEFINE P == PeerRec * DataRecs(recs)
               Q == PeerRec * DataRecs(recs + r.recs)
    <3>1. P \in Nat /\ Q \in Nat
      <4>1. recs \in Nat /\ r.recs \in Nat
        BY <2>3 DEF ReadOK, IInv, TransferOK
      <4>2. DataRecs(recs) \in Nat /\ DataRecs(recs + r.recs) \in Nat
        BY <4>1 DEF DataRecs
      <4> QED BY <4>2
    <3>2. Q + plain = P + r.size + r.plain /\ got + plain = P
      BY <2>3 DEF ReadOK, IInv, Accounts
    <3>3. r.size \in Nat /\ r.plain \in Nat
      BY <2>2, <2>3 DEF ReadOK, IInv, TransferOK
    <3> HIDE DEF P, Q
    <3>4. got + r.size + r.plain = Q
      BY <3>1, <3>2, <3>3 DEF IInv, TransferOK
    <3>5. got' = got + r.size
      BY <2>4, <3>3 DEF IInv, TransferOK
    <3> QED BY <2>4, <3>4, <3>5 DEF Q
  <2>9. sent' + pend' + unput' = produced'
    BY <2>3, <2>4, <2>5, <2>6 DEF ReadOK, IInv, Accounts, TransferOK
  <2>10. recs' < Hs => unput' = 0 /\ pend' <= recs' * HsOut
    <3> SUFFICES ASSUME recs' < Hs PROVE unput' = 0 /\ pend' <= recs' * HsOut
      OBVIOUS
    <3>1. recs < Hs /\ recs \in Nat /\ r.recs \in Nat
      BY <2>3, <2>4 DEF ReadOK, IInv, TransferOK
    <3>2. r.answer = r.recs * HsOut
      BY <2>3, <2>4 DEF ReadOK
    <3>3. (recs + r.recs) * HsOut = recs * HsOut + r.recs * HsOut
      BY <3>1
    <3>4. recs * HsOut \in Nat /\ r.recs * HsOut \in Nat
      BY <3>1
    <3> QED BY <2>4, <2>6, <3>1, <3>2, <3>3, <3>4 DEF IInv, Accounts, TransferOK
  <2>11. Waiting'
    BY <2>3, <2>4 DEF ReadOK, Waiting
  <2> QED BY <2>7, <2>8, <2>9, <2>10, <2>11 DEF IInv, Accounts
<1> QED BY <1>1, <1>2

LEMMA TlsNext == IInv /\ [TransferNext]_transferVars => IInv'
<1> SUFFICES ASSUME IInv, [TransferNext]_transferVars PROVE IInv'
  OBVIOUS
<1> USE SizesAssumption
<1>1. CASE SendCall
  <2>1. \E k \in Messages : str' = k /\ len' = k
    BY <1>1 DEF SendCall
  <2>2. str' \in 0 .. Buf /\ len' \in 0 .. str'
    BY <2>1
  <2>3. /\ loop' \in {"send", "bad write retry"} /\ buflen' = 0
        /\ text' = text /\ outbuflen' = outbuflen /\ leftover' = leftover
        /\ got' = got /\ sent' = sent
        /\ bio' = bio /\ rbuf' = rbuf /\ plain' = plain /\ written' = written /\ recs' = recs
        /\ pend' = pend /\ unput' = unput /\ produced' = produced
    BY <1>1 DEF SendCall, inVars, outVars
  <2>4. TransferOK'
    <3>1. 0 \in 0 .. Buf OBVIOUS
    <3> QED BY <2>2, <2>3, <3>1 DEF IInv, TransferOK, Failures
  <2>5. Accounts' /\ Waiting'
    BY <2>3 DEF IInv, Accounts, Waiting
  <2> QED BY <2>4, <2>5 DEF IInv
<1>2. CASE SendRound BY <1>2, SendRoundStep
<1>3. CASE ReceiveCall
  <2>2. text' \in Nat
    BY <1>3 DEF ReceiveCall, IInv, TransferOK
  <2>3. \E k \in Received : leftover.len + k <= Buf /\ str' = leftover.len + k /\ len' = leftover.len + k
    BY <1>3 DEF ReceiveCall
  <2>4. str' \in 0 .. Buf /\ len' \in 0 .. str'
    BY <2>3 DEF IInv, TransferOK
  <2>5. /\ buflen' = 0 /\ outbuflen' = 0 /\ loop' = "receive"
        /\ leftover' = leftover /\ got' = got /\ sent' = sent
        /\ bio' = bio /\ rbuf' = rbuf /\ plain' = plain /\ written' = written /\ recs' = recs
        /\ pend' = pend /\ unput' = unput /\ produced' = produced
    BY <1>3 DEF ReceiveCall, inVars, outVars
  <2>6. TransferOK'
    <3>1. 0 \in 0 .. Buf OBVIOUS
    <3> QED BY <2>2, <2>4, <2>5, <3>1 DEF IInv, TransferOK
  <2>7. Accounts'
    BY <2>5 DEF IInv, Accounts
  <2>8. Waiting'
    BY <2>5 DEF IInv, Waiting
  <2> QED BY <2>6, <2>7, <2>8 DEF IInv
<1>4. CASE ReceiveRound BY <1>4, ReceiveRoundStep
<1>5. CASE UNCHANGED transferVars
  BY <1>5 DEF transferVars, argVars, inVars, outVars, IInv, TransferOK, Accounts, Waiting
<1> QED BY <1>1, <1>2, <1>3, <1>4, <1>5 DEF TransferNext

LEMMA TlsAlways == TransferSpec => []IInv
BY TlsInit, TlsNext, PTL DEF TransferSpec

(* The counts keep their types; no call writes past one of its buffers.    *)
THEOREM TlsTypeCorrect == TransferSpec => []TransferOK
<1>1. IInv => TransferOK BY DEF IInv
<1> QED BY <1>1, TlsAlways, PTL

(* Data that was decrypted is returned, all of it and nothing else.        *)
THEOREM DataAccountedFor == TransferSpec => []GotIsDecrypted
<1>1. IInv => GotIsDecrypted BY DEF IInv, Accounts, GotIsDecrypted
<1> QED BY <1>1, TlsAlways, PTL

(* Output that was made is returned, or still in the BIO or in OpenSSL.    *)
THEOREM OutputAccountedFor == TransferSpec => []SentIsProduced
<1>1. IInv => SentIsProduced BY DEF IInv, Accounts, SentIsProduced
<1> QED BY <1>1, TlsAlways, PTL

(* tls_receive() gives part of its string back only with a full buffer,    *)
(* whoever calls it: a round that writes nothing, because the BIO is full, *)
(* finds a whole record in it, past the handshake, and returns data.       *)
THEOREM LeavesOnlyWhenFull == TransferSpec => LeftOnlyIfFull
<1>1. ASSUME IInv, [TransferNext]_transferVars, loop = "receive", loop' = "idle", leftover'.len > 0
      PROVE  buflen' = Buf \/ outbuflen' = Buf
  <2> USE <1>1, SizesAssumption, WireIs
  <2> DEFINE w == Least(len, Cap - bio)
             r == SSL_read(bio + w, Room(buflen))
             o == Least(pend + r.answer, Room(outbuflen))
  <2>1. ReceiveRound
    <3>1. ~SendCall /\ ~SendRound /\ ~ReceiveCall
      BY DEF SendCall, SendRound, ReceiveCall
    <3>2. loop' # loop
      OBVIOUS
    <3> QED BY <3>1, <3>2 DEF TransferNext, transferVars
  <2>2. len' = len - w /\ leftover'.len = len'
    BY <2>1 DEF ReceiveRound, Remainder
  <2>3. len' # 0 /\ len > 0
    <3>1. w \in Nat
      BY DEF Least, IInv, TransferOK
    <3> HIDE DEF w
    <3> QED BY <2>2, <3>1 DEF IInv, TransferOK
  <2>4. w + r.size + o = 0 \/ buflen' = Buf \/ outbuflen' = Buf
    BY <2>1, <2>3 DEF ReceiveRound, Progress
  <2>5. SUFFICES ASSUME w + r.size + o = 0 PROVE FALSE
    BY <2>4
  <2>6. w \in 0 .. len /\ w <= Cap - bio /\ (w = 0 => bio = Cap)
    BY <2>3 DEF Least, IInv, TransferOK
  <2>7. Room(buflen) \in Nat /\ Room(buflen) > 0 /\ Room(outbuflen) \in Nat
    BY DEF Room, IInv, TransferOK, Waiting
  <2>8. ReadOK(r, bio + w, Room(buflen))
    <3> HIDE DEF w
    <3> QED BY <2>6, <2>7, ReadFacts DEF IInv, TransferOK, Waiting
  <2> HIDE DEF w, r
  <2>9. r.size \in Nat /\ o \in Nat
    <3>1. r.size \in Nat /\ pend + r.answer \in Nat
      BY <2>7, <2>8 DEF ReadOK, IInv, TransferOK
    <3> QED BY <2>7, <3>1, LeastIs
  <2> HIDE DEF o
  <2>10. w = 0 /\ r.size = 0
    BY <2>5, <2>6, <2>9 DEF IInv, TransferOK
  <2>11. bio = Cap /\ recs >= Hs
    BY <2>6, <2>10 DEF IInv, TransferOK, Waiting
  <2> QED BY <2>7, <2>8, <2>10, <2>11 DEF ReadOK
<1> QED BY <1>1, TlsAlways, PTL DEF TransferSpec, LeftOnlyIfFull
=============================================================================
