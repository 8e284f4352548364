---------------------------- MODULE TlsTransfer ----------------------------
(* The loops of tls_send() and tls_receive() in tls.c, between the strings *)
(* of LPC code, the two directions of the BIO pair, and the records inside *)
(* of OpenSSL.  Bytes are counted, and those that arrive are numbered.     *)
(*                                                                         *)
(* The peer sends records of one size; the first of them are a handshake   *)
(* that is answered, after which data follows.                             *)
EXTENDS Naturals

CONSTANTS
    Buf,          \* sizeof(buffer), and the longest string (65535)
    Cap,          \* capacity of each direction of the BIO pair (17408)
    Rec, Extra,   \* most bytes of data in a record (16384), and what is added to them
    PeerRec,      \* bytes of data in a record of the peer
    Hs, HsOut,    \* records of the peer's handshake, bytes of answer to each
    Received,     \* how much arrives between two calls
    Messages,     \* lengths of messages to send
    MaxWire, MaxSent, \* bounds: bytes that arrive, bytes of output
    Callers       \* see CallerKinds

(* Who calls tls_receive() after it gave part of a string back goes on     *)
(* with the string it got, as its documentation has it, or looks for the   *)
(* end of that length of the string it gave.                               *)
CallerKinds == {"trusting", "looking"}

ASSUME SizesAssumption ==
    /\ {Buf, Cap, Rec, PeerRec} \subseteq Nat \ {0}
    /\ {Extra, Hs, HsOut, MaxWire, MaxSent} \subseteq Nat
    /\ PeerRec + Extra <= Cap /\ Rec + Extra <= Cap /\ Hs * HsOut <= Cap
    /\ Received \subseteq 0 .. Buf /\ Messages \subseteq 1 .. Buf

ASSUME CallersAssumption == Callers \subseteq CallerKinds

VARIABLES
    loop,                \* "idle", in a loop, or why the session is at an end
    str, text, len,      \* length of the argument, its next byte, bytes left
    buflen, outbuflen,   \* fill of buffer and outbuf
    bio, rbuf, plain,    \* bytes received: in the BIO, of a partial record, decrypted
    written, recs,       \* bytes ever written to the BIO, records ever decrypted
    pend, unput,         \* bytes to send: in the BIO, still inside of OpenSSL
    leftover,            \* what the last tls_receive() gave back
    produced,            \* bytes of output that OpenSSL has made, or has to make
    got, sent            \* bytes of data and of output that were returned

argVars == <<str, text, len>>
inVars == <<bio, rbuf, plain, written, recs>>
outVars == <<pend, unput, produced>>
transferVars == <<loop, argVars, buflen, outbuflen, inVars, outVars, leftover, got, sent>>

Wire == PeerRec + Extra
Least(a, b) == IF a <= b THEN a ELSE b
Encrypted(k) == k + Extra * ((k + Rec - 1) \div Rec)
Failures == {"bad record", "bad write retry"}

TransferOK ==
    /\ loop \in {"idle", "send", "receive"} \cup Failures
    /\ str \in 0 .. Buf /\ len \in 0 .. str
    /\ {text, written, produced, got, sent} \subseteq Nat
    /\ buflen \in 0 .. Buf /\ outbuflen \in 0 .. Buf
    /\ bio \in 0 .. Cap /\ rbuf \in 0 .. Wire - 1 /\ plain \in 0 .. PeerRec
    /\ recs \in Nat /\ pend \in 0 .. Cap /\ unput \in Nat
    /\ leftover \in [from : Nat, len : 0 .. Buf]

TransferInit ==
    /\ loop = "idle" /\ str = 0 /\ text = 0 /\ len = 0
    /\ buflen = 0 /\ outbuflen = 0
    /\ bio = 0 /\ rbuf = 0 /\ plain = 0 /\ written = 0 /\ recs = 0
    /\ pend = 0 /\ unput = 0
    /\ leftover = [from |-> 0, len |-> 0]
    /\ produced = 0 /\ got = 0 /\ sent = 0

-----------------------------------------------------------------------------
(* OpenSSL.                                                                *)
(***************************************************************************)
(* SSL_read_ex() with b bytes in the BIO and room for some: the rest of a  *)
(* record it has decrypted, or else what one further record of data holds, *)
(* after all of the handshake that is there.                               *)
SSL_read(b, room) ==
    IF plain > 0
      THEN [bio |-> b, rbuf |-> rbuf, plain |-> plain - Least(plain, room), recs |-> 0,
            size |-> Least(plain, room), answer |-> 0]
      ELSE LET all == rbuf + b
               full == all \div Wire
               hs == IF recs < Hs THEN Least(full, Hs - recs) ELSE 0
               data == IF full > hs THEN 1 ELSE 0
               rest == all - (hs + data) * Wire
               size == data * Least(PeerRec, room)
           IN  [bio |-> IF data = 1 THEN rest ELSE 0,
                rbuf |-> IF data = 1 THEN 0 ELSE rest,
                plain |-> data * PeerRec - size,
                recs |-> hs + data, size |-> size, answer |-> hs * HsOut]

(* SSL_write_ex(): a message counts as written when all its records are in *)
(* the BIO; before that, it has to be called again with the same string.   *)
SSL_write(todo) ==
    LET put == Least(todo, Cap - pend)
    IN  [put |-> put, unput |-> todo - put, size |-> IF put = todo THEN len ELSE 0]

(***************************************************************************)
(* tls_send()                                                              *)
(***************************************************************************)
(* What is free in a buffer.                                               *)
Room(fill) == Buf - fill

SendCall ==
    /\ loop = "idle"
    /\ \E k \in Messages :
          /\ produced + Encrypted(k) <= MaxSent
          /\ str' = k /\ len' = k
    /\ buflen' = 0
    /\ loop' = IF unput > 0 THEN "bad write retry" ELSE "send"
    /\ UNCHANGED <<text, outbuflen, inVars, outVars, leftover, got, sent>>

(* "size" at the end of a round: what was read from the BIO last, or, when *)
(* there was nothing, what SSL_write_ex() took.                            *)
SizeAfter(pending, o, w) == IF pending # 0 THEN o ELSE w

(* What is added to the fill of the buffer.                                *)
Appended_Written(o, w) == o + w
Appended(o, w) == o

(* One round of the loop: bytes go through TLS, and what comes out is      *)
(* appended to the buffer.                                                 *)
SendRound ==
    /\ loop = "send"
    /\ LET fresh == IF unput = 0 THEN Encrypted(len) ELSE 0
           w == IF recs >= Hs THEN SSL_write(unput + fresh)
                              ELSE [put |-> 0, unput |-> 0, size |-> 0]
           pending == pend + w.put
           o == Least(pending, Room(buflen))
       IN  /\ len' = len - w.size
           /\ pend' = pending - o
           /\ unput' = w.unput
           /\ produced' = IF recs >= Hs THEN produced + fresh ELSE produced
           /\ buflen' = buflen + Appended(o, w.size)
           /\ sent' = sent + buflen' - buflen
           /\ loop' = IF len' # 0 /\ SizeAfter(pending, o, w.size) # 0 /\ buflen' # Buf
                      THEN "send" ELSE "idle"
    /\ UNCHANGED <<str, text, outbuflen, inVars, leftover, got>>

-----------------------------------------------------------------------------
(* tls_receive()                                                           *)
(***************************************************************************)
(* What was left the last time, and what has arrived since.                *)
ReceiveCall ==
    /\ loop = "idle"
    /\ \E k \in Received :
          /\ leftover.len + k <= Buf /\ written + leftover.len + k <= MaxWire
          /\ str' = leftover.len + k /\ len' = leftover.len + k
    /\ \E caller \in Callers :
          text' = IF caller = "trusting" /\ leftover.len > 0 THEN leftover.from ELSE written
    /\ buflen' = 0 /\ outbuflen' = 0
    /\ loop' = "receive"
    /\ UNCHANGED <<inVars, outVars, leftover, got, sent>>

(* What is left, as the string that is returned: it is taken from text,    *)
(* which is past what was written, as if it were at the start.             *)
Remainder == [from |-> text' + str - len', len |-> len']

(* What is added to the fill of the buffer when r bytes have been          *)
(* decrypted and o are read from the BIO.                                  *)
Counted_Stale(r, o) == IF o # 0 THEN o ELSE r
Counted(r, o) == r

(* What counts as progress; a mutant: only what has been decrypted.        *)
Progress_Plain(w, r, o) == r
Progress(w, r, o) == w + r + o

(* One round of the loop: bytes go into the BIO, what can be decrypted     *)
(* comes out of TLS, and what has to be answered out of the BIO.           *)
ReceiveRound ==
    /\ loop = "receive"
    /\ LET w == Least(len, Cap - bio)
           r == SSL_read(bio + w, Room(buflen))
           o == Least(pend + r.answer, Room(outbuflen))
       IN  IF w > 0 /\ text # written
             THEN /\ loop' = "bad record"
                  /\ UNCHANGED <<argVars, buflen, outbuflen, inVars, outVars, leftover, got, sent>>
             ELSE /\ text' = text + w /\ len' = len - w
                  /\ written' = written + w
                  /\ bio' = r.bio /\ rbuf' = r.rbuf /\ plain' = r.plain
                  /\ recs' = recs + r.recs
                  /\ buflen' = buflen + Counted(r.size, o)
                  /\ got' = got + buflen' - buflen
                  /\ outbuflen' = outbuflen + o
                  /\ pend' = pend + r.answer - o
                  /\ produced' = produced + r.answer
                  /\ sent' = sent + o
                  /\ IF len' # 0 /\ Progress(w, r.size, o) # 0 /\ buflen' # Buf /\ outbuflen' # Buf
                       THEN loop' = "receive" /\ UNCHANGED leftover
                       ELSE loop' = "idle" /\ leftover' = Remainder
                  /\ UNCHANGED <<str, unput>>

TransferNext == SendCall \/ SendRound \/ ReceiveCall \/ ReceiveRound

TransferFairness == WF_transferVars(SendRound) /\ WF_transferVars(ReceiveRound)
TransferSpec == TransferInit /\ [][TransferNext]_transferVars /\ TransferFairness

-----------------------------------------------------------------------------
(* What arrives goes into TLS once and in order, whatever part of it a     *)
(* call gives back: a caller that goes on with the string it got, as       *)
(* doc/tls_receive:12 has it, feeds the session the bytes that come next.  *)
InSequence == loop # "bad record"

(* A message that was given back is not one of which OpenSSL has already   *)
(* encrypted and sent a part.                                              *)
Resumable == loop # "bad write retry"

DataRecs(r) == IF r > Hs THEN r - Hs ELSE 0

(* The data returned is the data of the records decrypted, but for what is *)
(* still to be returned, whatever else the calls read into their buffers.  *)
GotIsDecrypted ==
    loop = "idle" => got + plain = PeerRec * DataRecs(recs)

(* The output returned is what OpenSSL has made of the messages and of the *)
(* handshake, but for what it or the BIO still has.                        *)
SentIsProduced == loop = "idle" => sent + pend + unput = produced

(* tls_receive() gives part of its string back only when it has a full     *)
(* buffer to return: otherwise the loop goes on, also after a round that   *)
(* brought no data, but only wrote bytes to the BIO, or read an answer to  *)
(* the handshake from it (tls.c:340-380).                                  *)
LeftOnlyIfFull ==
    [][loop = "receive" /\ loop' = "idle" /\ leftover'.len > 0
         => buflen' = Buf \/ outbuflen' = Buf]_transferVars

(* After a tls_receive() that leaves nothing, all complete records among   *)
(* what arrived have been decrypted.                                       *)
AllProcessed == loop = "idle" /\ leftover.len = 0 => rbuf + bio < Wire

(* After a tls_send() that leaves nothing, everything has been returned.   *)
NothingHeldBack == loop = "idle" => pend = 0

(* Both loops end.                                                         *)
CallsEnd == loop \in {"send", "receive"} ~> loop \notin {"send", "receive"}
=============================================================================
