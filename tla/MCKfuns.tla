------------------------------ MODULE MCKfuns ------------------------------
(* The kfuns of one module: of zlib, TLS and regexp on the slots of        *)
(* objects, the transfer of tls_send() and tls_receive(), or one call of   *)
(* process() of zlib or of a kfun of crypto.c, to its end.  These parts    *)
(* share no state, and each runs while the others have not begun.          *)
EXTENDS ZlibBuffers, Crypto, TlsTransfer, MCSpecialObject

(* Arguments around the limits that are checked.                           *)
CipherArguments ==
    {<<Str(key), Str(iv), Str(aad), Num(tag), Str(input)>> :
       key \in {16, 32}, iv \in {0, 6, 7, 12, 13, 16, 17}, aad \in {0, 1},
       tag \in {0, 3, 4, 5, 16, 17}, input \in {0, 1, 4, 5, 17}}
    \cup {<<Str(16), Str(12), Str(1), Str(16), Str(1)>>, <<Str(16), Num(12), Str(1), Num(16), Str(1)>>, <<>>}
StringArguments == UNION {[1 .. k -> {Str(1), Num(1)}] : k \in 0 .. 3}

Arguments(k) ==
    CASE k = "hash" -> {<<Str(1)>>, <<Str(1), Str(0)>>}
      [] k = "secure_random" -> {<<Num(v)>> : v \in {0, 1, 65535, 65536}}
      [] k = "verify_certificate" -> {<<Str(9), Str(1)>>, <<Str(10), Str(1)>>, <<Str(10), Str(1), Str(1)>>,
                                      <<Str(10), Str(1), Str(1), Str(1)>>}
      [] k = "mask_xor" -> {<<Str(w), Str(l)>> : w \in 0 .. 9, l \in {0, 1, 3, 7, 8, 9, 15, 16, 18}}
      [] k \in Encryptions \cup {Decryption[e] : e \in Encryptions} -> CipherArguments
      [] OTHER -> StringArguments

KfunsInit == Init /\ CallIdle /\ TransferInit /\ SlotInit

(* process() has no output to collect.                                     *)
NoOutput == Init /\ total = 0

Process ==
    /\ CallIdle /\ TransferInit /\ SlotInit /\ Next
    /\ UNCHANGED <<callVars, transferVars, slotVars>>
CallKfun ==
    /\ NoOutput /\ CallIdle /\ TransferInit /\ SlotInit
    /\ \E k \in Kfuns : \E a \in Arguments(k) : Called(k, a)
    /\ UNCHANGED <<vars, transferVars, slotVars>>
Compute == CallStep /\ UNCHANGED <<vars, transferVars, slotVars>>
Transfer ==
    /\ NoOutput /\ CallIdle /\ SlotInit /\ TransferNext
    /\ UNCHANGED <<vars, callVars, slotVars>>
UseSlot ==
    /\ NoOutput /\ CallIdle /\ TransferInit /\ SlotNext
    /\ UNCHANGED <<vars, callVars, transferVars>>

KfunsNext == Process \/ CallKfun \/ Compute \/ Transfer \/ UseSlot
KfunsSpec == KfunsInit /\ [][KfunsNext]_<<vars, callVars, transferVars, slotVars>>
=============================================================================
