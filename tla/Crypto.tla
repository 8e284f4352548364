------------------------------- MODULE Crypto -------------------------------
(* The kfuns of crypto.c.  Each checks its arguments, makes a sequence of  *)
(* calls of OpenSSL, any of which may fail, and has to give back the       *)
(* objects that it got on every way out, in the right order and once.      *)
(* Lengths are modelled, and which mask byte is used where; what is        *)
(* encrypted, signed or hashed is not.                                     *)
EXTENDS Integers, Sequences

CONSTANT UncheckedFail   \* calls whose result the code ignores may fail as well

VARIABLES
    kfun, args,       \* the kfun that is called
    stage, step,      \* the call of OpenSSL that is next
    ptr, owned,       \* its pointers, and the objects that it has to free
    holds,            \* <<object, object to which it has a reference>>
    made, refused,    \* calls that succeeded, and that failed
    fault,            \* what it did that is not allowed
    answer            \* how it ended

callVars == <<kfun, args, stage, step, ptr, owned, holds, made, refused, fault, answer>>

KfunPointers == {"ctx", "context", "key", "ec", "bn", "p", "certificate", "stack", "intermediate", "store"}
Null == <<0, "null">>
Unset == <<0, "unset">>

-----------------------------------------------------------------------------
(* Arguments: a type, and the length of a string or the value of an int.   *)
Str(n) == [type |-> "string", n |-> n]
Num(n) == [type |-> "int", n |-> n]
Argument == {Str(n) : n \in Nat} \cup {Num(n) : n \in Int} \cup {[type |-> "nil", n |-> 0]}
Arg(a, i) == IF i \in DOMAIN a THEN a[i] ELSE [type |-> "nil", n |-> 0]

IsString(a, i) == <<Arg(a, i).type = "string", "Bad argument">>
StringArgs(a, k) == <<<<Len(a) = k, "Wrong number of arguments">>>> \o [i \in 1 .. k |-> IsString(a, i)]

(* A call of OpenSSL: the pointer it sets, those it needs, and the         *)
(* reference that it makes; moves: the holder frees what it holds; and     *)
(* whether its result is checked, if it is not a pointer set by the call.  *)
Call(op, gets, uses, holder, held, moves, checked) ==
    [op |-> op, gets |-> gets, uses |-> uses, holder |-> holder, held |-> held,
     moves |-> moves, checked |-> checked]
New(op, p, uses) == Call(op, p, uses, "", "", FALSE, "at once")
NewLater(op, p) == Call(op, p, {}, "", "", FALSE, "later")
NewUnchecked(op, p, uses) == Call(op, p, uses, "", "", FALSE, "never")
Do(op, uses) == Call(op, "", uses, "", "", FALSE, "at once")
DoUnchecked(op, uses) == Call(op, "", uses, "", "", FALSE, "never")
Give(op, holder, held) == Call(op, "", {holder, held}, holder, held, TRUE, "at once")
Refer(op, holder, held) == Call(op, "", {holder, held}, holder, held, FALSE, "at once")
NewOn(op, p, held) == Call(op, p, {held}, p, held, FALSE, "at once")

(* Calls that have one error exit, which frees the first pointer of each   *)
(* chain (if - else if) that is not null; after the last call of the       *)
(* stage, those in "release" are freed.                                    *)
Stage(nulls, calls, error, cleanup, release) ==
    [nulls |-> nulls, calls |-> calls, error |-> error, cleanup |-> cleanup, release |-> release]

(* The end: a call that decides on the answer, if there is one, and what   *)
(* is freed after it.                                                      *)
Finish(op, results, release) == [op |-> op, results |-> results, release |-> release]
Return(release) == Finish("", {"good"}, release)

Chains(s) == [i \in DOMAIN s |-> <<s[i]>>]
Ctx == Chains(<<"ctx">>)
Kfun(checks, stages, finish) == [checks |-> checks, stages |-> stages, finish |-> finish]

-----------------------------------------------------------------------------
Hash(a) ==
    Kfun(<<>>,
         <<Stage({},
                 <<NewUnchecked("EVP_MD_CTX_new", "ctx", {}), DoUnchecked("EVP_DigestInit_ex", {"ctx"})>>
                   \o [i \in DOMAIN a |-> DoUnchecked("EVP_DigestUpdate", {"ctx"})]
                   \o <<DoUnchecked("EVP_DigestFinal_ex", {"ctx"})>>,
                 "", <<>>, <<>>)>>,
         Return(Ctx))

SecureRandom(a) ==
    Kfun(<<<<Arg(a, 1).n > 0 /\ Arg(a, 1).n <= 65535, "Invalid number of random bytes">>>>,
         <<Stage({}, <<Do("RAND_bytes", {})>>, "OpenSSL", <<>>, <<>>)>>,
         Return(<<>>))

(* A mutant: an error of one certificate forgets those before it.          *)
Intermediate_Forgets ==
    Stage({}, <<New("d2i_X509", "intermediate", {}),
                Call("sk_X509_push", "", {"stack", "intermediate"}, "stack", "intermediate", TRUE, "never")>>,
          "Bad intermediate certificate", Chains(<<"certificate">>), <<>>)

(* The stack frees the intermediate certificates that are pushed on it.    *)
Intermediate ==
    Stage({}, <<New("d2i_X509", "intermediate", {}),
                Call("sk_X509_push", "", {"stack", "intermediate"}, "stack", "intermediate", TRUE, "never")>>,
          "Bad intermediate certificate", Chains(<<"stack", "certificate">>), <<>>)
VerifyAll == Chains(<<"context", "store", "stack", "certificate">>)
StoreStage ==
    Stage({}, <<NewLater("X509_STORE_new", "store"), NewLater("X509_STORE_CTX_new", "context"),
                Do("X509_STORE_set_default_paths", {"store"}),
                Do("X509_STORE_CTX_init", {"context", "store", "certificate", "stack"}),
                Do("X509_STORE_CTX_set_purpose", {"context"})>>,
          "SSL context error", VerifyAll, <<>>)
VerifyCertificate(a) ==
    Kfun(<<<<Arg(a, 1).n = 10, "Invalid purpose">>>>,
         <<Stage({}, <<New("d2i_X509", "certificate", {})>>, "Bad certificate", <<>>, <<>>),
           Stage({}, <<New("sk_X509_new_reserve", "stack", {})>>, "SSL stack error",
                 Chains(<<"certificate">>), <<>>)>>
           \o [i \in 1 .. Len(a) - 2 |-> Intermediate]
           \o <<StoreStage>>,
         Finish("X509_verify_cert", {"good", "bad", "error"}, VerifyAll))

(* The mask as a word of eight bytes, doubled from its one, two or four:   *)
(* the byte of the mask that is in each.  A word at a time is masked, and  *)
(* the rest from the start of the word.                                    *)
MaskXor(a) == Kfun(<<<<Arg(a, 1).n \in {1, 2, 4, 8}, "Bad mask">>>>, <<>>, Return(<<>>))
Doubled(word, width) == [i \in 0 .. 2 * width - 1 |-> word[i % width]]
Bytes(width) == [i \in 0 .. width - 1 |-> i]
Word(width) ==
    CASE width = 1 -> Doubled(Doubled(Doubled(Bytes(1), 1), 2), 4)
      [] width = 2 -> Doubled(Doubled(Bytes(2), 2), 4)
      [] width = 4 -> Doubled(Bytes(4), 4)
      [] width = 8 -> Bytes(8)
Masked(width, length) ==
    [i \in 0 .. length - 1 |->
       IF i < length - (length % 8) THEN Word(width)[i % 8]
       ELSE Word(width)[i - (length - (length % 8))]]

-----------------------------------------------------------------------------
(* Arguments of the ciphers: key, iv, aad, length of the tag, text.        *)
CipherChecks(a, keyLength, ivs, tags, least) ==
    <<<<Len(a) = 5, "Wrong number of arguments">>,
      IsString(a, 1), <<Arg(a, 1).n = keyLength, "Bad key">>,
      IsString(a, 2), <<Arg(a, 2).n \in ivs, "Bad IV">>,
      IsString(a, 3), <<Arg(a, 3).n # 0, "Bad AAD">>,
      <<Arg(a, 4).type = "int", "Bad argument">>, <<Arg(a, 4).n \in tags, "Bad tag length">>,
      IsString(a, 5), <<Arg(a, 5).n >= least, "Bad text">>>>
CtxCalls(ops) == <<New("EVP_CIPHER_CTX_new", "ctx", {})>> \o [i \in DOMAIN ops |-> Do(ops[i], {"ctx"})]
EvenTags == {4, 6, 8, 10, 12, 14, 16}

EncryptAesGcm(a, keyLength) ==
    Kfun(CipherChecks(a, keyLength, 1 .. 16, 1 .. 16, 1),
         <<Stage({}, CtxCalls(<<"cipher", "ivlen", "key", "aad", "text", "final", "get tag">>),
                 "Encryption failed", Ctx, <<>>)>>,
         Return(Ctx))
EncryptChacha20(a) ==
    Kfun(CipherChecks(a, 32, 1 .. 12, 1 .. 16, 1),
         <<Stage({}, CtxCalls(<<"cipher", "ivlen", "key", "aad", "text", "final", "get tag">>),
                 "Encryption failed", Ctx, <<>>)>>,
         Return(Ctx))
EncryptAesCcm(a) ==
    Kfun(CipherChecks(a, 16, 7 .. 13, EvenTags, 1),
         <<Stage({}, CtxCalls(<<"cipher", "ivlen", "tag", "key", "total", "aad", "text", "final", "get tag">>),
                 "Encryption failed", Ctx, <<>>)>>,
         Return(Ctx))

(* A mutant: the text has to be longer than the longest tag.               *)
DecryptAesGcm_Longer(a, keyLength) ==
    Kfun(CipherChecks(a, keyLength, 1 .. 16, 1 .. 16, 17),
         <<Stage({}, CtxCalls(<<"cipher", "ivlen", "key", "aad", "text", "tag">>),
                 "Decryption failed", Ctx, <<>>)>>,
         Finish("final", {"good", "bad"}, Ctx))
DecryptAesGcm(a, keyLength) ==
    Kfun(CipherChecks(a, keyLength, 1 .. 16, 1 .. 16, Arg(a, 4).n + 1),
         <<Stage({}, CtxCalls(<<"cipher", "ivlen", "key", "aad", "text", "tag">>),
                 "Decryption failed", Ctx, <<>>)>>,
         Finish("final", {"good", "bad"}, Ctx))
DecryptChacha20(a) ==
    Kfun(CipherChecks(a, 32, 1 .. 12, 1 .. 16, Arg(a, 4).n + 1),
         <<Stage({}, CtxCalls(<<"cipher", "ivlen", "tag", "key", "aad", "text">>),
                 "Decryption failed", Ctx, <<>>)>>,
         Finish("final", {"good", "bad"}, Ctx))
DecryptAesCcm(a) ==
    Kfun(CipherChecks(a, 16, 7 .. 13, EvenTags, Arg(a, 4).n + 1),
         <<Stage({}, CtxCalls(<<"cipher", "ivlen", "tag", "key", "total", "aad">>),
                 "Decryption failed", Ctx, <<>>)>>,
         Finish("text", {"good", "bad"}, Ctx))

-----------------------------------------------------------------------------
EcKey(a) ==
    Kfun(<<<<Len(a) = 0, "Wrong number of arguments">>>>,
         <<Stage({"key"},
                 <<New("EVP_PKEY_CTX_new_id", "context", {}), Do("EVP_PKEY_keygen_init", {"context"}),
                   Do("EVP_PKEY_CTX_set_ec_paramgen_curve_nid", {"context"}),
                   New("EVP_PKEY_keygen", "key", {"context"}), Do("EVP_PKEY_get0_EC_KEY", {"key"})>>,
                 "Key generation failed", Chains(<<"key", "context">>), <<>>),
           Stage({}, <<Call("EC_KEY_key2buf", "p", {"key"}, "", "", FALSE, "out")>>, "", <<>>, <<>>)>>,
         Return(Chains(<<"p", "key", "context">>)))
EcxKey(a) ==
    Kfun(<<<<Len(a) = 0, "Wrong number of arguments">>>>,
         <<Stage({"key"},
                 <<New("EVP_PKEY_CTX_new_id", "context", {}), Do("EVP_PKEY_keygen_init", {"context"}),
                   New("EVP_PKEY_keygen", "key", {"context"})>>,
                 "Key generation failed", Chains(<<"key", "context">>), <<>>),
           Stage({}, <<DoUnchecked("EVP_PKEY_get_raw_public_key", {"key"}),
                       DoUnchecked("EVP_PKEY_get_raw_private_key", {"key"})>>, "", <<>>, <<>>)>>,
         Return(Chains(<<"key", "context">>)))

(* A key of an elliptic curve, made of a private or a public number; the   *)
(* key owns ec once it is assigned to it.                                  *)
PrivateEc ==
    <<New("BN_bin2bn", "bn", {}), New("EC_KEY_new_by_curve_name", "ec", {}),
      Do("EC_KEY_set_private_key", {"ec", "bn"}), New("EVP_PKEY_new", "key", {}),
      Give("EVP_PKEY_assign_EC_KEY", "key", "ec")>>
PublicEc ==
    <<New("EC_KEY_new_by_curve_name", "ec", {}), Do("EC_KEY_oct2key", {"ec"}),
      New("EVP_PKEY_new", "key", {}), Give("EVP_PKEY_assign_EC_KEY", "key", "ec")>>

(* The error exit of the second stage frees the context and not the key.   *)
SignStage ==
    Stage({}, <<New("EVP_MD_CTX_new", "context", {}), Refer("EVP_DigestSignInit", "context", "key"),
                Do("EVP_DigestSign", {"context"})>>,
          "Signature failed", Chains(<<"context">>), <<>>)

(* A mutant: ec is freed once the key has it, like bn.                     *)
EcSign_FreesEc(a) ==
    Kfun(StringArgs(a, 2),
         <<Stage({"ec", "key"}, PrivateEc, "Sign key failed", Chains(<<"key", "ec", "bn">>),
                 Chains(<<"ec", "bn">>)), SignStage>>,
         Return(Chains(<<"context", "key">>)))
EcSign(a) ==
    Kfun(StringArgs(a, 2),
         <<Stage({"ec", "key"}, PrivateEc, "Sign key failed", Chains(<<"key", "ec", "bn">>),
                 Chains(<<"bn">>)), SignStage>>,
         Return(Chains(<<"context", "key">>)))
EcxSign(a) ==
    Kfun(StringArgs(a, 2),
         <<Stage({}, <<New("EVP_PKEY_new_raw_private_key", "key", {})>>, "Sign key failed", <<>>, <<>>),
           SignStage>>,
         Return(Chains(<<"context", "key">>)))

(* The context keeps the private key alive.                                *)
DeriveStage ==
    Stage({}, <<Do("EVP_PKEY_derive_init", {"context"}), Refer("EVP_PKEY_derive_set_peer", "context", "key"),
                Do("EVP_PKEY_derive", {"context"})>>,
          "Derive failed", Chains(<<"key", "context">>), <<>>)
EcDerive(a) ==
    Kfun(StringArgs(a, 2),
         <<Stage({"ec", "key"}, PrivateEc \o <<NewOn("EVP_PKEY_CTX_new", "context", "key")>>,
                 "Derive key failed", <<<<"key", "ec">>, <<"bn">>>>, Chains(<<"key", "bn">>)),
           Stage({"key"}, PublicEc, "Derive peer failed", Chains(<<"key", "ec">>), <<>>),
           DeriveStage>>,
         Return(Chains(<<"key", "context">>)))
EcxDerive(a) ==
    Kfun(StringArgs(a, 2),
         <<Stage({}, <<New("EVP_PKEY_new_raw_private_key", "key", {}),
                       NewOn("EVP_PKEY_CTX_new", "context", "key")>>,
                 "Derive key failed", Chains(<<"key">>), Chains(<<"key">>)),
           Stage({}, <<New("EVP_PKEY_new_raw_public_key", "key", {})>>, "Derive peer failed", <<>>, <<>>),
           DeriveStage>>,
         Return(Chains(<<"key", "context">>)))

(* The error exit of the second stage frees the context and not the key.   *)
VerifyStage ==
    Stage({}, <<New("EVP_MD_CTX_new", "context", {}), Refer("EVP_DigestVerifyInit", "context", "key")>>,
          "Verify failed", Chains(<<"context">>), <<>>)
EcVerify(a) ==
    Kfun(StringArgs(a, 3),
         <<Stage({"key"}, PublicEc, "Verify key failed", Chains(<<"key", "ec">>), <<>>), VerifyStage>>,
         Finish("EVP_DigestVerify", {"good", "bad", "error"}, Chains(<<"context", "key">>)))
EcxVerify(a) ==
    Kfun(StringArgs(a, 3),
         <<Stage({}, <<New("EVP_PKEY_new_raw_public_key", "key", {})>>, "Verify key failed", <<>>, <<>>),
           VerifyStage>>,
         Finish("EVP_DigestVerify", {"good", "bad", "error"}, Chains(<<"context", "key">>)))

-----------------------------------------------------------------------------
Kfuns == {"hash", "secure_random", "verify_certificate", "mask_xor",
          "encrypt AES-128-GCM", "encrypt AES-256-GCM", "encrypt ChaCha20-Poly1305", "encrypt AES-128-CCM",
          "encrypt EC key", "encrypt ECX key", "encrypt EC sign", "encrypt ECX sign",
          "decrypt AES-128-GCM", "decrypt AES-256-GCM", "decrypt ChaCha20-Poly1305", "decrypt AES-128-CCM",
          "decrypt EC derive", "decrypt ECX derive", "decrypt EC verify", "decrypt ECX verify"}

(* The table of kfuns; those of several curves or hashes differ in that.   *)
Kf(k, a) ==
    CASE k = "hash" -> Hash(a)
      [] k = "secure_random" -> SecureRandom(a)
      [] k = "verify_certificate" -> VerifyCertificate(a)
      [] k = "mask_xor" -> MaskXor(a)
      [] k = "encrypt AES-128-GCM" -> EncryptAesGcm(a, 16)
      [] k = "encrypt AES-256-GCM" -> EncryptAesGcm(a, 32)
      [] k = "encrypt ChaCha20-Poly1305" -> EncryptChacha20(a)
      [] k = "encrypt AES-128-CCM" -> EncryptAesCcm(a)
      [] k = "encrypt EC key" -> EcKey(a)
      [] k = "encrypt ECX key" -> EcxKey(a)
      [] k = "encrypt EC sign" -> EcSign(a)
      [] k = "encrypt ECX sign" -> EcxSign(a)
      [] k = "decrypt AES-128-GCM" -> DecryptAesGcm(a, 16)
      [] k = "decrypt AES-256-GCM" -> DecryptAesGcm(a, 32)
      [] k = "decrypt ChaCha20-Poly1305" -> DecryptChacha20(a)
      [] k = "decrypt AES-128-CCM" -> DecryptAesCcm(a)
      [] k = "decrypt EC derive" -> EcDerive(a)
      [] k = "decrypt ECX derive" -> EcxDerive(a)
      [] k = "decrypt EC verify" -> EcVerify(a)
      [] k = "decrypt ECX verify" -> EcxVerify(a)

FirstError(k, a) ==
    LET checks == Kf(k, a).checks
        bad == {i \in DOMAIN checks : ~checks[i][1]}
    IN  IF bad = {} THEN "" ELSE checks[CHOOSE i \in bad : \A j \in bad : i <= j][2]

(* What the prototype of the kfun accepts, where it says more than mixed:  *)
(* the ciphers and the keys are called as encrypt and decrypt.             *)
Prototyped(k, a) ==
    LET Strings == \A i \in DOMAIN a : a[i].type = "string"
    IN  CASE k = "hash" -> Len(a) >= 1 /\ Strings
          [] k = "secure_random" -> Len(a) = 1 /\ a[1].type = "int"
          [] k = "verify_certificate" -> Len(a) >= 2 /\ Strings
          [] k = "mask_xor" -> Len(a) = 2 /\ Strings
          [] OTHER -> TRUE

Encryptions == {"encrypt AES-128-GCM", "encrypt AES-256-GCM", "encrypt ChaCha20-Poly1305", "encrypt AES-128-CCM"}

(* The kfun that takes back what an encryption gives.                      *)
Decryption ==
    [k \in Encryptions |-> CASE k = "encrypt AES-128-GCM" -> "decrypt AES-128-GCM"
                              [] k = "encrypt AES-256-GCM" -> "decrypt AES-256-GCM"
                              [] k = "encrypt ChaCha20-Poly1305" -> "decrypt ChaCha20-Poly1305"
                              [] k = "encrypt AES-128-CCM" -> "decrypt AES-128-CCM"]

-----------------------------------------------------------------------------
(* What the cipher interface of OpenSSL asks for: the calls before "op".   *)
Ccm == {"encrypt AES-128-CCM", "decrypt AES-128-CCM"}
Requires(k, op) ==
    CASE op \in {"ivlen", "tag"} -> {"cipher"}
      [] op = "key" -> {"cipher", "ivlen"} \cup IF k \in Ccm THEN {"tag"} ELSE {}
      [] op = "total" -> {"key"}
      [] op = "aad" -> {"key"} \cup IF k \in Ccm THEN {"total"} ELSE {}
      [] op = "text" -> {"aad"}
      [] op = "final" -> {"text", "tag"}
      [] op = "get tag" -> {"final"}
      [] OTHER -> {}
Asks(k, op) == Requires(k, op) \ IF k \in Encryptions /\ op = "final" THEN {"tag"} ELSE {}

(* Objects that exist: those of this call, and what they have references   *)
(* to, at most a key and its ec.                                           *)
Held(S) == S \cup {h[2] : h \in {x \in holds : x[1] \in S}}
Live(own) == Held(Held(own))

(* Free object o: h has what is owned, and the first fault.                *)
Blame(h, what) == IF h.fault = "none" THEN [h EXCEPT !.fault = what] ELSE h
FreeOne(h, o) ==
    CASE o = Unset -> Blame(h, "frees a pointer that is not set")
      [] o # Unset /\ o \notin Live(h.owned) -> Blame(h, "frees twice")
      [] o # Unset /\ o \in Live(h.owned) \ h.owned -> Blame(h, "frees what is another object's")
      [] OTHER -> [h EXCEPT !.owned = @ \ {o}]
FreeFirst(h, q, c) ==
    LET some == {j \in DOMAIN c : q[c[j]] # Null}
    IN  IF some = {} THEN h ELSE FreeOne(h, q[c[CHOOSE j \in some : \A l \in some : j <= l]])
FreeAll(h, q, chains) ==
    LET after[i \in 0 .. Len(chains)] == IF i = 0 THEN h ELSE FreeFirst(after[i - 1], q, chains[i])
    IN  after[Len(chains)]
Frees(h, q, chains) ==
    LET after == FreeAll(h, q, chains) IN owned' = after.owned /\ fault' = after.fault

-----------------------------------------------------------------------------
CallIdle ==
    /\ kfun = "none" /\ args = <<>> /\ stage = 0 /\ step = 1
    /\ ptr = [p \in KfunPointers |-> Unset] /\ owned = {} /\ holds = {}
    /\ made = {} /\ refused = {} /\ fault = "none" /\ answer = ""

Running == kfun # "none" /\ answer = ""
This == Kf(kfun, args)
AtCall == stage \in DOMAIN This.stages /\ step \in DOMAIN This.stages[stage].calls
Enter(s, q) ==
    /\ stage' = s /\ step' = 1
    /\ ptr' = IF s \in DOMAIN This.stages
                THEN [p \in KfunPointers |-> IF p \in This.stages[s].nulls THEN Null ELSE q[p]] ELSE q

(* The kfun is called: with what it does not accept it raises an error, as *)
(* it does if there are not enough ticks left.                             *)
Called(k, a) ==
    /\ kfun = "none" /\ Prototyped(k, a)
    /\ kfun' = k /\ args' = a
    /\ UNCHANGED <<stage, step, ptr, owned, holds, made, refused, fault, answer>>

CheckArguments ==
    /\ Running /\ stage = 0
    /\ LET error == FirstError(kfun, args)
       IN  \/ /\ error # "" /\ answer' = error
              /\ UNCHANGED <<stage, step, ptr>>
           \/ /\ error = "" \/ kfun = "mask_xor"
              /\ answer' = "Out of ticks"
              /\ UNCHANGED <<stage, step, ptr>>
           \/ /\ error = "" /\ Enter(1, ptr)
              /\ UNCHANGED answer
    /\ UNCHANGED <<kfun, args, owned, holds, made, refused, fault>>

(* What a call does wrong if it is made now.                               *)
Wrong(uses, op) ==
    CASE \E p \in uses : ptr[p] \in {Null, Unset} -> "uses a pointer without an object"
      [] \E p \in uses : ptr[p] \notin Live(owned) \cup {Null, Unset} -> "uses what is freed"
      [] ~(Asks(kfun, op) \subseteq made) -> "calls in the wrong order"
      [] OTHER -> "none"

NullSeen ==
    LET calls == This.stages[stage].calls
    IN  /\ calls[step].checked = "at once"
        /\ \E i \in 1 .. step - 1 : calls[i].checked = "later" /\ ptr[calls[i].gets] = Null

CallSucceeds ==
    /\ Running /\ AtCall /\ ~NullSeen
    /\ LET c == This.stages[stage].calls[step]
           o == <<stage, c.gets>>
           q == IF c.gets = "" THEN ptr ELSE [ptr EXCEPT ![c.gets] = o]
       IN  /\ ptr' = q
           /\ owned' = (owned \cup IF c.gets = "" THEN {} ELSE {o})
                        \ IF c.moves THEN {q[c.held]} ELSE {}
           /\ holds' = holds \cup IF c.holder = "" THEN {} ELSE {<<q[c.holder], q[c.held]>>}
           /\ fault' = Blame([fault |-> fault], Wrong(c.uses, c.op)).fault
           /\ made' = made \cup {c.op}
    /\ step' = step + 1
    /\ UNCHANGED <<kfun, args, stage, refused, answer>>

(* A call fails that is checked: error exit.                               *)
CallFails ==
    /\ Running /\ AtCall /\ ~NullSeen
    /\ LET c == This.stages[stage].calls[step]
           q == IF c.gets = "" THEN ptr ELSE [ptr EXCEPT ![c.gets] = Null]
       IN  /\ c.checked = "at once"
           /\ ptr' = q
           /\ refused' = refused \cup {c.op}
           /\ Frees(Blame([owned |-> owned, fault |-> fault], Wrong(c.uses, c.op)), q,
                    This.stages[stage].cleanup)
           /\ answer' = This.stages[stage].error
    /\ UNCHANGED <<kfun, args, stage, step, holds, made>>

(* A call fails, and the kfun goes on.                                     *)
FailureIgnored ==
    /\ Running /\ AtCall
    /\ LET c == This.stages[stage].calls[step]
       IN  /\ c.checked = "later" \/ (UncheckedFail /\ c.checked \in {"never", "out"})
           /\ ptr' = IF c.gets = "" \/ c.checked = "out" THEN ptr ELSE [ptr EXCEPT ![c.gets] = Null]
           /\ refused' = refused \cup {c.op}
           /\ fault' = Blame([fault |-> fault], Wrong(c.uses, c.op)).fault
    /\ step' = step + 1
    /\ UNCHANGED <<kfun, args, stage, owned, holds, made, answer>>

(* A pointer that is checked only now is null: error exit.                 *)
LaterSeen ==
    /\ Running /\ AtCall /\ NullSeen
    /\ Frees([owned |-> owned, fault |-> fault], ptr, This.stages[stage].cleanup)
    /\ answer' = This.stages[stage].error
    /\ UNCHANGED <<kfun, args, stage, step, ptr, holds, made, refused>>

StageDone ==
    /\ Running /\ stage \in DOMAIN This.stages /\ ~AtCall
    /\ Frees([owned |-> owned, fault |-> fault], ptr, This.stages[stage].release)
    /\ Enter(stage + 1, ptr)
    /\ UNCHANGED <<kfun, args, holds, made, refused, answer>>

(* A mutant: the last call is made, and what it says is not used.          *)
Finished_Unasked ==
    /\ Running /\ stage = Len(This.stages) + 1
    /\ \E r \in This.finish.results :
          /\ answer' = "good"
          /\ refused' = IF r = "good" THEN refused ELSE refused \cup {This.finish.op}
    /\ Frees([owned |-> owned, fault |-> fault], ptr, This.finish.release)
    /\ UNCHANGED <<kfun, args, stage, step, ptr, holds, made>>

(* What the last call says decides on the answer.                          *)
Finished ==
    /\ Running /\ stage = Len(This.stages) + 1
    /\ \E r \in This.finish.results :
          /\ answer' = r
          /\ refused' = IF r = "good" THEN refused ELSE refused \cup {This.finish.op}
    /\ Frees(Blame([owned |-> owned, fault |-> fault],
                   IF This.finish.op = "" THEN "none" ELSE Wrong({}, This.finish.op)),
             ptr, This.finish.release)
    /\ UNCHANGED <<kfun, args, stage, step, ptr, holds, made>>

(* What the error exits of this stage leave: the key of a signature, the   *)
(* context with the private key of a derivation, and the ec that could     *)
(* not be assigned to it.                                                  *)
Forgotten ==
    CASE kfun \in {"encrypt EC sign", "encrypt ECX sign", "decrypt EC verify", "decrypt ECX verify"}
           /\ stage = 2 -> {<<1, "key">>}
      [] kfun \in {"decrypt EC derive", "decrypt ECX derive"} /\ stage = 2 -> {<<1, "context">>}
      [] kfun = "decrypt EC derive" /\ stage = 1 /\ "EVP_PKEY_assign_EC_KEY" \in refused -> {<<1, "ec">>}
      [] OTHER -> {}

-----------------------------------------------------------------------------
CallStep == CheckArguments \/ CallSucceeds \/ CallFails \/ FailureIgnored \/ LaterSeen \/ StageDone \/ Finished

(* Any kfun with any arguments that the host lets through.                 *)
CallNext == (\E k \in Kfuns : \E a \in Seq(Argument) : Called(k, a)) \/ CallStep
CallSpec == CallIdle /\ [][CallNext]_callVars

(* On every path a kfun uses and frees objects that it has, frees none     *)
(* twice and none that another object frees, and makes the calls of a      *)
(* cipher in the order that the library asks for.                          *)
CallsSound == fault = "none"

(* However it ends, the kfun has freed every object, but for those that    *)
(* the error exits of a signature, a verification and a derivation forget. *)
NothingLeft == answer # "" => owned = Forgotten
NothingForgotten == answer # "" => owned = {}

(* The kfun says yes (encrypted, decrypted, signed, verified) only if no   *)
(* call failed, so that what it decrypted or verified is genuine.          *)
Genuine == answer = "good" => refused = {}

(* What was encrypted is accepted for decryption with the same arguments;  *)
(* and a mask is repeated over the whole message, so that masking it once  *)
(* more gives the message back.                                            *)
Reversed ==
    answer = "good" =>
      /\ kfun \in DOMAIN Decryption =>
            LET tag == args[4].n
                text == args[5].n
                back == [args EXCEPT ![5] = Str(text + tag)]
            IN  FirstError(Decryption[kfun], back) = ""
      /\ kfun = "mask_xor" =>
            \A i \in 0 .. args[2].n - 1 : Masked(args[1].n, args[2].n)[i] = i % args[1].n
=============================================================================
