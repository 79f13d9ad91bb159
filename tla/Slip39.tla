------------------------------- MODULE Slip39 -------------------------------
(***************************************************************************)
(* The share words of keyshare/slip39.py and keyshare/codec.py, as pure    *)
(* operators: framing of a password, encryption, Shamir's scheme over      *)
(* GF(256) with the digest share, the bit layout of a mnemonic and its     *)
(* RS1024 checksum, and what combining mnemonics answers.                  *)
(*                                                                         *)
(* A word is its index in the word list, a mnemonic a sequence of words.   *)
(* The lengths of the code (16 bytes of secret, 4 of digest) are           *)
(* parameters, so that TLC can enumerate.                                  *)
(***************************************************************************)
EXTENDS Bytes

CONSTANTS
    MIN_MASTER_SECRET_BYTES,    \* 16 in the code
    DIGEST_LENGTH_BYTES         \* 4 in the code

\* A raised KeyShareError, where a share was expected.
FailedShare == [value |-> Failed]

BitXor[a \in Nat, b \in Nat] ==
    IF a = 0 THEN b ELSE IF b = 0 THEN a
    ELSE 2 * BitXor[a \div 2, b \div 2] + ((a + b) % 2)

a ^^ b == BitXor[a, b]

-----------------------------------------------------------------------------
(* codec.py: a password as a master secret, and back.                      *)

encode_master_secret(pw) ==
    LET body   == <<Len(pw) \div 256, Len(pw) % 256>> \o pw
        target == Max({MIN_MASTER_SECRET_BYTES, Len(body) + (Len(body) % 2)})
    IN  body \o [i \in 1..(target - Len(body)) |-> 0]

decode_master_secret(ms) ==
    IF Len(ms) < 2 THEN Failed
    ELSE LET n == ms[1] * 256 + ms[2]
         IN  IF 2 + n > Len(ms) THEN Failed ELSE SubSeq(ms, 3, 2 + n)

\* _check_master_secret
GoodLength(ms) == Len(ms) >= MIN_MASTER_SECRET_BYTES /\ Len(ms) % 2 = 0

-----------------------------------------------------------------------------
(* GF(256).                                                                *)

\* _precompute_exp_log: powers of x + 1 modulo x^8 + x^4 + x^3 + x + 1.
Times3(p) ==
    LET q == (2 * p) ^^ p IN IF q >= 256 THEN q ^^ 283 ELSE q

\* n powers in a row; the table is made of 15 such runs.
Powers(from, n) == Loop(LAMBDA acc, i : Append(acc, Times3(Last(acc))), <<from>>, UpTo(n - 1))

EXP_TABLE ==
    Loop(LAMBDA acc, r : acc \o Powers(Times3(Last(acc)), 17), Powers(1, 17), UpTo(14))

Exp == [i \in 0..254 |-> EXP_TABLE[i + 1]]

LOG_TABLE == [v \in 1..255 |-> CHOOSE i \in 0..254 : Exp[i] = v]

\* log[0] keeps its initial 0, and _interpolate relies on it.
Log(v) == IF v = 0 THEN 0 ELSE LOG_TABLE[v]

\* Mutant of Interpolate: the factor of the share itself stays in the product.
InterpolateUnreduced(shares, x) ==
    LET xs == DOMAIN shares
        prod == SumOf(xs, LAMBDA i : Log(i ^^ x))
        basis(i) == (prod - SumOf(xs, LAMBDA j : Log(i ^^ j))) % 255
        byte(k) == FoldSet(LAMBDA i, acc : acc ^^ (IF shares[i][k] = 0 THEN 0
                               ELSE Exp[(Log(shares[i][k]) + basis(i)) % 255]), 0, xs)
    IN  IF x \in xs THEN shares[x]
        ELSE [k \in DOMAIN shares[Min(xs)] |-> byte(k)]

\* _interpolate: shares maps x-coordinates to sequences of bytes.
Interpolate(shares, x) ==
    LET xs == DOMAIN shares
        prod == SumOf(xs, LAMBDA i : Log(i ^^ x))
        basis(i) == (prod - Log(i ^^ x) - SumOf(xs, LAMBDA j : Log(i ^^ j))) % 255
        byte(k) == FoldSet(LAMBDA i, acc : acc ^^ (IF shares[i][k] = 0 THEN 0
                               ELSE Exp[(Log(shares[i][k]) + basis(i)) % 255]), 0, xs)
    IN  IF x \in xs THEN shares[x]
        ELSE [k \in DOMAIN shares[Min(xs)] |-> byte(k)]

-----------------------------------------------------------------------------
(* Shamir's scheme with the digest share.                                  *)

SECRET_INDEX == 255
DIGEST_INDEX == 254

\* HMAC-SHA256, cut to the digest's length: some function of both.
CreateDigest(random, secret) ==
    [k \in 1..DIGEST_LENGTH_BYTES |->
        Loop(LAMBDA acc, b : (acc * 31 + b + k) % 251, 7, random \o secret)]

\* _split_secret: random[i] are the random shares, padding the digest's
\* random part.  The shares, by index from 0.
SplitSecret(k, n, secret, random, padding) ==
    IF k = 1 THEN [i \in 0..(n - 1) |-> secret]
    ELSE LET base == [i \in 0..(k - 3) \cup {DIGEST_INDEX, SECRET_INDEX} |->
                         CASE i = SECRET_INDEX -> secret
                           [] i = DIGEST_INDEX -> CreateDigest(padding, secret) \o padding
                           [] OTHER -> random[i + 1]]
         IN  [i \in 0..(n - 1) |-> Interpolate(base, i)]

\* _recover_secret, from the first K shares by index.
RecoverSecret(k, shares) ==
    IF k = 1 THEN shares[Min(DOMAIN shares)]
    ELSE LET secret == Interpolate(shares, SECRET_INDEX)
             digest == Interpolate(shares, DIGEST_INDEX)
         IN  IF SubSeq(digest, 1, DIGEST_LENGTH_BYTES)
                  = CreateDigest(SubSeq(digest, DIGEST_LENGTH_BYTES + 1, Len(digest)), secret)
             THEN secret ELSE Failed

-----------------------------------------------------------------------------
(* Encryption of the master secret: four Feistel rounds.                   *)

Xor2(a, b) == [k \in DOMAIN a |-> a[k] ^^ b[k]]

\* PBKDF2: some function of the round, the salt (the identifier, unless the
\* backup is extendable) and the half.
RoundFunction(i, salt, r) ==
    [k \in DOMAIN r |-> Loop(LAMBDA acc, b : (acc * 29 + b + i) % 256, salt + k, r)]

Rounds(order, salt, text) ==
    LET half == Len(text) \div 2
        start == <<SubSeq(text, 1, half), SubSeq(text, half + 1, Len(text))>>
        end == Loop(LAMBDA lr, i : <<lr[2], Xor2(lr[1], RoundFunction(i, salt, lr[2]))>>,
                        start, order)
    IN  end[2] \o end[1]

Salt(id, extendable) == IF extendable THEN 0 ELSE 1 + id

Encrypt(ms, id, extendable) == Rounds(<<0, 1, 2, 3>>, Salt(id, extendable), ms)

Decrypt(ems, id, extendable) == Rounds(<<3, 2, 1, 0>>, Salt(id, extendable), ems)

-----------------------------------------------------------------------------
(* RS1024.                                                                 *)

RS1024_GEN == <<14737472, 29474944, 58949888, 117899776, 235798537,
                470557714, 940076068, 814808136, 565311632, 66318624>>

PolymodStep(chk, v) ==
    LET b == chk \div 2^20
    IN  Loop(LAMBDA acc, i : IF (b \div 2^(i - 1)) % 2 = 1 THEN acc ^^ RS1024_GEN[i] ELSE acc,
                 ((chk % 2^20) * 1024) ^^ v, UpTo(10))

Polymod(words) == Loop(PolymodStep, 1, words)

\* "shamir" and "shamir_extendable"
Customization(extendable) ==
    <<115, 104, 97, 109, 105, 114>> \o
    (IF extendable THEN <<95, 101, 120, 116, 101, 110, 100, 97, 98, 108, 101>> ELSE <<>>)

CreateChecksum(data, extendable) ==
    LET p == Polymod(Customization(extendable) \o data \o <<0, 0, 0>>) ^^ 1
    IN  <<p \div 2^20, (p \div 2^10) % 1024, p % 1024>>

VerifyChecksum(data, extendable) == Polymod(Customization(extendable) \o data) = 1

-----------------------------------------------------------------------------
(* The layout of a mnemonic.  Bits are written most significant first.     *)

ToWords(bits) ==
    LET pad == (10 - (Len(bits) % 10)) % 10 IN Chunks([i \in 1..pad |-> 0] \o bits, 10)

WordBits(words) == FlattenSeq([i \in DOMAIN words |-> ToBits(words[i], 10)])

ByteBits(bytes) == FlattenSeq([i \in DOMAIN bytes |-> ToBits(bytes[i], 8)])

BitsToWords(n) == (n + 9) \div 10

METADATA_LENGTH_WORDS == 7

MIN_MNEMONIC_LENGTH_WORDS == METADATA_LENGTH_WORDS + BitsToWords(8 * MIN_MASTER_SECRET_BYTES)

\* _Share.words: identifier (15 bits), extendable, exponent (4); group index,
\* group threshold, group count, member index, member threshold (4 each).
Words(s) ==
    LET head == ToBits(s.identifier, 15) \o ToBits(IF s.extendable THEN 1 ELSE 0, 1)
                \o ToBits(s.exponent, 4)
        params == ToBits(s.group_index, 4) \o ToBits(s.group_threshold - 1, 4)
                  \o ToBits(s.group_count - 1, 4) \o ToBits(s.member_index, 4)
                  \o ToBits(s.member_threshold - 1, 4)
        data == ToWords(head) \o ToWords(params) \o ToWords(ByteBits(s.value))
    IN  data \o CreateChecksum(data, s.extendable)

\* _Share.from_mnemonic.
Padding(words) == (10 * (Len(words) - METADATA_LENGTH_WORDS)) % 16

IsExtendable(words) == WordBits(words)[16] = 1

FromMnemonic(words) ==
    LET bits  == WordBits(words)
        num(a, b) == FromBits(SubSeq(bits, a, b))
        value == SubSeq(bits, 41, Len(bits) - 30)
        pad   == Padding(words)
    IN  IF \/ Len(words) < MIN_MNEMONIC_LENGTH_WORDS \/ pad > 8
           \/ ~VerifyChecksum(words, IsExtendable(words))
           \/ num(29, 32) < num(25, 28)
           \/ \E i \in 1..pad : value[i] = 1
        THEN FailedShare
        ELSE [identifier |-> num(1, 15), extendable |-> IsExtendable(words),
              exponent |-> num(17, 20), group_index |-> num(21, 24),
              group_threshold |-> num(25, 28) + 1, group_count |-> num(29, 32) + 1,
              member_index |-> num(33, 36), member_threshold |-> num(37, 40) + 1,
              value |-> Chunks(SubSeq(value, pad + 1, Len(value)), 8)]

-----------------------------------------------------------------------------
(* Splitting and combining.                                                *)

\* split_secret (generate_mnemonics with one group): the mnemonics by index.
\* LCSAS splits with an extendable identifier, exponent 1, no passphrase.
Split(pw, k, n, id, random, padding) ==
    LET ms     == encode_master_secret(pw)
        shares == SplitSecret(k, n, Encrypt(ms, id, TRUE), random, padding)
    IN  IF ~GoodLength(ms) \/ k < 1 \/ k > n \/ n > 16 \/ (k = 1 /\ n > 1) THEN Failed
        ELSE [i \in 0..(n - 1) |->
                 Words([identifier |-> id, extendable |-> TRUE, exponent |-> 1,
                        group_index |-> 0, group_threshold |-> 1, group_count |-> 1,
                        member_index |-> i, member_threshold |-> k, value |-> shares[i]])]

\* _ShareGroup.add and _decode_mnemonics: one group, one set of parameters.
GroupParameters(s) ==
    <<s.identifier, s.extendable, s.exponent, s.group_index,
      s.group_threshold, s.group_count, s.member_threshold>>

\* _recover_ems of a set of shares that agree on their parameters.  (The code
\* allows several groups; LCSAS makes one, so that the group share is the
\* secret itself.)
RecoverEms(shares) ==
    LET one   == CHOOSE s \in shares : TRUE
        k     == one.member_threshold
        index == {s.member_index : s \in shares}
        first == {index2 \in index : Cardinality({j \in index : j < index2}) < k}
    IN  IF Cardinality(shares) < k \/ Cardinality(index) # Cardinality(shares) THEN Failed
        ELSE RecoverSecret(k, [i \in first |->
                 (CHOOSE s \in shares : s.member_index = i).value])

\* check_share on each, then recover_secret and decode_master_secret: the
\* password, or Failed.
Combine(mnemonics) ==
    LET shares == {FromMnemonic(w) : w \in mnemonics}
        ems    == RecoverEms(shares)
        one    == CHOOSE s \in shares : TRUE
    IN  IF mnemonics = {} \/ FailedShare \in shares THEN Failed
        ELSE IF Cardinality({GroupParameters(s) : s \in shares}) # 1 THEN Failed
        ELSE IF ems = Failed THEN Failed
        ELSE decode_master_secret(Decrypt(ems, one.identifier, one.extendable))

=============================================================================
