------------------------------ MODULE Encoding ------------------------------
(***************************************************************************)
(* cppevent_crypto: base64_encode and base64_decode.  Octets and the codes *)
(* of characters are numbers.  num is uint64_t in the code; its bits above *)
(* num_bits are never read, so what a shift would carry beyond the 24 bits *)
(* of a group is cut off first.                                            *)
(***************************************************************************)
EXTENDS Integers, Sequences
LOCAL INSTANCE SequencesExt

OCTET == 8
BASE64_BITS == 6
BASE64_PADDING == 2
Pad == 61    \* '='

base64_enc(b) == CASE b \in 0..25  -> 65 + b           \* 'A'..'Z'
                   [] b \in 26..51 -> 97 + (b - 26)    \* 'a'..'z'
                   [] b \in 52..61 -> 48 + (b - 52)    \* '0'..'9'
                   [] b = 62       -> 43               \* '+'
                   [] b = 63       -> 47               \* '/'

base64_dec(c) == CASE c \in 65..90  -> c - 65
                   [] c \in 97..122 -> (c - 97) + 26
                   [] c \in 48..57  -> (c - 48) + 52
                   [] c = 43        -> 62
                   [] c = 47        -> 63

get_msb(msb_bits, num, total_bits) ==
    (num \div 2^(total_bits - msb_bits)) % 2^msb_bits

\* The inner loops: while num_bits > 0, take width bits from the top.
Groups(width, num, num_bits) ==
    [i \in 1..(num_bits \div width) |->
        get_msb(width, num, num_bits - width * (i - 1))]

base64_encode(data) ==
    LET Step(s, b) ==
            LET num == (s.num % 2^16) * 2^OCTET + b
                bits == s.num_bits + OCTET
            IN  IF bits % BASE64_BITS # 0
                THEN [s EXCEPT !.num = num, !.num_bits = bits]
                ELSE [num |-> num, num_bits |-> 0,
                      result |-> s.result \o Groups(BASE64_BITS, num, bits)]
        end == FoldLeft(Step, [num |-> 0, num_bits |-> 0, result |-> <<>>], data)
        padding_bits == CASE end.num_bits = OCTET     -> 2 * BASE64_PADDING
                          [] end.num_bits = 2 * OCTET -> BASE64_PADDING
                          [] OTHER                    -> 0
        sextets == end.result \o Groups(BASE64_BITS,
                                        (end.num % 2^16) * 2^padding_bits,
                                        end.num_bits + padding_bits)
    IN  [i \in DOMAIN sextets |-> base64_enc(sextets[i])]
            \o [i \in 1..(padding_bits \div BASE64_PADDING) |-> Pad]

base64_unpad(s) == [s EXCEPT !.num = @ \div 2^BASE64_PADDING,
                             !.num_bits = @ - BASE64_PADDING]

base64_decode(str) ==
    LET Take(s, c) ==
            IF c = Pad THEN base64_unpad(s)
            ELSE [s EXCEPT !.num = (@ % 2^18) * 2^BASE64_BITS + base64_dec(c),
                           !.num_bits = @ + BASE64_BITS]
        Step(s, c) ==
            LET t == Take(s, c)
            IN  IF t.num_bits % OCTET # 0 THEN t
                ELSE [t EXCEPT !.num_bits = 0,
                               !.result = @ \o Groups(OCTET, t.num, t.num_bits)]
    IN  FoldLeft(Step, [num |-> 0, num_bits |-> 0, result |-> <<>>], str).result

============================================================================
