----------------------------- MODULE Encodings ------------------------------
(***************************************************************************)
(* The text encodings of the protocol: client ids, which carry key hashes  *)
(* in base64url, and g-dns.net host names, which carry addresses in        *)
(* base32; and two replies that are decoded by hand, the server's time and *)
(* the host list.  A character of base64 or base32 text is the number it   *)
(* stands for; others have numbers of their own.  What may fail returns a  *)
(* set, empty on failure.                                                  *)
(***************************************************************************)
EXTENDS Integers, Sequences, FiniteSets, FiniteSetsExt, SequencesExt

CONSTANTS
  Register,      \* values of the shift register of base32_decode (2^32)
  V4Len, V6Len,  \* bytes of an address (4 and 16)
  HashLen,       \* bytes of a key hash (32)
  TimeBase, SecLen, NanoLen,  \* the server's time: values of a byte (256), and bytes (8 and 4)
  MaxSecs,       \* seconds a SystemTime can count (2^63)
  Billion,       \* nanoseconds in a second
  U32,           \* values of a u32
  NoText         \* an element of the host list that is no string

ASSUME EncodingAssumption ==
  /\ Register \in Nat \ {0} /\ Register % 8192 = 0
  /\ V4Len # V6Len /\ {V4Len, V6Len, HashLen, SecLen, NanoLen} \subseteq Nat \ {0}
  /\ {TimeBase, MaxSecs, Billion, U32} \subseteq Nat \ {0}

Smaller(a, b) == IF a < b THEN a ELSE b
OrZero(chunk, i) == IF i <= Len(chunk) THEN chunk[i] ELSE 0

(* slice::chunks, and str::split. *)
Chunks(s, n) ==
  [i \in 1..((Len(s) + n - 1) \div n) |-> SubSeq(s, (i - 1) * n + 1, Smaller(i * n, Len(s)))]
Split(s, sep) ==
  FoldLeft(LAMBDA parts, c :
             IF c = sep THEN Append(parts, <<>>)
             ELSE [parts EXCEPT ![Len(parts)] = Append(@, c)], <<<<>>>>, s)
----------------------------------------------------------------------------
(***************************************************************************)
(* base64url: the alphabet is 0..63.                                       *)
(***************************************************************************)
Dot == 64
Slash == 65
LetterK == 36     \* 'k' is a digit, too

(* Three bytes are four digits; a chunk that is short has one digit more   *)
(* than it has bytes.                                                      *)
Encoded(chunk) ==
  LET n == OrZero(chunk, 1) * 65536 + OrZero(chunk, 2) * 256 + OrZero(chunk, 3)
  IN  SubSeq(<<n \div 262144, (n \div 4096) % 64, (n \div 64) % 64, n % 64>>, 1, Len(chunk) + 1)
Decoded(chunk) ==
  LET n == OrZero(chunk, 1) * 262144 + OrZero(chunk, 2) * 4096
             + OrZero(chunk, 3) * 64 + OrZero(chunk, 4)
  IN  SubSeq(<<n \div 65536, (n \div 256) % 256, n % 256>>, 1, Len(chunk) - 1)

Base64Encode(data) == FlattenSeq([i \in DOMAIN Chunks(data, 3) |-> Encoded(Chunks(data, 3)[i])])

Base64Decode(s) ==
  IF Len(s) % 4 = 1 \/ \E i \in DOMAIN s : s[i] \notin 0..63 THEN {}
  ELSE {FlattenSeq([i \in DOMAIN Chunks(s, 4) |-> Decoded(Chunks(s, 4)[i])])}

(* ClientId::fmt *)
Display(typ, server, target) ==
  <<typ, Dot>> \o (IF server = <<>> THEN <<>> ELSE Append(server, Dot)) \o target

(* recipient_hash: the last part of what comes before the endpoint. *)
RecipientHash(rcv) ==
  LET parts == Split(Split(rcv, Slash)[1], Dot)
  IN  IF Len(parts) < 2 \/ parts[1] # <<LetterK>> THEN {} ELSE Base64Decode(Last(parts))

(* get_group_members *)
GroupMembers(buf) ==
  [i \in DOMAIN Chunks(buf, HashLen) |->
     Display(LetterK, <<>>, Base64Encode(Chunks(buf, HashLen)[i]))]

(***************************************************************************)
(* A client id leads back to the hash it was made from, with a server and  *)
(* an endpoint in it or without, and the ids of a group's members to all   *)
(* the bytes the server sent, so that an answer finds the sender's card.   *)
(***************************************************************************)
HashesRoundTrip(data, server, endpoint) ==
  /\ RecipientHash(Display(LetterK, server, Base64Encode(data)) \o <<Slash>> \o endpoint) = {data}
  /\ LET members == GroupMembers(data)
     IN  /\ \A i \in DOMAIN members : Cardinality(RecipientHash(members[i])) = 1
         /\ FlattenSeq([i \in DOMAIN members |->
              CHOOSE h \in RecipientHash(members[i]) : TRUE]) = data
----------------------------------------------------------------------------
(***************************************************************************)
(* base32: the alphabet is 0..31.                                          *)
(***************************************************************************)
Dash == 33

TwoTo(n) == <<1, 2, 4, 8, 16, 32, 64, 128>>[n + 1]   \* n < 8

ShiftIn(st, c) ==
  LET bits == ((st.bits * 32) % Register) + c
      nbits == st.nbits + 5
  IN  IF nbits < 8 THEN [bits |-> bits, nbits |-> nbits, out |-> st.out]
      ELSE [bits |-> bits, nbits |-> nbits - 8,
            out |-> Append(st.out, (bits \div TwoTo(nbits - 8)) % 256)]

(* Mutant: left over bits are ignored. *)
Base32DecodeLax(s) ==
  IF \E i \in DOMAIN s : s[i] \notin 0..31 THEN {}
  ELSE {FoldLeft(ShiftIn, [bits |-> 0, nbits |-> 0, out |-> <<>>], s).out}

(* base32_decode: bits that fill no byte must be 0. *)
Base32Decode(s) ==
  IF \E i \in DOMAIN s : s[i] \notin 0..31 THEN {}
  ELSE LET st == FoldLeft(ShiftIn, [bits |-> 0, nbits |-> 0, out |-> <<>>], s)
       IN  IF st.bits % TwoTo(st.nbits) = 0 THEN {st.out} ELSE {}

(* decode_base32_ip *)
DecodeIp(s) == {b \in Base32Decode(s) : Len(b) \in {V4Len, V6Len}}

(* The addresses in a g-dns.net name; <<>> stands for the system resolver. *)
LookupHost(label) ==
  LET parts == Split(label, Dash)
  IN  FlattenSeq([i \in DOMAIN parts |-> SetToSeq(DecodeIp(parts[i]))])

(* The bits of numbers of w bits each. *)
Bit(seq, w, q) == (seq[((q - 1) \div w) + 1] \div TwoTo(w - 1 - ((q - 1) % w))) % 2
Bits(seq, w) == [q \in 1..Len(seq) * w |-> Bit(seq, w, q)]

(* By bits: whole bytes, as many as an address has, and then zeroes only.  *)
FullBits(part) == 8 * ((5 * Len(part)) \div 8)
IsAddress(part) ==
  /\ \A i \in DOMAIN part : part[i] \in 0..31
  /\ FullBits(part) \in {8 * V4Len, 8 * V6Len}
  /\ \A i \in FullBits(part) + 1..5 * Len(part) : Bits(part, 5)[i] = 0

(***************************************************************************)
(* The addresses a name yields are, in order, the bits of its parts that   *)
(* are addresses, although the decoder's register is narrower than a part. *)
(***************************************************************************)
NamesGiveTheirAddresses(label) ==
  LET addrs == LookupHost(label)
      parts == Split(label, Dash)
  IN  [i \in DOMAIN addrs |-> Bits(addrs[i], 8)]
        = FlattenSeq([i \in DOMAIN parts |->
            IF IsAddress(parts[i]) THEN <<SubSeq(Bits(parts[i], 5), 1, FullBits(parts[i]))>>
            ELSE <<>>])
----------------------------------------------------------------------------
Panic == <<>>

(* u64::from_be_bytes and u32::from_be_bytes *)
BigEndian(b) == FoldLeft(LAMBDA value, byte : TimeBase * value + byte, 0, b)

(* Mutant: the nanoseconds are not carried into the seconds. *)
ParseServerTimeNoCarry(res) ==
  LET secs == BigEndian(SubSeq(res, 1, SecLen))
      nanos == BigEndian(SubSeq(res, SecLen + 1, SecLen + NanoLen))
  IN  IF Len(res) < SecLen + NanoLen THEN {}
      ELSE IF secs >= MaxSecs THEN {Panic} ELSE {<<secs, nanos % Billion>>}

(***************************************************************************)
(* parse_server_time.  Duration::new carries whole seconds out of the      *)
(* nanoseconds; a time no SystemTime can hold panics there or in the       *)
(* addition.                                                               *)
(***************************************************************************)
ParseServerTime(res) ==
  LET secs == BigEndian(SubSeq(res, 1, SecLen))
      nanos == BigEndian(SubSeq(res, SecLen + 1, SecLen + NanoLen))
      total == secs + nanos \div Billion
  IN  IF Len(res) < SecLen + NanoLen THEN {}
      ELSE IF total >= MaxSecs THEN {Panic} ELSE {<<total, nanos % Billion>>}

(***************************************************************************)
(* The server's time is taken over to the nanosecond, and the caller gets  *)
(* a panic for an answer exactly if the time is out of range.              *)
(***************************************************************************)
TimeIsExact(res) ==
  \A t \in ParseServerTime(res) :
    LET stated == BigEndian(SubSeq(res, 1, SecLen)) * Billion
                    + BigEndian(SubSeq(res, SecLen + 1, SecLen + NanoLen))
    IN  IF stated >= MaxSecs * Billion THEN t = Panic
        ELSE t = <<stated \div Billion, stated % Billion>>
----------------------------------------------------------------------------
(***************************************************************************)
(* parse_hosts: an error, or the names in the list and the number wanted.  *)
(* A reply's "hosts" may hold what is no text (NoText), or be absent, as   *)
(* may be "min_conn"; both are then as if empty or 0.                      *)
(***************************************************************************)
TextsOf(list) ==
  FoldLeft(LAMBDA kept, h : IF h = NoText THEN kept ELSE Append(kept, h), <<>>, list)

ParseHosts(reply) ==
  IF reply.status # 200 \/ reply.result # "success" THEN {}
  ELSE {[hosts |-> TextsOf(reply.hosts),
         min_conn |-> reply.min_conn % U32]}

(* run_connect: 0, or more than there are, stands for all hosts. *)
Threshold(hosts, min_conn) ==
  IF min_conn = 0 \/ min_conn > Len(hosts) THEN Len(hosts) ELSE min_conn

(***************************************************************************)
(* "Never require more connections than there are hosts to dial"           *)
(* (conn.rs:77): of a reply the threshold is the number it wants if there  *)
(* are as many hosts, else all of them, and never 0 when there is a host,  *)
(* also when the number does not fit its 32 bits.                          *)
(***************************************************************************)
ThresholdFits(reply) ==
  \A p \in ParseHosts(reply) :
    LET t == Threshold(p.hosts, p.min_conn)
    IN  /\ t \in (IF p.hosts = <<>> THEN {0} ELSE 1..Len(p.hosts))
        /\ reply.min_conn < U32 =>
             t = (IF reply.min_conn \in 1..Len(p.hosts) THEN reply.min_conn ELSE Len(p.hosts))
============================================================================
