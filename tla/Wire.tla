-------------------------------- MODULE Wire --------------------------------
(***************************************************************************)
(* The packets of the protocol.  A byte is a number below 2 * Base, and a  *)
(* varint has its groups in base Base, so that small bytes show what real  *)
(* ones do.  A parser returns a set, empty when it fails; errors are not   *)
(* told apart, for each of them ends the session.                          *)
(***************************************************************************)
EXTENDS Integers, Sequences, FiniteSets, FiniteSetsExt, SequencesExt

CONSTANTS
  Base,        \* values of a varint group (128)
  MaxGroups,   \* groups of a 64-bit varint (10)
  Word,        \* values of a u64
  Sizes,       \* values of a usize: of 32-bit and of 64-bit builds
  IdLen,       \* bytes of a message id (16)
  MaxName      \* longest name that is accepted (256)

(* v as a varint's encoder shifts it: without its n lowest groups. *)
Shifted(v) ==
  LET rest[n \in 0..MaxGroups] == IF n = 0 THEN v ELSE rest[n - 1] \div Base
  IN  rest

ASSUME WireAssumption ==
  /\ {Base, MaxGroups, Word, IdLen} \subseteq Nat \ {0} /\ Base > 2
  /\ Shifted(Word - 1)[MaxGroups] = 0
  /\ Sizes \subseteq Nat \ {0} /\ MaxName \in Nat
  /\ \A size \in Sizes : size > MaxName /\ Word % size = 0

Bytes == 0..(2 * Base - 1)

(* The groups at first..last, of which the first is the lowest. *)
Grouped(buf, first, last) ==
  LET sum[n \in 0..(last - first + 1)] ==
        IF n = 0 THEN 0 ELSE Base * sum[n - 1] + (buf[last - n + 1] % Base)
  IN  sum[last - first + 1]

(* bottlers' read_uvarint: the value and the place after it. *)
ReadUvarint(buf, pos) ==
  LET ends == {i \in pos..Len(buf) : buf[i] < Base}
      last == Min(ends)
      v == Grouped(buf, pos, last)
  IN  IF ends = {} THEN {} ELSE IF last - pos >= MaxGroups \/ v >= Word THEN {}
      ELSE {[v |-> v, next |-> last + 1]}

(* append_uvarint *)
Uvarint(v) ==
  LET n == Min({k \in 1..MaxGroups : Shifted(v)[k] = 0})
  IN  [i \in 1..n |-> (Shifted(v)[i - 1] % Base) + (IF i < n THEN Base ELSE 0)]

(* String::from_utf8_lossy; a byte that is no text becomes U+FFFD, which   *)
(* takes three.                                                            *)
Replacement == 2 * Base
Lossy(bytes) == [i \in DOMAIN bytes |-> IF bytes[i] < Base THEN bytes[i] ELSE Replacement]
Text(name) ==
  FlattenSeq([i \in DOMAIN name |->
    IF name[i] = Replacement THEN <<Base, Base, Base>> ELSE <<name[i]>>])

(* Mutant: a length that fits the buffer is long enough. *)
ReadNameAnyLength(buf, pos, size) ==
  {[v |-> Lossy(SubSeq(buf, r.next, r.next + (r.v % size) - 1)), next |-> r.next + (r.v % size)] :
     r \in {r \in ReadUvarint(buf, pos) : r.v % size <= Len(buf) - (r.next - 1)}}

(***************************************************************************)
(* read_name: the length is cast to usize, then checked against the limit  *)
(* and against what is left.                                               *)
(***************************************************************************)
ReadName(buf, pos, size) ==
  {[v |-> Lossy(SubSeq(buf, r.next, r.next + (r.v % size) - 1)), next |-> r.next + (r.v % size)] :
     r \in {r \in ReadUvarint(buf, pos) :
              r.v % size <= MaxName /\ r.v % size <= Len(buf) - (r.next - 1)}}

(* Message::parse *)
ParseMessage(buf, size) ==
  IF Len(buf) < IdLen THEN {}
  ELSE UNION {UNION {{[message_id |-> SubSeq(buf, 1, IdLen), flags |-> f.v,
                       recipient |-> r.v, sender |-> s.v, body |-> SubSeq(buf, s.next, Len(buf))] :
                s \in ReadName(buf, r.next, size)} :
                r \in ReadName(buf, f.next, size)} :
                f \in ReadUvarint(buf, IdLen + 1)}

(* Message::to_bytes, and InstantMessage::to_bytes. *)
EncodeMessage(m) ==
  m.message_id \o Uvarint(m.flags)
    \o Uvarint(Len(Text(m.recipient))) \o Text(m.recipient)
    \o Uvarint(Len(Text(m.sender))) \o Text(m.sender) \o m.body
----------------------------------------------------------------------------
(***************************************************************************)
(* Handshakes.  CBOR is a sequence of entries: a key, the type of its      *)
(* value, the value.                                                       *)
(***************************************************************************)
Entry(key, type, val) == [key |-> key, type |-> type, val |-> val]

NoRequest == [rdy |-> FALSE, srv |-> "", cid |-> "", rnd |-> "", grp |-> {}, raw |-> {}]
NoResponse == [id |-> "", key |-> "", sig |-> <<>>]

(* Elements of "grp" that are no byte strings are left out. *)
BytesOnly(items) ==
  FoldLeft(LAMBDA kept, x : IF x = "text" THEN kept ELSE Append(kept, x), <<>>, items)

(* HandshakeRequest::from_cbor: entries of another key or type are skipped, *)
(* and of those that repeat the last counts.                               *)
RequestEntry(req, e) ==
  CASE e.key = "rdy" /\ e.type = "bool"  -> [req EXCEPT !.rdy = e.val]
    [] e.key = "srv" /\ e.type = "text"  -> [req EXCEPT !.srv = e.val]
    [] e.key = "cid" /\ e.type = "text"  -> [req EXCEPT !.cid = e.val]
    [] e.key = "rnd" /\ e.type = "bytes" -> [req EXCEPT !.rnd = e.val]
    [] e.key = "grp" /\ e.type = "array" -> [req EXCEPT !.grp = {BytesOnly(e.val)}]
    [] OTHER -> req
RequestFromCbor(entries) ==
  FoldLeft(RequestEntry, [NoRequest EXCEPT !.raw = {entries}], entries)

(* HandshakeRequest::to_cbor *)
RequestToCbor(req) ==
  (IF req.rdy THEN <<Entry("rdy", "bool", TRUE)>> ELSE <<>>)
    \o <<Entry("srv", "text", req.srv), Entry("cid", "text", req.cid),
         Entry("rnd", "bytes", req.rnd)>>
    \o (IF req.grp = {} THEN <<Entry("grp", "null", "")>>
        ELSE [i \in {1} |-> Entry("grp", "array", CHOOSE g \in req.grp : TRUE)])

(* Mutant: the signature covers what was understood of the request. *)
RespondRebuilds(req, pkix) == [NoResponse EXCEPT !.key = pkix, !.sig = RequestToCbor(req)]

(* HandshakeRequest::respond; a signature is what it covers. *)
Respond(req, pkix) ==
  [NoResponse EXCEPT !.key = pkix,
     !.sig = IF req.raw = {} THEN RequestToCbor(req) ELSE CHOOSE r \in req.raw : TRUE]

(* HandshakeResponse::to_cbor and from_cbor *)
ResponseToCbor(res) ==
  <<IF res.id = "" THEN Entry("id", "null", "") ELSE Entry("id", "bytes", res.id),
    Entry("key", "bytes", res.key), Entry("sig", "bytes", res.sig)>>

ResponseEntry(res, e) ==
  CASE e.key = "id"  /\ e.type = "bytes" -> [res EXCEPT !.id = e.val]
    [] e.key = "key" /\ e.type = "bytes" -> [res EXCEPT !.key = e.val]
    [] e.key = "sig" /\ e.type = "bytes" -> [res EXCEPT !.sig = e.val]
    [] OTHER -> res
ResponseFromCbor(entries) == FoldLeft(ResponseEntry, NoResponse, entries)
----------------------------------------------------------------------------
(* version_and_packet, with as many versions as packet types fit a byte. *)
Nibble == Base
Version(b) == (b \div Nibble) % Nibble
PacketType(b) == b % Nibble

PING_PONG == 0
HANDSHAKE == 1
INSTANT_MSG == 2

(***************************************************************************)
(* packet.rs: parse.  After the first byte of a handshake come entries.    *)
(***************************************************************************)
ParsePacket(buf, is_client, size) ==
  IF buf = <<>> THEN {} ELSE IF Version(buf[1]) # 0 THEN {}
  ELSE CASE PacketType(buf[1]) = PING_PONG -> {[type |-> PING_PONG, payload |-> Tail(buf)]}
         [] PacketType(buf[1]) = HANDSHAKE ->
              {[type |-> HANDSHAKE, payload |->
                 IF is_client THEN RequestFromCbor(Tail(buf)) ELSE ResponseFromCbor(Tail(buf))]}
         [] PacketType(buf[1]) = INSTANT_MSG ->
              {[type |-> INSTANT_MSG, payload |-> m] : m \in ParseMessage(Tail(buf), size)}
         [] OTHER -> {}

(* Packet::encode *)
EncodePacket(pkt) ==
  <<pkt.type>> \o
    IF pkt.type = PING_PONG THEN pkt.payload
    ELSE IF pkt.type = INSTANT_MSG THEN EncodeMessage(pkt.payload)
    ELSE IF "sig" \in DOMAIN pkt.payload THEN ResponseToCbor(pkt.payload)
    ELSE RequestToCbor(pkt.payload)
----------------------------------------------------------------------------
(***************************************************************************)
(* InstantMessage: the same message as a bottle with headers.  Its flags   *)
(* become an i64, and an i128 on the way back.                             *)
(***************************************************************************)
AsI64(w) == IF w >= Word \div 2 THEN w - Word ELSE w
AsU64(i) == i % Word

(* A header that is not there is the empty set. *)
Bottle(m) ==
  [body |-> m.body, mid |-> {m.message_id},
   flg |-> IF m.flags = 0 THEN {} ELSE {AsI64(m.flags)},
   dst |-> {m.recipient} \ {<<>>}, rto |-> {m.sender} \ {<<>>}]

HeaderOr(h, default) == IF h = {} THEN default ELSE CHOOSE v \in h : TRUE

(* Mutant: a flag word with the sign bit set is taken for no flags. *)
DecodeNonNegative(b) ==
  {[message_id |-> [i \in 1..IdLen |-> IF i <= Len(mid) THEN mid[i] ELSE 0],
    flags |-> IF \E f \in b.flg : f > 0 THEN CHOOSE f \in b.flg : TRUE ELSE 0,
    recipient |-> HeaderOr(b.dst, <<>>), sender |-> HeaderOr(b.rto, <<>>),
    body |-> b.body] : mid \in b.mid}

(* InstantMessage::decode; a "mid" that is short leaves zeroes behind it. *)
Decode(b) ==
  {[message_id |-> [i \in 1..IdLen |-> IF i <= Len(mid) THEN mid[i] ELSE 0],
    flags |-> AsU64(HeaderOr(b.flg, 0)),
    recipient |-> HeaderOr(b.dst, <<>>), sender |-> HeaderOr(b.rto, <<>>),
    body |-> b.body] : mid \in b.mid}

(* InstantMessage::read_header *)
ReadHeader(buf) ==
  IF Len(buf) < IdLen THEN {}
  ELSE {[id |-> SubSeq(buf, 1, IdLen), flags |-> f.v, next |-> f.next] :
          f \in ReadUvarint(buf, IdLen + 1)}
----------------------------------------------------------------------------
Readable(m) ==
  \A name \in {m.recipient, m.sender} : \A i \in DOMAIN name : name[i] # Replacement

(***************************************************************************)
(* What a peer makes of a packet and sends on is the same packet to the    *)
(* next, whatever forms its varints had.  Names that were no text are the  *)
(* exception: they grow, maybe beyond what the next accepts.               *)
(***************************************************************************)
RelayKeepsPackets(buf) ==
  \A size \in Sizes :
    (buf # <<>> => PacketType(buf[1]) # HANDSHAKE) =>
      \A pkt \in ParsePacket(buf, TRUE, size) :
        (pkt.type = INSTANT_MSG => Readable(pkt.payload)) =>
          ParsePacket(EncodePacket(pkt), TRUE, size) = {pkt}

(***************************************************************************)
(* Any bytes give names within the limit, and on a 64-bit build of the     *)
(* length they state.  On a 32-bit build the length is only known modulo   *)
(* its usize.                                                              *)
(***************************************************************************)
NamesAreBounded(buf) ==
  \A size \in Sizes : \A m \in ParseMessage(buf, size) :
    /\ Len(m.recipient) <= MaxName /\ Len(m.sender) <= MaxName
    /\ \A f \in ReadUvarint(buf, IdLen + 1) : \A r \in ReadUvarint(buf, f.next) :
         /\ r.v % size = Len(m.recipient)
         /\ size = Word => r.v = Len(m.recipient)

(***************************************************************************)
(* A message can change between its two forms, Message and bottle, and     *)
(* keep its id, its flags (all 64 of them), its names and its body; the    *)
(* header alone says the same.                                             *)
(***************************************************************************)
FormsAgree(buf) ==
  \A size \in Sizes : \A m \in ParseMessage(buf, size) :
    /\ Decode(Bottle(m)) = {m}
    /\ \A h \in ReadHeader(buf) : h.id = m.message_id /\ h.flags = m.flags

(***************************************************************************)
(* The signature of a response verifies against the bytes the server sent, *)
(* also when they hold entries the client does not know or reads another   *)
(* way (handshake.rs:198); requests and responses survive their encoding.  *)
(***************************************************************************)
HandshakeIsExact(entries, pkix, card) ==
  \A size \in Sizes : \A pkt \in ParsePacket(<<HANDSHAKE>> \o entries, TRUE, size) :
    LET req == pkt.payload
        res == [Respond(req, pkix) EXCEPT !.id = card]
        Again(p, is_client) ==
          ParsePacket(EncodePacket([type |-> HANDSHAKE, payload |-> p]), is_client, size)
    IN  /\ res.sig = entries
        /\ {[p.payload EXCEPT !.raw = req.raw] : p \in Again(req, TRUE)} = {req}
        /\ {p.payload : p \in Again(res, FALSE)} = {res}
============================================================================
