------------------------------ MODULE MCCodec -------------------------------
(* Wire and Encodings for TLC: every sequence of at most MaxLen symbols is *)
(* an input, and each property reads it in its own alphabet.               *)
EXTENDS Wire, Encodings, TLC

CONSTANT MaxLen   \* longest input

VARIABLE input

Symbols == 1..6

Init == input = <<>>
Next == Len(input) < MaxLen /\ \E s \in Symbols : input' = Append(input, s)
Spec == Init /\ [][Next]_input

In(alphabet) == [i \in DOMAIN input |-> alphabet[input[i]]]

Data == In(<<0, 1, Dot, 128, 254, 255>>)
Wired == In(<<0, 1, 2, 3, 4, 5>>)
Label == In(<<0, 1, 16, 31, 32, Dash>>)
Name == In(<<LetterK, Dot, Slash, 5, 63, 66>>)
Entries ==
  In(<<Entry("rdy", "bool", TRUE), Entry("srv", "text", "s"), Entry("srv", "bytes", "t"),
       Entry("grp", "array", <<"m", "text">>), Entry("grp", "null", ""),
       Entry("new", "text", "x")>>)
Reply ==
  [status |-> IF Wired # <<>> /\ Wired[1] = 0 THEN 500 ELSE 200,
   result |-> IF Wired # <<>> /\ Wired[1] = 1 THEN "error" ELSE "success",
   min_conn |-> IF Len(Wired) < 2 THEN 0 ELSE Wired[2],
   hosts |-> [i \in 1..Len(Wired) - 2 |-> IF Wired[i + 2] = 0 THEN NoText ELSE "host"]]

(***************************************************************************)
(* Key hashes survive in client ids, whatever server and endpoint stand    *)
(* with them (recipient_hash, base64url_decode).                           *)
(***************************************************************************)
IdsOk ==
  LET n == Len(input) \div 2
  IN  /\ HashesRoundTrip(Data, <<>>, Name)
      /\ HashesRoundTrip(SubSeq(Data, 1, n), SubSeq(Data, n + 1, Len(input)), <<>>)

(* lookup_host finds the addresses in a name, no other ones, and all. *)
NamesOk == NamesGiveTheirAddresses(Label)

(* Texts the client parses. *)
TextsOk == IdsOk /\ NamesOk

(***************************************************************************)
(* Replies of the servers.  parse_server_time is exact wherever a          *)
(* SystemTime can be; parse_hosts and run_connect agree on a threshold     *)
(* that the hosts they take can meet.                                      *)
(***************************************************************************)
RepliesOk == TimeIsExact(Wired) /\ ThresholdFits(Reply)

(***************************************************************************)
(* Packets and messages.  Packet::encode undoes parse, and read_name keeps *)
(* to its limit on both widths of usize.                                   *)
(***************************************************************************)
PacketsOk == RelayKeepsPackets(Wired) /\ NamesAreBounded(Wired)

(* Message, InstantMessage and the header reader agree. *)
FormsOk == FormsAgree(Wired)

(* respond signs what came; handshake packets survive their encoding. *)
HandshakeOk == \A card \in {"", "card"} : HandshakeIsExact(Entries, "pkix", card)
=============================================================================
