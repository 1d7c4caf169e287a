------------------------------- MODULE OscCodec ------------------------------
(***************************************************************************)
(* Open Sound Control: encode() of oxisound-osc, a datagram that may be    *)
(* damaged or cut short on its way, and decode(), one bundle element, type *)
(* tag or argument a step.  What was received is sent on once more, as a   *)
(* relay does.                                                             *)
(*                                                                         *)
(* A packet is [kind |-> "message", address, args] or [kind |-> "bundle",  *)
(* time, elements]; an argument is [tag, data], its data the big-endian    *)
(* bytes, or [tag |-> "array", items].  Strings hold the code points below *)
(* 128, among which every byte string is UTF-8 and no other byte is.       *)
(* A length beyond TLC's integers is one that exceeds the data: on a       *)
(* target where it also overflows usize the code returns the same error.   *)
(***************************************************************************)
EXTENDS Integers, SequencesExt

CONSTANTS
    Packets,          \* the packets explored
    DamagedTo,        \* what a damaged byte may turn into
    MaxNestingDepth   \* 32 in the code

VARIABLES
    packet,    \* what was sent
    datagram,  \* its bytes, as they arrive
    damage,    \* "none", "cut" or "byte": what happened on the first hop
    hop,       \* 1, or 2 once the packet was sent on
    step,      \* "send", "network", "packet", "element", "args", "done", "error" or
               \* "lost"
    bundles,   \* decode's recursion: the bundles around the current packet
    slice,     \* the bytes of the current packet
    message,   \* the message being read: [address, pos, tags, lists]
    received   \* what decode() returned

oscVars == <<packet, datagram, damage, hop, step, bundles, slice, message, received>>

NoMessage == [address |-> <<>>, pos |-> 0, tags |-> <<>>, lists |-> <<>>]

-----------------------------------------------------------------------------
(* encode() *)

TypeTag == [i |-> 105, f |-> 102, s |-> 115, b |-> 98, h |-> 104, d |-> 100, t |-> 116,
            c |-> 99, r |-> 114, m |-> 109, T |-> 84, F |-> 70, N |-> 78, I |-> 73]
FixedSize == [i |-> 4, f |-> 4, h |-> 8, d |-> 8, t |-> 8, c |-> 4, r |-> 4, m |-> 4,
              T |-> 0, F |-> 0, N |-> 0, I |-> 0]

OpenBracket  == 91
CloseBracket == 93
Comma        == 44
Slash        == 47
BundleMagic  == <<35, 98, 117, 110, 100, 108, 101, 0>>

Align4(n) == n + ((-n) % 4)

\* What is padded starts at a multiple of 4: every part of a packet is one long.
Pad4(bytes) == bytes \o [k \in 1 .. Align4(Len(bytes)) - Len(bytes) |-> 0]
U32(n) == <<0, 0, n \div 256, n % 256>>

\* Mutant: a string that fills its last word gets no NUL.
WriteStrPadded(s) == Pad4(s)

WriteStr(s) == Pad4(Append(s, 0))
WriteBlob(b) == Pad4(U32(Len(b)) \o b)

RECURSIVE CollectTypeTags(_)
CollectTypeTags(args) ==
    FlattenSeq([k \in DOMAIN args |->
        IF args[k].tag = "array"
        THEN <<OpenBracket>> \o CollectTypeTags(args[k].items) \o <<CloseBracket>>
        ELSE <<TypeTag[args[k].tag]>>])

\* The brackets are in the type tags only: the bytes are flat.
RECURSIVE WriteArgs(_)
WriteArgs(args) ==
    FlattenSeq([k \in DOMAIN args |->
        CASE args[k].tag = "array" -> WriteArgs(args[k].items)
          [] args[k].tag = "s"     -> WriteStr(args[k].data)
          [] args[k].tag = "b"     -> WriteBlob(args[k].data)
          [] OTHER                 -> args[k].data])

EncodeMessage(m) ==
    WriteStr(m.address) \o WriteStr(<<Comma>> \o CollectTypeTags(m.args)) \o WriteArgs(m.args)

RECURSIVE Encode(_)
Encode(p) ==
    IF p.kind = "message" THEN EncodeMessage(p)
    ELSE BundleMagic \o p.time
         \o FlattenSeq([k \in DOMAIN p.elements |->
                LET bytes == Encode(p.elements[k]) IN U32(Len(bytes)) \o bytes])

-----------------------------------------------------------------------------
(* The endpoints and the network. *)

OscInit ==
    /\ packet \in Packets
    /\ datagram = <<>> /\ slice = <<>> /\ damage = "none"
    /\ hop = 1 /\ step = "send"
    /\ bundles = <<>> /\ message = NoMessage /\ received = <<>>

\* OscSender::send, of what the application has or of what the relay received.
Send ==
    /\ step = "send"
    /\ datagram' = Encode(IF hop = 1 THEN packet ELSE received)
    /\ step' = "network"
    /\ UNCHANGED <<packet, damage, hop, bundles, slice, message, received>>

\* send_to() fails, or the datagram is lost and recv() gives up at its timeout.
Lose ==
    /\ step = "network"
    /\ step' = "lost"
    /\ UNCHANGED <<packet, datagram, damage, hop, bundles, slice, message, received>>

\* OscReceiver::recv: the datagram arrives, on the first hop perhaps damaged.
Receive ==
    /\ step = "network"
    /\ \/ UNCHANGED <<datagram, damage>>
       \/ /\ hop = 1
          /\ \E n \in 0 .. Len(datagram) - 1 : datagram' = SubSeq(datagram, 1, n)
          /\ damage' = "cut"
       \/ /\ hop = 1
          /\ \E k \in DOMAIN datagram, b \in DamagedTo : datagram' = [datagram EXCEPT ![k] = b]
          /\ damage' = "byte"
    /\ slice' = datagram' /\ bundles' = <<>> /\ message' = NoMessage
    /\ step' = "packet"
    /\ UNCHANGED <<packet, hop, received>>

-----------------------------------------------------------------------------
(* The readers: what is at offset p of d, [value, next]; none for an error. *)

ReadBytes(d, p, n) ==
    IF p + n <= Len(d) THEN {[value |-> SubSeq(d, p + 1, p + n), next |-> p + n]} ELSE {}

\* A string may start beyond the data: the padding of the one before it did.
ReadStr(d, p) ==
    LET nuls == {k \in p + 1 .. Len(d) : d[k] = 0}
        nul  == CHOOSE k \in nuls : \A other \in nuls : k <= other
        s    == SubSeq(d, p + 1, nul - 1)
    IN  IF p <= Len(d) /\ nuls # {} /\ \A k \in DOMAIN s : s[k] < 128
        THEN {[value |-> s, next |-> Align4(nul)]} ELSE {}

\* A length whose upper half is not 0 exceeds every datagram (65 507 bytes).
ReadLength(d, p) ==
    {[value |-> 256 * r.value[3] + r.value[4], next |-> r.next] :
        r \in {x \in ReadBytes(d, p, 4) : x.value[1] = 0 /\ x.value[2] = 0}}

ReadBlob(d, p) ==
    UNION {{[value |-> b.value, next |-> Align4(b.next)] : b \in ReadBytes(d, len.next, len.value)} :
              len \in ReadLength(d, p)}

\* char::from_u32
IsChar(code) ==
    /\ code[1] = 0 /\ code[2] <= 16
    /\ ~(code[2] = 0 /\ code[3] \in 216 .. 223)

TagNames == DOMAIN TypeTag

ReadSingleArg(d, p, byte) ==
    UNION {
        {[value |-> [tag |-> name, data |-> r.value], next |-> r.next] :
            r \in CASE name = "s" -> ReadStr(d, p)
                    [] name = "b" -> ReadBlob(d, p)
                    [] name = "c" -> {x \in ReadBytes(d, p, 4) : IsChar(x.value)}
                    [] OTHER      -> ReadBytes(d, p, FixedSize[name])} :
        name \in {t \in TagNames : TypeTag[t] = byte}}

-----------------------------------------------------------------------------
(* decode() *)

Depth == Len(bundles)
Inner == bundles[Depth]
Starts == IF IsPrefix(BundleMagic, slice) THEN "bundle"
          ELSE IF slice # <<>> /\ slice[1] = Slash THEN "message" ELSE "neither"

Fail ==
    /\ step' = "error"
    /\ UNCHANGED <<packet, datagram, damage, hop, bundles, slice, message, received>>

\* A finished packet is an element of the bundle around it, or the result.
Yield(p) ==
    IF Depth = 0 THEN received' = p /\ step' = "done" /\ UNCHANGED bundles
    ELSE /\ bundles' = [bundles EXCEPT ![Depth].elements = Append(@, p)]
         /\ step' = "element" /\ UNCHANGED received

BeginBundle ==
    /\ step = "packet" /\ Depth <= MaxNestingDepth /\ Starts = "bundle"
    /\ \E time \in ReadBytes(slice, 8, 8) :
        bundles' = Append(bundles,
            [bytes |-> slice, pos |-> time.next, time |-> time.value, elements |-> <<>>])
    /\ step' = "element"
    /\ UNCHANGED <<packet, datagram, damage, hop, slice, message, received>>

\* The address and the type tags; a message without a ',' has no arguments.
Headers ==
    UNION {
        IF a.next < Len(slice) /\ slice[a.next + 1] = Comma
        THEN {[address |-> a.value, pos |-> t.next, tags |-> Tail(t.value), lists |-> << <<>> >>] :
                 t \in ReadStr(slice, a.next)}
        ELSE {[address |-> a.value, pos |-> a.next, tags |-> <<>>, lists |-> << <<>> >>]} :
        a \in ReadStr(slice, 0)}

BeginMessage ==
    /\ step = "packet" /\ Depth <= MaxNestingDepth /\ Starts = "message"
    /\ message' \in Headers
    /\ step' = "args"
    /\ UNCHANGED <<packet, datagram, damage, hop, bundles, slice, received>>

PacketError ==
    /\ step = "packet"
    /\ \/ Depth > MaxNestingDepth
       \/ Starts = "neither"
       \/ Starts = "bundle" /\ ReadBytes(slice, 8, 8) = {}
       \/ Starts = "message" /\ Headers = {}
    /\ Fail

\* Mutant: a bundle's last element may be shorter than its length says.
ElementsClipped ==
    {[value |-> SubSeq(Inner.bytes, len.next + 1, Min({len.next + len.value, Len(Inner.bytes)})),
      next  |-> len.next + len.value] : len \in ReadLength(Inner.bytes, Inner.pos)}

\* The next element: a length, and that many bytes.
Elements ==
    UNION {ReadBytes(Inner.bytes, len.next, len.value) : len \in ReadLength(Inner.bytes, Inner.pos)}

BeginElement ==
    /\ step = "element" /\ Inner.pos < Len(Inner.bytes)
    /\ \E e \in Elements : slice' = e.value /\ bundles' = [bundles EXCEPT ![Depth].pos = e.next]
    /\ step' = "packet"
    /\ UNCHANGED <<packet, datagram, damage, hop, message, received>>

ElementError == step = "element" /\ Inner.pos < Len(Inner.bytes) /\ Elements = {} /\ Fail

EndBundle ==
    /\ step = "element" /\ Inner.pos >= Len(Inner.bytes)
    /\ LET bundle == [kind |-> "bundle", time |-> Inner.time, elements |-> Inner.elements]
           outer  == Front(bundles)
       IN  IF outer = <<>> THEN received' = bundle /\ step' = "done" /\ bundles' = <<>>
           ELSE /\ bundles' = [outer EXCEPT ![Len(outer)].elements = Append(@, bundle)]
                /\ UNCHANGED <<step, received>>
    /\ UNCHANGED <<packet, datagram, damage, hop, slice, message>>

\* read_typed_args: the next tag, and the list of arguments it belongs to.
NextTag == Head(message.tags)
Open == Len(message.lists)
InArgs(tag) == step = "args" /\ message.tags # <<>> /\ NextTag \in tag
ArgTags == 0 .. 127 \ {OpenBracket, CloseBracket}

\* Mutant: the array that would be one too deep is opened.
OpenArrayLate ==
    /\ InArgs({OpenBracket}) /\ Open <= MaxNestingDepth
    /\ message' = [message EXCEPT !.tags = Tail(@), !.lists = Append(@, <<>>)]
    /\ UNCHANGED <<packet, datagram, damage, hop, step, bundles, slice, received>>

OpenArray ==
    /\ InArgs({OpenBracket}) /\ Open < MaxNestingDepth
    /\ message' = [message EXCEPT !.tags = Tail(@), !.lists = Append(@, <<>>)]
    /\ UNCHANGED <<packet, datagram, damage, hop, step, bundles, slice, received>>

CloseArray ==
    /\ InArgs({CloseBracket}) /\ Open > 1
    /\ LET array == [tag |-> "array", items |-> message.lists[Open]]
       IN  message' = [message EXCEPT !.tags = Tail(@),
                           !.lists = [Front(@) EXCEPT ![Open - 1] = Append(@, array)]]
    /\ UNCHANGED <<packet, datagram, damage, hop, step, bundles, slice, received>>

Argument ==
    /\ InArgs(ArgTags)
    /\ \E r \in ReadSingleArg(slice, message.pos, NextTag) :
        message' = [message EXCEPT !.tags = Tail(@), !.pos = r.next,
                                   !.lists[Open] = Append(@, r.value)]
    /\ UNCHANGED <<packet, datagram, damage, hop, step, bundles, slice, received>>

ArgsError ==
    /\ step = "args"
    /\ \/ InArgs({OpenBracket}) /\ Open >= MaxNestingDepth
       \/ InArgs({CloseBracket}) /\ Open = 1
       \/ InArgs(ArgTags) /\ ReadSingleArg(slice, message.pos, NextTag) = {}
       \/ message.tags = <<>> /\ Open # 1
    /\ Fail

EndMessage ==
    /\ step = "args" /\ message.tags = <<>> /\ Open = 1
    /\ Yield([kind |-> "message", address |-> message.address, args |-> message.lists[1]])
    /\ UNCHANGED <<packet, datagram, damage, hop, slice, message>>

\* The relay sends on what it received.
Forward ==
    /\ step = "done" /\ hop = 1
    /\ hop' = 2 /\ packet' = received /\ step' = "send"
    /\ UNCHANGED <<datagram, damage, bundles, slice, message, received>>

OscNext ==
    \/ Send \/ Lose \/ Receive \/ Forward
    \/ BeginBundle \/ BeginMessage \/ PacketError
    \/ BeginElement \/ ElementError \/ EndBundle
    \/ OpenArray \/ CloseArray \/ Argument \/ ArgsError \/ EndMessage

-----------------------------------------------------------------------------
(* Properties. *)

RECURSIVE ArrayDepth(_)
ArrayDepth(args) ==
    Max({0} \cup {1 + ArrayDepth(args[k].items) :
                         k \in {n \in DOMAIN args : args[n].tag = "array"}})

\* Bundles at most MaxNestingDepth + 1 deep with nothing but messages inside the last
\* but one, arrays one less than MaxNestingDepth deep: what decode() accepts.
RECURSIVE Fits(_, _)
Fits(p, depth) ==
    /\ depth <= MaxNestingDepth
    /\ IF p.kind = "message" THEN ArrayDepth(p.args) < MaxNestingDepth
       ELSE \A k \in DOMAIN p.elements : Fits(p.elements[k], depth + 1)

\* encode() takes packets of any depth, decode() does not: a packet arrives as it was
\* sent if it is within the decoder's depths, and is refused otherwise.
ArrivesIfItFits ==
    damage = "none" /\ hop = 1 =>
        /\ step = "error" => ~Fits(packet, 0)
        /\ step = "done"  => Fits(packet, 0) /\ received = packet


\* decode() "returns an error if the data is truncated": except where the rest is a
\* packet of its own, a message without its arguments or a bundle with fewer elements.
\* No argument or element is ever made of other bytes than its own.
TruncationInventsNothing ==
    damage = "cut" /\ hop = 1 /\ step = "done" =>
        \/ received = packet
        \/ packet.kind = "message" /\ received = [packet EXCEPT !.args = <<>>]
        \/ packet.kind = "bundle" /\ received.kind = "bundle" /\ received.time = packet.time
           /\ IsPrefix(received.elements, packet.elements)

\* Whatever decode() makes of a damaged datagram is a packet: it can be sent on, and
\* is received again as it is.
ReceivedCanBeForwarded ==
    hop = 2 => step # "error" /\ (step = "done" => received = packet)

\* The codec and the socket between two endpoints: what arrives is what was sent, or
\* what is left of it, and nothing a decoder accepts is beyond an encoder.
PacketsStayWhole == ArrivesIfItFits /\ TruncationInventsNothing /\ ReceivedCanBeForwarded
=============================================================================
