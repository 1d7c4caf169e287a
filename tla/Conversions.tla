---------------------------- MODULE Conversions -----------------------------
(***************************************************************************)
(* What changes hands between the crates: samples, as an application's     *)
(* floats, PCM bytes on PulseAudio's wire and floats again, and channel    *)
(* layouts, as a routing of the core, a channel map of oxiaudio-core and a *)
(* routing again.                                                          *)
(*                                                                         *)
(* A relay plays what it captures, so that samples are decoded and encoded *)
(* over and over, in one format or another.  A float is a fraction         *)
(* [num, scale] whose scale is a power of two, or NaN; a product of floats *)
(* is rounded to the 24 bits an f32 keeps.  PCM of 32 bits is left out: it *)
(* is beyond TLC's integers.                                               *)
(***************************************************************************)
EXTENDS PulseNegotiation, FiniteSetsExt, SequencesExt

CONSTANTS
    NaN,
    Relayed,     \* the formats, of oxiaudio-core, a relay asks for
    Played,      \* the samples an application plays: pairs of floats, in order
    Routings,    \* the routings an application makes up: sequences of <<channel, index>>
    MaxHops      \* bound: times a relay hands the samples on

VARIABLES
    sound,       \* what the application played
    format,      \* the wire format the samples are in, or None
    wire,        \* their bytes
    slack,       \* history: what the hops so far may have moved a sample by
    hops,
    routing,     \* the application's
    channelMap,  \* what oxiaudio-core got of it, or None
    returned     \* what came back of that, or None

soundVars   == <<sound, format, wire, slack, hops>>
routingVars == <<routing, channelMap, returned>>
vars == <<soundVars, routingVars>>

\* The floats: those with a part finer than 2^-23, a step of 24 bits, are left out.
Sample == [num : Int, scale : {2 ^ k : k \in 0 .. 23}]

\* A float in steps of 24 bits.
Level(s) == s.num * (2 ^ 23 \div s.scale)

-----------------------------------------------------------------------------
(* Formats, by the name each crate has for them. *)

\* SampleFormat::from(oxiaudio_core::SampleFormat), and to_oxiaudio() back.
FromAudio == [U8 |-> "u8", I16 |-> "i16", I24 |-> "i24", I32 |-> "i32", F32 |-> "f32", F64 |-> "f64"]
ToAudio(f) == CHOOSE a \in DOMAIN FromAudio : FromAudio[a] = f

\* SampleFormat::byte_size
ByteSize == [u8 |-> 1, i16 |-> 2, i24 |-> 3, f32 |-> 4, i32 |-> 4, f64 |-> 8]

-----------------------------------------------------------------------------
(* Samples. *)

Magnitude(n) == IF n < 0 THEN -n ELSE n
Top(f) == 2 ^ (8 * BytesPerSample(f) - 1)

\* clamp_unit(): what is not a number is silence.
ClampUnit(s) ==
    IF s = NaN THEN [num |-> 0, scale |-> 1]
    ELSE [s EXCEPT !.num = Greatest(-s.scale, Smallest(s.num, s.scale))]

\* num * (top - 1) / scale, as a whole number and a part of `scale`.
Product(num, scale, top) ==
    LET ratio == scale \div top
        whole == IF top >= scale THEN num * (top \div scale) ELSE num \div ratio
        part  == IF top >= scale THEN -num ELSE (num % ratio) * top - num
    IN  [whole |-> whole + (part \div scale), part |-> part % scale]

\* The part as the product's mantissa keeps it: to the nearest, and to even half way.
KeptPart(p, scale) ==
    LET bits == CHOOSE b \in 0 .. 24 : p.whole < 2 ^ b /\ (b = 0 \/ p.whole >= 2 ^ (b - 1))
        unit == IF p.whole = 0 THEN 1 ELSE Greatest(scale \div 2 ^ (24 - bits), 1)
        down == p.part \div unit
        rest == p.part % unit
        up   == 2 * rest > unit \/ (2 * rest = unit /\ down % 2 = 1)
    IN  (IF up THEN down + 1 ELSE down) * unit

\* round(): half way goes away from zero.
Rounded(num, scale, top) ==
    LET p == Product(num, scale, top)
    IN  IF 2 * KeptPart(p, scale) >= scale THEN p.whole + 1 ELSE p.whole

\* Mutant: a cast where round() was.
QuantiseTruncating(s, f) ==
    LET u == ClampUnit(s)
        p == Product(Magnitude(u.num), u.scale, Top(f)).whole
    IN  IF u.num < 0 THEN -p ELSE p

\* The number an integer format has for a float.
Quantise(s, f) ==
    LET u == ClampUnit(s)
        n == Rounded(Magnitude(u.num), u.scale, Top(f))
    IN  IF u.num < 0 THEN -n ELSE n

\* encode_f32(), a sample: little-endian, and U8 counts from 0.
Encode(s, f) ==
    LET n == Quantise(s, f) % (2 * Top(f))
    IN  IF f = "u8" THEN <<Quantise(s, f) + 128>>
        ELSE [i \in 1 .. BytesPerSample(f) |-> (n \div 256 ^ (i - 1)) % 256]

\* The number up to three little-endian bytes are.
Unsigned(bytes) ==
    LET byte(i) == IF i \in DOMAIN bytes THEN bytes[i] ELSE 0
    IN  byte(1) + 256 * byte(2) + 65536 * byte(3)

\* decode_to_f32(), a sample: the sign is extended.
Decode(bytes, f) ==
    LET n == Unsigned(bytes)
        v == IF f = "u8" THEN n - 128 ELSE IF n >= Top(f) THEN n - 2 * Top(f) ELSE n
    IN  [num |-> v, scale |-> Top(f)]

\* The samples of a chunk, as many as are whole.
Heard ==
    LET size == BytesPerSample(format)
    IN  [i \in 1 .. Len(wire) \div size |-> Decode(SubSeq(wire, (i - 1) * size + 1, i * size), format)]

-----------------------------------------------------------------------------
(* Layouts. *)

\* Channel::standard_index
StandardIndex ==
    [FrontLeft |-> 0, FrontRight |-> 1, Center |-> 2, Lfe |-> 3, SurroundLeft |-> 4,
     SurroundRight |-> 5, BackLeft |-> 6, BackRight |-> 7]

\* stereo(), surround_5_1(), surround_7_1()
Preset(n) ==
    [i \in 1 .. n |-> <<CHOOSE c \in DOMAIN StandardIndex : StandardIndex[c] = i - 1, i - 1>>]
Presets == {Preset(n) : n \in {2, 6, 8}}

\* ChannelId::from(Channel)
ToChannelId ==
    [FrontLeft |-> "FrontLeft", FrontRight |-> "FrontRight", Center |-> "FrontCenter",
     Lfe |-> "LowFrequency", SurroundLeft |-> "SideLeft", SurroundRight |-> "SideRight",
     BackLeft |-> "RearLeft", BackRight |-> "RearRight"]

\* Channel::try_from(ChannelId): the height channels have no name in the core.
FromChannelId(id) ==
    LET names == {c \in DOMAIN ToChannelId : ToChannelId[c] = id}
    IN  IF names = {} THEN None ELSE CHOOSE c \in names : TRUE

\* Mutant: in the order the routing has them, whatever their indices.
MapOfUnsorted(r) == [i \in DOMAIN r |-> ToChannelId[r[i][1]]]

\* ChannelMap::from(&ChannelRouting): sorted by index, which is then forgotten.
MapOf(r) ==
    LET Before(i) == {j \in DOMAIN r : r[j][2] < r[i][2] \/ (r[j][2] = r[i][2] /\ j < i)}
        At(k)     == CHOOSE i \in DOMAIN r : Cardinality(Before(i)) = k - 1
    IN  [k \in DOMAIN r |-> ToChannelId[r[At(k)][1]]]

\* ChannelRouting::try_from(&ChannelMap): one channel without a name refuses the map.
RoutingOf(map) ==
    LET pairs == [i \in DOMAIN map |-> <<FromChannelId(map[i]), i - 1>>]
    IN  IF \E i \in DOMAIN pairs : pairs[i][1] = None THEN None ELSE pairs

ConversionAssumption ==
    /\ NaN \notin Sample
    /\ \A p \in Played :
          /\ p \in Seq(Sample \cup {NaN})
          /\ NaN \notin ToSet(p) => \A i \in 1 .. Len(p) - 1 : Level(p[i]) <= Level(p[i + 1])
    /\ Relayed \subseteq (DOMAIN FromAudio) \ {"I32"}
    /\ \A r \in Routings : r \in Seq((DOMAIN StandardIndex) \X Nat)

-----------------------------------------------------------------------------
Init ==
    /\ sound \in Played /\ format = None /\ wire = <<>> /\ slack = 0 /\ hops = 0
    /\ routing \in Presets \cup Routings /\ channelMap = None /\ returned = None

\* What one hop may move a sample by, in steps of 24 bits: a step of the format, and half of
\* one more where the float was finer.
Step(f, finer) == LET step == 2 ^ 23 \div Top(f) IN IF finer THEN step + step \div 2 ELSE step

\* A stream is asked for in a format, and the samples are written to it.  One of 32-bit
\* floats carries them as they are.
Write(a, samples) ==
    LET f == FromCore[FromAudio[a]] IN
    /\ hops < MaxHops /\ f # None
    /\ hops' = hops + 1
    /\ IF f = "float32le" THEN UNCHANGED <<format, wire, slack>>
       ELSE /\ format' = f
            /\ LET size == BytesPerSample(f) IN
               wire' = [k \in 1 .. size * Len(samples) |->
                           Encode(samples[((k - 1) \div size) + 1], f)[((k - 1) % size) + 1]]
            /\ slack' = slack + Step(f, format = None \/ Top(format) > Top(f))
    /\ UNCHANGED <<sound, routingVars>>

Play(a)  == format = None /\ Write(a, sound)
Relay(a) == format # None /\ Write(a, Heard)

\* to_oxiaudio_channel_map(), or a map the other crate came by itself.
HandOver ==
    /\ channelMap = None
    /\ \/ channelMap' = MapOf(routing)
       \/ channelMap' = <<"FrontLeft", "TopFrontLeft">>
    /\ UNCHANGED <<soundVars, routing, returned>>

HandBack ==
    /\ channelMap # None /\ returned = None
    /\ returned' = RoutingOf(channelMap)
    /\ UNCHANGED <<soundVars, routing, channelMap>>

Next == (\E a \in Relayed : Play(a) \/ Relay(a)) \/ HandOver \/ HandBack

Spec == Init /\ [][Next]_vars

-----------------------------------------------------------------------------
(* Properties. *)

\* However often samples are relayed, and in whatever formats, each is as far from what the
\* application played as the hops allow, and the louder of two is never the quieter.
RelayStaysClose ==
    format # None =>
        /\ Len(Heard) = Len(sound)
        /\ \A i \in DOMAIN sound : Magnitude(Level(Heard[i]) - Level(ClampUnit(sound[i]))) <= slack
        /\ \A i \in 1 .. Len(sound) - 1 :
              NaN \notin ToSet(sound) => Level(Heard[i]) <= Level(Heard[i + 1])

\* decode_to_f32() divides by one more than encode_f32() multiplies by; yet a sample of at
\* most half the scale comes back as it was, and none comes back louder.
QuietSamplesSurvive ==
    format # None =>
        \A i \in DOMAIN Heard :
            LET n == Heard[i].num
                again == Quantise(Heard[i], format)
            IN  /\ 2 * Magnitude(n) <= Top(format) => again = n
                /\ Magnitude(again) <= Magnitude(n)

\* A format has one name in each crate, and as many bytes in both.
FormatsAgree ==
    \A a \in DOMAIN FromAudio :
        LET f == FromAudio[a] IN
        /\ ToAudio(f) = a
        /\ FromCore[f] # None => ToCore[FromCore[f]] = f /\ BytesPerSample(FromCore[f]) = ByteSize[f]

\* The routing that comes back has the channels in the order of their indices; it has the
\* same mappings if those had no gap and none twice; and a map with a channel the core
\* cannot name is refused whole.
LayoutComesBack ==
    returned # None =>
        LET indices == {routing[i][2] : i \in DOMAIN routing} IN
        /\ Len(returned) = Len(routing)
        /\ \A i, j \in DOMAIN routing : routing[i][2] < routing[j][2] =>
              \E m, n \in DOMAIN returned :
                 m < n /\ returned[m][1] = routing[i][1] /\ returned[n][1] = routing[j][1]
        /\ indices = 0 .. Len(routing) - 1 => ToSet(returned) = ToSet(routing)

\* Samples and layouts change hands between the crates and stay what they were.
ConversionsAgree == RelayStaysClose /\ QuietSamplesSurvive /\ FormatsAgree /\ LayoutComesBack
=============================================================================
