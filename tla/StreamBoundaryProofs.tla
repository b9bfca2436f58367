------------------------ MODULE StreamBoundaryProofs ------------------------
(***************************************************************************)
(* What the execution boundary accepts is in the grammar, what the planner *)
(* writes is accepted, and what is accepted of it is read back as it was   *)
(* meant: for every set of options and of insertions.                      *)
(*                                                                         *)
(* The parser is one loop over a vector of any length: its invariant says  *)
(* of the words behind its position what the seen... flags, the counter    *)
(* and the two remembered values record of them.  The planner is one loop  *)
(* over the fields: Written says what a vector of some fields looks like,  *)
(* and is kept by writing one field more.                                  *)
(***************************************************************************)
EXTENDS StreamBoundary, SequenceTheorems, FiniteSetTheorems, TLAPS

-----------------------------------------------------------------------------
(* The tables of the two dialects. *)

Flavors == {"qt", "embedded"}

\* A flag belongs to one group in each dialect.
LEMMA GroupIsUnique ==
  ASSUME NEW f \in Flavors, NEW o1 \in Dialect(f), NEW o2 \in Dialect(f), o1[1] = o2[1]
  PROVE  o1 = o2
<1>1. CASE f = "qt"
  BY <1>1 DEF Dialect, SharedOptions, QtOptions
<1>2. CASE f = "embedded"
  BY <1>2 DEF Dialect, SharedOptions, EmbeddedOptions
<1> QED BY <1>1, <1>2 DEF Flavors

\* The groups that the parser's other variables depend on, by their flags.
LEMMA GroupsByFlag ==
  ASSUME NEW f \in Flavors, NEW o \in Dialect(f)
  PROVE  /\ o = <<o[1], o[2]>>
         /\ o[1] \in DashWords \ {"-app", "-port"}
         /\ o[2] = "codec" <=> o[1] \in {"-codec", "-video-codec"}
         /\ o[2] = "platform" <=> o[1] = "-platform"
         /\ o[2] = "height" <=> o[1] = "-height"
         /\ o[2] = "inputs" <=> o[1] = "-input"
         /\ o[2] = "audioDevice" <=> o[1] = "-audio"
         /\ o[2] = "hdr" <=> o[1] = "-hdr"
         /\ o[1] = "-width" => o[2] = "resolution"
         /\ o[2] # "width"
<1>1. CASE o \in SharedOptions
  BY <1>1 DEF SharedOptions, DashWords
<1>2. CASE o \in QtOptions
  BY <1>2 DEF QtOptions, DashWords
<1>3. CASE o \in EmbeddedOptions
  BY <1>3 DEF EmbeddedOptions, DashWords
<1> QED BY <1>1, <1>2, <1>3 DEF Dialect, Flavors

\* A value is never mistaken for an option, and which options take the two
\* values that the combinations forbid.
LEMMA ValueWords ==
  ASSUME NEW f \in Valued, NEW word, ValueAccepted(f, word)
  PROVE  /\ \A d \in DashWords : word # Text(d)
         /\ word = Text("sdl") => f = "-platform"
         /\ word = Text("h264") => f \in {"-codec", "-video-codec"}
<1>1. CASE f \in {"-codec", "-video-codec"}
  <2>1. normalizedCodec(ToLower(word)) \in Texts({"auto", "h264", "hevc", "av1"})
    BY <1>1 DEF ValueAccepted
  <2>2. word \in Texts({"auto", "h264", "h265", "hevc", "av1", "H.264", "HEVC", "AV1"})
    BY <2>1 DEF normalizedCodec, ToLower, Texts, Text
  <2> QED
    BY <1>1, <2>2 DEF Texts, Text, DashWords, SharedOptions, QtOptions, EmbeddedOptions
<1>2. CASE f \in {"-fps", "-bitrate", "-packet-size", "-packetsize", "-width", "-height"}
  <2>1. decimalArgument(word)
    BY <1>2 DEF ValueAccepted
  <2> QED
    BY <2>1 DEF decimalArgument, Text
<1>3. CASE f = "-resolution"
  <2>1. customResolution(word)
    BY <1>3 DEF ValueAccepted
  <2> QED
    BY <2>1 DEF customResolution, Text
<1>4. CASE f \in {"-audio-config", "-surround", "-remote", "-capture-system-keys",
                   "-video-decoder", "-display-mode"}
  <2>1. word \in Texts({"stereo", "5.1-surround", "7.1-surround", "5.1", "7.1", "auto", "yes", "no",
                        "never", "fullscreen", "always", "software", "hardware", "windowed",
                        "borderless"})
    BY <1>4 DEF ValueAccepted, Texts
  <2> QED
    BY <2>1 DEF Texts, Text, DashWords, SharedOptions, QtOptions, EmbeddedOptions
<1>5. CASE f = "-platform"
  <2>1. word \in Texts({"auto", "x11", "x11_vdpau", "x11_vaapi", "sdl"})
    BY <1>5 DEF ValueAccepted
  <2> QED
    BY <1>5, <2>1 DEF Texts, Text, DashWords, SharedOptions, QtOptions, EmbeddedOptions
<1>6. CASE f \in {"-audio", "-input", "-mapping"}
  <2>1. word = Text("device")
    BY <1>6 DEF ValueAccepted
  <2> QED
    BY <2>1 DEF Text, DashWords, SharedOptions, QtOptions, EmbeddedOptions
<1> QED BY <1>1, <1>2, <1>3, <1>4, <1>5, <1>6 DEF Valued

-----------------------------------------------------------------------------
(* The invariant of the loop. *)

\* The words that the parser has read.
Behind == 1..(position - 1)

\* The vector is a sequence and does not change.
VectorInv ==
  /\ flavor \in Flavors
  /\ args \in Seq(ToSet(args))
  /\ position \in 1..(Len(args) + 1)

\* Every option that was read is one of the dialect, and set its flag; only
\* input devices were read twice.
OptionsInv ==
  /\ \A i \in Behind, f \in DashWords :
       args[i] = Text(f) => \E o \in Dialect(flavor) : o[1] = f
  /\ \A i \in Behind, o \in Dialect(flavor) : args[i] = Text(o[1]) => o[2] \in seen
  /\ \A i, j \in Behind, o1, o2 \in Dialect(flavor) :
       args[i] = Text(o1[1]) /\ args[j] = Text(o2[1]) /\ o1[2] = o2[2] /\ o1[2] # "inputs" => i = j

\* The input devices that were read have been counted.
InputsInv ==
  /\ inputs \in 0..maxEmbeddedInputDevices
  /\ Cardinality({i \in Behind : args[i] = Text("-input")}) <= inputs

\* The custom dimensions that were read, the height after the width.
SizeInv ==
  /\ "width" \in seen <=> \E i \in Behind : args[i] = Text("-width")
  /\ "height" \in seen => "width" \in seen /\ \E i \in Behind : args[i] = Text("-height")

\* The two values that combinations forbid are remembered.
ValuesInv ==
  /\ \A i \in Behind : args[i] = Text("sdl") => platform = Text("sdl") /\ "platform" \in seen
  /\ \A i \in Behind : args[i] = Text("h264") => codec = Text("h264") /\ "codec" \in seen

EndInv ==
  verdict = "accepted" => Combination /\ PositionalShape(SubSeq(args, position, Len(args)))

ParserInv == VectorInv /\ OptionsInv /\ InputsInv /\ SizeInv /\ ValuesInv /\ EndInv

\* What reading one option does, told of the option o and the number n of words.
LEMMA OptionIsRead ==
  ASSUME VectorInv, ReadOption
  PROVE  \E o \in Dialect(flavor), n \in 1..2 :
           /\ args[position] = Text(o[1])
           /\ position' = position + n /\ position + n <= Len(args) + 1
           /\ o[1] # "-input" => o[2] \notin seen
           /\ o[1] = "-input" => inputs < maxEmbeddedInputDevices
           /\ o[1] = "-height" => "width" \in seen
           /\ seen' = seen \cup {o[2]} \cup (IF o[1] = "-width" THEN {"width"} ELSE {})
           /\ inputs' = IF o[1] = "-input" THEN inputs + 1 ELSE inputs
           /\ o[2] # "codec" => codec' = codec
           /\ o[2] # "platform" => platform' = platform
           /\ n = 2 =>
                /\ \A d \in DashWords : args[position + 1] # Text(d)
                /\ args[position + 1] = Text("sdl") => o[2] = "platform" /\ platform' = Text("sdl")
                /\ args[position + 1] = Text("h264") => o[2] = "codec" /\ codec' = Text("h264")
<1> USE DEF ReadOption, OptionAccepted
<1> DEFINE o == CHOOSE c \in Dialect(flavor) : c[1] = Option
           n == IF Option \in Valued THEN 2 ELSE 1
<1>1. o \in Dialect(flavor) /\ o[1] = Option /\ o[2] = Group
  BY DEF InDialect, Group
<1>2. args[position] = Text(o[1])
  <2>1. PICK f \in DashWords : args[position] = Text(f)
    BY DEF AtOption, IsOption, Texts
  <2> QED
    BY <1>1, <2>1 DEF Option, Text
<1>3. flavor \in Flavors /\ position \in 1..Len(args) /\ Len(args) \in Nat
  BY DEF VectorInv, AtOption
<1> HIDE DEF o
<1>4. o[2] = "height" <=> o[1] = "-height"
  BY <1>1, <1>3, GroupsByFlag
<1>5. /\ o[1] # "-input" => o[2] \notin seen
      /\ o[1] = "-input" => inputs < maxEmbeddedInputDevices
      /\ o[1] = "-height" => "width" \in seen
  BY <1>1, <1>4 DEF NotRepeated
<1>6. position' = position + n /\ position + n <= Len(args) + 1
  BY <1>3
<1>7. /\ seen' = seen \cup {o[2]} \cup (IF o[1] = "-width" THEN {"width"} ELSE {})
      /\ inputs' = IF o[1] = "-input" THEN inputs + 1 ELSE inputs
      /\ o[2] # "codec" => codec' = codec
      /\ o[2] # "platform" => platform' = platform
  BY <1>1
<1>8. ASSUME n = 2
      PROVE  /\ \A d \in DashWords : args[position + 1] # Text(d)
             /\ args[position + 1] = Text("sdl") => o[2] = "platform" /\ platform' = Text("sdl")
             /\ args[position + 1] = Text("h264") => o[2] = "codec" /\ codec' = Text("h264")
  <2>1. Option \in Valued /\ ValueAccepted(Option, args[position + 1])
    BY <1>8
  <2>2. /\ \A d \in DashWords : args[position + 1] # Text(d)
        /\ args[position + 1] = Text("sdl") => Option = "-platform"
        /\ args[position + 1] = Text("h264") => Option \in {"-codec", "-video-codec"}
    BY <2>1, ValueWords
  <2>3. o[2] = "codec" <=> o[1] \in {"-codec", "-video-codec"}
    BY <1>1, <1>3, GroupsByFlag
  <2>4. o[2] = "platform" <=> o[1] = "-platform"
    BY <1>1, <1>3, GroupsByFlag
  <2>5. normalizedCodec(ToLower(Text("h264"))) = Text("h264")
    BY DEF normalizedCodec, ToLower, Text
  <2> QED
    BY <1>1, <2>2, <2>3, <2>4, <2>5
<1> QED
  <2>1. n \in 1..2
    OBVIOUS
  <2> HIDE DEF n
  <2> QED
    BY <1>1, <1>2, <1>5, <1>6, <1>7, <1>8, <2>1

\* The words that are behind the position once an option has been read.
LEMMA BehindGrows ==
  ASSUME VectorInv, NEW n \in 1..2, position' = position + n, position + n <= Len(args) + 1
  PROVE  /\ position \in Nat /\ position >= 1 /\ position \notin Behind
         /\ Behind' = Behind \cup {position} \cup (IF n = 2 THEN {position + 1} ELSE {})
  BY DEF VectorInv, Behind

\* Reading one option (ReadOption) keeps each part of the invariant: what the
\* seen... flags record, the devices counted, the two halves of a size, and the
\* values remembered.
LEMMA ReadKeepsOptions ==
  ASSUME VectorInv, OptionsInv, ReadOption
  PROVE  OptionsInv'
<1>1. PICK o \in Dialect(flavor), n \in 1..2 :
        /\ args[position] = Text(o[1])
        /\ position' = position + n /\ position + n <= Len(args) + 1
        /\ o[1] # "-input" => o[2] \notin seen
        /\ seen' = seen \cup {o[2]} \cup (IF o[1] = "-width" THEN {"width"} ELSE {})
        /\ n = 2 => \A d \in DashWords : args[position + 1] # Text(d)
  BY OptionIsRead
<1>2. UNCHANGED <<flavor, args>> /\ flavor \in Flavors
  BY DEF ReadOption, VectorInv
<1>3. /\ position \in Nat /\ position \notin Behind
      /\ Behind' = Behind \cup {position} \cup (IF n = 2 THEN {position + 1} ELSE {})
  BY <1>1, BehindGrows
<1>4. \A i \in Behind', d \in DashWords :
        args'[i] = Text(d) => i \in Behind \/ (i = position /\ d = o[1])
  <2> SUFFICES ASSUME NEW i \in Behind', NEW d \in DashWords, args[i] = Text(d)
               PROVE  i \in Behind \/ (i = position /\ d = o[1])
    BY <1>2
  <2>1. i \in Behind \/ i = position \/ (n = 2 /\ i = position + 1)
    BY <1>3
  <2>2. i = position => d = o[1]
    BY <1>1 DEF Text
  <2>3. ~ (n = 2 /\ i = position + 1)
    BY <1>1
  <2> QED BY <2>1, <2>2, <2>3
<1>5. \A c \in Dialect(flavor) : c[1] \in DashWords
  BY <1>2, GroupsByFlag
<1>6. ASSUME NEW i \in Behind', NEW d \in DashWords, args'[i] = Text(d)
      PROVE  \E c \in Dialect(flavor)' : c[1] = d
  BY <1>1, <1>2, <1>4, <1>6 DEF OptionsInv, Dialect
<1>7. ASSUME NEW i \in Behind', NEW c \in Dialect(flavor)', args'[i] = Text(c[1])
      PROVE  c[2] \in seen'
  <2>1. c \in Dialect(flavor)
    BY <1>2, <1>7 DEF Dialect
  <2>2. CASE i \in Behind
    BY <1>1, <1>2, <1>7, <2>1, <2>2 DEF OptionsInv
  <2>3. CASE c[1] = o[1]
    <3>1. c = o
      BY <1>2, <2>1, <2>3, GroupIsUnique
    <3> QED BY <1>1, <3>1
  <2> QED BY <1>4, <1>5, <1>7, <2>1, <2>2, <2>3
<1>8. ASSUME NEW i \in Behind', NEW j \in Behind',
             NEW o1 \in Dialect(flavor)', NEW o2 \in Dialect(flavor)',
             args'[i] = Text(o1[1]), args'[j] = Text(o2[1]), o1[2] = o2[2], o1[2] # "inputs"
      PROVE  i = j
  <2>1. o1 \in Dialect(flavor) /\ o2 \in Dialect(flavor)
    BY <1>2, <1>8 DEF Dialect
  <2>2. o1[2] # "inputs" /\ o2[2] # "inputs" => o1[1] # "-input" /\ o2[1] # "-input"
    BY <1>2, <2>1, GroupsByFlag
  <2>3. /\ i \in Behind \/ (i = position /\ o1[1] = o[1])
        /\ j \in Behind \/ (j = position /\ o2[1] = o[1])
    BY <1>4, <1>5, <1>8, <2>1
  <2>4. CASE i \in Behind /\ j \in Behind
    BY <1>2, <1>8, <2>1, <2>4 DEF OptionsInv
  <2>5. CASE i \in Behind /\ j = position /\ o2[1] = o[1]
    <3>1. o1[2] \in seen
      BY <1>2, <1>8, <2>1, <2>5 DEF OptionsInv
    <3>2. o2 = o
      BY <1>2, <2>1, <2>5, GroupIsUnique
    <3> QED BY <1>1, <1>8, <2>2, <3>1, <3>2
  <2>6. CASE j \in Behind /\ i = position /\ o1[1] = o[1]
    <3>1. o2[2] \in seen
      BY <1>2, <1>8, <2>1, <2>6 DEF OptionsInv
    <3>2. o1 = o
      BY <1>2, <2>1, <2>6, GroupIsUnique
    <3> QED BY <1>1, <1>8, <2>2, <3>1, <3>2
  <2> QED BY <2>3, <2>4, <2>5, <2>6
<1> QED BY <1>6, <1>7, <1>8 DEF OptionsInv

LEMMA ReadKeepsInputs ==
  ASSUME VectorInv, InputsInv, ReadOption
  PROVE  InputsInv'
<1>1. PICK o \in Dialect(flavor), n \in 1..2 :
        /\ args[position] = Text(o[1])
        /\ position' = position + n /\ position + n <= Len(args) + 1
        /\ o[1] = "-input" => inputs < maxEmbeddedInputDevices
        /\ inputs' = IF o[1] = "-input" THEN inputs + 1 ELSE inputs
        /\ n = 2 => \A d \in DashWords : args[position + 1] # Text(d)
  BY OptionIsRead
<1> DEFINE devices == {i \in Behind : args[i] = Text("-input")}
<1>2. args' = args /\ inputs \in Int
  BY DEF ReadOption, InputsInv
<1>3. /\ position \in Nat /\ position \notin Behind
      /\ Behind' = Behind \cup {position} \cup (IF n = 2 THEN {position + 1} ELSE {})
  BY <1>1, BehindGrows
<1>4. "-input" \in DashWords
  <2>1. <<"-input", "inputs">> \in EmbeddedOptions
    BY DEF EmbeddedOptions
  <2> QED BY <2>1 DEF DashWords
<1>5. devices' = devices \cup (IF o[1] = "-input" THEN {position} ELSE {})
  BY <1>1, <1>2, <1>3, <1>4 DEF Text
<1>6. IsFiniteSet(devices) /\ position \notin devices
  <2>1. IsFiniteSet(Behind)
    BY <1>3, FS_Interval DEF Behind
  <2> QED BY <1>3, <2>1, FS_Subset
<1>7. Cardinality(devices) \in Nat
  BY <1>6, FS_CardinalityType
<1>8. inputs' \in 0..maxEmbeddedInputDevices
  BY <1>1 DEF InputsInv, maxEmbeddedInputDevices
<1>9. Cardinality(devices) <= inputs
  BY DEF InputsInv
<1>10. Cardinality(devices') <= inputs'
  <2> HIDE DEF devices
  <2>1. CASE o[1] = "-input"
    <3>1. Cardinality(devices \cup {position}) = Cardinality(devices) + 1
      BY <1>6, FS_AddElement
    <3>2. devices' = devices \cup {position} /\ inputs' = inputs + 1
      BY <1>1, <1>5, <2>1
    <3> QED BY <1>2, <1>7, <1>9, <3>1, <3>2
  <2>2. CASE o[1] # "-input"
    BY <1>1, <1>5, <1>9, <2>2
  <2> QED BY <2>1, <2>2
<1> QED BY <1>8, <1>10 DEF InputsInv

LEMMA ReadKeepsSize ==
  ASSUME VectorInv, SizeInv, ReadOption
  PROVE  SizeInv'
<1>1. PICK o \in Dialect(flavor), n \in 1..2 :
        /\ args[position] = Text(o[1])
        /\ position' = position + n /\ position + n <= Len(args) + 1
        /\ o[1] = "-height" => "width" \in seen
        /\ seen' = seen \cup {o[2]} \cup (IF o[1] = "-width" THEN {"width"} ELSE {})
        /\ n = 2 => \A d \in DashWords : args[position + 1] # Text(d)
  BY OptionIsRead
<1>2. args' = args /\ flavor \in Flavors
  BY DEF ReadOption, VectorInv
<1>3. Behind' = Behind \cup {position} \cup (IF n = 2 THEN {position + 1} ELSE {})
  BY <1>1, BehindGrows
<1>4. "-width" \in DashWords
  <2>1. <<"-width", "resolution">> \in EmbeddedOptions
    BY DEF EmbeddedOptions
  <2> QED BY <2>1 DEF DashWords
<1>5. o[2] # "width" /\ (o[2] = "height" <=> o[1] = "-height")
  BY <1>2, GroupsByFlag
<1>6. (\E i \in Behind' : args'[i] = Text("-width"))
        <=> (\E i \in Behind : args[i] = Text("-width")) \/ o[1] = "-width"
  BY <1>1, <1>2, <1>3, <1>4 DEF Text
<1>7. "width" \in seen' <=> \E i \in Behind' : args'[i] = Text("-width")
  BY <1>1, <1>5, <1>6 DEF SizeInv
<1>8. "height" \in seen' => "width" \in seen' /\ \E i \in Behind' : args'[i] = Text("-height")
  BY <1>1, <1>2, <1>3, <1>5 DEF SizeInv
<1> QED BY <1>7, <1>8 DEF SizeInv

LEMMA ReadKeepsValues ==
  ASSUME VectorInv, ValuesInv, ReadOption
  PROVE  ValuesInv'
<1>1. PICK o \in Dialect(flavor), n \in 1..2 :
        /\ args[position] = Text(o[1])
        /\ position' = position + n /\ position + n <= Len(args) + 1
        /\ o[1] # "-input" => o[2] \notin seen
        /\ seen' = seen \cup {o[2]} \cup (IF o[1] = "-width" THEN {"width"} ELSE {})
        /\ o[2] # "codec" => codec' = codec
        /\ o[2] # "platform" => platform' = platform
        /\ n = 2 =>
             /\ args[position + 1] = Text("sdl") => o[2] = "platform" /\ platform' = Text("sdl")
             /\ args[position + 1] = Text("h264") => o[2] = "codec" /\ codec' = Text("h264")
  BY OptionIsRead
<1>2. args' = args /\ flavor \in Flavors
  BY DEF ReadOption, VectorInv
<1>3. Behind' = Behind \cup {position} \cup (IF n = 2 THEN {position + 1} ELSE {})
  BY <1>1, BehindGrows
<1>4. o[2] \in {"codec", "platform"} => o[1] # "-input"
  BY <1>2, GroupsByFlag
<1>5. o[1] # "sdl" /\ o[1] # "h264"
  <2>1. o[1] \in DashWords
    BY <1>2, GroupsByFlag
  <2> QED BY <2>1 DEF DashWords, SharedOptions, QtOptions, EmbeddedOptions
<1>6. ASSUME NEW i \in Behind', args'[i] = Text("sdl")
      PROVE  platform' = Text("sdl") /\ "platform" \in seen'
  BY <1>1, <1>2, <1>3, <1>4, <1>5, <1>6 DEF ValuesInv, Text
<1>7. ASSUME NEW i \in Behind', args'[i] = Text("h264")
      PROVE  codec' = Text("h264") /\ "codec" \in seen'
  BY <1>1, <1>2, <1>3, <1>4, <1>5, <1>7 DEF ValuesInv, Text
<1> QED BY <1>6, <1>7 DEF ValuesInv

\* Every step keeps the invariant.
LEMMA ParserKeeps ==
  ASSUME ParserInv, [Next]_vars
  PROVE  ParserInv'
<1>1. CASE ReadOption
  <2>1. VectorInv'
    <3>1. PICK n \in 1..2 : position' = position + n /\ position + n <= Len(args) + 1
      BY <1>1, OptionIsRead DEF ParserInv
    <3>2. UNCHANGED <<flavor, args>>
      BY <1>1 DEF ReadOption
    <3> QED BY <3>1, <3>2 DEF ParserInv, VectorInv
  <2>2. EndInv'
    BY <1>1 DEF ReadOption, EndInv
  <2> QED
    BY <1>1, <2>1, <2>2, ReadKeepsOptions, ReadKeepsInputs, ReadKeepsSize, ReadKeepsValues
    DEF ParserInv
<1>2. CASE RefuseOption \/ EndOptions \/ Done \/ UNCHANGED vars
  <2>1. UNCHANGED <<flavor, args, position, seen, inputs, codec, platform>>
    BY <1>2 DEF RefuseOption, EndOptions, Done, vars
  <2>2. VectorInv'
    BY <2>1 DEF ParserInv, VectorInv
  <2>3. OptionsInv'
    BY <2>1 DEF ParserInv, OptionsInv, Behind, Dialect
  <2>4. InputsInv' /\ SizeInv' /\ ValuesInv'
    BY <2>1 DEF ParserInv, InputsInv, SizeInv, ValuesInv, Behind
  <2>5. EndInv'
    <3> DEFINE ends == Combination /\ PositionalShape(SubSeq(args, position, Len(args)))
    <3>1. ends' = ends
      BY <2>1 DEF Combination, PositionalShape
    <3>2. verdict' = verdict \/ verdict' = "refused" \/ (verdict' = "accepted" /\ ends)
      BY <1>2 DEF RefuseOption, EndOptions, Done, vars
    <3>3. verdict = "accepted" => ends
      BY DEF ParserInv, EndInv
    <3> QED BY <3>1, <3>2, <3>3 DEF EndInv
  <2> QED BY <2>2, <2>3, <2>4, <2>5 DEF ParserInv
<1> QED BY <1>1, <1>2 DEF Next

-----------------------------------------------------------------------------
(* What the invariant says of an accepted vector. *)

\* The words of a vector are finitely many, so what is counted of them is a number.
LEMMA IndicesAreFinite ==
  ASSUME NEW len \in Nat, NEW S, S \subseteq 1..len
  PROVE  IsFiniteSet(S)
<1>1. IsFiniteSet(1..len)
  BY FS_Interval
<1> QED BY <1>1, FS_Subset

\* Of a set of indices, how many there are and whether there is one.
LEMMA AtMostOne ==
  ASSUME NEW S, NEW len \in Nat, S \subseteq 1..len, \A i, j \in S : i = j
  PROVE  /\ S = {} => Cardinality(S) = 0
         /\ S # {} => Cardinality(S) = 1
<1>1. CASE S = {}
  BY <1>1, FS_EmptySet
<1>2. CASE S # {}
  <2>1. PICK i \in S : TRUE
    BY <1>2
  <2>2. S = {i}
    BY <2>1
  <2> QED BY <1>2, <2>2, FS_Singleton
<1> QED BY <1>1, <1>2

\* An option occurs in a vector when it stands at one of its positions.
LEMMA OccursMeansSomewhere ==
  ASSUME VectorInv, NEW f
  PROVE  Occurs(f) <=> \E i \in 1..Len(args) : args[i] = Text(f)
<1> DEFINE places == {i \in 1..Len(args) : args[i] = Text(f)}
<1>1. Len(args) \in Nat
  BY DEF VectorInv
<1>2. IsFiniteSet(places)
  BY <1>1, IndicesAreFinite
<1>3. Cardinality(places) \in Nat /\ (Cardinality(places) = 0 <=> places = {})
  BY <1>2, FS_CardinalityType, FS_EmptySet
<1>4. Occurs(f) <=> places # {}
  BY <1>3 DEF Occurs, Count
<1> QED BY <1>4

\* What follows the options.
LEMMA QtPositional == Positional("qt", FALSE) = <<Text("host"), Text("app")>>
  BY Zenon DEF Positional

\* The two forms of the positional words of Embedded, without a port and with one.
LEMMA EmbeddedPositional ==
  Positional("embedded", FALSE) = <<Text("-app"), Text("app"), Text("host")>>
<1> DEFINE first == <<Text("-app"), Text("app"), Text("host")>>
<1>1. Positional("embedded", FALSE) = first \o (IF FALSE THEN Setting("-port", Num(HostPort)) ELSE <<>>)
  BY Zenon DEF Positional
<1>2. first \in Seq({Text("-app"), Text("app"), Text("host")})
  OBVIOUS
<1> HIDE DEF first
<1>3. first \o <<>> = first
  BY <1>2, ConcatEmptySeq
<1> QED BY <1>1, <1>3 DEF first

\* What is left of an accepted vector has the shape of the positional words.
LEMMA ShapeOfRest ==
  ASSUME NEW rest, PositionalShape(rest)
  PROVE  IF flavor = "embedded"
         THEN /\ Len(rest) \in {3, 5}
              /\ SubSeq(rest, 1, 3) = Positional("embedded", FALSE)
              /\ Len(rest) = 5 => rest[4] = Text("-port") /\ validateMoonlightPort(rest[5])
         ELSE rest = Positional("qt", FALSE)
  BY Zenon DEF PositionalShape

\* The words that are left at the end are the fixed ones and the names.
LEMMA WordsLeft ==
  ASSUME VectorInv, PositionalShape(SubSeq(args, position, Len(args))),
         NEW i \in 1..Len(args), i \notin Behind, NEW t, args[i] = Text(t)
  PROVE  t \in {"host", "app", "-app", "-port"}
<1> DEFINE rest == SubSeq(args, position, Len(args))
           k == i - position + 1
<1>1. position \in Nat /\ Len(args) \in Nat /\ position >= 1 /\ i \in position..Len(args)
  BY DEF VectorInv, Behind
<1>2. \A j \in position..Len(args) : args[j] \in ToSet(args)
  BY <1>1 DEF VectorInv, ToSet
<1>3. /\ Len(rest) = Len(args) - position + 1
      /\ \A j \in 1..Len(args) - position + 1 : rest[j] = args[position + j - 1]
      /\ rest \in Seq(ToSet(args))
  BY <1>1, <1>2, SubSeqProperties
<1>4. k \in 1..Len(rest) /\ rest[k] = Text(t)
  BY <1>1, <1>3
<1>5. PositionalShape(rest)
  OBVIOUS
<1> HIDE DEF rest, k
<1>6. CASE flavor # "embedded"
  <2>1. rest = <<Text("host"), Text("app")>>
    BY <1>5, <1>6, ShapeOfRest, QtPositional, Zenon
  <2>2. k \in 1..2
    BY <1>4, <2>1
  <2> QED BY <1>4, <2>1, <2>2 DEF Text
<1>7. CASE flavor = "embedded"
  <2> DEFINE first == SubSeq(rest, 1, 3)
  <2>1. /\ Len(rest) \in {3, 5}
        /\ first = Positional("embedded", FALSE)
        /\ Len(rest) = 5 => rest[4] = Text("-port") /\ validateMoonlightPort(rest[5])
    BY <1>5, <1>7, ShapeOfRest, Zenon
  <2>2. first = <<Text("-app"), Text("app"), Text("host")>>
    BY <2>1, EmbeddedPositional, Zenon
  <2>3. \A j \in 1..3 : rest[j] \in ToSet(args)
    <3>1. Len(rest) \in {3, 5}
      BY <2>1, Zenon
    <3>2. \A j \in 1..3 : j \in 1..Len(rest)
      BY <3>1
    <3> QED BY <1>3, <3>2, ElementOfSeq
  <2>4. \A j \in 1..3 - 1 + 1 : first[j] = rest[1 + j - 1]
    BY <2>3, SubSeqProperties
  <2> HIDE DEF first
  <2>5. first[1] = rest[1] /\ first[2] = rest[2] /\ first[3] = rest[3]
    BY <2>4
  <2>6. rest[1] = Text("-app") /\ rest[2] = Text("app") /\ rest[3] = Text("host")
    BY <2>2, <2>5
  <2>7. k \in {1, 2, 3} \/ (k \in {4, 5} /\ Len(rest) = 5)
    BY <1>4, <2>1
  <2>8. CASE k \in {1, 2, 3}
    BY <1>4, <2>6, <2>8 DEF Text
  <2>9. CASE k \in {4, 5} /\ Len(rest) = 5
    <3>1. rest[4] = Text("-port") /\ rest[5][1] = "num"
      BY <2>1, <2>9 DEF validateMoonlightPort, decimalArgument
    <3> HIDE <2>1
    <3> QED BY <1>4, <2>9, <3>1 DEF Text
  <2> QED BY <2>7, <2>8, <2>9
<1> QED BY <1>6, <1>7

\* At the end of the loop the invariant is the grammar.
LEMMA InvariantImpliesGrammar ==
  ASSUME ParserInv, verdict = "accepted"
  PROVE  AcceptedIsWithinGrammar
<1> USE DEF ParserInv
<1>1. Combination /\ PositionalShape(SubSeq(args, position, Len(args)))
  BY DEF EndInv
<1>2. flavor \in Flavors /\ Len(args) \in Nat /\ Behind \subseteq 1..Len(args)
  BY DEF VectorInv, Behind
<1>3. ASSUME NEW t, t \notin {"host", "app", "-app", "-port"},
             NEW i \in 1..Len(args), args[i] = Text(t)
      PROVE  i \in Behind
  BY <1>1, <1>3, WordsLeft
<1>4. \A d \in DashWords : d \notin {"host", "app"}
  BY DEF DashWords, SharedOptions, QtOptions, EmbeddedOptions
<1>5. ASSUME NEW f \in DashWords \ {"-app", "-port"}, Occurs(f)
      PROVE  \E o \in Dialect(flavor) : o[1] = f
  BY <1>3, <1>4, <1>5, OccursMeansSomewhere DEF OptionsInv
<1>6. ASSUME NEW o \in Dialect(flavor), NEW i \in 1..Len(args), args[i] = Text(o[1])
      PROVE  i \in Behind
  BY <1>2, <1>3, <1>4, <1>6, GroupsByFlag
<1>7. ASSUME NEW group \in {o[2] : o \in Dialect(flavor)}
      PROVE  Cardinality({i \in 1..Len(args) :
               \E o \in Dialect(flavor) : o[2] = group /\ args[i] = Text(o[1])})
               <= (IF group = "inputs" THEN maxEmbeddedInputDevices ELSE 1)
  <2> DEFINE places == {i \in 1..Len(args) :
               \E o \in Dialect(flavor) : o[2] = group /\ args[i] = Text(o[1])}
  <2>1. CASE group = "inputs"
    <3>1. PICK d \in Dialect(flavor) : d[2] = group
      BY <1>7
    <3>2. \A o \in Dialect(flavor) : o[2] = "inputs" <=> o[1] = "-input"
      BY <1>2, GroupsByFlag
    <3>3. places = {i \in Behind : args[i] = Text("-input")}
      BY <1>2, <1>6, <2>1, <3>1, <3>2
    <3>4. IsFiniteSet(places)
      BY <1>2, IndicesAreFinite
    <3>5. Cardinality(places) \in Nat
      BY <3>4, FS_CardinalityType
    <3>6. Cardinality(places) <= inputs /\ inputs \in 0..maxEmbeddedInputDevices
      BY <3>3 DEF InputsInv
    <3> QED BY <2>1, <3>5, <3>6 DEF maxEmbeddedInputDevices
  <2>2. CASE group # "inputs"
    <3>1. \A i, j \in places : i = j
      BY <1>6, <2>2 DEF OptionsInv
    <3>2. Cardinality(places) \in {0, 1}
      BY <1>2, <3>1, AtMostOne
    <3> QED BY <2>2, <3>2
  <2> QED BY <2>1, <2>2
<1>8. Count(Text("-width")) = Count(Text("-height"))
  <2> DEFINE widths == {i \in 1..Len(args) : args[i] = Text("-width")}
             heights == {i \in 1..Len(args) : args[i] = Text("-height")}
  <2>1. \A f \in {"-width", "-height"}, i \in 1..Len(args) :
          args[i] = Text(f) => i \in Behind /\ \E o \in Dialect(flavor) : o[1] = f
    <3>1. <<"-width", "resolution">> \in EmbeddedOptions /\ <<"-height", "height">> \in EmbeddedOptions
      BY DEF EmbeddedOptions
    <3>2. {"-width", "-height"} \subseteq DashWords
      BY <3>1 DEF DashWords
    <3> QED BY <1>3, <3>2 DEF OptionsInv
  <2>2. \A o \in Dialect(flavor) :
          /\ o[1] = "-width" => o[2] = "resolution"
          /\ o[1] = "-height" => o[2] = "height"
    BY <1>2, GroupsByFlag
  <2>3. \A i, j \in widths : i = j
    BY <2>1, <2>2 DEF OptionsInv
  <2>4. \A i, j \in heights : i = j
    BY <2>1, <2>2 DEF OptionsInv
  <2>5. widths # {} => "width" \in seen
    BY <2>1 DEF SizeInv
  <2>6. "width" \in seen => heights # {}
    BY <1>1, <1>2 DEF SizeInv, Combination
  <2>7. heights # {} => "height" \in seen
    BY <2>1, <2>2 DEF OptionsInv
  <2>8. "height" \in seen => widths # {}
    BY <1>2 DEF SizeInv
  <2>9. widths = {} <=> heights = {}
    BY <2>5, <2>6, <2>7, <2>8
  <2>10. /\ widths = {} => Cardinality(widths) = 0
         /\ widths # {} => Cardinality(widths) = 1
    BY <1>2, <2>3, AtMostOne
  <2>11. /\ heights = {} => Cardinality(heights) = 0
         /\ heights # {} => Cardinality(heights) = 1
    BY <1>2, <2>4, AtMostOne
  <2> QED BY <2>9, <2>10, <2>11 DEF Count
<1>9. ASSUME Occurs("sdl")
      PROVE  ~Occurs("-audio") /\ ~Occurs("-input")
  <2>1. PICK i \in 1..Len(args) : args[i] = Text("sdl")
    BY <1>9, OccursMeansSomewhere
  <2>2. platform = Text("sdl")
    BY <1>3, <2>1 DEF ValuesInv
  <2>3. "audioDevice" \notin seen /\ inputs = 0
    BY <1>1, <2>2 DEF Combination
  <2>4. <<"-audio", "audioDevice">> \in EmbeddedOptions /\ <<"-input", "inputs">> \in EmbeddedOptions
    BY DEF EmbeddedOptions
  <2>5. "-audio" \in DashWords /\ "-input" \in DashWords
    BY <2>4 DEF DashWords
  <2>6. ~Occurs("-audio")
    <3> SUFFICES ASSUME NEW k \in 1..Len(args), args[k] = Text("-audio") PROVE FALSE
      BY OccursMeansSomewhere
    <3>1. k \in Behind
      BY <1>3
    <3>2. PICK o \in Dialect(flavor) : o[1] = "-audio"
      BY <2>5, <3>1 DEF OptionsInv
    <3>3. o[2] = "audioDevice"
      BY <1>2, <3>2, GroupsByFlag
    <3> QED BY <2>3, <3>1, <3>2, <3>3 DEF OptionsInv
  <2>7. ~Occurs("-input")
    <3> DEFINE devices == {k \in Behind : args[k] = Text("-input")}
    <3>1. IsFiniteSet(devices)
      BY <1>2, IndicesAreFinite
    <3>2. Cardinality(devices) <= 0
      BY <2>3 DEF InputsInv
    <3>3. Cardinality(devices) \in Nat /\ (Cardinality(devices) = 0 <=> devices = {})
      BY <3>1, FS_CardinalityType, FS_EmptySet
    <3>4. devices = {}
      BY <3>2, <3>3
    <3> QED BY <1>3, <3>4, OccursMeansSomewhere
  <2> QED BY <2>6, <2>7
<1>10. ASSUME Occurs("h264")
       PROVE  ~Occurs("-hdr")
  <2>1. PICK i \in 1..Len(args) : args[i] = Text("h264")
    BY <1>10, OccursMeansSomewhere
  <2>2. codec = Text("h264")
    BY <1>3, <2>1 DEF ValuesInv
  <2>3. "hdr" \notin seen
    BY <1>1, <2>2 DEF Combination
  <2>4. <<"-hdr", "hdr">> \in Dialect(flavor)
    BY DEF Dialect, SharedOptions
  <2> SUFFICES ASSUME NEW k \in 1..Len(args), args[k] = Text("-hdr") PROVE FALSE
    BY OccursMeansSomewhere
  <2>5. k \in Behind
    BY <1>3
  <2> QED BY <2>3, <2>4, <2>5 DEF OptionsInv
<1> QED BY <1>5, <1>7, <1>8, <1>9, <1>10 DEF AcceptedIsWithinGrammar

-----------------------------------------------------------------------------
(* Every vector is a sequence. *)

IsSequence(s) == s \in Seq(ToSet(s))

\* Sequences without naming the set of their elements.
LEMMA SequenceFacts ==
  ASSUME NEW s
  PROVE  /\ IsSequence(s) => Len(s) \in Nat /\ DOMAIN s = 1..Len(s)
         /\ \A S : s \in Seq(S) => IsSequence(s)
<1>1. ASSUME NEW S, s \in Seq(S)
      PROVE  s \in Seq(ToSet(s))
  <2>1. Len(s) \in Nat /\ s \in [1..Len(s) -> S] /\ DOMAIN s = 1..Len(s)
    BY <1>1, LenProperties
  <2>2. s \in [1..Len(s) -> ToSet(s)]
    BY <2>1 DEF ToSet
  <2> QED BY <2>1, <2>2, SeqDef
<1> QED BY <1>1, LenProperties DEF IsSequence

LEMMA ShortSequences ==
  /\ IsSequence(<<>>)
  /\ \A a : IsSequence(<<a>>)
  /\ \A a, b : IsSequence(<<a, b>>)
  /\ \A a, b, c, d : IsSequence(<<a, b, c, d>>)
<1>1. <<>> \in Seq({})
  BY EmptySeq
<1>2. \A a : <<a>> \in Seq({a})
  OBVIOUS
<1>3. \A a, b : <<a, b>> \in Seq({a, b})
  OBVIOUS
<1>4. \A a, b, c, d : <<a, b, c, d>> \in Seq({a, b, c, d})
  OBVIOUS
<1> QED BY <1>1, <1>2, <1>3, <1>4, SequenceFacts

LEMMA ConcatIsSequence ==
  ASSUME NEW s, NEW t, IsSequence(s), IsSequence(t)
  PROVE  /\ IsSequence(s \o t)
         /\ Len(s \o t) = Len(s) + Len(t)
         /\ \A i \in 1..Len(s) + Len(t) : (s \o t)[i] = IF i <= Len(s) THEN s[i] ELSE t[i - Len(s)]
<1> DEFINE both == ToSet(s) \cup ToSet(t)
<1>1. s \in Seq(both) /\ t \in Seq(both)
  BY SeqMonotonic DEF IsSequence
<1> HIDE DEF both
<1> QED BY <1>1, ConcatProperties, SequenceFacts

LEMMA SubSeqIsSequence ==
  ASSUME NEW s, IsSequence(s), NEW m \in 1..(Len(s) + 1), NEW n \in 0..Len(s)
  PROVE  IsSequence(SubSeq(s, m, n))
<1>1. \A i \in m..n : s[i] \in ToSet(s)
  BY SequenceFacts DEF ToSet
<1>2. m \in Int /\ n \in Int
  BY SequenceFacts
<1> QED BY <1>1, <1>2, SubSeqProperties, SequenceFacts

\* A nonempty set of natural numbers has a least element.
LEMMA LeastNumber ==
  ASSUME NEW T, T \subseteq Nat, T # {}
  PROVE  \E x \in T : \A y \in T : x <= y
<1> DEFINE R == OpToRel(<, Nat)
<1>1. IsWellFoundedOn(R, Nat)
  BY NatLessThanWellFounded, Zenon
<1>2. \A x, y \in Nat : <<x, y>> \in R <=> x < y
  BY DEF OpToRel
<1> HIDE DEF R
<1>3. PICK x \in T : \A y \in T : ~ (<<y, x>> \in R)
  BY <1>1, WFMin, Zenon
<1>4. \A y \in T : x \in Nat /\ y \in Nat /\ ~ (y < x)
  BY <1>2, <1>3
<1> QED BY <1>4

\* The function that FlattenSeq computes along its argument.
Flattens(g, ss, m) == g = [i \in 1..m |-> IF i = 1 THEN ss[i] ELSE g[i - 1] \o ss[i]]

\* The recurrence that FlattenSeq chooses exists at every length: there would be
\* a least length at which it did not.
LEMMA FlattenExists ==
  ASSUME NEW ss, NEW n \in Nat \ {0}
  PROVE  \E g : Flattens(g, ss, n)
<1> DEFINE T == {m \in Nat \ {0} : ~ \E g : Flattens(g, ss, m)}
<1> SUFFICES ASSUME n \in T PROVE FALSE
  OBVIOUS
<1>0. T \subseteq Nat
  OBVIOUS
<1>1. PICK m \in T : \A k \in T : m <= k
  <2> HIDE DEF T
  <2> QED BY <1>0, LeastNumber
<1>2. CASE m = 1
  <2> DEFINE g == [i \in 1..1 |-> ss[i]]
  <2>1. Flattens(g, ss, 1)
    BY DEF Flattens
  <2> QED BY <1>1, <1>2, <2>1
<1>3. CASE m # 1
  <2>1. m \in Nat /\ m - 1 \in Nat \ {0} /\ m - 1 \notin T
    BY <1>1, <1>3
  <2>2. PICK g : Flattens(g, ss, m - 1)
    BY <2>1
  <2> DEFINE h == [i \in 1..m |-> IF i = m THEN g[m - 1] \o ss[m] ELSE g[i]]
             e(i) == IF i = 1 THEN ss[i] ELSE h[i - 1] \o ss[i]
  <2>3. ASSUME NEW i \in 1..m PROVE h[i] = e(i)
    <3>1. CASE i = m
      <4>1. m - 1 \in 1..m /\ m \in 1..m /\ m - 1 # m
        BY <2>1
      <4>2. h[m - 1] = g[m - 1] /\ h[m] = g[m - 1] \o ss[m]
        BY <4>1, Zenon
      <4> QED BY <1>3, <3>1, <4>2, Zenon
    <3>2. CASE i # m
      <4>1. i \in 1..(m - 1) /\ h[i] = g[i]
        BY <2>1, <3>2
      <4>2. g[i] = IF i = 1 THEN ss[i] ELSE g[i - 1] \o ss[i]
        BY <2>2, <4>1 DEF Flattens
      <4>3. i # 1 => h[i - 1] = g[i - 1]
        BY <2>1, <4>1
      <4> QED BY <4>1, <4>2, <4>3
    <3> QED BY <3>1, <3>2
  <2>4. h = [i \in 1..m |-> e(i)]
    BY <2>3
  <2>5. Flattens(h, ss, m)
    BY <2>4 DEF Flattens
  <2> QED BY <1>1, <2>5
<1> QED BY <1>2, <1>3

LEMMA FlattenFacts ==
  ASSUME NEW ss, IsSequence(ss), Len(ss) # 0, \A i \in 1..Len(ss) : IsSequence(ss[i])
  PROVE  \E g : /\ Flattens(g, ss, Len(ss))
                /\ \A i \in 1..Len(ss) : IsSequence(g[i])
                /\ FlattenSeq(ss) = g[Len(ss)]
<1>1. Len(ss) \in Nat \ {0}
  BY SequenceFacts
<1> DEFINE g == CHOOSE f : Flattens(f, ss, Len(ss))
<1>2. Flattens(g, ss, Len(ss))
  BY <1>1, FlattenExists
<1>3. FlattenSeq(ss) = g[Len(ss)]
  BY <1>1 DEF FlattenSeq, Flattens
<1> HIDE DEF g
<1>4. \A i \in 1..Len(ss) : IsSequence(g[i])
  <2> DEFINE T == {i \in 1..Len(ss) : ~ IsSequence(g[i])}
  <2> SUFFICES ASSUME NEW j \in T PROVE FALSE
    OBVIOUS
  <2>0. T \subseteq Nat
    BY <1>1
  <2>1. PICK m \in T : \A k \in T : m <= k
    <3> HIDE DEF T
    <3> QED BY <2>0, LeastNumber
  <2>2. g[m] = IF m = 1 THEN ss[m] ELSE g[m - 1] \o ss[m]
    BY <1>2, <2>1 DEF Flattens
  <2>3. CASE m = 1
    BY <2>1, <2>2, <2>3
  <2>4. CASE m # 1
    <3>1. m - 1 \in 1..Len(ss) /\ m - 1 \notin T /\ m \in 1..Len(ss)
      BY <1>1, <2>1, <2>4
    <3>2. IsSequence(g[m - 1]) /\ IsSequence(ss[m])
      BY <3>1
    <3>3. IsSequence(g[m - 1] \o ss[m])
      BY <3>2, ConcatIsSequence, Zenon
    <3> QED BY <2>1, <2>2, <2>4, <3>3, Zenon
  <2> QED BY <2>3, <2>4
<1> QED BY <1>2, <1>3, <1>4

LEMMA FlattenIsSequence ==
  ASSUME NEW n \in Nat, NEW ss, IsSequence(ss), Len(ss) = n, \A i \in 1..n : IsSequence(ss[i])
  PROVE  IsSequence(FlattenSeq(ss))
<1>1. CASE n = 0
  BY <1>1, Zenon DEF FlattenSeq
<1>2. CASE n # 0
  <2>1. PICK g : (\A i \in 1..n : IsSequence(g[i])) /\ FlattenSeq(ss) = g[n]
    BY <1>2, FlattenFacts
  <2> QED BY <1>2, <2>1
<1> QED BY <1>1, <1>2

LEMMA TabulatedIsSequence ==
  ASSUME NEW n \in Nat, NEW f, f = [i \in 1..n |-> f[i]]
  PROVE  IsSequence(f) /\ Len(f) = n
<1>1. f \in [1..n -> {f[i] : i \in 1..n}]
  OBVIOUS
<1>2. f \in Seq({f[i] : i \in 1..n})
  BY <1>1, SeqDef
<1>3. Len(f) = n
  BY <1>1, <1>2, LenProperties
<1> QED BY <1>2, <1>3, SequenceFacts

\* What a field is written as is a sequence, whatever its value.
LEMMA WordsAreSequence ==
  ASSUME NEW f, NEW field, NEW v, field = "inputs" => v[2] \in Nat
  PROVE  IsSequence(Words(f, field, v))
<1>1. IsSequence(<<>>)
  BY ShortSequences
<1>2. \A t : IsSequence(Flag(t))
  BY ShortSequences DEF Flag
<1>3. \A t, w : IsSequence(Setting(t, w))
  BY ShortSequences DEF Setting
<1>4. \A on, off : IsSequence(OnOff(v, on, off))
  BY <1>1, <1>2 DEF OnOff
<1>5. IsSequence(ResolutionWords(f, v))
  <2>1. \A a, b : IsSequence(Dimensions(a, b))
    BY ShortSequences, Zenon DEF Dimensions
  <2> QED BY <1>2, <1>3, <2>1 DEF ResolutionWords
<1>6. CASE field = "inputs"
  <2> DEFINE w == [i \in 1..(2 * v[2]) |-> IF i % 2 = 1 THEN Text("-input") ELSE Text("device")]
  <2>1. 2 * v[2] \in Nat
    BY <1>6
  <2>2. Words(f, field, v) = w
    BY <1>6, Zenon DEF Words
  <2>3. w = [i \in 1..(2 * v[2]) |-> w[i]]
    BY Zenon
  <2> HIDE DEF w
  <2>4. IsSequence(w)
    BY <2>1, <2>3, TabulatedIsSequence, Zenon
  <2> QED BY <2>2, <2>4
<1>7. CASE field # "inputs"
  BY <1>1, <1>2, <1>3, <1>4, <1>5, <1>7 DEF Words
<1> QED BY <1>6, <1>7

\* What BuildPlan writes is a sequence, and so is every edited form of it.
LEMMA PlanIsSequence ==
  ASSUME NEW f, NEW set \in OptionSets, NEW port \in BOOLEAN
  PROVE  IsSequence(BuildPlan(f, set, port))
<1> DEFINE n == Len(FieldOrder)
           words(i) == IF Has(set, FieldOrder[i])
                       THEN Words(streamOptionFlavor(f), FieldOrder[i], set[FieldOrder[i]])
                       ELSE <<>>
           ss == [i \in 1..n |-> words(i)]
<1>1. n \in Nat
  BY DEF FieldOrder
<1>2. ASSUME NEW i \in 1..n
      PROVE  IsSequence(words(i))
  <2>1. CASE Has(set, FieldOrder[i])
    <3> DEFINE field == FieldOrder[i]
    <3>1. field = "inputs" => set[field][2] \in Nat
      BY <2>1, OptionsAssumption
    <3> HIDE DEF field
    <3>2. IsSequence(Words(streamOptionFlavor(f), field, set[field]))
      BY <3>1, WordsAreSequence, Zenon
    <3> QED BY <2>1, <3>2, Zenon DEF field
  <2>2. CASE ~Has(set, FieldOrder[i])
    BY <2>2, ShortSequences, Zenon
  <2> QED BY <2>1, <2>2
<1>3. Arguments(f, set) = FlattenSeq(ss)
  BY Zenon DEF Arguments
<1> HIDE DEF n, words
<1>4. IsSequence(ss) /\ Len(ss) = n
  BY <1>1, TabulatedIsSequence
<1>5. \A i \in 1..n : IsSequence(ss[i])
  BY <1>2
<1>6. IsSequence(Arguments(f, set))
  BY <1>1, <1>3, <1>4, <1>5, FlattenIsSequence
<1>7. IsSequence(Positional(f, port))
  <2>1. IsSequence(<<Text("-app"), Text("app"), Text("host")>>)
    <3>1. <<Text("-app"), Text("app"), Text("host")>> \in Seq({Text("-app"), Text("app"), Text("host")})
      OBVIOUS
    <3> QED BY <3>1, SequenceFacts, Zenon
  <2>2. IsSequence(IF port THEN Setting("-port", Num(HostPort)) ELSE <<>>)
    BY ShortSequences, Zenon DEF Setting
  <2>3. IsSequence(<<Text("-app"), Text("app"), Text("host")>>
                     \o (IF port THEN Setting("-port", Num(HostPort)) ELSE <<>>))
    BY <2>1, <2>2, ConcatIsSequence, Zenon
  <2>4. IsSequence(<<Text("host"), Text("app")>>)
    BY ShortSequences, Zenon
  <2> QED BY <2>3, <2>4, Zenon DEF Positional
<1> QED BY <1>6, <1>7, ConcatIsSequence, Zenon DEF BuildPlan

LEMMA EditedIsSequence ==
  ASSUME NEW written, IsSequence(written), NEW s \in Edited(written)
  PROVE  IsSequence(s)
<1>1. Len(written) \in Nat
  BY SequenceFacts
<1>2. \A i \in 0..Len(written) :
        IsSequence(SubSeq(written, 1, i)) /\ IsSequence(SubSeq(written, i + 1, Len(written)))
  <2> SUFFICES ASSUME NEW i \in 0..Len(written)
               PROVE  IsSequence(SubSeq(written, 1, i)) /\ IsSequence(SubSeq(written, i + 1, Len(written)))
    OBVIOUS
  <2>1. 1 \in 1..(Len(written) + 1) /\ i + 1 \in 1..(Len(written) + 1) /\ Len(written) \in 0..Len(written)
    BY <1>1
  <2> QED BY <2>1, SubSeqIsSequence, Zenon
<1>3. CASE s \in {RemoveAt(written, i) : i \in 1..Len(written)}
  <2>1. PICK i \in 1..Len(written) : s = SubSeq(written, 1, i - 1) \o SubSeq(written, i + 1, Len(written))
    BY <1>3 DEF RemoveAt
  <2>2. i - 1 \in 0..Len(written) /\ i \in 0..Len(written)
    BY <1>1
  <2>3. IsSequence(SubSeq(written, 1, i - 1)) /\ IsSequence(SubSeq(written, i + 1, Len(written)))
    BY <1>2, <2>2, Zenon
  <2> QED BY <2>1, <2>3, ConcatIsSequence, Zenon
<1>4. CASE s \in UNION {Inserted(written, words) : words \in Edits}
  <2>1. PICK words \in Edits : s \in Inserted(written, words)
    BY <1>4
  <2>2. PICK i \in 0..Len(written) :
          s = SubSeq(written, 1, i) \o words \o SubSeq(written, i + 1, Len(written))
    BY <2>1 DEF Inserted
  <2>3. IsSequence(words)
    BY EditsAssumption DEF IsSequence
  <2>4. IsSequence(SubSeq(written, 1, i) \o words)
    BY <1>2, <2>3, ConcatIsSequence, Zenon
  <2> QED BY <1>2, <2>2, <2>4, ConcatIsSequence, Zenon
<1> QED BY <1>3, <1>4 DEF Edited

\* No word was read yet.
LEMMA ParserInitially == Init => ParserInv
<1> SUFFICES ASSUME Init PROVE ParserInv
  OBVIOUS
<1>1. /\ options \in OptionSets
      /\ writer \in {"qt", "flatpak", "embedded"}
      /\ \E port \in BOOLEAN :
           args \in IF edited THEN Edited(BuildPlan(writer, options, port))
                    ELSE {BuildPlan(writer, options, port)}
      /\ flavor \in IF edited THEN {"qt", "embedded"} ELSE {streamOptionFlavor(writer)}
      /\ position = 1 /\ seen = {} /\ inputs = 0 /\ verdict = "parsing"
  BY Zenon DEF Init
<1>2. IsSequence(args)
  <2>1. PICK port \in BOOLEAN :
          args \in IF edited THEN Edited(BuildPlan(writer, options, port))
                   ELSE {BuildPlan(writer, options, port)}
    BY <1>1, Zenon
  <2>2. IsSequence(BuildPlan(writer, options, port))
    BY <1>1, PlanIsSequence
  <2>3. CASE edited
    BY <2>1, <2>2, <2>3, EditedIsSequence
  <2>4. CASE ~edited
    BY <2>1, <2>2, <2>4
  <2> QED BY <2>3, <2>4
<1>3. flavor \in Flavors
  BY <1>1 DEF Flavors, streamOptionFlavor
<1>4. VectorInv
  BY <1>1, <1>2, <1>3, SequenceFacts DEF VectorInv, IsSequence
<1>5. Behind = {}
  BY <1>1 DEF Behind
<1>6. OptionsInv /\ SizeInv /\ ValuesInv /\ EndInv
  BY <1>1, <1>5 DEF OptionsInv, SizeInv, ValuesInv, EndInv
<1>7. InputsInv
  <2>1. {i \in Behind : args[i] = Text("-input")} = {}
    BY <1>5
  <2> QED BY <1>1, <2>1, FS_EmptySet DEF InputsInv, maxEmbeddedInputDevices
<1> QED BY <1>4, <1>6, <1>7 DEF ParserInv

\* Whatever was done to a vector, what the boundary accepts of it is in the
\* grammar (splitStreamOptions, validatePlanArguments): for every set of options
\* and of insertions.
THEOREM OnlyTheGrammarIsAccepted == Spec => []AcceptedIsWithinGrammar
<1>1. ParserInv => AcceptedIsWithinGrammar
  BY InvariantImpliesGrammar DEF AcceptedIsWithinGrammar
<1>2. ParserInv /\ [Next]_vars => ParserInv'
  BY ParserKeeps
<1> QED BY ParserInitially, <1>1, <1>2, PTL DEF Spec

-----------------------------------------------------------------------------
(* What a field of the options is written as. *)

Fields == {FieldOrder[i] : i \in 1..32}

\* The value that is written for one option is accepted, and read back as what
\* the field said, but for the codec H.264 of Qt.
ValueRead(f, field, v, t, word) ==
  \/ f = "qt" /\ field = "codec" /\ v = Text("h264") /\ word = Text("H.264")
  \/ /\ ValueAccepted(t, word)
     /\ field = "codec" => normalizedCodec(ToLower(word)) = normalizedCodec(v)
     /\ field = "platform" => word = v

\* Most fields are written as one option of the field's own group.
OneOption(f, field, v, w) ==
  \E t : /\ <<t, field>> \in Dialect(f)
         /\ \/ t \notin Valued /\ w = Flag(t)
            \/ /\ t \in Valued \ {"-width", "-height", "-input"}
               /\ \E word : w = Setting(t, word) /\ ValueRead(f, field, v, t, word)

\* A size is written for Embedded as two options.
TwoDimensions(f, field, w) ==
  /\ f = "embedded" /\ field = "resolution"
  /\ \E a \in CustomWidths, b \in CustomHeights : w = Dimensions(a, b)

\* Input devices are written one by one.
Devices(f, field, v, w) ==
  /\ f = "embedded" /\ field = "inputs"
  /\ v[2] \in 0..maxEmbeddedInputDevices
  /\ w = [i \in 1..(2 * v[2]) |-> IF i % 2 = 1 THEN Text("-input") ELSE Text("device")]

\* Some values need no words.
NoWords(field, v, w) ==
  w = <<>> /\ field \notin {"resolution", "codec", "inputs"} /\ (field = "platform" => v = Text("auto"))

Shape(f, field, v, w) ==
  NoWords(field, v, w) \/ OneOption(f, field, v, w) \/ TwoDimensions(f, field, w) \/ Devices(f, field, v, w)

FieldPremises(f, field, v) ==
  /\ ValidValue(field, v) /\ Supported(f, field, v)
  /\ field \in {"fps", "bitrate", "packetSize"} => v = Num(v[2]) /\ v[2] \in Int
  /\ field = "inputs" => v[2] \in Nat

\* What the parser requires of a value, by its option.
LEMMA NumbersAccepted ==
  ASSUME NEW flag, NEW word, decimalArgument(word),
         \/ flag = "-fps" /\ word[2] >= 10 /\ word[2] <= 480
         \/ flag = "-bitrate" /\ word[2] >= 500 /\ word[2] <= 500000
         \/ flag \in {"-packet-size", "-packetsize"} /\ validatePacketSize(word[2])
         \/ flag = "-width" /\ word[2] \in CustomWidths
         \/ flag = "-height" /\ word[2] \in CustomHeights
  PROVE  ValueAccepted(flag, word)
  BY SMT DEF ValueAccepted

\* The same of the options whose value is a text.
LEMMA TextsAccepted ==
  ASSUME NEW flag, NEW word,
         \/ flag = "-resolution" /\ customResolution(word)
         \/ /\ flag \in {"-codec", "-video-codec"}
            /\ normalizedCodec(ToLower(word)) \in Texts({"auto", "h264", "hevc", "av1"})
         \/ flag = "-audio-config" /\ word \in Texts({"stereo", "5.1-surround", "7.1-surround"})
         \/ flag = "-surround" /\ word \in Texts({"5.1", "7.1"})
         \/ flag = "-remote" /\ word \in Texts({"auto", "yes", "no"})
         \/ flag = "-capture-system-keys" /\ word \in Texts({"never", "fullscreen", "always"})
         \/ flag = "-platform" /\ word \in Texts({"auto", "x11", "x11_vdpau", "x11_vaapi", "sdl"})
         \/ flag = "-video-decoder" /\ word \in Texts({"auto", "software", "hardware"})
         \/ flag = "-display-mode" /\ word \in Texts({"fullscreen", "windowed", "borderless"})
         \/ flag \in {"-audio", "-input", "-mapping"} /\ word = Text("device")
  PROVE  ValueAccepted(flag, word)
  BY SMT DEF ValueAccepted

\* A field that is written as one flag, or as one option with its value.
LEMMA FlagShape ==
  ASSUME NEW f, NEW field, NEW v, NEW t, <<t, field>> \in Dialect(f), t \notin Valued
  PROVE  Shape(f, field, v, Flag(t))
  BY DEF Shape, OneOption

LEMMA SettingShape ==
  ASSUME NEW f, NEW field, NEW v, NEW t, NEW word, <<t, field>> \in Dialect(f),
         t \in Valued \ {"-width", "-height", "-input"}, ValueRead(f, field, v, t, word)
  PROVE  Shape(f, field, v, Setting(t, word))
  BY DEF Shape, OneOption

\* The fields one by one: the resolution, which each dialect writes its own way.
LEMMA ResolutionShape ==
  ASSUME NEW f \in Flavors, NEW v, ValidValue("resolution", v)
  PROVE  Shape(f, "resolution", v, Words(f, "resolution", v))
<1>1. Words(f, "resolution", v) = ResolutionWords(f, v)
  BY DEF Words
<1>2. v \in Texts({"720", "1080", "1440", "4k"}) \/ customResolution(v)
  BY DEF ValidValue
<1>3. CASE v \in Texts({"720", "1080", "1440", "4k"}) /\ ~(v = Text("1440") /\ f = "embedded")
  <2>1. \E t : ResolutionWords(f, v) = Flag(t) /\ <<t, "resolution">> \in Dialect(f) /\ t \notin Valued
    <3>1. v[1] # "size"
      BY <1>3 DEF Texts, Text
    <3>2. CASE v = Text("720")
      <4>1. ResolutionWords(f, v) = Flag("-720")
        BY <3>1, <3>2 DEF ResolutionWords, Text
      <4> QED BY <4>1 DEF Dialect, SharedOptions, Valued
    <3>3. CASE v = Text("1080")
      <4>1. ResolutionWords(f, v) = Flag("-1080")
        BY <3>1, <3>3 DEF ResolutionWords, Text
      <4> QED BY <4>1 DEF Dialect, SharedOptions, Valued
    <3>4. CASE v = Text("1440")
      <4>1. ResolutionWords(f, v) = Flag("-1440") /\ f = "qt"
        BY <1>3, <3>1, <3>4 DEF ResolutionWords, Text, Flavors
      <4> QED BY <4>1 DEF Dialect, QtOptions, Valued
    <3>5. CASE v = Text("4k")
      <4>1. ResolutionWords(f, v) = Flag(IF f = "qt" THEN "-4K" ELSE "-4k")
        BY <3>1, <3>5 DEF ResolutionWords, Text
      <4> QED BY <4>1 DEF Dialect, QtOptions, EmbeddedOptions, Valued, Flavors
    <3> QED BY <1>3, <3>2, <3>3, <3>4, <3>5 DEF Texts
  <2> QED BY <1>1, <2>1, FlagShape
<1>4. CASE v = Text("1440") /\ f = "embedded"
  <2>1. ResolutionWords(f, v) = Dimensions(QuadHD[2], QuadHD[3])
    BY <1>4 DEF ResolutionWords, Text
  <2>2. QuadHD[2] \in CustomWidths /\ QuadHD[3] \in CustomHeights
    BY SMT DEF QuadHD, Size, CustomWidths, CustomHeights
  <2>3. TwoDimensions(f, "resolution", ResolutionWords(f, v))
    BY <1>4, <2>1, <2>2 DEF TwoDimensions
  <2> QED BY <1>1, <2>3 DEF Shape
<1>5. CASE customResolution(v)
  <2>1. v[1] = "size" /\ \A t : v # Text(t)
    BY <1>5 DEF customResolution, Text
  <2>2. CASE f = "qt"
    <3>1. ResolutionWords(f, v) = Setting("-resolution", v)
      BY <2>1, <2>2 DEF ResolutionWords
    <3>2. ValueRead(f, "resolution", v, "-resolution", v)
      BY <1>5, TextsAccepted DEF ValueRead
    <3>3. <<"-resolution", "resolution">> \in Dialect(f) /\ "-resolution" \in Valued \ {"-width", "-height", "-input"}
      BY <2>2 DEF Dialect, QtOptions, Valued
    <3> QED BY <1>1, <3>1, <3>2, <3>3, SettingShape
  <2>3. CASE f # "qt"
    <3>1. ResolutionWords(f, v) = Dimensions(v[2], v[3])
      BY <2>1, <2>3 DEF ResolutionWords
    <3>2. v[2] \in CustomWidths /\ v[3] \in CustomHeights
      BY <1>5 DEF customResolution
    <3>3. TwoDimensions(f, "resolution", ResolutionWords(f, v))
      BY <2>3, <3>1, <3>2 DEF TwoDimensions, Flavors
    <3> QED BY <1>1, <3>3 DEF Shape
  <2> QED BY <2>2, <2>3
<1> QED BY <1>2, <1>3, <1>4, <1>5

\* The codec, which Qt is given under its own names.
LEMMA CodecShape ==
  ASSUME NEW f \in Flavors, NEW v, ValidValue("codec", v)
  PROVE  Shape(f, "codec", v, Words(f, "codec", v))
<1>1. v \in Texts({"auto", "h264", "h265", "hevc", "av1"})
  BY DEF ValidValue
<1>2. CASE f = "qt"
  <2> DEFINE word == qtCodecName(normalizedCodec(v))
  <2>1. Words(f, "codec", v) = Setting("-video-codec", word)
    BY <1>2 DEF Words
  <2>2. ValueRead(f, "codec", v, "-video-codec", word)
    <3>1. CASE v = Text("h264")
      <4>1. word = Text("H.264")
        BY <3>1 DEF Text, qtCodecName, normalizedCodec
      <4> QED BY <1>2, <3>1, <4>1 DEF ValueRead
    <3>2. CASE v # Text("h264")
      <4>1. normalizedCodec(v) \in Texts({"auto", "hevc", "av1"})
        BY <1>1, <3>2 DEF Texts, Text, normalizedCodec
      <4>2. \A c \in Texts({"auto", "hevc", "av1"}) : normalizedCodec(ToLower(qtCodecName(c))) = c
        BY DEF Texts, Text, qtCodecName, ToLower, normalizedCodec
      <4>3. normalizedCodec(ToLower(word)) = normalizedCodec(v)
        BY <4>1, <4>2
      <4>4. normalizedCodec(v) \in Texts({"auto", "h264", "hevc", "av1"})
        BY <4>1 DEF Texts
      <4> HIDE DEF word
      <4> QED BY <4>3, <4>4, TextsAccepted DEF ValueRead
    <3> QED BY <3>1, <3>2
  <2>3. <<"-video-codec", "codec">> \in Dialect(f) /\ "-video-codec" \in Valued \ {"-width", "-height", "-input"}
    BY <1>2 DEF Dialect, QtOptions, Valued
  <2> QED BY <2>1, <2>2, <2>3, SettingShape
<1>3. CASE f = "embedded"
  <2> DEFINE word == normalizedCodec(v)
  <2>1. Words(f, "codec", v) = Setting("-codec", word)
    BY <1>3 DEF Words
  <2>2. ValueRead(f, "codec", v, "-codec", word)
    <3>1. normalizedCodec(ToLower(word)) = normalizedCodec(v)
      BY <1>1 DEF Texts, Text, normalizedCodec, ToLower
    <3>2. normalizedCodec(v) \in Texts({"auto", "h264", "hevc", "av1"})
      BY <1>1 DEF Texts, Text, normalizedCodec
    <3> HIDE DEF word
    <3> QED BY <3>1, <3>2, TextsAccepted DEF ValueRead
  <2>3. <<"-codec", "codec">> \in Dialect(f) /\ "-codec" \in Valued \ {"-width", "-height", "-input"}
    BY <1>3 DEF Dialect, EmbeddedOptions, Valued
  <2> QED BY <2>1, <2>2, <2>3, SettingShape
<1> QED BY <1>2, <1>3 DEF Flavors

\* The three numbers: Validate is at least as strict as the parser.
LEMMA NumberShape ==
  ASSUME NEW f \in Flavors, NEW field \in {"fps", "bitrate", "packetSize"}, NEW v, FieldPremises(f, field, v)
  PROVE  Shape(f, field, v, Words(f, field, v))
<1>1. v = Num(v[2]) /\ v[2] \in Int /\ ValidValue(field, v)
  BY DEF FieldPremises
<1>2. decimalArgument(v)
  BY <1>1 DEF decimalArgument, Num
<1>3. CASE field = "fps"
  <2>1. Words(f, field, v) = Setting("-fps", v)
    BY <1>3 DEF Words
  <2>2. ValueRead(f, field, v, "-fps", v)
    BY <1>1, <1>2, <1>3, NumbersAccepted DEF ValueRead, ValidValue
  <2>3. <<"-fps", field>> \in Dialect(f) /\ "-fps" \in Valued \ {"-width", "-height", "-input"}
    BY <1>3 DEF Dialect, SharedOptions, Valued
  <2> QED BY <2>1, <2>2, <2>3, SettingShape
<1>4. CASE field = "bitrate"
  <2>1. Words(f, field, v) = Setting("-bitrate", v)
    BY <1>4 DEF Words
  <2>2. ValueRead(f, field, v, "-bitrate", v)
    BY <1>1, <1>2, <1>4, NumbersAccepted DEF ValueRead, ValidValue
  <2>3. <<"-bitrate", field>> \in Dialect(f) /\ "-bitrate" \in Valued \ {"-width", "-height", "-input"}
    BY <1>4 DEF Dialect, SharedOptions, Valued
  <2> QED BY <2>1, <2>2, <2>3, SettingShape
<1>5. CASE field = "packetSize"
  <2> DEFINE t == IF f = "qt" THEN "-packet-size" ELSE "-packetsize"
  <2>1. Words(f, field, v) = Setting(t, v)
    BY <1>5 DEF Words
  <2>2. ValueRead(f, field, v, t, v)
    BY <1>1, <1>2, <1>5, NumbersAccepted DEF ValueRead, ValidValue
  <2>3. <<t, field>> \in Dialect(f) /\ t \in Valued \ {"-width", "-height", "-input"}
    BY <1>5 DEF Dialect, QtOptions, EmbeddedOptions, Valued, Flavors
  <2> HIDE DEF t
  <2> QED BY <2>1, <2>2, <2>3, SettingShape
<1> QED BY <1>3, <1>4, <1>5

\* The fields that are written as one flag.
LEMMA FlagFields ==
  ASSUME NEW f \in Flavors, NEW v,
         NEW field \in {"audioOnHost", "hostSettings", "noMouseEmulation", "keepAwake", "quitAfter",
                        "mouseMode", "hdr"} \cup QtControls,
         Supported(f, field, v)
  PROVE  Shape(f, field, v, Words(f, field, v))
<1>1. ASSUME NEW t, Words(f, field, v) = Flag(t), t \notin Valued, <<t, field>> \in Dialect(f)
      PROVE  Shape(f, field, v, Words(f, field, v))
  BY <1>1, FlagShape
<1>2. CASE field = "audioOnHost"
  <2> DEFINE t == IF f = "qt" THEN "-audio-on-host" ELSE "-localaudio"
  <2>1. Words(f, field, v) = Flag(t)
    BY <1>2 DEF Words
  <2>2. <<t, field>> \in Dialect(f) /\ t \notin Valued
    BY <1>2 DEF Dialect, QtOptions, EmbeddedOptions, Valued, Flavors
  <2> QED BY <1>1, <2>1, <2>2
<1>3. CASE field = "hostSettings"
  <2> DEFINE t == IF f = "qt" THEN "-no-game-optimization" ELSE "-nosops"
  <2>1. Words(f, field, v) = Flag(t)
    BY <1>3 DEF Words
  <2>2. <<t, field>> \in Dialect(f) /\ t \notin Valued
    BY <1>3 DEF Dialect, QtOptions, EmbeddedOptions, Valued, Flavors
  <2> QED BY <1>1, <2>1, <2>2
<1>4. CASE field = "noMouseEmulation"
  <2>1. Words(f, field, v) = Flag("-nomouseemulation") /\ f = "embedded"
    BY <1>4 DEF Words, Supported, EmbeddedOnlyFields
  <2>2. <<"-nomouseemulation", field>> \in Dialect(f) /\ "-nomouseemulation" \notin Valued
    BY <1>4, <2>1 DEF Dialect, EmbeddedOptions, Valued
  <2> QED BY <1>1, <2>1, <2>2
<1>5. CASE field = "keepAwake"
  <2>1. Words(f, field, v) = Flag("-keep-awake") /\ f = "qt"
    BY <1>5 DEF Words, Supported, QtOnlyFields
  <2>2. <<"-keep-awake", field>> \in Dialect(f) /\ "-keep-awake" \notin Valued
    BY <1>5, <2>1 DEF Dialect, QtOptions, Valued
  <2> QED BY <1>1, <2>1, <2>2
<1>6. CASE field = "quitAfter"
  <2> DEFINE t == IF f = "qt" THEN "-quit-after" ELSE "-quitappafter"
  <2>1. Words(f, field, v) = Flag(t)
    BY <1>6 DEF Words
  <2>2. <<t, field>> \in Dialect(f) /\ t \notin Valued
    BY <1>6 DEF Dialect, QtOptions, EmbeddedOptions, Valued, Flavors
  <2> QED BY <1>1, <2>1, <2>2
<1>7. CASE field = "mouseMode"
  <2> DEFINE t == IF v = Text("absolute") THEN "-absolute-mouse" ELSE "-no-absolute-mouse"
  <2>1. Words(f, field, v) = Flag(t) /\ f = "qt"
    BY <1>7 DEF Words, Supported, QtOnlyFields
  <2>2. <<t, field>> \in Dialect(f) /\ t \notin Valued
    BY <1>7, <2>1 DEF Dialect, QtOptions, Valued
  <2> QED BY <1>1, <2>1, <2>2
<1>8. CASE field = "hdr"
  <2>1. Words(f, field, v) = Flag("-hdr")
    BY <1>8 DEF Words, ControlOption
  <2>2. <<"-hdr", field>> \in Dialect(f) /\ "-hdr" \notin Valued
    BY <1>8 DEF Dialect, SharedOptions, Valued
  <2> QED BY <1>1, <2>1, <2>2
<1>9. CASE field \in QtControls
  <2> DEFINE t == ControlOption(field)
  <2>1. Words(f, field, v) = Flag(t)
    BY <1>9 DEF Words, QtControls
  <2>2. f = "qt"
    BY <1>9 DEF Supported, QtOnlyFields
  <2>3. <<t, field>> \in QtOptions
    BY <1>9 DEF QtControls, ControlOption, QtOptions
  <2>4. t \notin Valued
    BY <1>9 DEF QtControls, ControlOption, Valued
  <2>5. <<t, field>> \in Dialect(f)
    BY <2>2, <2>3 DEF Dialect
  <2> QED BY <1>1, <2>1, <2>4, <2>5
<1> QED BY <1>2, <1>3, <1>4, <1>5, <1>6, <1>7, <1>8, <1>9

\* The fields that choose between two flags, or none.
LEMMA ChoiceFields ==
  ASSUME NEW f \in Flavors, NEW v, NEW field \in {"framePacing", "vsync"}, FieldPremises(f, field, v)
  PROVE  Shape(f, field, v, Words(f, field, v))
<1>1. f = "qt" /\ v \in Texts({"auto", "on", "off"})
  BY DEF FieldPremises, Supported, QtOnlyFields, ValidValue
<1>2. CASE v = Text("auto")
  <2>1. Words(f, field, v) = <<>>
    BY <1>2 DEF Words, OnOff, Text
  <2> QED BY <2>1 DEF Shape, NoWords
<1>3. CASE v # Text("auto")
  <2> DEFINE t == IF field = "vsync" THEN IF v = Text("on") THEN "-vsync" ELSE "-no-vsync"
                  ELSE IF v = Text("on") THEN "-frame-pacing" ELSE "-no-frame-pacing"
  <2>1. v = Text("on") \/ v = Text("off")
    BY <1>1, <1>3 DEF Texts
  <2>2. Words(f, field, v) = Flag(t)
    BY <2>1 DEF Words, OnOff, Text
  <2>3. <<t, field>> \in Dialect(f) /\ t \notin Valued
    BY <1>1 DEF Dialect, QtOptions, Valued
  <2> QED BY <2>2, <2>3, FlagShape
<1> QED BY <1>2, <1>3

\* The fields that are written as one option with a text, or not at all.
LEMMA TextFields ==
  ASSUME NEW f \in Flavors, NEW v,
         NEW field \in {"audioConfig", "audioDevice", "mapping", "network", "captureSystemKeys",
                        "platform", "decoder", "displayMode"},
         FieldPremises(f, field, v)
  PROVE  Shape(f, field, v, Words(f, field, v))
<1>1. ASSUME NEW t, NEW word, Words(f, field, v) = Setting(t, word), <<t, field>> \in Dialect(f),
             t \in Valued \ {"-width", "-height", "-input"}, ValueAccepted(t, word),
             field = "platform" => word = v
      PROVE  Shape(f, field, v, Words(f, field, v))
  <2>1. ValueRead(f, field, v, t, word)
    BY <1>1 DEF ValueRead
  <2> QED BY <1>1, <2>1, SettingShape
<1>2. CASE field = "audioConfig"
  <2>1. v \in Texts({"stereo", "5.1-surround", "7.1-surround"})
    BY <1>2 DEF FieldPremises, ValidValue
  <2>2. CASE f = "qt"
    <3>1. Words(f, field, v) = Setting("-audio-config", v)
      BY <1>2, <2>2 DEF Words
    <3>2. <<"-audio-config", field>> \in Dialect(f) /\ "-audio-config" \in Valued \ {"-width", "-height", "-input"}
      BY <1>2, <2>2 DEF Dialect, QtOptions, Valued
    <3> QED BY <1>1, <1>2, <2>1, <3>1, <3>2, TextsAccepted
  <2>3. CASE f = "embedded" /\ v = Text("stereo")
    <3>1. Words(f, field, v) = <<>>
      BY <1>2, <2>3 DEF Words, Text
    <3> QED BY <1>2, <3>1 DEF Shape, NoWords
  <2>4. CASE f = "embedded" /\ v # Text("stereo")
    <3> DEFINE word == IF v = Text("5.1-surround") THEN Text("5.1") ELSE Text("7.1")
    <3>0. v = Text("5.1-surround") \/ v = Text("7.1-surround")
      BY <2>1, <2>4 DEF Texts
    <3>1. Words(f, field, v) = Setting("-surround", word)
      BY <1>2, <2>4, <3>0 DEF Words, Text
    <3>2. <<"-surround", field>> \in Dialect(f) /\ "-surround" \in Valued \ {"-width", "-height", "-input"}
      BY <1>2, <2>4 DEF Dialect, EmbeddedOptions, Valued
    <3>3. word \in Texts({"5.1", "7.1"})
      BY DEF Texts
    <3> HIDE DEF word
    <3> QED BY <1>1, <1>2, <3>1, <3>2, <3>3, TextsAccepted
  <2> QED BY <2>2, <2>3, <2>4 DEF Flavors
<1>3. CASE field \in {"audioDevice", "mapping"}
  <2> DEFINE t == IF field = "mapping" THEN "-mapping" ELSE "-audio"
  <2>1. v = Text("device") /\ f = "embedded"
    BY <1>3 DEF FieldPremises, ValidValue, Supported, EmbeddedOnlyFields, Flavors
  <2>2. Words(f, field, v) = Setting(t, v)
    BY <1>3 DEF Words
  <2>3. <<t, field>> \in Dialect(f) /\ t \in Valued \ {"-width", "-height", "-input"}
    BY <1>3, <2>1 DEF Dialect, EmbeddedOptions, Valued
  <2>4. t \in {"-audio", "-input", "-mapping"}
    BY <1>3
  <2> HIDE DEF t
  <2> QED BY <1>1, <1>3, <2>1, <2>2, <2>3, <2>4, TextsAccepted
<1>4. CASE field = "network"
  <2> DEFINE word == CASE v = Text("lan") -> Text("no") [] v = Text("wan") -> Text("yes") [] OTHER -> v
  <2>1. v \in Texts({"auto", "lan", "wan"}) /\ f = "embedded"
    BY <1>4 DEF FieldPremises, ValidValue, Supported, EmbeddedOnlyFields, Flavors
  <2>2. Words(f, field, v) = Setting("-remote", word)
    BY <1>4 DEF Words
  <2>3. <<"-remote", field>> \in Dialect(f) /\ "-remote" \in Valued \ {"-width", "-height", "-input"}
    BY <1>4, <2>1 DEF Dialect, EmbeddedOptions, Valued
  <2>4. word \in Texts({"auto", "yes", "no"})
    BY <2>1 DEF Texts, Text
  <2> HIDE DEF word
  <2> QED BY <1>1, <1>4, <2>2, <2>3, <2>4, TextsAccepted
<1>5. CASE field = "captureSystemKeys"
  <2>1. v \in Texts({"auto", "never", "fullscreen", "always"}) /\ f = "qt"
    BY <1>5 DEF FieldPremises, ValidValue, Supported, QtOnlyFields, Flavors
  <2>2. CASE v = Text("auto")
    <3>1. Words(f, field, v) = <<>>
      BY <1>5, <2>2 DEF Words
    <3> QED BY <1>5, <3>1 DEF Shape, NoWords
  <2>3. CASE v # Text("auto")
    <3>1. Words(f, field, v) = Setting("-capture-system-keys", v)
      BY <1>5, <2>3 DEF Words
    <3>2. <<"-capture-system-keys", field>> \in Dialect(f)
          /\ "-capture-system-keys" \in Valued \ {"-width", "-height", "-input"}
      BY <1>5, <2>1 DEF Dialect, QtOptions, Valued
    <3>3. v \in Texts({"never", "fullscreen", "always"})
      BY <2>1, <2>3 DEF Texts
    <3> QED BY <1>1, <1>5, <3>1, <3>2, <3>3, TextsAccepted
  <2> QED BY <2>2, <2>3
<1>6. CASE field = "platform"
  <2>1. v \in Texts({"auto", "x11", "x11_vdpau", "x11_vaapi", "sdl"}) /\ f = "embedded"
    BY <1>6 DEF FieldPremises, ValidValue, Supported, EmbeddedOnlyFields, Flavors
  <2>2. CASE v = Text("auto")
    <3>1. Words(f, field, v) = <<>>
      BY <1>6, <2>2 DEF Words
    <3> QED BY <1>6, <2>2, <3>1 DEF Shape, NoWords
  <2>3. CASE v # Text("auto")
    <3>1. Words(f, field, v) = Setting("-platform", v)
      BY <1>6, <2>3 DEF Words
    <3>2. <<"-platform", field>> \in Dialect(f) /\ "-platform" \in Valued \ {"-width", "-height", "-input"}
      BY <1>6, <2>1 DEF Dialect, EmbeddedOptions, Valued
    <3> QED BY <1>1, <1>6, <2>1, <3>1, <3>2, TextsAccepted
  <2> QED BY <2>2, <2>3
<1>7. CASE field = "decoder"
  <2>1. v \in Texts({"auto", "software", "hardware"}) /\ f = "qt"
    BY <1>7 DEF FieldPremises, ValidValue, Supported, QtOnlyFields, Flavors
  <2>2. Words(f, field, v) = Setting("-video-decoder", v)
    BY <1>7 DEF Words
  <2>3. <<"-video-decoder", field>> \in Dialect(f) /\ "-video-decoder" \in Valued \ {"-width", "-height", "-input"}
    BY <1>7, <2>1 DEF Dialect, QtOptions, Valued
  <2> QED BY <1>1, <1>7, <2>1, <2>2, <2>3, TextsAccepted
<1>8. CASE field = "displayMode"
  <2>1. v \in Texts({"fullscreen", "windowed", "borderless"})
    BY <1>8 DEF FieldPremises, ValidValue
  <2>2. CASE f = "qt"
    <3>1. Words(f, field, v) = Setting("-display-mode", v)
      BY <1>8, <2>2 DEF Words
    <3>2. <<"-display-mode", field>> \in Dialect(f) /\ "-display-mode" \in Valued \ {"-width", "-height", "-input"}
      BY <1>8, <2>2 DEF Dialect, QtOptions, Valued
    <3> QED BY <1>1, <1>8, <2>1, <3>1, <3>2, TextsAccepted
  <2>3. CASE f = "embedded" /\ v = Text("windowed")
    <3>1. Words(f, field, v) = Flag("-windowed")
      BY <1>8, <2>3 DEF Words
    <3>2. <<"-windowed", field>> \in Dialect(f) /\ "-windowed" \notin Valued
      BY <1>8, <2>3 DEF Dialect, EmbeddedOptions, Valued
    <3> QED BY <3>1, <3>2, FlagShape
  <2>4. CASE f = "embedded" /\ v # Text("windowed")
    <3>1. Words(f, field, v) = <<>>
      BY <1>8, <2>4 DEF Words
    <3> QED BY <1>8, <3>1 DEF Shape, NoWords
  <2> QED BY <2>2, <2>3, <2>4 DEF Flavors
<1> QED BY <1>2, <1>3, <1>4, <1>5, <1>6, <1>7, <1>8

\* Every field has one of the shapes.
LEMMA FieldShape ==
  ASSUME NEW f \in Flavors, NEW field \in Fields, NEW v, FieldPremises(f, field, v)
  PROVE  Shape(f, field, v, Words(f, field, v))
<1>1. CASE field = "inputs"
  <2>1. f = "embedded" /\ v[2] \in 0..maxEmbeddedInputDevices
    BY <1>1 DEF FieldPremises, ValidValue, Supported, EmbeddedOnlyFields, Flavors, maxEmbeddedInputDevices
  <2>2. Words(f, field, v) =
          [i \in 1..(2 * v[2]) |-> IF i % 2 = 1 THEN Text("-input") ELSE Text("device")]
    BY <1>1 DEF Words
  <2> QED BY <1>1, <2>1, <2>2 DEF Shape, Devices
<1>2. CASE field = "resolution"
  BY <1>2, ResolutionShape DEF FieldPremises
<1>3. CASE field = "codec"
  BY <1>3, CodecShape DEF FieldPremises
<1>4. CASE field \in {"framePacing", "vsync"}
  BY <1>4, ChoiceFields
<1>5. CASE field \in {"audioConfig", "audioDevice", "mapping", "network", "captureSystemKeys",
                       "platform", "decoder", "displayMode"}
  BY <1>5, TextFields
<1>6. CASE field \in {"audioOnHost", "hostSettings", "noMouseEmulation", "keepAwake", "quitAfter",
                       "mouseMode", "hdr"} \cup QtControls
  <2>1. Supported(f, field, v)
    BY DEF FieldPremises
  <2> QED BY <1>6, <2>1, FlagFields
<1>7. CASE field \in {"fps", "bitrate", "packetSize"}
  BY <1>7, NumberShape
<1>8. field \in {"inputs", "resolution", "codec", "framePacing", "vsync", "audioConfig", "audioDevice",
                 "mapping", "network", "captureSystemKeys", "platform", "decoder", "displayMode",
                 "audioOnHost", "hostSettings", "noMouseEmulation", "keepAwake", "quitAfter",
                 "mouseMode", "hdr", "fps", "bitrate", "packetSize"} \cup QtControls
  BY DEF Fields, FieldOrder, QtControls
<1> HIDE DEF Fields
<1> QED BY <1>1, <1>2, <1>3, <1>4, <1>5, <1>6, <1>7, <1>8

-----------------------------------------------------------------------------
(* What a whole vector of options looks like. *)

\* The dimensions of a size are two groups of one field.
FieldOf(o) == IF o[2] = "height" THEN "resolution" ELSE o[2]

WordCount(t) == IF t \in Valued THEN 2 ELSE 1

DevicesIn(w) == {p \in 1..Len(w) : w[p] = Text("-input")}

\* The option t at p is one of the fields F that are set, its value is read as
\* the field says, and another option follows it.
OptionAt(f, set, w, F, p, t) ==
  \E o \in Dialect(f) :
    /\ o[1] = t /\ FieldOf(o) \in F /\ Has(set, FieldOf(o))
    /\ p + WordCount(t) <= Len(w) + 1
    /\ p + WordCount(t) <= Len(w) => IsOption(w[p + WordCount(t)])
    /\ t \in Valued => ValueRead(f, FieldOf(o), set[FieldOf(o)], t, w[p + 1])

OptionsAreSet(f, set, w, F) ==
  /\ Len(w) > 0 => IsOption(w[1])
  /\ \A p \in 1..Len(w), t \in DashWords : w[p] = Text(t) => OptionAt(f, set, w, F, p, t)

GroupsOccurOnce(f, w) ==
  \A p, q \in 1..Len(w), o1, o2 \in Dialect(f) :
    w[p] = Text(o1[1]) /\ w[q] = Text(o2[1]) /\ o1[2] = o2[2] /\ o1[2] # "inputs" => p = q

DimensionsArePaired(w) ==
  /\ \A p \in 1..Len(w) : w[p] = Text("-height") => \E q \in 1..(p - 1) : w[q] = Text("-width")
  /\ \A p \in 1..Len(w) : w[p] = Text("-width") => \E q \in 1..Len(w) : w[q] = Text("-height")

FieldIsWritten(f, set, w, field) ==
  Has(set, field) /\ (field = "platform" => set[field] # Text("auto")) =>
    \E p \in 1..Len(w), o \in Dialect(f) : w[p] = Text(o[1]) /\ o[2] = field

FieldsAreWritten(f, set, w, F) ==
  /\ \A field \in F \cap {"resolution", "codec", "platform"} : FieldIsWritten(f, set, w, field)
  /\ Cardinality(DevicesIn(w)) =
       IF "inputs" \in F /\ Has(set, "inputs") THEN set["inputs"][2] ELSE 0

Written(f, set, w, F) ==
  /\ IsSequence(w)
  /\ OptionsAreSet(f, set, w, F)
  /\ GroupsOccurOnce(f, w)
  /\ DimensionsArePaired(w)
  /\ FieldsAreWritten(f, set, w, F)

\* The three options that the invariant names are options of the table.
LEMMA NamedOptions == {"-width", "-height", "-input"} \subseteq DashWords
<1>1. /\ <<"-width", "resolution">> \in EmbeddedOptions /\ <<"-height", "height">> \in EmbeddedOptions
      /\ <<"-input", "inputs">> \in EmbeddedOptions
  BY DEF EmbeddedOptions
<1> QED BY <1>1 DEF DashWords

\* No value is read as an option.
LEMMA ValueIsNoOption ==
  ASSUME NEW f, NEW field, NEW v, NEW t \in Valued, NEW word, ValueRead(f, field, v, t, word)
  PROVE  \A d \in DashWords : word # Text(d)
<1>1. CASE word = Text("H.264")
  BY <1>1 DEF Text, DashWords, SharedOptions, QtOptions, EmbeddedOptions
<1>2. CASE ValueAccepted(t, word)
  BY <1>2, ValueWords
<1> QED BY <1>1, <1>2 DEF ValueRead

\* Nothing, one flag, one option with its value, and one size are vectors of no
\* field or of one.
LEMMA EmptyWritten ==
  ASSUME NEW f, NEW set, NEW F,
         \A field \in F \cap {"resolution", "codec", "platform"} :
           Has(set, field) => field = "platform" /\ set[field] = Text("auto"),
         "inputs" \in F => ~Has(set, "inputs")
  PROVE  Written(f, set, <<>>, F)
<1>1. Len(<<>>) = 0 /\ 1..0 = {} /\ IsSequence(<<>>)
  BY ShortSequences
<1>2. DevicesIn(<<>>) = {}
  BY <1>1 DEF DevicesIn
<1>3. Cardinality(DevicesIn(<<>>)) = 0
  BY <1>2, FS_EmptySet
<1>4. OptionsAreSet(f, set, <<>>, F) /\ GroupsOccurOnce(f, <<>>) /\ DimensionsArePaired(<<>>)
  BY <1>1 DEF OptionsAreSet, GroupsOccurOnce, DimensionsArePaired
<1>5. FieldsAreWritten(f, set, <<>>, F)
  BY <1>3 DEF FieldsAreWritten, FieldIsWritten
<1> QED BY <1>1, <1>4, <1>5 DEF Written

LEMMA FlagWritten ==
  ASSUME NEW f \in Flavors, NEW set, NEW field, Has(set, field),
         NEW t, <<t, field>> \in Dialect(f), t \notin Valued
  PROVE  Written(f, set, Flag(t), {field})
<1> DEFINE w == Flag(t)
           o == <<t, field>>
<1>1. Len(w) = 1 /\ w[1] = Text(t) /\ IsSequence(w)
  BY ShortSequences DEF Flag
<1>2. t \notin {"-width", "-height", "-input"}
  BY DEF Valued
<1>3. o \in Dialect(f) /\ o[1] = t /\ o[2] = field
  OBVIOUS
<1>4. t \in DashWords /\ FieldOf(o) = field /\ field # "inputs"
  BY <1>2, <1>3, GroupsByFlag DEF FieldOf
<1> HIDE DEF w, o
<1>5. OptionsAreSet(f, set, w, {field})
  <2>1. IsOption(w[1])
    BY <1>1, <1>4 DEF IsOption, Texts
  <2>2. ASSUME NEW p \in 1..Len(w), NEW d \in DashWords, w[p] = Text(d)
        PROVE  OptionAt(f, set, w, {field}, p, d)
    <3>1. p = 1 /\ d = t
      BY <1>1, <2>2 DEF Text
    <3> QED BY <1>1, <1>3, <1>4, <3>1 DEF OptionAt, WordCount
  <2> QED BY <2>1, <2>2 DEF OptionsAreSet
<1>6. GroupsOccurOnce(f, w)
  BY <1>1 DEF GroupsOccurOnce
<1>7. \A p \in 1..Len(w) : w[p] # Text("-width") /\ w[p] # Text("-height") /\ w[p] # Text("-input")
  BY <1>1, <1>2 DEF Text
<1>8. FieldsAreWritten(f, set, w, {field})
  <2>1. DevicesIn(w) = {}
    BY <1>7 DEF DevicesIn
  <2>2. Cardinality(DevicesIn(w)) = 0
    BY <2>1, FS_EmptySet
  <2>3. FieldIsWritten(f, set, w, field)
    BY <1>1, <1>3 DEF FieldIsWritten
  <2> QED BY <1>4, <2>2, <2>3 DEF FieldsAreWritten
<1> QED BY <1>1, <1>5, <1>6, <1>7, <1>8 DEF Written, DimensionsArePaired, w

LEMMA SettingWritten ==
  ASSUME NEW f \in Flavors, NEW set, NEW field, Has(set, field),
         NEW t \in Valued \ {"-width", "-height", "-input"}, <<t, field>> \in Dialect(f),
         NEW word, ValueRead(f, field, set[field], t, word)
  PROVE  Written(f, set, Setting(t, word), {field})
<1> DEFINE w == Setting(t, word)
           o == <<t, field>>
<1>1. Len(w) = 2 /\ w[1] = Text(t) /\ w[2] = word /\ IsSequence(w)
  BY ShortSequences DEF Setting
<1>2. o \in Dialect(f) /\ o[1] = t /\ o[2] = field
  OBVIOUS
<1>3. t \in DashWords /\ FieldOf(o) = field /\ field # "inputs"
  BY <1>2, GroupsByFlag DEF FieldOf
<1>4. \A d \in DashWords : word # Text(d)
  BY ValueIsNoOption
<1> HIDE DEF w, o
<1>5. ASSUME NEW p \in 1..Len(w), NEW d \in DashWords, w[p] = Text(d)
      PROVE  p = 1 /\ d = t
  BY <1>1, <1>4, <1>5 DEF Text
<1>6. OptionsAreSet(f, set, w, {field})
  <2>1. IsOption(w[1])
    BY <1>1, <1>3 DEF IsOption, Texts
  <2>2. OptionAt(f, set, w, {field}, 1, t)
    BY <1>1, <1>2, <1>3 DEF OptionAt, WordCount
  <2> QED BY <1>5, <2>1, <2>2 DEF OptionsAreSet
<1>7. GroupsOccurOnce(f, w)
  <2>1. \A c \in Dialect(f) : c[1] \in DashWords
    BY GroupsByFlag
  <2> QED BY <1>5, <2>1 DEF GroupsOccurOnce
<1>8. \A p \in 1..Len(w) : w[p] # Text("-width") /\ w[p] # Text("-height") /\ w[p] # Text("-input")
  BY <1>5, NamedOptions
<1>9. FieldsAreWritten(f, set, w, {field})
  <2>1. DevicesIn(w) = {}
    BY <1>8 DEF DevicesIn
  <2>2. Cardinality(DevicesIn(w)) = 0
    BY <2>1, FS_EmptySet
  <2>3. FieldIsWritten(f, set, w, field)
    BY <1>1, <1>2 DEF FieldIsWritten
  <2> QED BY <1>3, <2>2, <2>3 DEF FieldsAreWritten
<1> QED BY <1>1, <1>6, <1>7, <1>8, <1>9 DEF Written, DimensionsArePaired, w

LEMMA DimensionsWritten ==
  ASSUME NEW f, f = "embedded", NEW set, Has(set, "resolution"),
         NEW a \in CustomWidths, NEW b \in CustomHeights
  PROVE  Written(f, set, Dimensions(a, b), {"resolution"})
<1> DEFINE w == Dimensions(a, b)
           wide == <<"-width", "resolution">>
           high == <<"-height", "height">>
<1>1. /\ Len(w) = 4 /\ IsSequence(w)
      /\ w[1] = Text("-width") /\ w[2] = Num(a) /\ w[3] = Text("-height") /\ w[4] = Num(b)
  BY ShortSequences DEF Dimensions
<1>2. \A d : Num(a) # Text(d) /\ Num(b) # Text(d)
  BY DEF Num, Text
<1>3. wide \in Dialect(f) /\ high \in Dialect(f) /\ f \in Flavors
  BY DEF Dialect, EmbeddedOptions, Flavors
<1>4. FieldOf(wide) = "resolution" /\ FieldOf(high) = "resolution"
  BY DEF FieldOf
<1>5. "-width" \in Valued /\ "-height" \in Valued /\ IsOption(w[1]) /\ IsOption(w[3])
  BY <1>1, NamedOptions DEF Valued, IsOption, Texts
<1> HIDE DEF w
<1>6. ASSUME NEW p \in 1..Len(w), NEW d, w[p] = Text(d)
      PROVE  (p = 1 /\ d = "-width") \/ (p = 3 /\ d = "-height")
  <2>1. p \in {1, 2, 3, 4}
    BY <1>1
  <2> QED BY <1>1, <1>2, <1>6, <2>1 DEF Text
<1>7. \A v : ValueRead(f, "resolution", v, "-width", Num(a)) /\ ValueRead(f, "resolution", v, "-height", Num(b))
  <2>1. decimalArgument(Num(a)) /\ decimalArgument(Num(b)) /\ Num(a)[2] = a /\ Num(b)[2] = b
    BY DEF decimalArgument, Num
  <2>2. ValueAccepted("-width", Num(a)) /\ ValueAccepted("-height", Num(b))
    BY <2>1, NumbersAccepted
  <2> QED BY <2>2 DEF ValueRead
<1>8. OptionsAreSet(f, set, w, {"resolution"})
  <2>1. OptionAt(f, set, w, {"resolution"}, 1, "-width")
    <3>1. WordCount("-width") = 2
      BY <1>5 DEF WordCount
    <3> QED BY <1>1, <1>3, <1>4, <1>5, <1>7, <3>1 DEF OptionAt
  <2>2. OptionAt(f, set, w, {"resolution"}, 3, "-height")
    <3>1. WordCount("-height") = 2
      BY <1>5 DEF WordCount
    <3> QED BY <1>1, <1>3, <1>4, <1>5, <1>7, <3>1 DEF OptionAt
  <2> QED BY <1>5, <1>6, <2>1, <2>2 DEF OptionsAreSet
<1>9. GroupsOccurOnce(f, w)
  <2> SUFFICES ASSUME NEW p \in 1..Len(w), NEW q \in 1..Len(w),
                      NEW o1 \in Dialect(f), NEW o2 \in Dialect(f),
                      w[p] = Text(o1[1]), w[q] = Text(o2[1]), o1[2] = o2[2]
               PROVE  p = q
    BY DEF GroupsOccurOnce
  <2>1. /\ o1[2] = "height" <=> o1[1] = "-height"
        /\ o2[2] = "height" <=> o2[1] = "-height"
    BY <1>3, GroupsByFlag
  <2>2. (p = 1 /\ o1[1] = "-width") \/ (p = 3 /\ o1[1] = "-height")
    BY <1>6
  <2>3. (q = 1 /\ o2[1] = "-width") \/ (q = 3 /\ o2[1] = "-height")
    BY <1>6
  <2> QED BY <2>1, <2>2, <2>3
<1>10. DimensionsArePaired(w)
  <2>1. ASSUME NEW p \in 1..Len(w), w[p] = Text("-height")
        PROVE  \E q \in 1..(p - 1) : w[q] = Text("-width")
    BY <1>1, <1>6, <2>1
  <2>2. \E q \in 1..Len(w) : w[q] = Text("-height")
    BY <1>1
  <2> QED BY <2>1, <2>2 DEF DimensionsArePaired
<1>11. FieldsAreWritten(f, set, w, {"resolution"})
  <2>1. DevicesIn(w) = {}
    BY <1>6 DEF DevicesIn
  <2>2. Cardinality(DevicesIn(w)) = 0
    BY <2>1, FS_EmptySet
  <2>3. FieldIsWritten(f, set, w, "resolution")
    BY <1>1, <1>3 DEF FieldIsWritten
  <2> QED BY <2>2, <2>3 DEF FieldsAreWritten
<1> QED BY <1>1, <1>8, <1>9, <1>10, <1>11 DEF Written, w

\* As many devices are written as there are.
LEMMA DevicesAreCounted ==
  ASSUME NEW n \in Nat, NEW w, IsSequence(w), Len(w) = 2 * n,
         \A i \in 1..(2 * n) : w[i] = IF i % 2 = 1 THEN Text("-input") ELSE Text("device")
  PROVE  Cardinality(DevicesIn(w)) = n
<1> DEFINE g == [i \in 1..n |-> 2 * i - 1]
<1>1. ASSUME NEW i \in 1..n
      PROVE  2 * i - 1 \in DevicesIn(w)
  BY DEF DevicesIn
<1>2. ASSUME NEW p \in DevicesIn(w)
      PROVE  \E i \in 1..n : p = 2 * i - 1
  <2>1. p \in 1..(2 * n) /\ w[p] = Text("-input")
    BY DEF DevicesIn
  <2>2. p % 2 = 1
    BY <2>1 DEF Text
  <2>3. PICK i \in Int : p = 2 * i - 1
    BY <2>1, <2>2
  <2>4. i \in 1..n
    BY <2>1, <2>3
  <2> QED BY <2>3, <2>4
<1> DEFINE D == DevicesIn(w)
<1>3. g \in [1..n -> D] /\ \A i, j \in 1..n : g[i] = g[j] => i = j
  BY <1>1
<1>4. \A p \in D : \E i \in 1..n : g[i] = p
  BY <1>2
<1> HIDE DEF g, D
<1>5. g \in Injection(1..n, D) /\ g \in Surjection(1..n, D)
  BY <1>3, <1>4 DEF Injection, Surjection, IsInjective
<1>6. ExistsBijection(1..n, D)
  BY <1>5 DEF ExistsBijection, Bijection
<1>7. IsFiniteSet(1..n) /\ Cardinality(1..n) = n
  BY FS_Interval
<1> QED BY <1>6, <1>7, FS_Bijection DEF D

\* The devices are a vector of the one field inputs.
LEMMA DevicesWritten ==
  ASSUME NEW f, f = "embedded", NEW set, Has(set, "inputs"),
         NEW n \in Nat, set["inputs"][2] = n,
         NEW w, w = [i \in 1..(2 * n) |-> IF i % 2 = 1 THEN Text("-input") ELSE Text("device")]
  PROVE  Written(f, set, w, {"inputs"})
<1> DEFINE o == <<"-input", "inputs">>
<1>1. \A i \in 1..(2 * n) : w[i] = IF i % 2 = 1 THEN Text("-input") ELSE Text("device")
  OBVIOUS
<1>2. IsSequence(w) /\ Len(w) = 2 * n
  <2>1. 2 * n \in Nat /\ w = [i \in 1..(2 * n) |-> w[i]]
    OBVIOUS
  <2> QED BY <2>1, TabulatedIsSequence
<1>3. o \in Dialect(f) /\ f \in Flavors
  BY DEF Dialect, EmbeddedOptions, Flavors
<1>4. "-input" \in Valued /\ FieldOf(o) = "inputs"
  BY DEF Valued, FieldOf
<1>5. \A d \in DashWords : Text("device") # Text(d)
  BY DEF Text, DashWords, SharedOptions, QtOptions, EmbeddedOptions
<1> HIDE DEF o
<1>7. ASSUME NEW p \in 1..Len(w), NEW d \in DashWords, w[p] = Text(d)
      PROVE  d = "-input" /\ p % 2 = 1
  <2>1. p % 2 = 1
    BY <1>1, <1>2, <1>5, <1>7
  <2> QED BY <1>1, <1>2, <1>7, <2>1 DEF Text
<1>8. OptionsAreSet(f, set, w, {"inputs"})
  <2>1. \A i \in 1..(2 * n) : i % 2 = 1 => IsOption(w[i])
    BY <1>1, NamedOptions DEF IsOption, Texts
  <2>2. Len(w) > 0 => IsOption(w[1])
    BY <1>2, <2>1
  <2>3. ASSUME NEW p \in 1..Len(w), NEW d \in DashWords, w[p] = Text(d)
        PROVE  OptionAt(f, set, w, {"inputs"}, p, d)
    <3>1. d = "-input" /\ p % 2 = 1
      BY <1>7, <2>3
    <3>2. p + 2 <= Len(w) + 1 /\ (p + 1) % 2 = 0 /\ p + 1 \in 1..(2 * n)
      BY <1>2, <3>1
    <3>3. p + 2 <= Len(w) => IsOption(w[p + 2])
      BY <1>2, <2>1, <3>1
    <3>4. w[p + 1] = Text("device")
      BY <1>1, <3>2
    <3>5. ValueAccepted("-input", w[p + 1])
      BY <3>4, TextsAccepted
    <3>6. ValueRead(f, "inputs", set["inputs"], "-input", w[p + 1])
      BY <3>5 DEF ValueRead
    <3>7. WordCount("-input") = 2
      BY <1>4 DEF WordCount
    <3> QED BY <1>3, <1>4, <3>1, <3>2, <3>3, <3>6, <3>7 DEF OptionAt, o
  <2> QED BY <2>2, <2>3 DEF OptionsAreSet
<1>9. GroupsOccurOnce(f, w)
  <2>1. \A c \in Dialect(f) : c[1] \in DashWords /\ (c[2] = "inputs" <=> c[1] = "-input")
    BY <1>3, GroupsByFlag
  <2> QED BY <1>7, <2>1 DEF GroupsOccurOnce
<1>10. DimensionsArePaired(w)
  BY <1>7, NamedOptions DEF DimensionsArePaired
<1>11. FieldsAreWritten(f, set, w, {"inputs"})
  <2>1. Cardinality(DevicesIn(w)) = n
    BY <1>1, <1>2, DevicesAreCounted
  <2> QED BY <2>1 DEF FieldsAreWritten
<1> QED BY <1>2, <1>8, <1>9, <1>10, <1>11 DEF Written

\* The devices of two parts, only one of which has any.
LEMMA DevicesOfBoth ==
  ASSUME NEW w, NEW u, IsSequence(w), IsSequence(u)
  PROVE  /\ Cardinality(DevicesIn(u)) = 0 => Cardinality(DevicesIn(w \o u)) = Cardinality(DevicesIn(w))
         /\ Cardinality(DevicesIn(w)) = 0 => Cardinality(DevicesIn(w \o u)) = Cardinality(DevicesIn(u))
<1> DEFINE c == w \o u
           g == [q \in DevicesIn(u) |-> Len(w) + q]
           D == DevicesIn(w)  E == DevicesIn(u)  B == DevicesIn(c)
<1>1. /\ Len(w) \in Nat /\ Len(u) \in Nat /\ Len(c) = Len(w) + Len(u)
      /\ \A i \in 1..Len(w) + Len(u) : c[i] = IF i <= Len(w) THEN w[i] ELSE u[i - Len(w)]
  BY ConcatIsSequence, SequenceFacts
<1> HIDE DEF c
<1>2. IsFiniteSet(D) /\ IsFiniteSet(E)
  BY <1>1, IndicesAreFinite DEF DevicesIn
<1>3. Cardinality(D) = 0 <=> D = {}
  BY <1>2, FS_EmptySet
<1>4. Cardinality(E) = 0 <=> E = {}
  BY <1>2, FS_EmptySet
<1>5. ASSUME NEW p \in B
      PROVE  p \in D \/ \E q \in E : p = Len(w) + q
  <2>1. p \in 1..Len(w) + Len(u) /\ c[p] = Text("-input")
    BY <1>1 DEF DevicesIn
  <2>2. CASE p <= Len(w)
    BY <1>1, <2>1, <2>2 DEF DevicesIn
  <2>3. CASE p > Len(w)
    <3>1. p - Len(w) \in 1..Len(u) /\ u[p - Len(w)] = Text("-input") /\ p = Len(w) + (p - Len(w))
      BY <1>1, <2>1, <2>3
    <3> QED BY <3>1 DEF DevicesIn
  <2> QED BY <1>1, <2>1, <2>2, <2>3
<1>6. D \subseteq B
  BY <1>1 DEF DevicesIn
<1>7. \A q \in E : q \in Nat /\ Len(w) + q \in B
  BY <1>1 DEF DevicesIn
<1>8. E = {} => B = D
  BY <1>5, <1>6
<1>9. D = {} => Cardinality(B) = Cardinality(E)
  <2> SUFFICES ASSUME D = {} PROVE Cardinality(B) = Cardinality(E)
    OBVIOUS
  <2> HIDE DEF D, E, B
  <2>1. g = [q \in E |-> Len(w) + q]
    BY DEF E
  <2> HIDE DEF g
  <2>2. g \in [E -> B] /\ \A p, q \in E : g[p] = g[q] => p = q
    BY <1>1, <1>7, <2>1
  <2>3. \A p \in B : \E q \in E : g[q] = p
    BY <1>5, <2>1
  <2>4. g \in Injection(E, B) /\ g \in Surjection(E, B)
    BY <2>2, <2>3 DEF Injection, Surjection, IsInjective
  <2>5. ExistsBijection(E, B)
    BY <2>4 DEF ExistsBijection, Bijection
  <2> QED BY <1>2, <2>5, FS_Bijection
<1> QED BY <1>3, <1>4, <1>8, <1>9 DEF c

\* A vector of some fields and a vector of other fields make a vector of both.
LEMMA ConcatWritten ==
  ASSUME NEW f \in Flavors, NEW set, NEW w, NEW u, NEW F, NEW G, F \cap G = {},
         Written(f, set, w, F), Written(f, set, u, G)
  PROVE  Written(f, set, w \o u, F \cup G)
<1> DEFINE c == w \o u
<1>1. IsSequence(w) /\ IsSequence(u)
  BY DEF Written
<1>2. /\ IsSequence(c)
      /\ Len(w) \in Nat /\ Len(u) \in Nat /\ Len(c) = Len(w) + Len(u)
      /\ \A i \in 1..Len(w) + Len(u) : c[i] = IF i <= Len(w) THEN w[i] ELSE u[i - Len(w)]
  BY <1>1, ConcatIsSequence, SequenceFacts
<1>3. /\ Cardinality(DevicesIn(u)) = 0 => Cardinality(DevicesIn(c)) = Cardinality(DevicesIn(w))
      /\ Cardinality(DevicesIn(w)) = 0 => Cardinality(DevicesIn(c)) = Cardinality(DevicesIn(u))
  BY <1>1, DevicesOfBoth
<1> HIDE DEF c
<1>4. \A p \in 1..Len(w) : p \in 1..Len(c) /\ c[p] = w[p]
  BY <1>2
<1>5. \A p \in 1..Len(u) : Len(w) + p \in 1..Len(c) /\ c[Len(w) + p] = u[p]
  BY <1>2
<1>6. \A p \in 1..Len(c) : p \in 1..Len(w) \/ \E q \in 1..Len(u) : p = Len(w) + q
  <2> SUFFICES ASSUME NEW p \in 1..Len(c), p > Len(w)
               PROVE  \E q \in 1..Len(u) : p = Len(w) + q
    BY <1>2
  <2>1. p - Len(w) \in 1..Len(u) /\ p = Len(w) + (p - Len(w))
    BY <1>2
  <2> QED BY <2>1
<1>7. ASSUME NEW p \in 1..Len(w), NEW t \in DashWords, w[p] = Text(t)
      PROVE  OptionAt(f, set, c, F \cup G, p, t) /\ \E o \in Dialect(f) : o[1] = t /\ FieldOf(o) \in F
  <2>1. OptionAt(f, set, w, F, p, t)
    BY <1>7 DEF Written, OptionsAreSet
  <2>2. PICK o \in Dialect(f) :
          /\ o[1] = t /\ FieldOf(o) \in F /\ Has(set, FieldOf(o))
          /\ p + WordCount(t) <= Len(w) + 1
          /\ p + WordCount(t) <= Len(w) => IsOption(w[p + WordCount(t)])
          /\ t \in Valued => ValueRead(f, FieldOf(o), set[FieldOf(o)], t, w[p + 1])
    BY <2>1 DEF OptionAt
  <2>3. WordCount(t) \in {1, 2} /\ (t \in Valued => WordCount(t) = 2)
    BY DEF WordCount
  <2>4. p + WordCount(t) <= Len(c) => IsOption(c[p + WordCount(t)])
    <3>1. CASE p + WordCount(t) <= Len(w)
      <4>1. p + WordCount(t) \in 1..Len(w)
        BY <2>3, <3>1
      <4> QED BY <1>4, <2>2, <3>1, <4>1
    <3>2. CASE p + WordCount(t) = Len(w) + 1
      <4>1. Len(u) > 0 => c[p + WordCount(t)] = u[1] /\ IsOption(u[1])
        BY <1>2, <1>5, <3>2 DEF Written, OptionsAreSet
      <4> QED BY <1>2, <3>2, <4>1
    <3> QED BY <1>2, <2>2, <2>3, <3>1, <3>2
  <2>5. t \in Valued => c[p + 1] = w[p + 1]
    BY <1>2, <2>2, <2>3
  <2>6. p + WordCount(t) <= Len(c) + 1
    BY <1>2, <2>2, <2>3
  <2> QED BY <2>2, <2>4, <2>5, <2>6 DEF OptionAt
<1>8. ASSUME NEW p \in 1..Len(u), NEW t \in DashWords, u[p] = Text(t)
      PROVE  /\ OptionAt(f, set, c, F \cup G, Len(w) + p, t)
             /\ \E o \in Dialect(f) : o[1] = t /\ FieldOf(o) \in G
  <2>1. OptionAt(f, set, u, G, p, t)
    BY <1>8 DEF Written, OptionsAreSet
  <2>2. PICK o \in Dialect(f) :
          /\ o[1] = t /\ FieldOf(o) \in G /\ Has(set, FieldOf(o))
          /\ p + WordCount(t) <= Len(u) + 1
          /\ p + WordCount(t) <= Len(u) => IsOption(u[p + WordCount(t)])
          /\ t \in Valued => ValueRead(f, FieldOf(o), set[FieldOf(o)], t, u[p + 1])
    BY <2>1 DEF OptionAt
  <2>3. WordCount(t) \in {1, 2} /\ (t \in Valued => WordCount(t) = 2)
    BY DEF WordCount
  <2>4. Len(w) + p + WordCount(t) <= Len(c) => IsOption(c[Len(w) + p + WordCount(t)])
    <3> SUFFICES ASSUME Len(w) + p + WordCount(t) <= Len(c)
                 PROVE  IsOption(c[Len(w) + p + WordCount(t)])
      OBVIOUS
    <3>1. p + WordCount(t) \in 1..Len(u) /\ Len(w) + p + WordCount(t) = Len(w) + (p + WordCount(t))
      BY <1>2, <2>3
    <3> QED BY <1>2, <1>5, <2>2, <3>1
  <2>5. t \in Valued => c[Len(w) + p + 1] = u[p + 1]
    <3> SUFFICES ASSUME t \in Valued PROVE c[Len(w) + p + 1] = u[p + 1]
      OBVIOUS
    <3>1. p + 1 \in 1..Len(u) /\ Len(w) + p + 1 = Len(w) + (p + 1)
      BY <1>2, <2>2, <2>3
    <3> QED BY <1>5, <3>1
  <2>6. Len(w) + p + WordCount(t) <= Len(c) + 1
    BY <1>2, <2>2, <2>3
  <2> QED BY <2>2, <2>4, <2>5, <2>6 DEF OptionAt
<1>9. OptionsAreSet(f, set, c, F \cup G)
  <2>1. Len(c) > 0 => IsOption(c[1])
    <3>0. (Len(w) > 0 => IsOption(w[1])) /\ (Len(u) > 0 => IsOption(u[1]))
      BY DEF Written, OptionsAreSet
    <3>1. CASE Len(w) > 0
      BY <1>2, <1>4, <3>0, <3>1
    <3>2. CASE Len(w) = 0 /\ Len(u) > 0
      <4>1. 1 \in 1..Len(u) /\ Len(w) + 1 = 1
        BY <1>2, <3>2
      <4>2. c[1] = u[1]
        BY <1>5, <4>1
      <4> QED BY <3>0, <3>2, <4>2
    <3> QED BY <1>2, <3>1, <3>2
  <2>2. ASSUME NEW p \in 1..Len(c), NEW t \in DashWords, c[p] = Text(t)
        PROVE  OptionAt(f, set, c, F \cup G, p, t)
    <3>1. CASE p \in 1..Len(w)
      BY <1>4, <1>7, <2>2, <3>1
    <3>2. ASSUME NEW q \in 1..Len(u), p = Len(w) + q
          PROVE  OptionAt(f, set, c, F \cup G, p, t)
      <4>1. u[q] = Text(t)
        BY <1>5, <2>2, <3>2
      <4>2. OptionAt(f, set, c, F \cup G, Len(w) + q, t)
        BY <1>8, <4>1
      <4> QED BY <3>2, <4>2
    <3> QED BY <1>6, <3>1, <3>2
  <2> QED BY <2>1, <2>2 DEF OptionsAreSet
<1>10. GroupsOccurOnce(f, c)
  <2> SUFFICES ASSUME NEW p \in 1..Len(c), NEW q \in 1..Len(c),
                      NEW o1 \in Dialect(f), NEW o2 \in Dialect(f),
                      c[p] = Text(o1[1]), c[q] = Text(o2[1]), o1[2] = o2[2], o1[2] # "inputs"
               PROVE  p = q
    BY DEF GroupsOccurOnce
  <2>1. o1[1] \in DashWords /\ o2[1] \in DashWords /\ FieldOf(o1) = FieldOf(o2)
    BY GroupsByFlag DEF FieldOf
  <2>2. CASE p \in 1..Len(w) /\ q \in 1..Len(w)
    BY <1>4, <2>2 DEF Written, GroupsOccurOnce
  <2>3. ASSUME NEW i \in 1..Len(u), NEW j \in 1..Len(u), p = Len(w) + i, q = Len(w) + j
        PROVE  p = q
    BY <1>5, <2>3 DEF Written, GroupsOccurOnce
  <2>4. ASSUME NEW i \in 1..Len(w), NEW j \in 1..Len(u), NEW a \in Dialect(f), NEW b \in Dialect(f),
               c[i] = Text(a[1]), c[Len(w) + j] = Text(b[1]),
               a[1] \in DashWords, b[1] \in DashWords, FieldOf(a) = FieldOf(b)
        PROVE  FALSE
    <3>1. PICK o \in Dialect(f) : o[1] = a[1] /\ FieldOf(o) \in F
      BY <1>4, <1>7, <2>4
    <3>2. PICK d \in Dialect(f) : d[1] = b[1] /\ FieldOf(d) \in G
      <4>1. u[j] = Text(b[1]) /\ b[1] \in DashWords
        BY <1>5, <2>4
      <4> QED BY <1>8, <4>1
    <3>3. o = a /\ d = b
      BY <3>1, <3>2, GroupIsUnique
    <3> QED BY <2>4, <3>1, <3>2, <3>3
  <2>5. p \in 1..Len(w) \/ \E i \in 1..Len(u) : p = Len(w) + i
    BY <1>6
  <2>6. q \in 1..Len(w) \/ \E i \in 1..Len(u) : q = Len(w) + i
    BY <1>6
  <2> QED BY <2>1, <2>2, <2>3, <2>4, <2>5, <2>6
<1>11. DimensionsArePaired(c)
  <2>1. ASSUME NEW p \in 1..Len(c), c[p] = Text("-height")
        PROVE  \E q \in 1..(p - 1) : c[q] = Text("-width")
    <3>1. CASE p \in 1..Len(w)
      BY <1>2, <1>4, <2>1, <3>1 DEF Written, DimensionsArePaired
    <3>2. ASSUME NEW i \in 1..Len(u), p = Len(w) + i
          PROVE  \E q \in 1..(p - 1) : c[q] = Text("-width")
      <4>1. u[i] = Text("-height")
        BY <1>5, <2>1, <3>2
      <4>2. PICK j \in 1..(i - 1) : u[j] = Text("-width")
        BY <4>1 DEF Written, DimensionsArePaired
      <4>3. j \in 1..Len(u) /\ Len(w) + j \in 1..(p - 1)
        BY <1>2, <3>2
      <4> QED BY <1>5, <4>2, <4>3
    <3> QED BY <1>6, <3>1, <3>2
  <2>2. ASSUME NEW p \in 1..Len(c), c[p] = Text("-width")
        PROVE  \E q \in 1..Len(c) : c[q] = Text("-height")
    <3>1. CASE p \in 1..Len(w)
      BY <1>4, <2>2, <3>1 DEF Written, DimensionsArePaired
    <3>2. ASSUME NEW i \in 1..Len(u), p = Len(w) + i
          PROVE  \E q \in 1..Len(c) : c[q] = Text("-height")
      BY <1>5, <2>2, <3>2 DEF Written, DimensionsArePaired
    <3> QED BY <1>6, <2>2, <3>1, <3>2
  <2> QED BY <2>1, <2>2 DEF DimensionsArePaired
<1>12. FieldsAreWritten(f, set, c, F \cup G)
  <2>1. \A field : FieldIsWritten(f, set, w, field) \/ FieldIsWritten(f, set, u, field)
                     => FieldIsWritten(f, set, c, field)
    BY <1>4, <1>5 DEF FieldIsWritten
  <2>2. Cardinality(DevicesIn(c)) =
          IF "inputs" \in F \cup G /\ Has(set, "inputs") THEN set["inputs"][2] ELSE 0
    <3>1. /\ Cardinality(DevicesIn(w)) =
               IF "inputs" \in F /\ Has(set, "inputs") THEN set["inputs"][2] ELSE 0
          /\ Cardinality(DevicesIn(u)) =
               IF "inputs" \in G /\ Has(set, "inputs") THEN set["inputs"][2] ELSE 0
      BY DEF Written, FieldsAreWritten
    <3>2. ~("inputs" \in F /\ "inputs" \in G)
      OBVIOUS
    <3> QED BY <1>3, <3>1, <3>2
  <2> QED BY <2>1, <2>2 DEF Written, FieldsAreWritten
<1> QED BY <1>2, <1>9, <1>10, <1>11, <1>12 DEF Written, c

FieldWords(f, set, field) == IF Has(set, field) THEN Words(f, field, set[field]) ELSE <<>>

\* What arguments writes of one field.
LEMMA FieldWritten ==
  ASSUME NEW f \in Flavors, NEW set, NEW field \in Fields,
         Has(set, field) => FieldPremises(f, field, set[field])
  PROVE  Written(f, set, FieldWords(f, set, field), {field})
<1> DEFINE v == set[field]
           w == Words(f, field, v)
<1>1. CASE ~Has(set, field)
  BY <1>1, EmptyWritten DEF FieldWords
<1>2. CASE Has(set, field)
  <2>1. FieldWords(f, set, field) = w /\ FieldPremises(f, field, v)
    BY <1>2 DEF FieldWords
  <2>2. Shape(f, field, v, w)
    BY <2>1, FieldShape
  <2> HIDE DEF w
  <2>3. CASE NoWords(field, v, w)
    BY <2>1, <2>3, EmptyWritten DEF NoWords
  <2>4. CASE OneOption(f, field, v, w)
    <3>1. PICK t : /\ <<t, field>> \in Dialect(f)
                   /\ \/ t \notin Valued /\ w = Flag(t)
                      \/ /\ t \in Valued \ {"-width", "-height", "-input"}
                         /\ \E word : w = Setting(t, word) /\ ValueRead(f, field, v, t, word)
      BY <2>4 DEF OneOption
    <3>2. CASE t \notin Valued /\ w = Flag(t)
      BY <1>2, <2>1, <3>1, <3>2, FlagWritten
    <3>3. ASSUME t \in Valued \ {"-width", "-height", "-input"},
                 NEW word, w = Setting(t, word), ValueRead(f, field, v, t, word)
          PROVE  Written(f, set, w, {field})
      BY <1>2, <3>1, <3>3, SettingWritten
    <3> QED BY <2>1, <3>1, <3>2, <3>3
  <2>5. CASE TwoDimensions(f, field, w)
    BY <1>2, <2>1, <2>5, DimensionsWritten DEF TwoDimensions
  <2>6. CASE Devices(f, field, v, w)
    <3>1. f = "embedded" /\ field = "inputs" /\ v[2] \in Nat
      BY <2>6 DEF Devices, maxEmbeddedInputDevices
    <3>2. w = [i \in 1..(2 * v[2]) |-> IF i % 2 = 1 THEN Text("-input") ELSE Text("device")]
      BY <2>6 DEF Devices
    <3> QED BY <1>2, <2>1, <3>1, <3>2, DevicesWritten
  <2> QED BY <2>2, <2>3, <2>4, <2>5, <2>6 DEF Shape
<1> QED BY <1>1, <1>2

\* No field is written twice.
LEMMA FieldsAreDistinct ==
  ASSUME NEW i \in 1..32, NEW j \in 1..32, FieldOrder[i] = FieldOrder[j]
  PROVE  i = j
  BY DEF FieldOrder

\* The options of a plan are written one after the other.
LEMMA ArgumentsWritten ==
  ASSUME NEW flv \in {"qt", "flatpak", "embedded"}, NEW set \in OptionSets, Plannable(flv, set)
  PROVE  Written(streamOptionFlavor(flv), set, Arguments(flv, set), Fields)
<1> DEFINE f == streamOptionFlavor(flv)
           ss == [i \in 1..32 |-> FieldWords(f, set, FieldOrder[i])]
           before(k) == {FieldOrder[i] : i \in 1..k}
<1>1. f \in Flavors
  BY DEF streamOptionFlavor, Flavors
<1>2. Arguments(flv, set) = FlattenSeq(ss)
  <2>1. Len(FieldOrder) = 32
    BY DEF FieldOrder
  <2> QED BY <2>1, Zenon DEF Arguments, FieldWords
<1>3. ASSUME NEW i \in 1..32
      PROVE  Written(f, set, ss[i], {FieldOrder[i]})
  <2> DEFINE field == FieldOrder[i]
  <2>1. field \in Fields
    BY DEF Fields
  <2>2. Has(set, field) => FieldPremises(f, field, set[field])
    BY OptionsAssumption DEF Plannable, Validate, Has, FieldPremises
  <2> HIDE DEF field, f
  <2>3. Written(f, set, FieldWords(f, set, field), {field})
    BY <1>1, <2>1, <2>2, FieldWritten
  <2> QED BY <2>3 DEF field
<1> HIDE DEF f
<1>4. IsSequence(ss) /\ Len(ss) = 32
  <2>1. ss = [i \in 1..32 |-> ss[i]]
    BY Zenon
  <2> HIDE DEF ss
  <2> QED BY <2>1, TabulatedIsSequence
<1> HIDE DEF ss
<1>5. PICK g : Flattens(g, ss, 32) /\ FlattenSeq(ss) = g[32]
  <2>1. \A i \in 1..32 : IsSequence(ss[i])
    BY <1>3 DEF Written
  <2>2. Len(ss) # 0
    BY <1>4
  <2>3. \E g : Flattens(g, ss, Len(ss)) /\ FlattenSeq(ss) = g[Len(ss)]
    BY <1>4, <2>1, <2>2, FlattenFacts
  <2> QED BY <1>4, <2>3
<1>6. \A i \in 1..32 : g[i] = IF i = 1 THEN ss[i] ELSE g[i - 1] \o ss[i]
  BY <1>5 DEF Flattens
<1>7. \A k \in 1..32 : Written(f, set, g[k], before(k))
  <2> DEFINE T == {k \in 1..32 : ~Written(f, set, g[k], before(k))}
  <2> SUFFICES ASSUME NEW j \in T PROVE FALSE
    OBVIOUS
  <2>1. PICK k \in T : \A n \in T : k <= n
    <3>1. T \subseteq Nat /\ T # {}
      <4> HIDE DEF before
      <4> QED OBVIOUS
    <3> HIDE DEF T
    <3> QED BY <3>1, LeastNumber
  <2>2. CASE k = 1
    <3>1. g[1] = ss[1] /\ before(1) = {FieldOrder[1]}
      BY <1>6
    <3> HIDE DEF before
    <3> QED BY <1>3, <2>1, <2>2, <3>1
  <2>3. CASE k # 1
    <3>1. k \in 1..32 /\ k - 1 \in 1..32 /\ k - 1 \notin T
      <4>1. k \in 1..32
        BY <2>1
      <4>2. k - 1 \in 1..32 /\ ~(k <= k - 1)
        BY <2>3, <4>1
      <4> HIDE DEF T
      <4> QED BY <2>1, <4>1, <4>2
    <3>2. g[k] = g[k - 1] \o ss[k]
      BY <1>6, <2>3, <3>1
    <3>3. Written(f, set, g[k - 1], before(k - 1))
      <4> HIDE DEF before
      <4> QED BY <3>1
    <3>4. before(k - 1) \cap {FieldOrder[k]} = {}
      <4> SUFFICES ASSUME NEW i \in 1..(k - 1), FieldOrder[i] = FieldOrder[k] PROVE FALSE
        OBVIOUS
      <4>1. i \in 1..32 /\ i # k
        BY <3>1
      <4> QED BY <3>1, <4>1, FieldsAreDistinct
    <3>5. before(k) = before(k - 1) \cup {FieldOrder[k]}
      <4>1. 1..k = 1..(k - 1) \cup {k}
        BY <3>1
      <4> QED BY <4>1
    <3> HIDE DEF before, T
    <3>6. Written(f, set, g[k - 1] \o ss[k], before(k - 1) \cup {FieldOrder[k]})
      BY <1>1, <1>3, <3>1, <3>3, <3>4, ConcatWritten
    <3> QED BY <2>1, <3>2, <3>5, <3>6 DEF T
  <2> QED BY <2>2, <2>3
<1>8. before(32) = Fields
  BY DEF Fields
<1> HIDE DEF before
<1>9. 32 \in 1..32
  OBVIOUS
<1>10. Written(f, set, g[32], Fields)
  BY <1>7, <1>8, <1>9
<1> QED BY <1>2, <1>5, <1>10 DEF f

-----------------------------------------------------------------------------
(* Reading a vector that was not edited. *)

\* The number of words that the options take.
LastWord == Len(Arguments(writer, options))

\* The vector is as BuildPlan wrote it.
PlanInv ==
  /\ options \in OptionSets
  /\ writer \in {"qt", "flatpak", "embedded"}
  /\ Plannable(writer, options)
  /\ flavor = streamOptionFlavor(writer)
  /\ \E port \in BOOLEAN : args = BuildPlan(writer, options, port)

\* The parser stands at an option, or behind the last one.
PlaceInv ==
  /\ position \in 1..(LastWord + 1)
  /\ position <= LastWord => IsOption(args[position])
  /\ verdict = "accepted" => position = LastWord + 1

\* A flag is set by an option that was read.
SeenInv ==
  \A g \in seen : g = "width" \/ \E i \in Behind, o \in Dialect(flavor) : args[i] = Text(o[1]) /\ o[2] = g

\* What is remembered is what the options named.
ReadBackInv ==
  /\ IF "codec" \in seen
     THEN Has(options, "codec") /\ codec = normalizedCodec(options["codec"])
     ELSE codec = Unset
  /\ IF "platform" \in seen
     THEN Has(options, "platform") /\ platform = options["platform"]
     ELSE platform = Unset
  /\ inputs = Cardinality({i \in Behind : args[i] = Text("-input")})

RefusedInv == verdict = "refused" => flavor = "qt" /\ Is(options, "codec", Text("h264"))

PlannedInv == PlanInv /\ PlaceInv /\ SeenInv /\ ReadBackInv /\ RefusedInv

\* Dropping the first of two parts leaves the second.
LEMMA SuffixOfConcat ==
  ASSUME NEW s, NEW t, IsSequence(s), IsSequence(t)
  PROVE  SubSeq(s \o t, Len(s) + 1, Len(s \o t)) = t
<1> DEFINE c == s \o t
           e == SubSeq(c, Len(s) + 1, Len(c))
<1>1. /\ IsSequence(c)
      /\ Len(s) \in Nat /\ Len(t) \in Nat /\ Len(c) = Len(s) + Len(t)
      /\ \A i \in 1..Len(s) + Len(t) : c[i] = IF i <= Len(s) THEN s[i] ELSE t[i - Len(s)]
  BY ConcatIsSequence, SequenceFacts
<1> HIDE DEF c
<1>2. \A i \in (Len(s) + 1)..Len(c) : c[i] \in ToSet(c)
  BY <1>1, SequenceFacts DEF ToSet
<1>3. Len(s) + 1 \in Int /\ Len(c) \in Int
  BY <1>1
<1>4. /\ e \in Seq(ToSet(c))
      /\ Len(e) = IF Len(s) + 1 <= Len(c) THEN Len(c) - (Len(s) + 1) + 1 ELSE 0
      /\ \A i \in 1..Len(c) - (Len(s) + 1) + 1 : e[i] = c[(Len(s) + 1) + i - 1]
  BY <1>2, <1>3, SubSeqProperties
<1> HIDE DEF e
<1>5. Len(e) = Len(t)
  BY <1>1, <1>4
<1>6. ASSUME NEW i \in 1..Len(t)
      PROVE  e[i] = t[i]
  <2>1. i \in 1..Len(c) - (Len(s) + 1) + 1
    BY <1>1
  <2>2. (Len(s) + 1) + i - 1 \in 1..Len(s) + Len(t) /\ ~((Len(s) + 1) + i - 1 <= Len(s))
        /\ (Len(s) + 1) + i - 1 - Len(s) = i
    BY <1>1
  <2> QED BY <1>1, <1>4, <2>1, <2>2
<1>7. e \in Seq(ToSet(c) \cup ToSet(t)) /\ t \in Seq(ToSet(c) \cup ToSet(t))
  BY <1>4, SeqMonotonic DEF IsSequence
<1>8. e = t
  BY <1>5, <1>6, <1>7, SeqEqual
<1> QED BY <1>8 DEF e, c

\* The words after the options are left to validatePlanHostArguments.
LEMMA PositionalWritten ==
  ASSUME NEW port \in BOOLEAN, writer \in {"qt", "flatpak", "embedded"},
         flavor = streamOptionFlavor(writer)
  PROVE  LET rest == Positional(writer, port) IN
         /\ IsSequence(rest) /\ Len(rest) > 0
         /\ flavor = "embedded" => rest[1] = Text("-app")
         /\ flavor # "embedded" => rest[1] = Text("host")
         /\ PositionalShape(rest)
<1> DEFINE rest == Positional(writer, port)
<1>1. CASE writer # "embedded"
  <2>1. rest = <<Text("host"), Text("app")>>
    BY <1>1, Zenon DEF Positional
  <2>2. flavor # "embedded"
    BY <1>1 DEF streamOptionFlavor
  <2>3. PositionalShape(rest)
    BY <2>1, <2>2, QtPositional, Zenon DEF PositionalShape
  <2>4. IsSequence(rest) /\ Len(rest) > 0 /\ rest[1] = Text("host")
    BY <2>1, ShortSequences
  <2> QED BY <2>2, <2>3, <2>4
<1>2. CASE writer = "embedded"
  <2> DEFINE first == <<Text("-app"), Text("app"), Text("host")>>
             last == IF port THEN Setting("-port", Num(HostPort)) ELSE <<>>
  <2>1. rest = first \o last
    BY <1>2, Zenon DEF Positional
  <2>2. flavor = "embedded"
    BY <1>2 DEF streamOptionFlavor
  <2>3. first \in Seq({Text("-app"), Text("app"), Text("host")}) /\ Len(first) = 3
        /\ first[1] = Text("-app") /\ first[2] = Text("app") /\ first[3] = Text("host")
    OBVIOUS
  <2>4. IsSequence(first)
    BY <2>3, SequenceFacts, Zenon
  <2>5. IsSequence(last)
    BY ShortSequences, Zenon DEF Setting
  <2>6. Len(last) \in {0, 2} /\ (Len(last) = 2 => last[1] = Text("-port") /\ last[2] = Num(HostPort))
    BY DEF Setting
  <2>7. validateMoonlightPort(Num(HostPort))
    BY SMT DEF validateMoonlightPort, decimalArgument, Num, HostPort
  <2> HIDE DEF first, last, rest
  <2>8. /\ IsSequence(rest) /\ Len(rest) = 3 + Len(last)
        /\ \A i \in 1..3 + Len(last) : rest[i] = IF i <= 3 THEN first[i] ELSE last[i - 3]
    <3>1. /\ IsSequence(first \o last) /\ Len(first \o last) = Len(first) + Len(last)
          /\ \A i \in 1..Len(first) + Len(last) :
               (first \o last)[i] = IF i <= Len(first) THEN first[i] ELSE last[i - Len(first)]
      BY <2>4, <2>5, ConcatIsSequence, Zenon
    <3>2. Len(first) = 3
      BY <2>3
    <3> QED BY <2>1, <3>1, <3>2
  <2>9. rest[1] = first[1] /\ rest[2] = first[2] /\ rest[3] = first[3]
    BY <2>6, <2>8
  <2>10. Len(rest) = 5 => rest[4] = Text("-port") /\ rest[5] = Num(HostPort)
    <3> SUFFICES ASSUME Len(rest) = 5 PROVE rest[4] = Text("-port") /\ rest[5] = Num(HostPort)
      OBVIOUS
    <3>1. Len(rest) = 3 + Len(last)
      BY <2>8
    <3>2. Len(last) \in {0, 2}
      BY <2>6
    <3>3. Len(last) = 2
      BY <3>1, <3>2
    <3>4. 4 \in 1..3 + Len(last) /\ ~(4 <= 3) /\ 4 - 3 = 1
      BY <3>3
    <3>5. 5 \in 1..3 + Len(last) /\ ~(5 <= 3) /\ 5 - 3 = 2
      BY <3>3
    <3>6. rest[4] = last[1] /\ rest[5] = last[2]
      BY <2>8, <3>4, <3>5
    <3> QED BY <2>6, <3>3, <3>6, Zenon
  <2>11. SubSeq(rest, 1, 3) = first
    <3> DEFINE e == SubSeq(rest, 1, 3)
    <3>1. \A i \in 1..3 : rest[i] \in ToSet(rest)
      BY <2>6, <2>8, SequenceFacts DEF ToSet
    <3>2. e \in Seq(ToSet(rest)) /\ Len(e) = 3 /\ \A i \in 1..3 : e[i] = rest[1 + i - 1]
      BY <3>1, SubSeqProperties
    <3> HIDE DEF e
    <3>3. e[1] = first[1] /\ e[2] = first[2] /\ e[3] = first[3]
      BY <2>9, <3>2
    <3>4. \A i \in 1..3 : e[i] = first[i]
      BY <3>3
    <3>5. e \in Seq(ToSet(rest) \cup ToSet(first)) /\ first \in Seq(ToSet(rest) \cup ToSet(first))
      BY <2>4, <3>2, SeqMonotonic DEF IsSequence
    <3>6. e = first
      BY <2>3, <3>2, <3>4, <3>5, SeqEqual
    <3> QED BY <3>6 DEF e
  <2>12. Positional("embedded", FALSE) = first
    BY EmbeddedPositional DEF first
  <2>13. Len(rest) \in {3, 5}
    BY <2>6, <2>8
  <2>14. PositionalShape(rest)
    BY <2>2, <2>7, <2>10, <2>11, <2>12, <2>13, Zenon DEF PositionalShape
  <2>15. Len(rest) > 0
    BY <2>13
  <2> QED BY <2>2, <2>3, <2>8, <2>9, <2>14, <2>15 DEF rest
<1> QED BY <1>1, <1>2

\* What the parser meets in a vector that was written by BuildPlan.
LEMMA VectorWritten ==
  ASSUME PlanInv
  PROVE  LET w == Arguments(writer, options) IN
         /\ flavor \in Flavors
         /\ Written(flavor, options, w, Fields)
         /\ LastWord \in Nat /\ LastWord < Len(args)
         /\ \A i \in 1..LastWord : args[i] = w[i]
         /\ ~(IsOption(args[LastWord + 1]) /\ ~(flavor = "embedded" /\ args[LastWord + 1] = Text("-app")))
         /\ PositionalShape(SubSeq(args, LastWord + 1, Len(args)))
<1> DEFINE w == Arguments(writer, options)
<1>1. PICK port \in BOOLEAN : args = w \o Positional(writer, port)
  BY DEF PlanInv, BuildPlan
<1> DEFINE rest == Positional(writer, port)
<1>2. flavor \in Flavors /\ flavor = streamOptionFlavor(writer) /\ writer \in {"qt", "flatpak", "embedded"}
  BY DEF PlanInv, streamOptionFlavor, Flavors
<1>3. Written(flavor, options, w, Fields)
  BY ArgumentsWritten DEF PlanInv
<1>4. IsSequence(w)
  BY <1>3 DEF Written
<1>5. /\ IsSequence(rest) /\ Len(rest) > 0
      /\ flavor = "embedded" => rest[1] = Text("-app")
      /\ flavor # "embedded" => rest[1] = Text("host")
      /\ PositionalShape(rest)
  BY <1>2, PositionalWritten
<1>6. args = w \o rest
  BY <1>1
<1> HIDE DEF w, rest
<1>7. /\ Len(w) \in Nat /\ Len(rest) \in Nat /\ Len(args) = Len(w) + Len(rest)
      /\ \A i \in 1..Len(w) + Len(rest) : args[i] = IF i <= Len(w) THEN w[i] ELSE rest[i - Len(w)]
  BY <1>4, <1>5, <1>6, ConcatIsSequence, SequenceFacts
<1>8. LastWord = Len(w)
  BY DEF LastWord, w
<1>9. args[LastWord + 1] = rest[1]
  <2>1. Len(w) + 1 \in 1..Len(w) + Len(rest) /\ ~(Len(w) + 1 <= Len(w)) /\ Len(w) + 1 - Len(w) = 1
    BY <1>5, <1>7
  <2> QED BY <1>7, <1>8, <2>1
<1>10. ~IsOption(Text("host"))
  BY DEF IsOption, Texts, Text, DashWords, SharedOptions, QtOptions, EmbeddedOptions
<1>11. PositionalShape(SubSeq(args, LastWord + 1, Len(args)))
  BY <1>4, <1>5, <1>6, <1>8, SuffixOfConcat
<1>12. LastWord \in Nat /\ LastWord < Len(args) /\ \A i \in 1..LastWord : args[i] = w[i]
  BY <1>5, <1>7, <1>8
<1> QED BY <1>2, <1>3, <1>5, <1>9, <1>10, <1>11, <1>12 DEF w

\* The option at which the parser stands.
LEMMA OptionHere ==
  ASSUME PlanInv, PlaceInv, position <= LastWord
  PROVE  /\ AtOption
         /\ \E o \in Dialect(flavor) :
              /\ Option = o[1] /\ Group = o[2] /\ InDialect
              /\ args[position] = Text(o[1])
              /\ Has(options, FieldOf(o))
              /\ position + WordCount(Option) <= LastWord + 1
              /\ position + WordCount(Option) <= LastWord => IsOption(args[position + WordCount(Option)])
              /\ Option \in Valued =>
                   ValueRead(flavor, FieldOf(o), options[FieldOf(o)], Option, args[position + 1])
<1> DEFINE w == Arguments(writer, options)
<1>1. /\ flavor \in Flavors
      /\ Written(flavor, options, w, Fields)
      /\ LastWord \in Nat /\ LastWord < Len(args)
      /\ \A i \in 1..LastWord : args[i] = w[i]
  BY VectorWritten
<1>2. LastWord = Len(w)
  BY DEF LastWord
<1> HIDE DEF w
<1>3. Len(args) \in Int
  <2>1. PICK port \in BOOLEAN : args = BuildPlan(writer, options, port)
    BY DEF PlanInv
  <2>2. IsSequence(args)
    BY <2>1, PlanIsSequence DEF PlanInv
  <2> QED BY <2>2, SequenceFacts
<1>4. position \in 1..LastWord /\ position <= Len(args) /\ IsOption(args[position])
  BY <1>1, <1>3 DEF PlaceInv
<1>5. PICK t \in DashWords : args[position] = Text(t)
  BY <1>4 DEF IsOption, Texts
<1>6. Option = t
  BY <1>5 DEF Option, Text
<1>7. OptionAt(flavor, options, w, Fields, position, t)
  BY <1>1, <1>2, <1>4, <1>5 DEF Written, OptionsAreSet
<1>8. PICK o \in Dialect(flavor) :
        /\ o[1] = t /\ Has(options, FieldOf(o))
        /\ position + WordCount(t) <= LastWord + 1
        /\ position + WordCount(t) <= LastWord => IsOption(w[position + WordCount(t)])
        /\ t \in Valued => ValueRead(flavor, FieldOf(o), options[FieldOf(o)], t, w[position + 1])
  BY <1>2, <1>7 DEF OptionAt
<1>9. WordCount(t) \in {1, 2} /\ (t \in Valued => WordCount(t) = 2)
  BY DEF WordCount
<1>10. /\ position + WordCount(t) <= LastWord => args[position + WordCount(t)] = w[position + WordCount(t)]
       /\ t \in Valued => args[position + 1] = w[position + 1]
  <2>1. position + WordCount(t) <= LastWord => position + WordCount(t) \in 1..LastWord
    BY <1>4, <1>9
  <2>2. t \in Valued => position + 1 \in 1..LastWord
    BY <1>1, <1>4, <1>8, <1>9
  <2> QED BY <1>1, <2>1, <2>2
<1>11. Group = o[2] /\ InDialect
  <2> DEFINE d == CHOOSE c \in Dialect(flavor) : c[1] = Option
  <2>1. d \in Dialect(flavor) /\ d[1] = Option
    BY <1>6, <1>8
  <2> HIDE DEF d
  <2>2. d = o
    BY <1>1, <1>6, <1>8, <2>1, GroupIsUnique
  <2> QED BY <1>6, <1>8, <2>2 DEF Group, InDialect, d
<1>12. o[1] # "-app"
  BY <1>1, GroupsByFlag
<1>13. AtOption
  BY <1>4, <1>5, <1>8, <1>12 DEF AtOption, Text
<1> QED BY <1>5, <1>6, <1>8, <1>10, <1>11, <1>13

\* Where it does not stand at an option it is behind the last one.
LEMMA EndHere ==
  ASSUME PlanInv, PlaceInv
  PROVE  AtOption <=> position <= LastWord
<1>1. position <= LastWord => AtOption
  BY OptionHere
<1>2. ASSUME ~(position <= LastWord)
      PROVE  ~AtOption
  <2>1. LastWord \in Nat
    BY VectorWritten
  <2>2. position = LastWord + 1
    BY <1>2, <2>1 DEF PlaceInv
  <2> QED BY <2>2, VectorWritten DEF AtOption
<1> QED BY <1>1, <1>2

\* The words of a group, or of the devices, that were read.
LEMMA ReadSoFar ==
  ASSUME PlanInv, PlaceInv
  PROVE  LET w == Arguments(writer, options) IN
         /\ \A i \in Behind : i \in 1..LastWord /\ i \in 1..Len(w) /\ args[i] = w[i]
         /\ {i \in Behind : args[i] = Text("-input")} \subseteq DevicesIn(w)
         /\ position > LastWord =>
              Behind = 1..LastWord /\ {i \in Behind : args[i] = Text("-input")} = DevicesIn(w)
         /\ IsFiniteSet(DevicesIn(w))
         /\ Cardinality(DevicesIn(w)) = IF Has(options, "inputs") THEN options["inputs"][2] ELSE 0
<1> DEFINE w == Arguments(writer, options)
<1>1. /\ Written(flavor, options, w, Fields)
      /\ LastWord \in Nat
      /\ \A i \in 1..LastWord : args[i] = w[i]
  BY VectorWritten
<1>2. LastWord = Len(w)
  BY DEF LastWord
<1> HIDE DEF w
<1>3. \A i \in Behind : i \in 1..LastWord /\ i \in 1..Len(w) /\ args[i] = w[i]
  BY <1>1, <1>2 DEF PlaceInv, Behind
<1>4. {i \in Behind : args[i] = Text("-input")} \subseteq DevicesIn(w)
  BY <1>3 DEF DevicesIn
<1>5. position > LastWord => Behind = 1..LastWord
  BY <1>1 DEF PlaceInv, Behind
<1>6. position > LastWord => {i \in Behind : args[i] = Text("-input")} = DevicesIn(w)
  BY <1>1, <1>2, <1>5 DEF DevicesIn
<1>7. IsFiniteSet(DevicesIn(w))
  BY <1>1, <1>2, IndicesAreFinite DEF DevicesIn
<1>8. "inputs" \in Fields
  <2>1. FieldOrder[11] = "inputs"
    BY DEF FieldOrder
  <2> QED BY <2>1 DEF Fields
<1>9. Cardinality(DevicesIn(w)) = IF Has(options, "inputs") THEN options["inputs"][2] ELSE 0
  BY <1>1, <1>8 DEF Written, FieldsAreWritten
<1> QED BY <1>3, <1>4, <1>5, <1>6, <1>7, <1>9 DEF w

\* A group that was seen belongs to a field that is set.
LEMMA SeenIsSet ==
  ASSUME PlanInv, PlaceInv, SeenInv, NEW g \in seen, g # "width"
  PROVE  \E i \in Behind, o \in Dialect(flavor) :
           /\ args[i] = Text(o[1]) /\ o[2] = g /\ Has(options, FieldOf(o))
<1> DEFINE w == Arguments(writer, options)
<1>1. PICK i \in Behind, o \in Dialect(flavor) : args[i] = Text(o[1]) /\ o[2] = g
  BY DEF SeenInv
<1>2. flavor \in Flavors /\ Written(flavor, options, w, Fields)
  BY VectorWritten
<1>3. i \in 1..Len(w) /\ w[i] = Text(o[1])
  BY <1>1, ReadSoFar
<1> HIDE DEF w
<1>4. o[1] \in DashWords
  BY <1>2, GroupsByFlag
<1>5. OptionAt(flavor, options, w, Fields, i, o[1])
  BY <1>2, <1>3, <1>4 DEF Written, OptionsAreSet
<1>6. PICK d \in Dialect(flavor) : d[1] = o[1] /\ Has(options, FieldOf(d))
  BY <1>5 DEF OptionAt
<1>7. d = o
  BY <1>2, <1>6, GroupIsUnique
<1> QED BY <1>1, <1>6, <1>7

\* No option of a written vector repeats another.
LEMMA NothingIsRepeated ==
  ASSUME ParserInv, PlannedInv, position <= LastWord
  PROVE  NotRepeated
<1> DEFINE w == Arguments(writer, options)
<1> USE DEF PlannedInv, ParserInv
<1>1. flavor \in Flavors /\ Written(flavor, options, w, Fields) /\ LastWord \in Nat
      /\ \A i \in 1..LastWord : args[i] = w[i]
  BY VectorWritten
<1>2. PICK o \in Dialect(flavor) : Option = o[1] /\ Group = o[2] /\ args[position] = Text(o[1])
                                     /\ Has(options, FieldOf(o))
  BY OptionHere
<1>3. position \in 1..LastWord /\ position \notin Behind /\ w[position] = Text(o[1])
  BY <1>1, <1>2 DEF PlaceInv, Behind
<1>4. LastWord = Len(w)
  BY DEF LastWord
<1> HIDE DEF w
<1>5. /\ o[2] = "height" <=> o[1] = "-height"
      /\ o[2] = "inputs" <=> o[1] = "-input"
      /\ o[2] # "width"
  BY <1>1, GroupsByFlag
<1>6. o[2] # "inputs" => o[2] \notin seen
  <2> SUFFICES ASSUME o[2] # "inputs", o[2] \in seen PROVE FALSE
    OBVIOUS
  <2>1. PICK i \in Behind, d \in Dialect(flavor) : args[i] = Text(d[1]) /\ d[2] = o[2]
    BY <1>5 DEF SeenInv
  <2>2. i \in 1..Len(w) /\ w[i] = Text(d[1])
    BY <2>1, ReadSoFar DEF w
  <2>3. i = position
    BY <1>1, <1>3, <1>4, <2>1, <2>2 DEF Written, GroupsOccurOnce
  <2> QED BY <1>3, <2>3
<1>7. CASE o[1] = "-input"
  <2> DEFINE D == {i \in Behind : args[i] = Text("-input")}
             E == DevicesIn(w)
  <2>1. IsFiniteSet(E) /\ D \subseteq E
        /\ Cardinality(E) = IF Has(options, "inputs") THEN options["inputs"][2] ELSE 0
    BY ReadSoFar DEF w
  <2>2. position \in E /\ position \notin D
    BY <1>3, <1>4, <1>7 DEF DevicesIn
  <2>3. FieldOf(o) = "inputs"
    BY <1>5, <1>7 DEF FieldOf
  <2>4. options["inputs"][2] <= 6
    BY <1>2, <2>3 DEF PlanInv, Plannable, Validate, ValidValue, Has, maxEmbeddedInputDevices
  <2>5. inputs = Cardinality(D)
    BY DEF ReadBackInv
  <2> HIDE DEF D, E
  <2>6. IsFiniteSet(D) /\ Cardinality(D) \in Nat /\ Cardinality(E) \in Nat
    BY <2>1, FS_Subset, FS_CardinalityType
  <2>7. Cardinality(D \cup {position}) = Cardinality(D) + 1
    BY <2>2, <2>6, FS_AddElement
  <2>8. D \cup {position} \subseteq E
    BY <2>1, <2>2
  <2>9. Cardinality(D \cup {position}) <= Cardinality(E)
    BY <2>1, <2>8, FS_Subset
  <2>10. Cardinality(E) <= 6
    BY <1>2, <2>1, <2>3, <2>4
  <2>11. inputs < maxEmbeddedInputDevices
    BY <2>5, <2>6, <2>7, <2>9, <2>10 DEF maxEmbeddedInputDevices
  <2> QED BY <1>2, <1>7, <2>11 DEF NotRepeated
<1>8. CASE o[1] = "-height"
  <2>1. PICK q \in 1..(position - 1) : w[q] = Text("-width")
    BY <1>1, <1>3, <1>4, <1>8 DEF Written, DimensionsArePaired
  <2>2. q \in Behind /\ args[q] = Text("-width")
    BY <1>1, <1>3, <2>1 DEF Behind
  <2>3. "width" \in seen
    BY <2>2 DEF SizeInv
  <2> QED BY <1>2, <1>5, <1>6, <1>8, <2>3 DEF NotRepeated
<1>9. CASE o[1] \notin {"-input", "-height"}
  BY <1>2, <1>5, <1>6, <1>9 DEF NotRepeated
<1> QED BY <1>7, <1>8, <1>9

\* A codec and a platform that were remembered are no Unset.
LEMMA UnsetIsNoValue == Unset # Text("h264") /\ Unset # Text("sdl")
  BY Zenon DEF Unset, Text

\* Only the codec H.264 of Qt is refused.
LEMMA RefusedIsQtH264 ==
  ASSUME ParserInv, PlannedInv, RefuseOption
  PROVE  flavor = "qt" /\ Is(options, "codec", Text("h264"))
<1> USE DEF PlannedInv
<1>1. position <= LastWord /\ ~OptionAccepted
  BY EndHere DEF RefuseOption
<1>2. PICK o \in Dialect(flavor) :
        /\ InDialect /\ Has(options, FieldOf(o))
        /\ position + WordCount(Option) <= LastWord + 1
        /\ Option \in Valued =>
             ValueRead(flavor, FieldOf(o), options[FieldOf(o)], Option, args[position + 1])
  BY <1>1, OptionHere
<1>3. NotRepeated
  BY <1>1, NothingIsRepeated
<1>4. Option \in Valued /\ ~(position < Len(args) /\ ValueAccepted(Option, args[position + 1]))
  BY <1>1, <1>2, <1>3 DEF OptionAccepted
<1>5. position < Len(args)
  <2>1. LastWord \in Nat /\ LastWord < Len(args) /\ Len(args) \in Nat /\ position \in Nat
    BY VectorWritten DEF ParserInv, VectorInv
  <2> QED BY <1>1, <2>1
<1> QED BY <1>2, <1>4, <1>5 DEF ValueRead, Is

\* What is left of a written vector is accepted.
LEMMA WrittenIsAccepted ==
  ASSUME ParserInv, PlannedInv, position > LastWord
  PROVE  Combination /\ PositionalShape(SubSeq(args, position, Len(args)))
<1> DEFINE w == Arguments(writer, options)
<1> USE DEF PlannedInv, ParserInv
<1>1. flavor \in Flavors /\ Written(flavor, options, w, Fields) /\ LastWord \in Nat
      /\ \A i \in 1..LastWord : args[i] = w[i]
  BY VectorWritten
<1>2. position = LastWord + 1
  BY <1>1 DEF PlaceInv
<1>3. PositionalShape(SubSeq(args, position, Len(args)))
  BY <1>2, VectorWritten
<1>4. Behind = 1..LastWord /\ {i \in Behind : args[i] = Text("-input")} = DevicesIn(w)
      /\ Cardinality(DevicesIn(w)) = IF Has(options, "inputs") THEN options["inputs"][2] ELSE 0
  BY ReadSoFar
<1>5. LastWord = Len(w)
  BY DEF LastWord
<1> HIDE DEF w
<1>6. Validate(options)
  BY DEF PlanInv, Plannable
<1>7. "width" \in seen => "height" \in seen
  <2> SUFFICES ASSUME "width" \in seen PROVE "height" \in seen
    OBVIOUS
  <2>1. PICK i \in Behind : args[i] = Text("-width")
    BY DEF SizeInv
  <2>2. PICK q \in 1..Len(w) : w[q] = Text("-height")
    BY <1>1, <1>4, <1>5, <2>1 DEF Written, DimensionsArePaired
  <2>3. q \in Behind /\ args[q] = Text("-height")
    BY <1>1, <1>4, <1>5, <2>2
  <2>4. PICK o \in Dialect(flavor) : o[1] = "-height"
    BY <2>3, NamedOptions DEF OptionsInv
  <2>5. o[2] = "height"
    BY <1>1, <2>4, GroupsByFlag
  <2> QED BY <2>3, <2>4, <2>5 DEF OptionsInv
<1>8. platform = Text("sdl") => "audioDevice" \notin seen /\ inputs = 0
  <2> SUFFICES ASSUME platform = Text("sdl") PROVE "audioDevice" \notin seen /\ inputs = 0
    OBVIOUS
  <2>1. Is(options, "platform", Text("sdl"))
    BY UnsetIsNoValue DEF ReadBackInv, Is
  <2>2. ~Has(options, "audioDevice") /\ ~Has(options, "inputs")
    BY <1>6, <2>1 DEF Validate
  <2>3. "audioDevice" \notin seen
    BY <2>2, SeenIsSet DEF FieldOf
  <2>4. inputs = 0
    BY <1>4, <2>2 DEF ReadBackInv
  <2> QED BY <2>3, <2>4
<1>9. ~("hdr" \in seen /\ codec = Text("h264"))
  <2> SUFFICES ASSUME "hdr" \in seen, codec = Text("h264") PROVE FALSE
    OBVIOUS
  <2>1. Has(options, "codec") /\ normalizedCodec(options["codec"]) = Text("h264")
    BY UnsetIsNoValue DEF ReadBackInv
  <2>2. Is(options, "codec", Text("h264"))
    BY <2>1 DEF normalizedCodec, Text, Is
  <2>3. Has(options, "hdr")
    BY SeenIsSet DEF FieldOf
  <2> QED BY <1>6, <2>2, <2>3 DEF Validate
<1> QED BY <1>3, <1>7, <1>8, <1>9 DEF Combination

\* Reading one option of a vector that was not edited keeps its invariant.
LEMMA ReadKeepsPlan ==
  ASSUME ParserInv, PlannedInv, ReadOption
  PROVE  PlannedInv'
<1> USE DEF PlannedInv, ParserInv
<1>1. UNCHANGED <<options, writer, flavor, args, verdict>> /\ AtOption /\ verdict = "parsing"
  BY DEF ReadOption
<1>2. position <= LastWord
  BY <1>1, EndHere
<1>3. PICK o \in Dialect(flavor) :
        /\ Option = o[1] /\ Group = o[2]
        /\ args[position] = Text(o[1])
        /\ Has(options, FieldOf(o))
        /\ position + WordCount(Option) <= LastWord + 1
        /\ position + WordCount(Option) <= LastWord => IsOption(args[position + WordCount(Option)])
        /\ Option \in Valued =>
             ValueRead(flavor, FieldOf(o), options[FieldOf(o)], Option, args[position + 1])
  BY <1>2, OptionHere
<1>4. /\ position' = position + WordCount(Option)
      /\ seen' = seen \cup {o[2]} \cup (IF o[1] = "-width" THEN {"width"} ELSE {})
      /\ inputs' = IF o[1] = "-input" THEN inputs + 1 ELSE inputs
      /\ codec' = IF o[2] = "codec" THEN normalizedCodec(ToLower(args[position + 1])) ELSE codec
      /\ platform' = IF o[2] = "platform" THEN args[position + 1] ELSE platform
      /\ Option \in Valued => ValueAccepted(Option, args[position + 1])
  BY <1>3 DEF ReadOption, OptionAccepted, WordCount
<1>5. /\ flavor \in Flavors /\ LastWord \in Nat /\ position \in Nat /\ position >= 1
      /\ LastWord < Len(args)
  BY VectorWritten DEF PlaceInv
<1>6. WordCount(Option) \in 1..2 /\ (WordCount(Option) = 2 <=> Option \in Valued)
  BY DEF WordCount
<1>7. LastWord' = LastWord
  BY <1>1 DEF LastWord
<1>8. PlanInv'
  BY <1>1 DEF PlanInv
<1>9. PlaceInv'
  BY <1>1, <1>3, <1>4, <1>5, <1>6, <1>7 DEF PlaceInv
<1>10. /\ position \notin Behind
       /\ Behind' = Behind \cup {position} \cup (IF Option \in Valued THEN {position + 1} ELSE {})
  BY <1>4, <1>5, <1>6 DEF Behind
<1>11. SeenInv'
  <2> SUFFICES ASSUME NEW g \in seen', g # "width"
               PROVE  \E i \in Behind', d \in Dialect(flavor) : args[i] = Text(d[1]) /\ d[2] = g
    BY <1>1 DEF SeenInv, Dialect
  <2>1. g \in seen \/ g = o[2]
    BY <1>4
  <2> QED BY <1>3, <1>10, <2>1 DEF SeenInv
<1>12. /\ o[2] = "codec" => Option \in Valued /\ FieldOf(o) = "codec"
       /\ o[2] = "platform" => Option \in Valued /\ FieldOf(o) = "platform"
  <2>1. /\ o[2] = "codec" <=> o[1] \in {"-codec", "-video-codec"}
        /\ o[2] = "platform" <=> o[1] = "-platform"
    BY <1>5, GroupsByFlag
  <2> QED BY <1>3, <2>1 DEF Valued, FieldOf
<1>13. IF "codec" \in seen'
       THEN Has(options, "codec") /\ codec' = normalizedCodec(options["codec"])
       ELSE codec' = Unset
  <2>1. CASE o[2] = "codec"
    <3>1. /\ ValueRead(flavor, "codec", options["codec"], Option, args[position + 1])
          /\ ValueAccepted(Option, args[position + 1]) /\ Has(options, "codec")
          /\ Option \in {"-codec", "-video-codec"}
      BY <1>3, <1>4, <1>5, <1>12, <2>1, GroupsByFlag
    <3>2. args[position + 1] # Text("H.264")
      <4>1. normalizedCodec(ToLower(args[position + 1])) \in Texts({"auto", "h264", "hevc", "av1"})
        BY <3>1 DEF ValueAccepted
      <4>2. normalizedCodec(ToLower(Text("H.264"))) \notin Texts({"auto", "h264", "hevc", "av1"})
        BY DEF normalizedCodec, ToLower, Text, Texts
      <4> QED BY <4>1, <4>2
    <3>3. normalizedCodec(ToLower(args[position + 1])) = normalizedCodec(options["codec"])
      BY <3>1, <3>2 DEF ValueRead
    <3> QED BY <1>4, <2>1, <3>1, <3>3
  <2>2. CASE o[2] # "codec"
    BY <1>4, <2>2 DEF ReadBackInv
  <2> QED BY <2>1, <2>2
<1>14. IF "platform" \in seen'
       THEN Has(options, "platform") /\ platform' = options["platform"]
       ELSE platform' = Unset
  <2>1. CASE o[2] = "platform"
    <3>1. ValueRead(flavor, "platform", options["platform"], Option, args[position + 1]) /\ Has(options, "platform")
      BY <1>3, <1>12, <2>1
    <3>2. args[position + 1] = options["platform"]
      BY <3>1 DEF ValueRead
    <3> QED BY <1>4, <2>1, <3>1, <3>2
  <2>2. CASE o[2] # "platform"
    BY <1>4, <2>2 DEF ReadBackInv
  <2> QED BY <2>1, <2>2
<1>15. inputs' = Cardinality({i \in Behind' : args[i] = Text("-input")})
  <2> DEFINE D == {i \in Behind : args[i] = Text("-input")}
             E == {i \in Behind' : args[i] = Text("-input")}
  <2>1. Option \in Valued => \A d \in DashWords : args[position + 1] # Text(d)
    BY <1>4, ValueWords
  <2>2. E = IF o[1] = "-input" THEN D \cup {position} ELSE D
    BY <1>3, <1>10, <2>1, NamedOptions DEF Text
  <2>3. IsFiniteSet(D)
    <3>1. D \subseteq DevicesIn(Arguments(writer, options)) /\ IsFiniteSet(DevicesIn(Arguments(writer, options)))
      BY ReadSoFar
    <3> QED BY <3>1, FS_Subset
  <2>4. position \notin D
    BY <1>10
  <2>5. inputs = Cardinality(D)
    BY DEF ReadBackInv
  <2> HIDE DEF D, E
  <2>6. Cardinality(D \cup {position}) = Cardinality(D) + 1
    BY <2>3, <2>4, FS_AddElement
  <2>7. inputs' = Cardinality(E)
    BY <1>4, <2>2, <2>5, <2>6
  <2> QED BY <2>7 DEF E
<1>16. ReadBackInv'
  BY <1>1, <1>13, <1>14, <1>15 DEF ReadBackInv
<1>17. RefusedInv'
  BY <1>1 DEF RefusedInv
<1> QED BY <1>8, <1>9, <1>11, <1>16, <1>17

\* Every step keeps the invariant of a vector that was not edited.
LEMMA PlannedKeeps ==
  ASSUME ParserInv, PlannedInv, [Next]_vars
  PROVE  PlannedInv'
<1>1. CASE ReadOption
  BY <1>1, ReadKeepsPlan
<1>2. CASE RefuseOption \/ EndOptions \/ Done \/ UNCHANGED vars
  <2>1. UNCHANGED <<options, writer, flavor, args, position, seen, inputs, codec, platform>>
    BY <1>2 DEF RefuseOption, EndOptions, Done, vars
  <2>2. PlanInv'
    BY <2>1 DEF PlannedInv, PlanInv
  <2>3. SeenInv'
    BY <2>1 DEF PlannedInv, SeenInv, Behind, Dialect
  <2>4. ReadBackInv'
    BY <2>1 DEF PlannedInv, ReadBackInv, Behind
  <2>5. LastWord' = LastWord
    BY <2>1 DEF LastWord
  <2>6. verdict' = "refused" => verdict = "refused" \/ RefuseOption
    <3>1. ASSUME EndOptions
          PROVE  verdict' = "accepted"
      <4>1. position > LastWord
        <5>1. ~(position <= LastWord)
          BY <3>1, EndHere DEF EndOptions, PlannedInv
        <5>2. position \in Int /\ LastWord \in Int
          BY VectorWritten DEF PlannedInv, PlaceInv
        <5> QED BY <5>1, <5>2
      <4> QED BY <3>1, <4>1, WrittenIsAccepted DEF EndOptions
    <3> QED BY <1>2, <3>1 DEF Done, vars
  <2>7. RefusedInv'
    BY <2>1, <2>6, RefusedIsQtH264 DEF PlannedInv, RefusedInv
  <2>8. verdict' = "accepted" => verdict = "accepted" \/ EndOptions
    BY <1>2 DEF RefuseOption, Done, vars
  <2>9. EndOptions => position = LastWord + 1
    <3>1. EndOptions => ~(position <= LastWord)
      BY EndHere DEF EndOptions, PlannedInv
    <3>2. LastWord \in Nat
      BY VectorWritten DEF PlannedInv
    <3> QED BY <3>1, <3>2 DEF PlannedInv, PlaceInv
  <2>10. PlaceInv'
    BY <2>1, <2>5, <2>8, <2>9 DEF PlannedInv, PlaceInv
  <2> QED BY <2>2, <2>3, <2>4, <2>7, <2>10 DEF PlannedInv
<1> QED BY <1>1, <1>2 DEF Next

\* A vector that BuildPlan wrote satisfies its invariant before it is read.
LEMMA PlannedInitially == Init /\ ~edited => PlannedInv
<1> SUFFICES ASSUME Init, ~edited PROVE PlannedInv
  OBVIOUS
<1>1. /\ options \in OptionSets
      /\ writer \in {"qt", "flatpak", "embedded"}
      /\ Plannable(writer, options)
      /\ \E port \in BOOLEAN :
           args \in IF edited THEN Edited(BuildPlan(writer, options, port))
                    ELSE {BuildPlan(writer, options, port)}
      /\ flavor \in IF edited THEN {"qt", "embedded"} ELSE {streamOptionFlavor(writer)}
      /\ position = 1 /\ seen = {} /\ inputs = 0 /\ verdict = "parsing"
      /\ codec = Unset /\ platform = Unset
  BY Zenon DEF Init
<1>2. PlanInv
  BY <1>1 DEF PlanInv
<1>3. Behind = {}
  BY <1>1 DEF Behind
<1>4. PlaceInv
  <2> DEFINE w == Arguments(writer, options)
  <2>1. Written(flavor, options, w, Fields) /\ LastWord \in Nat /\ \A i \in 1..LastWord : args[i] = w[i]
    BY <1>2, VectorWritten
  <2>2. LastWord = Len(w)
    BY DEF LastWord
  <2> HIDE DEF w
  <2>3. LastWord > 0 => IsOption(w[1]) /\ args[1] = w[1]
    BY <2>1, <2>2 DEF Written, OptionsAreSet
  <2> QED BY <1>1, <2>1, <2>3 DEF PlaceInv
<1>5. SeenInv /\ RefusedInv
  BY <1>1 DEF SeenInv, RefusedInv
<1>6. ReadBackInv
  <2>1. {i \in Behind : args[i] = Text("-input")} = {}
    BY <1>3
  <2> QED BY <1>1, <2>1, FS_EmptySet DEF ReadBackInv
<1> QED BY <1>2, <1>4, <1>5, <1>6 DEF PlannedInv

\* At the end every field that is set has been read back.
LEMMA AcceptedIsReadBack ==
  ASSUME ParserInv, PlannedInv, verdict = "accepted"
  PROVE  /\ Has(options, "codec") => codec = normalizedCodec(options["codec"])
         /\ Has(options, "inputs") => inputs = options["inputs"][2]
         /\ Has(options, "platform") /\ options["platform"] # Text("auto") =>
              platform = options["platform"]
         /\ Has(options, "resolution") => "resolution" \in seen
<1> DEFINE w == Arguments(writer, options)
<1> USE DEF PlannedInv, ParserInv
<1>1. Written(flavor, options, w, Fields) /\ LastWord \in Nat
      /\ \A i \in 1..LastWord : args[i] = w[i]
  BY VectorWritten
<1>2. LastWord = Len(w)
  BY DEF LastWord
<1>3. position > LastWord
  BY <1>1 DEF PlaceInv
<1>4. Behind = 1..LastWord /\ {i \in Behind : args[i] = Text("-input")} = DevicesIn(w)
      /\ Cardinality(DevicesIn(w)) = IF Has(options, "inputs") THEN options["inputs"][2] ELSE 0
  BY <1>3, ReadSoFar
<1> HIDE DEF w
<1>5. {"resolution", "codec", "platform"} \subseteq Fields
  <2>1. FieldOrder[1] = "resolution" /\ FieldOrder[5] = "codec" /\ FieldOrder[19] = "platform"
    BY DEF FieldOrder
  <2> QED BY <2>1 DEF Fields
<1>6. ASSUME NEW field \in {"resolution", "codec", "platform"}, Has(options, field),
             field = "platform" => options[field] # Text("auto")
      PROVE  field \in seen
  <2>1. FieldIsWritten(flavor, options, w, field)
    BY <1>1, <1>5 DEF Written, FieldsAreWritten
  <2>2. PICK p \in 1..Len(w), o \in Dialect(flavor) : w[p] = Text(o[1]) /\ o[2] = field
    BY <1>6, <2>1 DEF FieldIsWritten
  <2>3. p \in Behind /\ args[p] = Text(o[1])
    BY <1>1, <1>2, <1>4, <2>2
  <2> QED BY <2>2, <2>3 DEF OptionsInv
<1>7. Has(options, "codec") => codec = normalizedCodec(options["codec"])
  BY <1>6 DEF ReadBackInv
<1>8. Has(options, "platform") /\ options["platform"] # Text("auto") => platform = options["platform"]
  BY <1>6 DEF ReadBackInv
<1>9. Has(options, "inputs") => inputs = options["inputs"][2]
  BY <1>4 DEF ReadBackInv
<1> QED BY <1>6, <1>7, <1>8, <1>9

\* The invariant of a vector that was not edited.
LEMMA PlansStayPlanned == Spec => [](~edited => PlannedInv)
<1>1. Init => ParserInv /\ (~edited => PlannedInv)
  BY ParserInitially, PlannedInitially
<1>2. ParserInv /\ (~edited => PlannedInv) /\ [Next]_vars => (ParserInv /\ (~edited => PlannedInv))'
  <2> SUFFICES ASSUME ParserInv, ~edited => PlannedInv, [Next]_vars
               PROVE  ParserInv' /\ (~edited' => PlannedInv')
    OBVIOUS
  <2>1. edited' = edited
    BY DEF Next, ReadOption, RefuseOption, EndOptions, Done, vars
  <2> QED BY <2>1, ParserKeeps, PlannedKeeps
<1> QED BY <1>1, <1>2, PTL DEF Spec

\* The boundary accepts every vector that BuildPlan writes, but for the codec
\* H.264 of Qt (qtCodecName, which splitStreamOptions lowers and refuses): for
\* every set of options.
THEOREM PlansAreAccepted == Spec => []PlannedVectorsAcceptedExceptQtH264
<1>1. (~edited => PlannedInv) => PlannedVectorsAcceptedExceptQtH264
  BY DEF PlannedVectorsAcceptedExceptQtH264, PlannedInv, RefusedInv, PlanInv
<1> QED BY PlansStayPlanned, <1>1, PTL

\* At the end of a vector that BuildPlan wrote, splitStreamOptions has read what
\* the options named: the codec, the number of input devices, the platform and
\* that there is a resolution.
THEOREM OptionsAreReadBack == Spec => []ReadBackMatchesOptions
<1>1. ParserInv /\ (~edited => PlannedInv) => ReadBackMatchesOptions
  BY AcceptedIsReadBack DEF ReadBackMatchesOptions
<1>2. Init => ParserInv
  BY ParserInitially
<1>3. ParserInv /\ [Next]_vars => ParserInv'
  BY ParserKeeps
<1>4. Spec => []ParserInv
  BY <1>2, <1>3, PTL DEF Spec
<1> QED BY PlansStayPlanned, <1>1, <1>4, PTL
=============================================================================
