--------------------------- MODULE StreamBoundary ---------------------------
(***************************************************************************)
(* The parser at the execution boundary (validatePlanArguments,            *)
(* splitStreamOptions) reading a stream vector option by option.  The      *)
(* vector is one that BuildPlan wrote, or one that was edited afterwards:  *)
(* a plan is an exported value, and the parser is what must refuse a       *)
(* vector LeagueBridge would not write.                                    *)
(***************************************************************************)
EXTENDS StreamOptions

CONSTANTS
  OptionSets,   \* the options a plan may be built from
  EditedSets,  \* the sets of options whose vectors are also edited
  Edits         \* the words, in sequences, that may be inserted into a vector

\* Three fields are integers, and the number of input devices is the length of
\* a slice.
ASSUME OptionsAssumption ==
  \A set \in OptionSets :
    /\ \A field \in {"fps", "bitrate", "packetSize"} :
         Has(set, field) => set[field] = Num(set[field][2]) /\ set[field][2] \in Int
    /\ Has(set, "inputs") => set["inputs"][2] \in Nat

ASSUME EditsAssumption == \A words \in Edits : words \in Seq(ToSet(words))

VARIABLES
  options,    \* what the vector was written from
  writer,     \* the flavor it was written for
  edited,     \* whether it was edited afterwards
  flavor,     \* the flavor it is executed for
  args,       \* the vector after "stream"
  position,   \* the parser's position, counted from 1
  seen,       \* the seen... flags that are set
  inputs,     \* inputDeviceCount
  codec,      \* streamCodec
  platform,   \* streamPlatform
  verdict     \* "parsing", "accepted" or "refused"

vars == <<options, writer, edited, flavor, args, position, seen, inputs, codec, platform, verdict>>

-----------------------------------------------------------------------------
(* The options of each dialect: the flag, and the seen... flag it sets. *)

SharedOptions ==
  {<<"-720", "resolution">>, <<"-1080", "resolution">>, <<"-fps", "fps">>,
   <<"-bitrate", "bitrate">>, <<"-hdr", "hdr">>}

QtOptions ==
  {<<"-1440", "resolution">>, <<"-4K", "resolution">>, <<"-resolution", "resolution">>,
   <<"-packet-size", "packetSize">>, <<"-video-codec", "codec">>,
   <<"-audio-config", "audioConfig">>, <<"-audio-on-host", "audioOnHost">>,
   <<"-no-game-optimization", "hostSettings">>,
   <<"-frame-pacing", "framePacing">>, <<"-no-frame-pacing", "framePacing">>,
   <<"-vsync", "vsync">>, <<"-no-vsync", "vsync">>, <<"-keep-awake", "keepAwake">>,
   <<"-quit-after", "quitAfter">>, <<"-capture-system-keys", "captureSystemKeys">>,
   <<"-video-decoder", "decoder">>, <<"-display-mode", "displayMode">>,
   <<"-absolute-mouse", "mouseMode">>, <<"-no-absolute-mouse", "mouseMode">>,
   <<"-multi-controller", "multi-controller">>, <<"-mouse-buttons-swap", "mouse-buttons-swap">>,
   <<"-touchscreen-trackpad", "touchscreen-trackpad">>,
   <<"-mute-on-focus-loss", "mute-on-focus-loss">>,
   <<"-background-gamepad", "background-gamepad">>,
   <<"-reverse-scroll-direction", "reverse-scroll-direction">>,
   <<"-swap-gamepad-buttons", "swap-gamepad-buttons">>,
   <<"-performance-overlay", "performance-overlay">>, <<"-yuv444", "yuv444">>}

EmbeddedOptions ==
  {<<"-4k", "resolution">>, <<"-width", "resolution">>, <<"-height", "height">>,
   <<"-packetsize", "packetSize">>, <<"-codec", "codec">>, <<"-surround", "audioConfig">>,
   <<"-localaudio", "audioOnHost">>, <<"-audio", "audioDevice">>, <<"-nosops", "hostSettings">>,
   <<"-nomouseemulation", "noMouseEmulation">>, <<"-input", "inputs">>,
   <<"-mapping", "mapping">>, <<"-remote", "network">>, <<"-quitappafter", "quitAfter">>,
   <<"-platform", "platform">>, <<"-windowed", "displayMode">>}

Dialect(f) == SharedOptions \cup (IF f = "qt" THEN QtOptions ELSE EmbeddedOptions)

\* Options that take the next word as their value.
Valued ==
  {"-fps", "-bitrate", "-resolution", "-packet-size", "-packetsize", "-video-codec", "-codec",
   "-audio-config", "-surround", "-capture-system-keys", "-video-decoder", "-display-mode",
   "-width", "-height", "-audio", "-input", "-mapping", "-remote", "-platform"}

DashWords == {o[1] : o \in SharedOptions \cup QtOptions \cup EmbeddedOptions} \cup {"-app", "-port", "-unknown"}

IsOption(word) == word \in Texts(DashWords)

\* Mutant: words are compared as they are written.
ToLower_CaseSensitive(word) == word

\* strings.ToLower on the words that have an upper-case letter.
ToLower(word) ==
  CASE word = Text("H.264") -> Text("h.264")
    [] word = Text("HEVC")  -> Text("hevc")
    [] word = Text("AV1")   -> Text("av1")
    [] OTHER                -> word

decimalArgument(word) == word[1] = "num"

\* What the parser requires of an option's value.
ValueAccepted(flag, word) ==
  \/ flag = "-fps" /\ decimalArgument(word) /\ word[2] >= 10 /\ word[2] <= 480
  \/ flag = "-bitrate" /\ decimalArgument(word) /\ word[2] >= 500 /\ word[2] <= 500000
  \/ flag \in {"-packet-size", "-packetsize"} /\ decimalArgument(word) /\ validatePacketSize(word[2])
  \/ flag = "-width" /\ decimalArgument(word) /\ word[2] \in CustomWidths
  \/ flag = "-height" /\ decimalArgument(word) /\ word[2] \in CustomHeights
  \/ flag = "-resolution" /\ customResolution(word)
  \/ /\ flag \in {"-codec", "-video-codec"}
     /\ normalizedCodec(ToLower(word)) \in Texts({"auto", "h264", "hevc", "av1"})
  \/ flag = "-audio-config" /\ word \in Texts({"stereo", "5.1-surround", "7.1-surround"})
  \/ flag = "-surround" /\ word \in Texts({"5.1", "7.1"})
  \/ flag = "-remote" /\ word \in Texts({"auto", "yes", "no"})
  \/ flag = "-capture-system-keys" /\ word \in Texts({"never", "fullscreen", "always"})
  \/ flag = "-platform" /\ word \in Texts({"auto", "x11", "x11_vdpau", "x11_vaapi", "sdl"})
  \/ flag = "-video-decoder" /\ word \in Texts({"auto", "software", "hardware"})
  \/ flag = "-display-mode" /\ word \in Texts({"fullscreen", "windowed", "borderless"})
  \/ flag \in {"-audio", "-input", "-mapping"} /\ word = Text("device")

-----------------------------------------------------------------------------

Inserted(written, words) ==
  {SubSeq(written, 1, i) \o words \o SubSeq(written, i + 1, Len(written)) : i \in 0..Len(written)}

\* A written vector with one word removed, or with an option or a word inserted.
Edited(written) ==
  {RemoveAt(written, i) : i \in 1..Len(written)}
    \cup UNION {Inserted(written, words) : words \in Edits}

Unset == Text("")

Init ==
  /\ options \in OptionSets
  /\ writer \in {"qt", "flatpak", "embedded"}
  /\ Plannable(writer, options)
  /\ edited \in (IF options \in EditedSets THEN BOOLEAN ELSE {FALSE})
  /\ \E port \in BOOLEAN :
       LET written == BuildPlan(writer, options, port)
       IN  args \in IF edited THEN Edited(written) ELSE {written}
  /\ flavor \in IF edited THEN {"qt", "embedded"} ELSE {streamOptionFlavor(writer)}
  /\ position = 1
  /\ seen = {}
  /\ inputs = 0
  /\ codec = Unset
  /\ platform = Unset
  /\ verdict = "parsing"

AtOption ==
  /\ position <= Len(args)
  /\ IsOption(args[position])
  /\ ~(flavor = "embedded" /\ args[position] = Text("-app"))

Option == args[position][2]

InDialect == \E o \in Dialect(flavor) : o[1] = Option

Group == (CHOOSE o \in Dialect(flavor) : o[1] = Option)[2]

\* Mutant: a height needs no width.
NotRepeated_LoneHeight ==
  IF Option = "-input" THEN inputs < maxEmbeddedInputDevices ELSE Group \notin seen

NotRepeated ==
  CASE Option = "-input"  -> inputs < maxEmbeddedInputDevices
    [] Option = "-height" -> "width" \in seen /\ "height" \notin seen
    [] OTHER              -> Group \notin seen

OptionAccepted ==
  /\ InDialect
  /\ NotRepeated
  /\ Option \in Valued =>
       position < Len(args) /\ ValueAccepted(Option, args[position + 1])

\* Mutant: the codec is remembered as it is written.
ReadOption_RawCodec ==
  /\ verdict = "parsing"
  /\ AtOption
  /\ OptionAccepted
  /\ position' = position + (IF Option \in Valued THEN 2 ELSE 1)
  /\ seen' = seen \cup {Group} \cup (IF Option = "-width" THEN {"width"} ELSE {})
  /\ inputs' = IF Option = "-input" THEN inputs + 1 ELSE inputs
  /\ codec' = IF Group = "codec" THEN args[position + 1] ELSE codec
  /\ platform' = IF Group = "platform" THEN args[position + 1] ELSE platform
  /\ UNCHANGED <<options, writer, edited, flavor, args, verdict>>

ReadOption ==
  /\ verdict = "parsing"
  /\ AtOption
  /\ OptionAccepted
  /\ position' = position + (IF Option \in Valued THEN 2 ELSE 1)
  /\ seen' = seen \cup {Group} \cup (IF Option = "-width" THEN {"width"} ELSE {})
  /\ inputs' = IF Option = "-input" THEN inputs + 1 ELSE inputs
  /\ codec' = IF Group = "codec" THEN normalizedCodec(ToLower(args[position + 1])) ELSE codec
  /\ platform' = IF Group = "platform" THEN args[position + 1] ELSE platform
  /\ UNCHANGED <<options, writer, edited, flavor, args, verdict>>

RefuseOption ==
  /\ verdict = "parsing"
  /\ AtOption
  /\ ~OptionAccepted
  /\ verdict' = "refused"
  /\ UNCHANGED <<options, writer, edited, flavor, args, position, seen, inputs, codec, platform>>

\* The checks after the loop of splitStreamOptions.
Combination ==
  /\ "width" \in seen => "height" \in seen
  /\ platform = Text("sdl") => "audioDevice" \notin seen /\ inputs = 0
  /\ ~("hdr" \in seen /\ codec = Text("h264"))

validateMoonlightPort(word) == decimalArgument(word) /\ word[2] >= 1 /\ word[2] <= 65535

\* The positional words that must be left (validatePlanHostArguments, whose
\* host and application names stand for valid ones).
PositionalShape(rest) ==
  IF flavor = "embedded"
  THEN /\ Len(rest) \in {3, 5}
       /\ SubSeq(rest, 1, 3) = Positional("embedded", FALSE)
       /\ Len(rest) = 5 => rest[4] = Text("-port") /\ validateMoonlightPort(rest[5])
  ELSE rest = Positional("qt", FALSE)

EndOptions ==
  /\ verdict = "parsing"
  /\ ~AtOption
  /\ verdict' = IF Combination /\ PositionalShape(SubSeq(args, position, Len(args)))
                THEN "accepted" ELSE "refused"
  /\ UNCHANGED <<options, writer, edited, flavor, args, position, seen, inputs, codec, platform>>

Done == verdict # "parsing" /\ UNCHANGED vars

Next == ReadOption \/ RefuseOption \/ EndOptions \/ Done

Spec == Init /\ [][Next]_vars

-----------------------------------------------------------------------------
(* Properties. *)

TypeOK ==
  /\ position \in 1..(Len(args) + 1)
  /\ inputs \in 0..maxEmbeddedInputDevices
  /\ verdict \in {"parsing", "accepted", "refused"}

Count(word) == Cardinality({i \in 1..Len(args) : args[i] = word})

Occurs(f) == Count(Text(f)) > 0

\* Whatever was done to a vector, one that is executed has every option of its
\* own dialect at most once (the Embedded input devices up to their limit), its
\* two custom dimensions together, and none of the combinations Validate
\* refuses ("smuggle arbitrary flags", validatePlanArguments).
AcceptedIsWithinGrammar ==
  verdict = "accepted" =>
    /\ \A f \in DashWords \ {"-app", "-port"} :
         Occurs(f) => \E o \in Dialect(flavor) : o[1] = f
    /\ \A group \in {o[2] : o \in Dialect(flavor)} :
         Cardinality({i \in 1..Len(args) :
           \E o \in Dialect(flavor) : o[2] = group /\ args[i] = Text(o[1])})
           <= (IF group = "inputs" THEN maxEmbeddedInputDevices ELSE 1)
    /\ Count(Text("-width")) = Count(Text("-height"))
    /\ Occurs("sdl") => ~Occurs("-audio") /\ ~Occurs("-input")
    /\ Occurs("h264") => ~Occurs("-hdr")

\* A plan leads to the process it was built for: outside Qt's H.264 the
\* boundary accepts every vector the planner writes, for every flavor.
PlannedVectorsAcceptedExceptQtH264 ==
  /\ verdict = "refused"
  /\ ~edited
  => streamOptionFlavor(writer) = "qt" /\ Is(options, "codec", Text("h264"))

\* The comment on splitStreamOptions, "the fixed quality and input-mode options
\* that LeagueBridge itself can generate": what the planner writes, the
\* boundary accepts.
PlannedVectorsAccepted == verdict = "refused" => edited

\* Options select exactly what is executed: two planned vectors never differ
\* in meaning, because the boundary reads back the codec, platform and number
\* of input devices the options named.
ReadBackMatchesOptions ==
  verdict = "accepted" /\ ~edited =>
    /\ Has(options, "codec") => codec = normalizedCodec(options["codec"])
    /\ Has(options, "inputs") => inputs = options["inputs"][2]
    /\ Has(options, "platform") /\ options["platform"] # Text("auto") =>
         platform = options["platform"]
    /\ Has(options, "resolution") => "resolution" \in seen
=============================================================================
