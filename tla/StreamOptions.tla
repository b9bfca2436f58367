---------------------------- MODULE StreamOptions ----------------------------
(***************************************************************************)
(* The two ends of a stream's argument vector (internal/remote/remote.go): *)
(* StreamOptions.arguments writes the vector when a plan is built, and     *)
(* splitStreamOptions reads it back at the execution boundary, where a     *)
(* vector that LeagueBridge would not write is refused.                    *)
(*                                                                         *)
(* A word of a vector is a text, a decimal number or a WIDTHxHEIGHT size.  *)
(* Option values are words as well, and the fields of StreamOptions that   *)
(* are not zero are the domain of an options function.                     *)
(***************************************************************************)
EXTENDS Integers, Sequences, FiniteSets, SequencesExt

Text(t) == <<"text", t>>
Num(n) == <<"num", n>>
Size(w, h) == <<"size", w, h>>
Yes == Text("true")

QtControls ==
  {"multi-controller", "mouse-buttons-swap", "touchscreen-trackpad",
   "mute-on-focus-loss", "background-gamepad", "reverse-scroll-direction",
   "swap-gamepad-buttons", "performance-overlay", "yuv444"}

\* The fields of StreamOptions, in the order arguments writes them.  "inputs"
\* is the number of input devices, which are written one by one.
FieldOrder ==
  <<"resolution", "fps", "bitrate", "packetSize", "codec", "audioConfig",
    "audioOnHost", "audioDevice", "hostSettings", "noMouseEmulation", "inputs",
    "mapping", "network", "framePacing", "vsync", "keepAwake", "quitAfter",
    "captureSystemKeys", "platform", "decoder", "displayMode", "mouseMode",
    "multi-controller", "mouse-buttons-swap", "touchscreen-trackpad",
    "mute-on-focus-loss", "background-gamepad", "reverse-scroll-direction",
    "swap-gamepad-buttons", "performance-overlay", "hdr", "yuv444">>

\* The Flatpak application is Moonlight Qt.
streamOptionFlavor(flavor) == IF flavor = "flatpak" THEN "qt" ELSE flavor

-----------------------------------------------------------------------------
(* Validation of options (StreamOptions.Validate). *)

maxEmbeddedInputDevices == 6

validatePacketSize(n) == n \in 1024..9000 /\ n % 16 = 0

CustomWidths == 640..7680
CustomHeights == 360..4320

customResolution(w) == w[1] = "size" /\ w[2] \in CustomWidths /\ w[3] \in CustomHeights

Texts(ts) == {Text(t) : t \in ts}

ValidValue(field, v) ==
  CASE field = "resolution" ->
         v \in Texts({"720", "1080", "1440", "4k"}) \/ customResolution(v)
    [] field = "fps" -> v[2] >= 10 /\ v[2] <= 480
    [] field = "bitrate" -> v[2] >= 500 /\ v[2] <= 500000
    [] field = "packetSize" -> validatePacketSize(v[2])
    [] field = "codec" -> v \in Texts({"auto", "h264", "h265", "hevc", "av1"})
    [] field = "audioConfig" -> v \in Texts({"stereo", "5.1-surround", "7.1-surround"})
    [] field \in {"audioDevice", "mapping"} -> v = Text("device")
    [] field = "inputs" -> v[2] <= maxEmbeddedInputDevices
    [] field = "network" -> v \in Texts({"auto", "lan", "wan"})
    [] field \in {"framePacing", "vsync"} -> v \in Texts({"auto", "on", "off"})
    [] field = "captureSystemKeys" -> v \in Texts({"auto", "never", "fullscreen", "always"})
    [] field = "platform" -> v \in Texts({"auto", "x11", "x11_vdpau", "x11_vaapi", "sdl"})
    [] field = "decoder" -> v \in Texts({"auto", "software", "hardware"})
    [] field = "displayMode" -> v \in Texts({"fullscreen", "windowed", "borderless"})
    [] field = "mouseMode" -> v \in Texts({"absolute", "relative"})
    [] OTHER -> v = Yes

Has(options, field) == field \in DOMAIN options

Is(options, field, v) == Has(options, field) /\ options[field] = v

Validate(options) ==
  /\ \A field \in DOMAIN options : ValidValue(field, options[field])
  /\ ~(Is(options, "codec", Text("h264")) /\ Has(options, "hdr"))
  /\ ~(Is(options, "platform", Text("sdl")) /\ Has(options, "audioDevice"))
  /\ ~(Is(options, "platform", Text("sdl")) /\ Has(options, "inputs"))

-----------------------------------------------------------------------------
(* Writing a vector (StreamOptions.arguments, qtCodecName, BuildPlan). *)

EmbeddedOnlyFields ==
  {"audioDevice", "noMouseEmulation", "inputs", "mapping", "network", "platform"}

QtOnlyFields ==
  {"framePacing", "vsync", "keepAwake", "captureSystemKeys", "decoder", "mouseMode"}
    \cup QtControls

Supported(flavor, field, v) ==
  /\ field \in EmbeddedOnlyFields => flavor = "embedded"
  /\ field \in QtOnlyFields => flavor = "qt"
  /\ field = "displayMode" /\ v = Text("borderless") => flavor = "qt"

normalizedCodec(v) == IF v = Text("h265") THEN Text("hevc") ELSE v

qtCodecName(v) ==
  CASE v = Text("h264") -> Text("H.264")
    [] v = Text("hevc") -> Text("HEVC")
    [] v = Text("av1")  -> Text("AV1")
    [] OTHER            -> Text("auto")

Flag(f) == <<Text(f)>>
Setting(f, v) == <<Text(f), v>>
OnOff(v, on, off) == CASE v = Text("on") -> Flag(on) [] v = Text("off") -> Flag(off) [] OTHER -> <<>>

Dimensions(w, h) == <<Text("-width"), Num(w), Text("-height"), Num(h)>>

QuadHD == Size(2560, 1440)

ResolutionWords(flavor, v) ==
  CASE v = Text("1440") /\ flavor = "embedded" -> Dimensions(QuadHD[2], QuadHD[3])
    [] v[1] = "size" ->
         IF flavor = "qt" THEN Setting("-resolution", v) ELSE Dimensions(v[2], v[3])
    [] v = Text("4k") -> Flag(IF flavor = "qt" THEN "-4K" ELSE "-4k")
    [] v = Text("720") -> Flag("-720")
    [] v = Text("1080") -> Flag("-1080")
    [] OTHER -> Flag("-1440")

\* The table qtControls at the end of arguments.
ControlOption(field) ==
  CASE field = "multi-controller" -> "-multi-controller"
    [] field = "mouse-buttons-swap" -> "-mouse-buttons-swap"
    [] field = "touchscreen-trackpad" -> "-touchscreen-trackpad"
    [] field = "mute-on-focus-loss" -> "-mute-on-focus-loss"
    [] field = "background-gamepad" -> "-background-gamepad"
    [] field = "reverse-scroll-direction" -> "-reverse-scroll-direction"
    [] field = "swap-gamepad-buttons" -> "-swap-gamepad-buttons"
    [] field = "performance-overlay" -> "-performance-overlay"
    [] field = "hdr" -> "-hdr"
    [] field = "yuv444" -> "-yuv444"

\* The words one field of the options is written as.
Words(flavor, field, v) ==
  CASE field = "resolution" -> ResolutionWords(flavor, v)
    [] field = "fps" -> Setting("-fps", v)
    [] field = "bitrate" -> Setting("-bitrate", v)
    [] field = "packetSize" ->
         Setting(IF flavor = "qt" THEN "-packet-size" ELSE "-packetsize", v)
    [] field = "codec" ->
         IF flavor = "qt" THEN Setting("-video-codec", qtCodecName(normalizedCodec(v)))
         ELSE Setting("-codec", normalizedCodec(v))
    [] field = "audioConfig" ->
         IF flavor = "qt" THEN Setting("-audio-config", v)
         ELSE CASE v = Text("5.1-surround") -> Setting("-surround", Text("5.1"))
                [] v = Text("7.1-surround") -> Setting("-surround", Text("7.1"))
                [] OTHER -> <<>>
    [] field = "audioOnHost" -> Flag(IF flavor = "qt" THEN "-audio-on-host" ELSE "-localaudio")
    [] field = "audioDevice" -> Setting("-audio", v)
    [] field = "hostSettings" -> Flag(IF flavor = "qt" THEN "-no-game-optimization" ELSE "-nosops")
    [] field = "noMouseEmulation" -> Flag("-nomouseemulation")
    [] field = "inputs" ->
         [i \in 1..(2 * v[2]) |-> IF i % 2 = 1 THEN Text("-input") ELSE Text("device")]
    [] field = "mapping" -> Setting("-mapping", v)
    [] field = "network" ->
         Setting("-remote", CASE v = Text("lan") -> Text("no") [] v = Text("wan") -> Text("yes") [] OTHER -> v)
    [] field = "framePacing" -> OnOff(v, "-frame-pacing", "-no-frame-pacing")
    [] field = "vsync" -> OnOff(v, "-vsync", "-no-vsync")
    [] field = "keepAwake" -> Flag("-keep-awake")
    [] field = "quitAfter" -> Flag(IF flavor = "qt" THEN "-quit-after" ELSE "-quitappafter")
    [] field = "captureSystemKeys" ->
         IF v = Text("auto") THEN <<>> ELSE Setting("-capture-system-keys", v)
    [] field = "platform" -> IF v = Text("auto") THEN <<>> ELSE Setting("-platform", v)
    [] field = "decoder" -> Setting("-video-decoder", v)
    [] field = "displayMode" ->
         IF flavor = "qt" THEN Setting("-display-mode", v)
         ELSE IF v = Text("windowed") THEN Flag("-windowed") ELSE <<>>
    [] field = "mouseMode" ->
         Flag(IF v = Text("absolute") THEN "-absolute-mouse" ELSE "-no-absolute-mouse")
    [] OTHER -> Flag(ControlOption(field))

Plannable(flavor, options) ==
  /\ Validate(options)
  /\ \A field \in DOMAIN options :
       Supported(streamOptionFlavor(flavor), field, options[field])

Arguments(flavor, options) ==
  FlattenSeq([i \in 1..Len(FieldOrder) |->
    IF Has(options, FieldOrder[i])
    THEN Words(streamOptionFlavor(flavor), FieldOrder[i], options[FieldOrder[i]])
    ELSE <<>>])

HostPort == 47989

\* What BuildPlan writes after "stream" (the port is optional).
Positional(flavor, port) ==
  IF flavor = "embedded"
  THEN <<Text("-app"), Text("app"), Text("host")>> \o (IF port THEN Setting("-port", Num(HostPort)) ELSE <<>>)
  ELSE <<Text("host"), Text("app")>>

BuildPlan(flavor, options, port) == Arguments(flavor, options) \o Positional(flavor, port)
=============================================================================
