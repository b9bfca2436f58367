-------------------------- MODULE MCStreamBoundary --------------------------
(***************************************************************************)
(* Options with at most two fields set, over values at and beyond the      *)
(* bounds of each field, and edits with words of both dialects.            *)
(***************************************************************************)
EXTENDS StreamBoundary

Values(field) ==
  CASE field = "resolution" ->
         Texts({"720", "1440", "4k"}) \cup {Size(640, 4320), Size(7680, 360), Size(639, 360)}
    [] field = "fps" -> {Num(9), Num(10), Num(480), Num(481)}
    [] field = "bitrate" -> {Num(499), Num(500), Num(500000), Num(500001)}
    [] field = "packetSize" -> {Num(1008), Num(1024), Num(1032), Num(8992), Num(9008)}
    [] field = "codec" -> Texts({"auto", "h264", "h265", "hevc", "av1", "vp9"})
    [] field = "audioConfig" -> Texts({"stereo", "5.1-surround", "7.1-surround"})
    [] field \in {"audioDevice", "mapping"} -> {Text("device")}
    [] field = "inputs" -> {Num(1), Num(6), Num(7)}
    [] field = "network" -> Texts({"auto", "lan", "wan"})
    [] field \in {"framePacing", "vsync"} -> Texts({"auto", "on", "off"})
    [] field = "captureSystemKeys" -> Texts({"auto", "never", "always"})
    [] field = "platform" -> Texts({"auto", "x11", "sdl"})
    [] field = "decoder" -> Texts({"auto", "software"})
    [] field = "displayMode" -> Texts({"fullscreen", "windowed", "borderless"})
    [] field = "mouseMode" -> Texts({"absolute", "relative"})
    [] OTHER -> {Yes}

Assignments == UNION {{<<field, v>> : v \in Values(field)} : field \in ToSet(FieldOrder)}

OptionsOf(assignments) ==
  [field \in {a[1] : a \in assignments} |-> (CHOOSE a \in assignments : a[1] = field)[2]]

NoOptions == [field \in {} |-> Yes]

\* Every pair of fields.
MCPairs ==
  {OptionsOf({a, b}) : a \in Assignments, b \in Assignments} \cup {NoOptions}

MCNoSets == {}

\* Single fields and the pairs that Validate and the parser relate.
MCRelated ==
  {OptionsOf({a}) : a \in Assignments}
  \cup {OptionsOf({<<"codec", v>>, <<"hdr", Yes>>}) : v \in Texts({"av1", "hevc"})}
  \cup {OptionsOf({<<"platform", Text(p)>>, a}) :
          p \in {"sdl", "x11"}, a \in {<<"mapping", Text("device")>>, <<"inputs", Num(1)>>}}
  \cup {OptionsOf({<<"codec", Text("h264")>>, <<"fps", Num(60)>>})}

MCEdits ==
  {Flag(f) : f \in {"-hdr", "-fps", "-720", "-1440", "-4k", "-windowed", "-absolute-mouse",
                    "-unknown", "-app", "device"}}
  \cup {Setting("-input", Text("device")), Setting("-audio", Text("device")),
        Setting("-platform", Text("sdl")), Setting("-codec", Text("h264")),
        Setting("-video-codec", Text("h264")), Setting("-width", Num(640)),
        Setting("-height", Num(480)), Setting("-fps", Num(60))}
=============================================================================
