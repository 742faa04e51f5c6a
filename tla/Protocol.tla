------------------------------- MODULE Protocol -------------------------------
(* The frames between a tab and its engine: the messages of messages.proto as *)
(* messages.ts writes and reads them, and protocol.ts around them. The tab    *)
(* and the engine are updated apart: each may know fewer fields than the      *)
(* other, and the newest fields are always the last of their message.         *)
(*                                                                            *)
(* A message is a function from the names of its fields to their values; a    *)
(* field that holds messages is the sequence of them, of at most one when it  *)
(* is not repeated (undefined is the empty one). On the wire a message is a   *)
(* sequence of [num, wire, value].                                            *)
EXTENDS Integers, Sequences, FiniteSets

LOCAL INSTANCE SequencesExt

Scalar(name, type) == [name |-> name, type |-> type, of |-> "scalar"]
One(name, type) == [name |-> name, type |-> type, of |-> "message"]
Many(name, type) == [name |-> name, type |-> type, of |-> "messages"]

Int64(name) == Scalar(name, "int64")      \* signed or not
Number(name) == Scalar(name, "varint")    \* 32 bits, signed or not, and enumerations
Flag(name) == Scalar(name, "bool")
Float(name) == Scalar(name, "float")
Text(name) == Scalar(name, "string")
Bytes(name) == Scalar(name, "bytes")

-----------------------------------------------------------------------------
(* The fields of each message; the number of a field is its place.            *)

TransportCommand ==
  <<Number("action"), Int64("seekPosition"), Flag("loopEnabled"), Flag("setRegion"),
    Int64("loopStart"), Int64("loopEnd"), Flag("clearRegion")>>
SetMonitor == <<Text("trackId"), Flag("solo"), Flag("mute")>>
TapControl == <<Flag("enabled")>>
EditorControl == <<Text("nodeId"), Flag("open")>>
SessionLaunch == <<Text("sceneId"), Text("trackId"), Flag("stop"), Flag("quantize")>>
SessionState == <<Many("slots", "SessionState_Slot")>>
SessionState_Slot == <<Text("trackId"), Text("sceneId"), Flag("queued")>>
TransportPosition == <<Int64("positionSamples"), Flag("isPlaying"), Number("sampleRate")>>
TrackMeter == <<Text("trackId"), Float("peakLeft"), Float("peakRight")>>
Meters == <<Many("tracks", "TrackMeter"), Float("masterPeakLeft"), Float("masterPeakRight")>>
EngineState ==
  <<Int64("bufferUnderruns"), Number("cpuPercent"), Number("latencySamples"),
    Int64("pluginBlocksMissed"), Flag("pluginChildAlive"), Number("pluginChildRestarts"),
    Text("projectId"), Number("stemsRenderedTotal"), Number("devicePeriodFrames"),
    Flag("deviceExclusive"), Float("limiterReductionDb"), Int64("limiterEngagedBlocks"),
    Float("limiterCeilingDb"), Flag("limiterEnabled")>>
AudioTap == <<Int64("firstSeq"), Number("blockCount"), Bytes("samples"), Int64("droppedBlocks")>>
RenderRequest == <<Number("bitDepth")>>
RenderState ==
  <<Number("status"), Text("wavHash"), Text("error"), Int64("lengthSamples"),
    Number("sampleRate"), Number("bitDepth")>>
SwitchProject == <<Text("projectId")>>
PluginEntry == <<Text("uid"), Text("name"), Text("vendor"), Text("subCategories")>>
PluginCatalog == <<Many("entries", "PluginEntry")>>
ErrorMessage == <<Number("severity"), Text("code"), Text("message")>>

\* The wrapper: one payload.
Message ==
  <<One("transport", "TransportCommand"), One("setMonitor", "SetMonitor"),
    One("position", "TransportPosition"), One("meters", "Meters"),
    One("engineState", "EngineState"), One("error", "Error"), One("tapControl", "TapControl"),
    One("audioTap", "AudioTap"), One("pluginCatalog", "PluginCatalog"),
    One("editor", "EditorControl"), One("sessionLaunch", "SessionLaunch"),
    One("sessionState", "SessionState"), One("renderRequest", "RenderRequest"),
    One("renderState", "RenderState"), One("switchProject", "SwitchProject")>>

Newest ==
  [TransportCommand |-> TransportCommand, SetMonitor |-> SetMonitor, TapControl |-> TapControl,
   EditorControl |-> EditorControl, SessionLaunch |-> SessionLaunch,
   SessionState |-> SessionState, SessionState_Slot |-> SessionState_Slot,
   TransportPosition |-> TransportPosition, TrackMeter |-> TrackMeter, Meters |-> Meters,
   EngineState |-> EngineState, AudioTap |-> AudioTap, RenderRequest |-> RenderRequest,
   RenderState |-> RenderState, SwitchProject |-> SwitchProject, PluginEntry |-> PluginEntry,
   PluginCatalog |-> PluginCatalog, Error |-> ErrorMessage, Message |-> Message]

-----------------------------------------------------------------------------
(* Writing and reading                                                        *)

MaxSafe == 3   \* MAX_SAFE_INTEGER: what counts is which values are above

Names(fields) == {fields[i].name : i \in DOMAIN fields}
FieldOf(fields, name) == CHOOSE f \in ToSet(fields) : f.name = name

Zero(f) ==
  CASE f.type = "bool" -> FALSE
    [] f.type = "string" -> ""
    [] f.type \in {"int64", "varint", "float"} -> 0
    [] OTHER -> << >>

WireType(f) ==
  CASE f.type \in {"bool", "int64", "varint"} -> 0
    [] f.type = "float" -> 5
    [] OTHER -> 2

\* What createBase gives.
Base(schema, n) == [name \in Names(schema[n]) |-> Zero(FieldOf(schema[n], name))]

\* What is written of a field: no default, every message. A mutated writer takes
\* a message of defaults for none.
WrittenFilled(schema, f, v) ==
  IF f.of # "scalar" THEN SelectSeq(v, LAMBDA m : m # Base(schema, f.type))
  ELSE IF v = Zero(f) THEN << >> ELSE <<v>>
Written(schema, f, v) ==
  IF f.of # "scalar" THEN v ELSE IF v = Zero(f) THEN << >> ELSE <<v>>

\* Fields in the order of their numbers, a message within a message.
RECURSIVE Encode(_, _, _)
Encode(schema, n, m) ==
  FlattenSeq([i \in DOMAIN schema[n] |->
    LET f == schema[n][i]
        values == Written(schema, f, m[f.name])
    IN [j \in DOMAIN values |->
         [num |-> i, wire |-> WireType(f),
          value |-> IF f.of = "scalar" THEN values[j] ELSE Encode(schema, f.type, values[j])]]])

\* A tag of another number or wire type is skipped.
Knows(fields, e) == e.num \in DOMAIN fields /\ e.wire = WireType(fields[e.num])

\* longToNumber throws on what a number cannot hold.
Failed == [ok |-> FALSE]
Read(m) == [ok |-> TRUE, m |-> m]

RECURSIVE Decode(_, _, _)
Decode(schema, n, wire) ==
  LET Taken(m, f, v) == Read([m EXCEPT ![f.name] = v])
      Take(acc, e) ==
        IF ~acc.ok \/ ~Knows(schema[n], e) THEN acc
        ELSE LET f == schema[n][e.num]
                 inner == Decode(schema, f.type, e.value)
             IN CASE f.of = "scalar" ->
                       IF f.type = "int64" /\ e.value > MaxSafe THEN Failed
                       ELSE Taken(acc.m, f, e.value)
                  [] f.of # "scalar" /\ ~inner.ok -> Failed
                  [] f.of = "message" /\ inner.ok -> Taken(acc.m, f, <<inner.m>>)
                  [] f.of = "messages" /\ inner.ok ->
                       Taken(acc.m, f, Append(acc.m[f.name], inner.m))
  IN FoldLeft(Take, Read(Base(schema, n)), wire)

Framed(body) == [length |-> Len(body), body |-> body]
Wrapped(field, m) == [Base(Newest, "Message") EXCEPT ![field] = <<m>>]

\* encodeMessage: what the caller leaves out of a transport command is default.
EncodeMessage(schema, field, data) ==
  LET n == FieldOf(Message, field).type
      m == [name \in Names(schema[n]) |->
             IF name \in DOMAIN data THEN data[name] ELSE Base(schema, n)[name]]
  IN Framed(Encode(schema, "Message", Wrapped(field, m)))

\* The payloads a tab hears, in the order decodeMessage looks for them.
Incoming ==
  <<"position", "meters", "engineState", "audioTap", "pluginCatalog", "sessionState",
    "renderState", "error">>

Unheard == [field |-> "none"]
DecodeMessage(schema, frame) ==
  LET r == Decode(schema, "Message", frame.body)
      set == SelectSeq(Incoming, LAMBDA x : x \in DOMAIN r.m /\ r.m[x] # << >>)
  IN IF frame.body = << >> \/ frame.length # Len(frame.body) \/ ~r.ok THEN Unheard
     ELSE IF set = << >> THEN Unheard
     ELSE [field |-> Head(set), data |-> r.m[Head(set)][1]]

\* parseWithLength and the switch over the payloads of the engine.
Outgoing ==
  {"transport", "setMonitor", "tapControl", "editor", "sessionLaunch", "switchProject",
   "renderRequest"}
EngineHears(schema, frame) ==
  LET r == Decode(schema, "Message", frame.body)
      set == {x \in Outgoing \cap DOMAIN r.m : r.m[x] # << >>}
  IN IF frame.length > Len(frame.body) \/ ~r.ok \/ set = {} THEN Unheard
     ELSE LET x == CHOOSE y \in set : TRUE IN [field |-> x, data |-> r.m[x][1]]

-----------------------------------------------------------------------------
(* What is expected of them, over messages of which up to two fields are set. *)

Version(n, k) == [Newest EXCEPT ![n] = SubSeq(@, 1, k)]

Values(f) ==
  CASE f.type = "bool" -> {TRUE}
    [] f.type = "string" -> {"x"}
    [] f.type = "int64" -> {1, MaxSafe, MaxSafe + 1}
    [] f.type \in {"varint", "float"} -> {1}
    [] f.type = "bytes" -> {<<1>>}
    [] OTHER ->
         LET inner == Newest[f.type]
             full == [name \in Names(inner) |->
                       LET g == FieldOf(inner, name)
                       IN CASE g.type = "bool" -> TRUE
                            [] g.type = "string" -> "x"
                            [] g.type \in {"int64", "varint", "float"} -> 1
                            [] g.type = "bytes" -> <<1>>
                            [] OTHER -> << >>]
         IN {<<Base(Newest, f.type)>>, <<full>>}
            \cup (IF f.of = "messages" THEN {<<full, Base(Newest, f.type)>>} ELSE {})

Examples(schema, n) ==
  LET fields == ToSet(schema[n]) IN
  {Base(schema, n)} \cup
  UNION {{[Base(schema, n) EXCEPT ![f.name] = x, ![g.name] = y] :
            x \in Values(f), y \in Values(g)} : f, g \in fields}

\* The values the reader knows of, and defaults for what the writer did not.
Expected(schema, n, m) ==
  IF \E f \in ToSet(schema[n]) :
       f.type = "int64" /\ f.name \in DOMAIN m /\ m[f.name] > MaxSafe
  THEN Failed
  ELSE Read([name \in Names(schema[n]) |->
              IF name \in DOMAIN m THEN m[name] ELSE Base(schema, n)[name]])

\* Who may talk to whom: either end lacks the last fields of a message, or the
\* reader the message itself.
Older(n) == {Version(n, k) : k \in 0 .. Len(Newest[n])} \cup {Version("Message", 0)}
Ends(n) ==
  {[writer |-> Newest, reader |-> old] : old \in Older(n)} \cup
  {[writer |-> [old EXCEPT !.Message = Message], reader |-> Newest] : old \in Older(n)}

\* The frames a tab (or, Outgoing, its engine) does not hear as expected. What
\* does not fit a number is not sent by a tab.
Frame(x, writer, m) ==
  IF x \in Outgoing THEN EncodeMessage(writer, x, m)
  ELSE Framed(Encode(writer, "Message", Wrapped(x, m)))
Heard(x, reader, frame) ==
  IF x \in Outgoing THEN EngineHears(reader, frame) ELSE DecodeMessage(reader, frame)
HeardAsMeant(x, n, ends, m) ==
  LET seen == Expected(ends.reader, n, m) IN
  Heard(x, ends.reader, Frame(x, ends.writer, m)) =
    IF seen.ok /\ ends.reader.Message # << >>
    THEN [field |-> x, data |-> seen.m] ELSE Unheard
Misheard ==
  {x \in ToSet(Incoming) \cup Outgoing :
    LET n == FieldOf(Message, x).type IN
    \E ends \in Ends(n) : \E m \in Examples(ends.writer, n) :
      /\ x \in Outgoing => Expected(ends.writer, n, m).ok
      /\ ~HeardAsMeant(x, n, ends, m)}
=============================================================================
