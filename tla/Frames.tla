-------------------------------- MODULE Frames --------------------------------
(***************************************************************************)
(* The frames of the socket and the two codecs that read them: the zod     *)
(* union of the daemon (protocol.ts) and the Codable enum of the Face      *)
(* (Frames.swift), written and changed separately.  A frame is its type,   *)
(* the keys it carries, and its length on the wire; values are left out.   *)
(***************************************************************************)
EXTENDS Naturals

(* What is needed of a frame, by its type.                                 *)
Codec(cases) ==
    [type \in {c[1] : c \in cases} |-> (CHOOSE c \in cases : c[1] = type)[2]]

(* The keys without which FrameSchema.safeParse fails, for each type.      *)
(* Keys typed unknown or optional may be absent.                           *)
ClientSchemas ==
    {<<"hello", {"client", "version"}>>, <<"utterance", {"id", "text", "final"}>>,
     <<"ping", {"id"}>>, <<"ui.intent", {"id", "intent"}>>, <<"settings", {"brain"}>>}

LaterSchemas == {<<"override", {"active"}>>, <<"breaker.cancel", {"id"}>>}

DaemonSchemas ==
    {<<"ready", {"daemon", "version"}>>, <<"reply", {"id", "text"}>>, <<"pong", {"id"}>>,
     <<"speak", {"id", "text", "cues"}>>, <<"widget.data", {"widget"}>>,
     <<"ui.state", {"state"}>>, <<"error", {"message"}>>,
     <<"transcript", {"id", "role", "text"}>>,
     <<"breaker.preview", {"id", "summary", "estimatedSpend", "tier"}>>,
     <<"capabilities", {"brain", "daemon", "version", "injectCap", "tools", "integrations"}>>,
     <<"stats", {"id", "brain"}>>}

Schema == Codec(ClientSchemas \cup LaterSchemas \cup DaemonSchemas)

(* The keys without which the Face's decoder throws.  It has no override,  *)
(* capabilities and stats.                                                 *)
FaceDecoder ==
  Codec(
    {<<"hello", {"client", "version"}>>, <<"utterance", {"id", "text", "final"}>>,
     <<"ping", {"id"}>>, <<"ui.intent", {"id", "intent"}>>, <<"settings", {"brain"}>>,
     <<"breaker.cancel", {"id"}>>,
     <<"breaker.preview", {"id", "summary", "estimatedSpend", "tier"}>>,
     <<"ready", {"daemon", "version"}>>, <<"reply", {"id", "text"}>>, <<"pong", {"id"}>>,
     <<"speak", {"id", "text", "cues"}>>, <<"widget.data", {"widget", "data"}>>,
     <<"ui.state", {"state"}>>, <<"error", {"message"}>>,
     <<"transcript", {"id", "role", "text"}>>})

(* The keys the Face's encoder always writes.                              *)
FaceEncoder ==
    {<<"hello", {"client", "version"}>>, <<"utterance", {"id", "text", "final"}>>,
     <<"ping", {"id"}>>, <<"ui.intent", {"id", "intent"}>>, <<"settings", {"brain"}>>,
     <<"breaker.cancel", {"id"}>>,
     <<"breaker.preview", {"id", "summary", "estimatedSpend", "tier"}>>,
     <<"ready", {"daemon", "version"}>>, <<"reply", {"id", "text"}>>, <<"pong", {"id"}>>,
     <<"speak", {"id", "text", "cues"}>>, <<"widget.data", {"widget", "data"}>>,
     <<"ui.state", {"state"}>>, <<"error", {"message"}>>,
     <<"transcript", {"id", "role", "text"}>>}

Frame(type, keys, size) == [type |-> type, keys |-> keys, size |-> size]

Decodes(codec, f) == f.type \in DOMAIN codec /\ codec[f.type] \subseteq f.keys

-----------------------------------------------------------------------------
(* What each side sends.                                                   *)

FaceFrames == {Frame(c[1], c[2], 1) : c \in FaceEncoder}

Hello == Frame("hello", {"client", "version"}, 1)

Ready == Frame("ready", {"daemon", "version"}, 1)

Capabilities ==
    Frame("capabilities",
          {"brain", "daemon", "version", "injectCap", "tools", "integrations"}, 1)

ReplyTo(size) == Frame("reply", {"id", "text"}, size)

Stats == Frame("stats", {"id", "brain"}, 1)

Pong == Frame("pong", {"id"}, 1)

ErrorFrame == Frame("error", {"message"}, 1)

PreviewNoTier ==                    \* slip: the frame leaves the tier out
    Frame("breaker.preview", {"id", "summary", "estimatedSpend"}, 1)

BreakerPreview == Frame("breaker.preview", {"id", "summary", "estimatedSpend", "tier"}, 1)

(* The text client.                                                        *)
ChatUtterance == Frame("utterance", {"id", "text", "final"}, 1)
ChatBrain == Frame("settings", {"brain"}, 1)

(* Something that is not a frame at all: a line that does not parse.       *)
Garbage == Frame("garbage", {}, 1)
=============================================================================
