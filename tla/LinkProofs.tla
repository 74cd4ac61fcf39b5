------------------------------ MODULE LinkProofs ------------------------------
(***************************************************************************)
(* Theorems about the socket, for any connections, any frames the clients  *)
(* and the loop have to send, and any cut of the stream into reads.        *)
(***************************************************************************)
EXTENDS FrameLink, NumberLemmas, SequenceTheorems

-----------------------------------------------------------------------------
(* The codecs.                                                             *)

(* A codec that lists a type once asks for the keys listed with it.        *)
LEMMA CodecHas ==
  ASSUME NEW cases, NEW type, NEW keys, <<type, keys>> \in cases,
         \A c \in cases : c[1] = type => c[2] = keys
  PROVE  type \in DOMAIN Codec(cases) /\ Codec(cases)[type] = keys
<1> DEFINE chosen == CHOOSE c \in cases : c[1] = type
<1>1. chosen \in cases /\ chosen[1] = type
  <2>1. <<type, keys>>[1] = type
    OBVIOUS
  <2> QED BY <2>1
<1>2. chosen[2] = keys
  BY <1>1
<1>3. type \in {c[1] : c \in cases}
  BY <1>1
<1> QED BY <1>2, <1>3 DEF Codec

(* The daemon's schema accepts all the Face's encoder writes, ...          *)
LEMMA SchemaTakesFace == \A f \in FaceFrames : Decodes(Schema, f)
<1> DEFINE all == ClientSchemas \cup LaterSchemas \cup DaemonSchemas
<1> SUFFICES ASSUME NEW e \in FaceEncoder PROVE Decodes(Schema, Frame(e[1], e[2], 1))
  BY DEF FaceFrames
<1>1. PICK keys : <<e[1], keys>> \in all /\ keys \subseteq e[2]
  <2>1. e \in all \/ e = <<"widget.data", {"widget", "data"}>>
    BY DEF FaceEncoder, ClientSchemas, LaterSchemas, DaemonSchemas
  <2>2. CASE e \in all
    <3>1. e = <<e[1], e[2]>>
      BY DEF FaceEncoder
    <3> QED BY <2>2, <3>1
  <2>3. CASE e = <<"widget.data", {"widget", "data"}>>
    <3>1. <<"widget.data", {"widget"}>> \in all
      BY DEF DaemonSchemas
    <3>2. {"widget"} \subseteq {"widget", "data"}
      OBVIOUS
    <3> QED BY <2>3, <3>1, <3>2
  <2> QED BY <2>1, <2>2, <2>3
<1>2. \A c \in all : c[1] = e[1] => c[2] = keys
  BY <1>1 DEF ClientSchemas, LaterSchemas, DaemonSchemas
<1> HIDE DEF all
<1>3. e[1] \in DOMAIN Codec(all) /\ Codec(all)[e[1]] = keys
  BY <1>1, <1>2, CodecHas
<1> QED BY <1>1, <1>3 DEF Decodes, Schema, Frame, all

(* ... and what the text client sends that is a frame.                     *)
LEMMA SchemaTakesChat == Decodes(Schema, ChatUtterance) /\ Decodes(Schema, ChatBrain)
<1> DEFINE all == ClientSchemas \cup LaterSchemas \cup DaemonSchemas
<1>1. \A c \in all : c[1] = "utterance" => c[2] = {"id", "text", "final"}
  BY DEF ClientSchemas, LaterSchemas, DaemonSchemas
<1>2. \A c \in all : c[1] = "settings" => c[2] = {"brain"}
  BY DEF ClientSchemas, LaterSchemas, DaemonSchemas
<1>3. <<"utterance", {"id", "text", "final"}>> \in all /\ <<"settings", {"brain"}>> \in all
  BY DEF ClientSchemas
<1> HIDE DEF all
<1>4. /\ "utterance" \in DOMAIN Codec(all)
      /\ Codec(all)["utterance"] = {"id", "text", "final"}
  BY <1>1, <1>3, CodecHas
<1>5. "settings" \in DOMAIN Codec(all) /\ Codec(all)["settings"] = {"brain"}
  BY <1>2, <1>3, CodecHas
<1> QED BY <1>4, <1>5 DEF Decodes, Schema, Frame, ChatUtterance, ChatBrain, all

(* The Face decodes all the daemon sends it but telemetry.                 *)
FaceSees == {Ready, Pong, ErrorFrame, BreakerPreview} \cup Replies
DaemonFrames == FaceSees \cup {Capabilities, Stats}

LEMMA FaceTakesDaemon ==
  /\ \A f \in FaceSees : Decodes(FaceDecoder, f)
  /\ \A f \in DaemonFrames : f.size \in Nat
<1> DEFINE known(type, keys) == \E cases : /\ FaceDecoder = Codec(cases)
                                           /\ <<type, keys>> \in cases
                                           /\ \A c \in cases : c[1] = type => c[2] = keys
<1>1. /\ known("reply", {"id", "text"}) /\ known("pong", {"id"})
      /\ known("ready", {"daemon", "version"}) /\ known("error", {"message"})
      /\ known("breaker.preview", {"id", "summary", "estimatedSpend", "tier"})
  BY DEF FaceDecoder
<1>2. ASSUME NEW type, NEW keys, NEW size, known(type, keys)
      PROVE  Decodes(FaceDecoder, Frame(type, keys, size))
  BY <1>2, CodecHas DEF Decodes, Frame
<1> HIDE DEF known
<1>3. ASSUME NEW f \in Replies PROVE f = Frame("reply", {"id", "text"}, f.size) /\ f.size \in Nat
  BY <1>3, FramesSent DEF ReplyTo
<1>4. \A f \in FaceSees : Decodes(FaceDecoder, f)
  BY <1>1, <1>2, <1>3 DEF FaceSees, Ready, Pong, ErrorFrame, BreakerPreview
<1>5. \A f \in DaemonFrames : f.size \in Nat
  BY <1>3 DEF DaemonFrames, FaceSees, Ready, Pong, ErrorFrame, BreakerPreview, Capabilities,
              Stats, Frame
<1> QED BY <1>4, <1>5
-----------------------------------------------------------------------------
(* Bytes and lines.                                                        *)

(* e holds the newlines of every prefix of the bytes.                      *)
EndsUpTo(e, bytes, m) ==
    e = [i \in 0 .. m |-> IF i = 0 THEN <<>>
                          ELSE IF bytes[i].nl THEN Append(e[i - 1], i) ELSE e[i - 1]]

LEMMA EndsExist ==
  ASSUME NEW bytes
  PROVE  \A m \in Nat : \E e : EndsUpTo(e, bytes, m)
<1> DEFINE P == {m \in Nat : \E e : EndsUpTo(e, bytes, m)}
<1>1. 0 \in P
  <2>1. EndsUpTo([i \in 0 .. 0 |-> <<>>], bytes, 0)
    BY DEF EndsUpTo
  <2> QED BY <2>1
<1>2. ASSUME NEW m \in Nat, m \in P PROVE m + 1 \in P
  <2>1. PICK e : EndsUpTo(e, bytes, m)
    BY <1>2
  <2> DEFINE last == IF bytes[m + 1].nl THEN Append(e[m], m + 1) ELSE e[m]
             g == [i \in 0 .. m + 1 |-> IF i = m + 1 THEN last ELSE e[i]]
  <2>2. \A i \in 0 .. m : g[i] = e[i]
    OBVIOUS
  <2>3. g[m + 1] = last
    OBVIOUS
  <2>4. \A i \in 0 .. m + 1 :
           g[i] = IF i = 0 THEN <<>>
                  ELSE IF bytes[i].nl THEN Append(g[i - 1], i) ELSE g[i - 1]
    <3> SUFFICES ASSUME NEW i \in 0 .. m + 1
                 PROVE  g[i] = IF i = 0 THEN <<>>
                               ELSE IF bytes[i].nl THEN Append(g[i - 1], i) ELSE g[i - 1]
      OBVIOUS
    <3> HIDE DEF g
    <3>1. CASE i = m + 1
      <4>1. i - 1 = m /\ m \in 0 .. m
        BY <3>1
      <4> QED BY <2>2, <2>3, <3>1, <4>1
    <3>2. CASE i \in 0 .. m
      <4>1. i = 0 \/ i - 1 \in 0 .. m
        BY <3>2
      <4>2. e[i] = IF i = 0 THEN <<>>
                   ELSE IF bytes[i].nl THEN Append(e[i - 1], i) ELSE e[i - 1]
        BY <2>1, <3>2 DEF EndsUpTo
      <4> QED BY <2>2, <3>2, <4>1, <4>2
    <3> QED BY <3>1, <3>2
  <2>5. EndsUpTo(g, bytes, m + 1)
    <3>1. g = [i \in 0 .. m + 1 |-> g[i]]
      OBVIOUS
    <3> HIDE DEF g
    <3> QED BY <2>4, <3>1, Zenon DEF EndsUpTo
  <2> QED BY <2>5
<1>3. Nat \subseteq P
  <2> HIDE DEF P
  <2> QED BY <1>1, <1>2, NumbersByInduction
<1> QED BY <1>3

(* The newlines of a run of bytes are places in it, in a sequence.         *)
LEMMA NewlinesArePlaces ==
  ASSUME NEW S, NEW bytes \in Seq(S)
  PROVE  Newlines(bytes) \in Seq(1 .. Len(bytes))
<1> DEFINE n == Len(bytes)
           e == CHOOSE f : EndsUpTo(f, bytes, n)
<1>1. n \in Nat
  OBVIOUS
<1> HIDE DEF n
<1>2. EndsUpTo(e, bytes, n)
  BY <1>1, EndsExist
<1>3. Newlines(bytes) = e[n]
  BY DEF Newlines, EndsUpTo, n
<1> HIDE DEF e
<1> DEFINE R == 1 .. n
           P == {m \in Nat : m <= n => e[m] \in Seq(R)}
<1>4. 0 \in P
  <2>1. e[0] = <<>>
    BY <1>1, <1>2 DEF EndsUpTo
  <2> HIDE DEF R
  <2>2. e[0] \in Seq(R)
    BY <2>1
  <2> QED BY <2>2
<1>5. ASSUME NEW m \in Nat, m \in P PROVE m + 1 \in P
  <2> SUFFICES ASSUME m + 1 <= n PROVE e[m + 1] \in Seq(R)
    OBVIOUS
  <2>1. e[m] \in Seq(R) /\ m + 1 \in R
    BY <1>1, <1>5
  <2>2. e[m + 1] = IF bytes[m + 1].nl THEN Append(e[m], m + 1) ELSE e[m]
    <3>1. m + 1 \in 0 .. n /\ m + 1 # 0 /\ (m + 1) - 1 = m
      BY <1>1
    <3>2. \A i \in 0 .. n : i # 0 =>
             e[i] = IF bytes[i].nl THEN Append(e[i - 1], i) ELSE e[i - 1]
      BY <1>2 DEF EndsUpTo
    <3> HIDE DEF R
    <3> QED BY <3>1, <3>2
  <2> HIDE DEF R
  <2>3. e[m + 1] = e[m] \/ e[m + 1] = Append(e[m], m + 1)
    BY <2>2
  <2>4. Append(e[m], m + 1) \in Seq(R)
    BY <2>1, AppendProperties
  <2> QED BY <2>1, <2>3, <2>4
<1>6. Nat \subseteq P
  <2> HIDE DEF P
  <2> QED BY <1>4, <1>5, NumbersByInduction
<1> QED BY <1>1, <1>3, <1>6 DEF n

(* g joins the first m of some sequences.                                  *)
JoinsUpTo(g, ss, m) ==
    g = [i \in 1 .. m |-> IF i = 1 THEN ss[i] ELSE g[i - 1] \o ss[i]]

LEMMA JoinsExist ==
  ASSUME NEW ss
  PROVE  \A m \in Nat : \E g : JoinsUpTo(g, ss, m)
<1> DEFINE P == {m \in Nat : \E g : JoinsUpTo(g, ss, m)}
<1>1. 0 \in P
  <2>1. JoinsUpTo([i \in 1 .. 0 |-> <<>>], ss, 0)
    BY DEF JoinsUpTo
  <2> QED BY <2>1
<1>2. ASSUME NEW m \in Nat, m \in P PROVE m + 1 \in P
  <2>1. PICK f : JoinsUpTo(f, ss, m)
    BY <1>2
  <2> DEFINE last == IF m = 0 THEN ss[1] ELSE f[m] \o ss[m + 1]
             g == [i \in 1 .. m + 1 |-> IF i = m + 1 THEN last ELSE f[i]]
  <2>2. \A i \in 1 .. m : g[i] = f[i]
    OBVIOUS
  <2>3. g[m + 1] = last
    OBVIOUS
  <2>4. \A i \in 1 .. m + 1 : g[i] = IF i = 1 THEN ss[i] ELSE g[i - 1] \o ss[i]
    <3> SUFFICES ASSUME NEW i \in 1 .. m + 1
                 PROVE  g[i] = IF i = 1 THEN ss[i] ELSE g[i - 1] \o ss[i]
      OBVIOUS
    <3> HIDE DEF g
    <3>1. CASE i = m + 1
      <4>1. i - 1 = m /\ (m = 0 \/ m \in 1 .. m)
        BY <3>1
      <4> QED BY <2>2, <2>3, <3>1, <4>1
    <3>2. CASE i \in 1 .. m
      <4>1. i = 1 \/ i - 1 \in 1 .. m
        BY <3>2
      <4>2. f[i] = IF i = 1 THEN ss[i] ELSE f[i - 1] \o ss[i]
        BY <2>1, <3>2 DEF JoinsUpTo
      <4> QED BY <2>2, <3>2, <4>1, <4>2
    <3> QED BY <3>1, <3>2
  <2>5. JoinsUpTo(g, ss, m + 1)
    <3>1. g = [i \in 1 .. m + 1 |-> g[i]]
      OBVIOUS
    <3> HIDE DEF g
    <3> QED BY <2>4, <3>1, Zenon DEF JoinsUpTo
  <2> QED BY <2>5
<1>3. Nat \subseteq P
  <2> HIDE DEF P
  <2> QED BY <1>1, <1>2, NumbersByInduction
<1> QED BY <1>3

(* Sequences of a kind are joined to a sequence of that kind.              *)
LEMMA FlattenIn ==
  ASSUME NEW S, NEW ss \in Seq(Seq(S))
  PROVE  FlattenSeq(ss) \in Seq(S)
<1> DEFINE T == Seq(S)
           n == Len(ss)
           g == CHOOSE f : JoinsUpTo(f, ss, n)
<1>1. n \in Nat /\ \A i \in 1 .. n : ss[i] \in T
  OBVIOUS
<1>2. CASE n = 0
  <2>1. ss = <<>>
    BY <1>2
  <2> QED BY <1>2, <2>1 DEF FlattenSeq
<1>3. CASE n # 0
  <2>1. FlattenSeq(ss) = g[n]
    BY <1>3 DEF FlattenSeq, JoinsUpTo
  <2> HIDE DEF n, T
  <2>2. JoinsUpTo(g, ss, n)
    BY <1>1, JoinsExist
  <2> HIDE DEF g
  <2> DEFINE P == {m \in Nat : m \in 1 .. n => g[m] \in T}
  <2>3. 0 \in P
    OBVIOUS
  <2>4. ASSUME NEW m \in Nat, m \in P PROVE m + 1 \in P
    <3> SUFFICES ASSUME m + 1 \in 1 .. n PROVE g[m + 1] \in T
      OBVIOUS
    <3>1. \A i \in 1 .. n : g[i] = IF i = 1 THEN ss[i] ELSE g[i - 1] \o ss[i]
      BY <2>2 DEF JoinsUpTo
    <3>2. ss[m + 1] \in T
      BY <1>1
    <3>3. CASE m = 0
      BY <3>1, <3>2, <3>3
    <3>4. CASE m # 0
      <4>1. g[m] \in T
        BY <1>1, <2>4, <3>4
      <4>2. g[m + 1] = g[m] \o ss[m + 1]
        <5>1. m + 1 # 1 /\ (m + 1) - 1 = m
          BY <3>4
        <5> QED BY <3>1, <5>1
      <4> QED BY <3>2, <4>1, <4>2, ConcatProperties DEF T
    <3> QED BY <3>3, <3>4
  <2>5. Nat \subseteq P
    <3> HIDE DEF P
    <3> QED BY <2>3, <2>4, NumbersByInduction
  <2>6. g[n] \in T
    BY <1>1, <1>3, <2>5
  <2> QED BY <2>1, <2>6 DEF T
<1> QED BY <1>2, <1>3

-----------------------------------------------------------------------------
(* What the streams carry.                                                 *)

Atoms(Fs) == [of : Fs, nl : BOOLEAN, on : Conns]

ClientFrames == FaceFrames \cup {ChatUtterance, ChatBrain, Garbage}

(* Only frames of its writer are in a stream, and a reader's buffer holds  *)
(* what it read of it.                                                     *)
StreamTypes ==
    /\ up \in [Conns -> Seq(Atoms(ClientFrames))]
    /\ down \in [Conns -> Seq(Atoms(DaemonFrames))]
    /\ dbuf \in [Conns -> Seq(Atoms(ClientFrames))]

LEMMA ClientFramesAre ==
  /\ \A f \in ClientFrames : f.size \in Nat
  /\ \A f \in ClientFrames : f = Garbage \/ Decodes(Schema, f)
  /\ FaceSends \subseteq ClientFrames /\ ChatSends \subseteq ClientFrames
  /\ Hello \in ClientFrames
<1>1. Hello \in FaceFrames
  <2>1. <<"hello", {"client", "version"}>> \in FaceEncoder
    BY DEF FaceEncoder
  <2> QED BY <2>1 DEF FaceFrames, Hello
<1>2. \A f \in ClientFrames : f.size \in Nat
  BY DEF ClientFrames, FaceFrames, ChatUtterance, ChatBrain, Garbage, Frame
<1>3. \A f \in ClientFrames : f = Garbage \/ Decodes(Schema, f)
  BY SchemaTakesFace, SchemaTakesChat DEF ClientFrames
<1> QED BY <1>1, <1>2, <1>3, FramesSent DEF ClientFrames

LEMMA SentIn ==
  ASSUME NEW Fs, \A f \in Fs : f.size \in Nat, NEW c \in Conns,
         NEW stream, stream[c] \in Seq(Atoms(Fs)), NEW fs \in Seq(Fs)
  PROVE  Sent(stream, c, fs) \in Seq(Atoms(Fs))
<1> DEFINE A == Atoms(Fs)
           ss == [i \in DOMAIN fs |-> Bytes(c, fs[i])]
<1>1. \A f \in Fs : Bytes(c, f) \in Seq(A)
  <2> SUFFICES ASSUME NEW f \in Fs PROVE Bytes(c, f) \in Seq(A)
    OBVIOUS
  <2>1. f.size + 1 \in Nat
    OBVIOUS
  <2>2. \A i \in 1 .. f.size + 1 : [of |-> f, nl |-> i > f.size, on |-> c] \in A
    BY DEF Atoms
  <2> HIDE DEF A
  <2>3. Bytes(c, f) \in [1 .. f.size + 1 -> A]
    BY <2>2 DEF Bytes
  <2> QED BY <2>1, <2>3, IsASeq
<1> DEFINE n == Len(fs)
<1>2. n \in Nat /\ DOMAIN fs = 1 .. n /\ \A i \in 1 .. n : fs[i] \in Fs
  OBVIOUS
<1> HIDE DEF n, A
<1>3. ss \in [1 .. n -> Seq(A)]
  BY <1>1, <1>2
<1>4. ss \in Seq(Seq(A))
  BY <1>2, <1>3, IsASeq
<1>5. FlattenSeq(ss) \in Seq(A)
  BY <1>4, FlattenIn
<1>6. stream[c] \in Seq(A)
  BY DEF A
<1>7. stream[c] \o FlattenSeq(ss) \in Seq(A)
  BY <1>5, <1>6, ConcatProperties
<1> QED BY <1>7 DEF Sent, A

(* A read takes some bytes off a stream and leaves the others.             *)
LEMMA ReadIn ==
  ASSUME NEW S, NEW s \in Seq(S), NEW n \in Nat, n <= Len(s)
  PROVE  SubSeq(s, 1, n) \in Seq(S) /\ SubSeq(s, n + 1, Len(s)) \in Seq(S)
<1> DEFINE k == Len(s)
<1>1. k \in Nat /\ \A i \in 1 .. k : s[i] \in S
  OBVIOUS
<1> HIDE DEF k
<1>2. SubSeq(s, 1, n) \in Seq(S)
  BY <1>1, SubSeqProperties DEF k
<1>3. SubSeq(s, n + 1, k) \in Seq(S)
  BY <1>1, SubSeqProperties
<1> QED BY <1>2, <1>3 DEF k

LEMMA ReadSize ==
  ASSUME NEW S, NEW s \in Seq(S), NEW n \in 1 .. Min({ChunkMax, Len(s)})
  PROVE  n \in Nat /\ n <= Len(s)
<1>1. {ChunkMax, Len(s)} \in SUBSET Nat /\ {ChunkMax, Len(s)} # {}
  BY LinkConstants
<1>2. /\ Min({ChunkMax, Len(s)}) \in Nat
      /\ Min({ChunkMax, Len(s)}) <= Len(s)
  BY <1>1, MinIsLeast
<1> QED BY <1>2

LEMMA RestIn ==
  ASSUME NEW S, NEW bytes \in Seq(S)
  PROVE  Rest(bytes) \in Seq(S)
<1> DEFINE k == Len(bytes)
           s == <<0>> \o LineEnds(bytes)
<1>1. k \in Nat /\ \A i \in 1 .. k : bytes[i] \in S
  OBVIOUS
<1>2. LineEnds(bytes) \in Seq(1 .. k)
  BY NewlinesArePlaces DEF LineEnds
<1> HIDE DEF k
<1>3. LineEnds(bytes) \in Seq(Nat)
  <2>1. 1 .. k \subseteq Nat
    BY <1>1
  <2> QED BY <1>2, <2>1, SeqMonotonic
<1>4. <<0>> \in Seq(Nat) /\ Len(<<0>>) = 1
  OBVIOUS
<1>5. s \in Seq(Nat) /\ Len(s) = 1 + Len(LineEnds(bytes))
  BY <1>3, <1>4, ConcatProperties
<1>6. Len(s) \in DOMAIN s
  <2>1. Len(LineEnds(bytes)) \in Nat
    BY <1>3
  <2> HIDE DEF s
  <2> QED BY <1>5, <2>1
<1>7. Last(s) \in Nat
  <2> HIDE DEF s
  <2> QED BY <1>5, <1>6 DEF Last
<1> HIDE DEF s
<1>8. SubSeq(bytes, Last(s) + 1, k) \in Seq(S)
  BY <1>1, <1>7, SubSeqProperties
<1> QED BY <1>8 DEF Rest, s, k

(* What one data event is answered with at once.                           *)
LEMMA AnswersIn ==
  ASSUME NEW S, NEW bytes \in Seq(S)
  PROVE  FlattenSeq([i \in DOMAIN FramesOf(bytes) |-> AnswerOf(FramesOf(bytes)[i])])
           \in Seq(DaemonFrames)
<1> DEFINE fs == FramesOf(bytes)
           n == Len(LineEnds(bytes))
           answers == [i \in DOMAIN fs |-> AnswerOf(fs[i])]
<1>1. n \in Nat /\ DOMAIN fs = 1 .. n
  <2>1. LineEnds(bytes) \in Seq(1 .. Len(bytes))
    BY NewlinesArePlaces DEF LineEnds
  <2>2. DOMAIN fs = DOMAIN LineEnds(bytes)
    BY DEF FramesOf
  <2> HIDE DEF fs
  <2> QED BY <2>1, <2>2, LenProperties
<1>2. \A f : AnswerOf(f) \in Seq(DaemonFrames)
  <2>1. ErrorFrame \in DaemonFrames /\ Pong \in DaemonFrames
    BY DEF DaemonFrames, FaceSees
  <2>2. <<ErrorFrame>> \in Seq(DaemonFrames) /\ <<Pong>> \in Seq(DaemonFrames)
        /\ <<>> \in Seq(DaemonFrames)
    BY <2>1
  <2> QED BY <2>2 DEF AnswerOf
<1> HIDE DEF fs, n
<1>3. answers \in [1 .. n -> Seq(DaemonFrames)]
  BY <1>1, <1>2
<1>4. answers \in Seq(Seq(DaemonFrames))
  BY <1>1, <1>3, IsASeq
<1> QED BY <1>4, FlattenIn DEF fs

(* A write on one stream, if the peer is there to read it.                 *)
LEMMA DownIn ==
  ASSUME StreamTypes, NEW c \in Conns, NEW fs \in Seq(DaemonFrames)
  PROVE  Sent(down, c, fs) \in Seq(Atoms(DaemonFrames))
BY SentIn, FaceTakesDaemon DEF StreamTypes

LEMMA UpIn ==
  ASSUME StreamTypes, NEW c \in Conns, NEW f \in ClientFrames
  PROVE  Sent(up, c, <<f>>) \in Seq(Atoms(ClientFrames))
<1>1. <<f>> \in Seq(ClientFrames)
  OBVIOUS
<1> QED BY <1>1, SentIn, ClientFramesAre DEF StreamTypes

(* Steps of the daemon.                                                    *)
LEMMA DaemonTypes ==
  ASSUME StreamTypes, NEW c \in Conns, DaemonStep(c)
  PROVE  StreamTypes'
<1> DEFINE U == Seq(Atoms(ClientFrames))
           D == Seq(Atoms(DaemonFrames))
<1>1. up \in [Conns -> U] /\ down \in [Conns -> D] /\ dbuf \in [Conns -> U]
  BY DEF StreamTypes
<1>2. <<>> \in U /\ <<>> \in D
  OBVIOUS
<1>3. CASE Accept(c)
  <2>1. <<Ready, Capabilities>> \in Seq(DaemonFrames)
    BY DEF DaemonFrames, FaceSees
  <2>2. Sent(down, c, <<Ready, Capabilities>>) \in D
    BY <2>1, DownIn
  <2> HIDE DEF U, D
  <2>3. up' = up /\ dbuf' = dbuf
        /\ down' = [down EXCEPT ![c] = Sent(down, c, <<Ready, Capabilities>>)]
    BY <1>3 DEF Accept
  <2> QED BY <1>1, <2>2, <2>3 DEF StreamTypes, U, D
<1>4. CASE DropClient(c)
  <2> HIDE DEF U, D
  <2>1. up' = up /\ down' = down /\ dbuf' = [dbuf EXCEPT ![c] = <<>>]
    BY <1>4 DEF DropClient
  <2> QED BY <1>1, <1>2, <2>1 DEF StreamTypes, U, D
<1>5. ASSUME NEW n \in 1 .. Min({ChunkMax, Len(up[c])}), DaemonReads(c, n)
      PROVE  StreamTypes'
  <2> DEFINE bytes == dbuf[c] \o SubSeq(up[c], 1, n)
             answers == FlattenSeq([i \in DOMAIN FramesOf(bytes) |-> AnswerOf(FramesOf(bytes)[i])])
  <2>1. n \in Nat /\ n <= Len(up[c])
    BY <1>1, <1>5, ReadSize
  <2>2. SubSeq(up[c], 1, n) \in U /\ SubSeq(up[c], n + 1, Len(up[c])) \in U
    BY <1>1, <2>1, ReadIn
  <2>3. bytes \in U
    BY <1>1, <2>2, ConcatProperties
  <2>4. Rest(bytes) \in U
    BY <2>3, RestIn
  <2>5. answers \in Seq(DaemonFrames)
    BY <2>3, AnswersIn
  <2>6. Sent(down, c, answers) \in D
    BY <2>5, DownIn
  <2>7. /\ up' = [up EXCEPT ![c] = SubSeq(up[c], n + 1, Len(up[c]))]
        /\ dbuf' = [dbuf EXCEPT ![c] = Rest(bytes)]
        /\ down' = [down EXCEPT ![c] = IF link[c] = "open" THEN Sent(down, c, answers) ELSE down[c]]
    BY <1>5 DEF DaemonReads
  <2> HIDE DEF U, D, bytes, answers
  <2> QED BY <1>1, <2>2, <2>4, <2>6, <2>7 DEF StreamTypes, U, D
<1>6. ASSUME NEW f \in Replies, Reply(c, f) PROVE StreamTypes'
  <2>1. <<f, Stats>> \in Seq(DaemonFrames)
    BY DEF DaemonFrames, FaceSees
  <2>2. Sent(down, c, <<f, Stats>>) \in D
    BY <2>1, DownIn
  <2>3. /\ up' = up /\ dbuf' = dbuf
        /\ down' = [down EXCEPT ![c] = IF link[c] = "open" THEN Sent(down, c, <<f, Stats>>)
                                       ELSE down[c]]
    BY <1>6 DEF Reply, DaemonSends
  <2> HIDE DEF U, D
  <2> QED BY <1>1, <2>2, <2>3 DEF StreamTypes, U, D
<1> QED BY <1>3, <1>4, <1>5, <1>6 DEF DaemonStep

(* The daemon's broadcasts and its death.                                  *)
LEMMA BroadcastTypes ==
  ASSUME StreamTypes, Broadcast \/ DaemonDies
  PROVE  StreamTypes'
<1> DEFINE U == Seq(Atoms(ClientFrames))
           D == Seq(Atoms(DaemonFrames))
<1>1. up \in [Conns -> U] /\ down \in [Conns -> D] /\ dbuf \in [Conns -> U]
  BY DEF StreamTypes
<1>2. <<>> \in U /\ <<>> \in D
  OBVIOUS
<1>3. CASE Broadcast
  <2>1. <<BreakerPreview>> \in Seq(DaemonFrames)
    BY DEF DaemonFrames, FaceSees
  <2>2. \A c \in Conns : Sent(down, c, <<BreakerPreview>>) \in D
    BY <2>1, DownIn
  <2>3. /\ up' = up /\ dbuf' = dbuf
        /\ down' = [c \in Conns |-> IF c \in clients /\ link[c] = "open"
                                     THEN Sent(down, c, <<BreakerPreview>>) ELSE down[c]]
    BY <1>3 DEF Broadcast, daemonSide
  <2> HIDE DEF U, D
  <2> QED BY <1>1, <2>2, <2>3 DEF StreamTypes, U, D
<1>4. CASE DaemonDies
  <2>1. /\ up' = [c \in Conns |-> IF c \in clients THEN <<>> ELSE up[c]]
        /\ dbuf' = [c \in Conns |-> <<>>] /\ down' = down
    BY <1>4 DEF DaemonDies
  <2> HIDE DEF U, D
  <2> QED BY <1>1, <1>2, <2>1 DEF StreamTypes, U, D
<1> QED BY <1>3, <1>4

(* Steps of the Face.                                                      *)
LEMMA FaceTypes ==
  ASSUME StreamTypes,
         \/ FaceTask \/ \E f \in FaceSends : FaceSendsFrame(f)
         \/ \E c \in FaceConns : FaceConnects(c) \/ FaceReads(c) \/ StreamEnds(c)
         \/ \E c \in Conns : DialFails(c)
  PROVE  StreamTypes'
<1> DEFINE U == Seq(Atoms(ClientFrames))
           D == Seq(Atoms(DaemonFrames))
<1>1. up \in [Conns -> U] /\ down \in [Conns -> D] /\ dbuf \in [Conns -> U]
  BY DEF StreamTypes
<1>2. <<>> \in U /\ <<>> \in D
  OBVIOUS
<1>3. ASSUME NEW f \in ClientFrames, FaceWrites(<<f>>) PROVE up' \in [Conns -> U]
  <2>1. \A c \in Conns : Sent(up, c, <<f>>) \in U
    BY UpIn
  <2>2. up' = [c \in Conns |-> IF c = conn /\ link[c] \in {"dialing", "open"}
                               THEN Sent(up, c, <<f>>) ELSE up[c]]
    BY <1>3 DEF FaceWrites
  <2> HIDE DEF U
  <2> QED BY <1>1, <2>1, <2>2
<1>4. CASE FaceTask
  <2>1. up' = up \/ FaceWrites(<<Hello>>)
    BY <1>4 DEF FaceTask
  <2>2. down' = down /\ dbuf' = dbuf
    BY <1>4 DEF FaceTask, daemonSide
  <2>3. up' \in [Conns -> U]
    <3> HIDE DEF U
    <3> QED BY <1>1, <1>3, <2>1, ClientFramesAre
  <2> QED BY <1>1, <2>2, <2>3 DEF StreamTypes
<1>5. ASSUME NEW f \in FaceSends, FaceSendsFrame(f) PROVE StreamTypes'
  <2>1. FaceWrites(<<f>>) /\ down' = down /\ dbuf' = dbuf
    BY <1>5 DEF FaceSendsFrame, daemonSide
  <2>2. up' \in [Conns -> U]
    <3> HIDE DEF U
    <3> QED BY <1>3, <2>1, ClientFramesAre
  <2> QED BY <1>1, <2>1, <2>2 DEF StreamTypes
<1>6. ASSUME NEW c \in FaceConns, FaceConnects(c) PROVE StreamTypes'
  <2>1. up' = up /\ down' = down /\ dbuf' = dbuf
    BY <1>6 DEF FaceConnects, daemonSide
  <2> QED BY <1>1, <2>1 DEF StreamTypes
<1>7. ASSUME NEW c \in FaceConns, NEW n \in 1 .. Min({ChunkMax, Len(down[c])}),
             FaceReceives(c, n)
      PROVE  StreamTypes'
  <2>1. c \in Conns
    BY DEF Conns
  <2>2. SubSeq(down[c], n + 1, Len(down[c])) \in D
    BY <1>1, <2>1, ReadSize, ReadIn
  <2>3. /\ up' = up /\ dbuf' = dbuf
        /\ down' = [down EXCEPT ![c] = SubSeq(down[c], n + 1, Len(down[c]))]
    BY <1>7 DEF FaceReceives, daemonSide
  <2> HIDE DEF U, D
  <2> QED BY <1>1, <2>1, <2>2, <2>3 DEF StreamTypes, U, D
<1>8. ASSUME NEW c \in FaceConns, StreamEnds(c) PROVE StreamTypes'
  <2>1. up' = up /\ dbuf' = dbuf /\ down' = [down EXCEPT ![c] = <<>>]
    BY <1>8 DEF StreamEnds, daemonSide
  <2> HIDE DEF U, D
  <2> QED BY <1>1, <1>2, <2>1 DEF StreamTypes, U, D
<1>9. ASSUME NEW c \in Conns, DialFails(c) PROVE StreamTypes'
  <2>1. down' = down /\ dbuf' = dbuf /\ up' = [up EXCEPT ![c] = <<>>]
    BY <1>9 DEF DialFails, daemonSide
  <2> HIDE DEF U, D
  <2> QED BY <1>1, <1>2, <2>1 DEF StreamTypes, U, D
<1> QED BY <1>4, <1>5, <1>6, <1>7, <1>8, <1>9 DEF FaceReads

(* Steps of the text client.                                               *)
LEMMA ChatTypesKept ==
  ASSUME StreamTypes, NEW c \in ChatConns,
         \/ ChatConnects(c) \/ ChatStep(c) \/ ChatExits(c)
         \/ \E f \in ChatSends : ChatTypes(c, f)
  PROVE  StreamTypes'
<1> DEFINE U == Seq(Atoms(ClientFrames))
           D == Seq(Atoms(DaemonFrames))
<1>1. up \in [Conns -> U] /\ down \in [Conns -> D] /\ dbuf \in [Conns -> U] /\ c \in Conns
  BY DEF StreamTypes, Conns
<1>2. <<>> \in D
  OBVIOUS
<1>3. CASE ChatConnects(c) \/ ChatResumes(c)
  <2>1. up' = up /\ down' = down /\ dbuf' = dbuf
    BY <1>3 DEF ChatConnects, ChatResumes, daemonSide
  <2> QED BY <1>1, <2>1 DEF StreamTypes
<1>4. ASSUME NEW n \in 1 .. Min({ChunkMax, Len(down[c])}), ChatReads(c, n) PROVE StreamTypes'
  <2>1. SubSeq(down[c], n + 1, Len(down[c])) \in D
    BY <1>1, ReadSize, ReadIn
  <2>2. /\ up' = up /\ dbuf' = dbuf
        /\ down' = [down EXCEPT ![c] = SubSeq(down[c], n + 1, Len(down[c]))]
    BY <1>4 DEF ChatReads, daemonSide
  <2> HIDE DEF U, D
  <2> QED BY <1>1, <2>1, <2>2 DEF StreamTypes, U, D
<1>5. CASE ChatExits(c)
  <2>1. up' = up /\ dbuf' = dbuf /\ down' = [down EXCEPT ![c] = <<>>]
    BY <1>5 DEF ChatExits, daemonSide
  <2> HIDE DEF U, D
  <2> QED BY <1>1, <1>2, <2>1 DEF StreamTypes, U, D
<1>6. ASSUME NEW f \in ChatSends, ChatTypes(c, f) PROVE StreamTypes'
  <2>1. Sent(up, c, <<f>>) \in U
    BY <1>1, UpIn, ClientFramesAre
  <2>2. down' = down /\ dbuf' = dbuf /\ up' = [up EXCEPT ![c] = Sent(up, c, <<f>>)]
    BY <1>6 DEF ChatTypes, daemonSide
  <2> HIDE DEF U, D
  <2> QED BY <1>1, <2>1, <2>2 DEF StreamTypes, U, D
<1> QED BY <1>3, <1>4, <1>5, <1>6 DEF ChatStep

(* The streams carry only what their writers write.                        *)
THEOREM StreamsAreTyped == FrameSpec => []StreamTypes
<1>1. FrameInit => StreamTypes
  BY DEF FrameInit, StreamTypes
<1>2. StreamTypes /\ [FrameNext]_frameVars => StreamTypes'
  <2> SUFFICES ASSUME StreamTypes, [FrameNext]_frameVars PROVE StreamTypes'
    OBVIOUS
  <2>1. CASE UNCHANGED frameVars
    BY <2>1 DEF StreamTypes, frameVars, daemonSide
  <2>2. CASE FrameNext
    BY <2>2, DaemonTypes, BroadcastTypes, FaceTypes, ChatTypesKept DEF FrameNext
  <2> QED BY <2>1, <2>2
<1> QED BY <1>1, <1>2, PTL DEF FrameSpec

(* Two hand-written codecs agree on everything that is on the way.         *)
THEOREM CodecsMatch == FrameSpec => []CodecsAgree
<1>1. StreamTypes => CodecsAgree
  <2> SUFFICES ASSUME StreamTypes, NEW c \in Conns
               PROVE  /\ \A i \in DOMAIN up[c] :
                            up[c][i].of = Garbage \/ Decodes(Schema, up[c][i].of)
                      /\ \A i \in DOMAIN down[c] :
                            \/ down[c][i].of.type \in {"capabilities", "stats"}
                            \/ Decodes(FaceDecoder, down[c][i].of)
    BY DEF CodecsAgree
  <2>1. up[c] \in Seq(Atoms(ClientFrames)) /\ down[c] \in Seq(Atoms(DaemonFrames))
    BY DEF StreamTypes
  <2>2. \A i \in DOMAIN up[c] : up[c][i].of \in ClientFrames
    <3>1. \A i \in DOMAIN up[c] : up[c][i] \in Atoms(ClientFrames)
      BY <2>1
    <3> QED BY <3>1 DEF Atoms
  <2>3. \A i \in DOMAIN down[c] : down[c][i].of \in DaemonFrames
    <3>1. \A i \in DOMAIN down[c] : down[c][i] \in Atoms(DaemonFrames)
      BY <2>1
    <3> QED BY <3>1 DEF Atoms
  <2>4. \A f \in DaemonFrames :
           f.type \in {"capabilities", "stats"} \/ Decodes(FaceDecoder, f)
    BY FaceTakesDaemon DEF DaemonFrames, Capabilities, Stats, Frame
  <2> QED BY <2>2, <2>3, <2>4, ClientFramesAre
<1> QED BY <1>1, StreamsAreTyped, PTL
=============================================================================
