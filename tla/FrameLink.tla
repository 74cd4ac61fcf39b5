------------------------------ MODULE FrameLink ------------------------------
(***************************************************************************)
(* The Unix socket between the daemon (ipc/server.ts) and its clients: the *)
(* Face (KernelSocket.swift) and the text client (chat.mjs).  Frames are   *)
(* lines; a read returns any run of bytes, so each end keeps a buffer of   *)
(* what has no newline yet.                                                *)
(*                                                                         *)
(* The Face reads on a background queue and hands every chunk and every    *)
(* change of the connection to the main actor as a task; tasks run in the  *)
(* order they were made.  Its buffer is one for all its connections and    *)
(* has a cap.  The text client suspends inside its data handler while the  *)
(* capabilities of a local brain make it ask Ollama, and a later chunk     *)
(* starts a second handler on the same buffer.                             *)
(*                                                                         *)
(* A byte is an atom: part of a frame's text, or its newline.              *)
(***************************************************************************)
EXTENDS Naturals, Sequences, FiniteSetsExt, SequencesExt, Frames

CONSTANTS
    FaceConns, ChatConns,   \* connections; a client that dials again reuses one
    NoConn,
    MaxOpen,                \* bound: connections at one time
    FaceSends,              \* frames the owner's actions in the Face send
    ChatSends,              \* lines typed into the text client
    Replies,                \* frames the loop sends to the one who asked
    Cap,                    \* maxBufferBytes
    ChunkMax,               \* the longest read
    MaxTasks,               \* bound: main actor tasks waiting at one time
    MaxFrames,              \* bound: frames the daemon sends on a connection
    MaxSends,               \* bound: frames a client sends on a connection
    LocalBrain              \* the text client asks Ollama

Conns == FaceConns \cup ChatConns
Channels == Conns \X {"up", "down"}

ASSUME LinkConstants ==
    /\ NoConn \notin Conns /\ FaceConns \cap ChatConns = {}
    /\ Cap \in Nat \ {0} /\ ChunkMax \in 1..Cap /\ MaxOpen \in Nat \ {0}
    /\ LocalBrain \in BOOLEAN

(* What the clients have to say, and the loop.                             *)
ASSUME FramesSent ==
    /\ FaceSends \subseteq FaceFrames
    /\ ChatSends \subseteq {ChatUtterance, ChatBrain, Garbage}
    /\ \A f \in Replies : f.size \in Nat /\ f = ReplyTo(f.size)

VARIABLES
    link,       \* how far each connection is
    up, down,   \* bytes on the way to the daemon, to the client
    clients,    \* the daemon's set of connected sockets
    dbuf,       \* the daemon's buffer of each connection
    asked,      \* connections a reply is owed to
    conn,       \* the Face's connection property
    status,     \* what its menu says
    fbuf,       \* the Face's buffer
    tasks,      \* main actor tasks of the Face
    cbuf,       \* the text client's buffer
    resting,    \* its data handler waits for Ollama
    got,        \* history: frames handled in each direction of a live connection
    posted      \* history: how many were sent in it, to bound them

daemonSide == <<clients, dbuf, asked>>
faceSide == <<conn, status, fbuf, tasks>>
chatSide == <<cbuf, resting>>
history == <<got, posted>>
frameVars == <<link, up, down, daemonSide, faceSide, chatSide, history>>

Link == {"unused", "dialing", "open", "orphaned", "left", "over"}
Task(kind, c, chunk) == [kind |-> kind, conn |-> c, chunk |-> chunk]

FrameInit ==
    /\ link = [c \in Conns |-> "unused"]
    /\ up = [c \in Conns |-> <<>>] /\ down = [c \in Conns |-> <<>>]
    /\ clients = {} /\ dbuf = [c \in Conns |-> <<>>] /\ asked = {}
    /\ conn = NoConn /\ status = "idle" /\ fbuf = <<>> /\ tasks = <<>>
    /\ cbuf = [c \in ChatConns |-> <<>>] /\ resting = {}
    /\ got = [ch \in Channels |-> <<>>] /\ posted = [ch \in Channels |-> 0]

-----------------------------------------------------------------------------
(* Bytes and lines.                                                        *)

Bytes(c, f) ==
    [i \in 1..f.size + 1 |-> [of |-> f, nl |-> i > f.size, on |-> c]]

(* The frames whose newline is still in a run of bytes of connection c.    *)
FramesIn(c, bytes) ==
    LET ends == SelectSeq(bytes, LAMBDA b : b.nl /\ b.on = c)
    IN [i \in DOMAIN ends |-> ends[i].of]

(* The places of the newlines, in order.                                   *)
Newlines(bytes) ==
    LET upTo[i \in 0..Len(bytes)] ==
            IF i = 0 THEN <<>>
            ELSE IF bytes[i].nl THEN Append(upTo[i - 1], i) ELSE upTo[i - 1]
    IN upTo[Len(bytes)]

OneLineEnd(bytes) ==                \* slip: if, not while
    IF Newlines(bytes) = <<>> THEN <<>> ELSE <<Newlines(bytes)[1]>>

(* Where the lines end that one event takes: it takes all there are.       *)
LineEnds(bytes) == Newlines(bytes)

(* The line from one place to before another is a frame if it is the whole *)
(* text of one and nothing else.                                           *)
FrameAt(bytes, from, newline) ==
    IF /\ newline - from = bytes[from].of.size
       /\ \A i \in from..newline - 1 : bytes[i] = bytes[from]
    THEN bytes[from].of ELSE Garbage

(* The frames of the complete lines of a buffer, ...                       *)
FramesOf(bytes) ==
    LET ends == LineEnds(bytes)
    IN [k \in DOMAIN ends |->
           FrameAt(bytes, IF k = 1 THEN 1 ELSE ends[k - 1] + 1, ends[k])]

RestDropped(bytes) ==               \* slip: the partial line is thrown away
    IF LineEnds(bytes) = <<>> THEN bytes ELSE <<>>

(* ... and the partial line that stays in it.                              *)
Rest(bytes) == SubSeq(bytes, Last(<<0>> \o LineEnds(bytes)) + 1, Len(bytes))

Understood(codec, frames) == SelectSeq(frames, LAMBDA f : Decodes(codec, f))

-----------------------------------------------------------------------------
(* The daemon.                                                             *)

(* send: a write, which is lost when the peer is gone.                     *)
Sent(stream, c, frames) ==
    stream[c] \o FlattenSeq([i \in DOMAIN frames |-> Bytes(c, frames[i])])

DaemonSends(c, frames) ==
    /\ down' = [down EXCEPT ![c] = IF link[c] = "open" THEN Sent(down, c, frames) ELSE @]
    /\ posted' = [posted EXCEPT ![<<c, "down">>] = @ + Len(frames)]

(* The history of a direction ends with it.                                *)
Ends(chs) ==
    /\ got' = [ch \in Channels |-> IF ch \in chs THEN <<>> ELSE got[ch]]
    /\ posted' = [ch \in Channels |-> IF ch \in chs THEN 0 ELSE posted[ch]]

(* createServer's callback: ready, then the capabilities.                  *)
Accept(c) ==
    /\ link[c] = "dialing"
    /\ link' = [link EXCEPT ![c] = "open"]
    /\ clients' = clients \cup {c}
    /\ down' = [down EXCEPT ![c] = Sent(down, c, <<Ready, Capabilities>>)]
    /\ tasks' = IF c \in FaceConns THEN Append(tasks, Task("ready", c, <<>>)) ELSE tasks
    /\ UNCHANGED <<up, dbuf, asked, conn, status, fbuf, chatSide, history>>

(* What a line is answered with at once: an error if it is no valid frame, *)
(* a pong to a ping.                                                       *)
AnswerOf(f) ==
    IF ~Decodes(Schema, f) THEN <<ErrorFrame>>
    ELSE IF f.type = "ping" THEN <<Pong>> ELSE <<>>

(* One data event: the chunk, and handleLine for every complete line.      *)
DaemonReads(c, n) ==
    LET bytes == dbuf[c] \o SubSeq(up[c], 1, n)
        frames == FramesOf(bytes)
        answers == FlattenSeq([i \in DOMAIN frames |-> AnswerOf(frames[i])])
    IN /\ c \in clients
       /\ up' = [up EXCEPT ![c] = SubSeq(@, n + 1, Len(@))]
       /\ dbuf' = [dbuf EXCEPT ![c] = Rest(bytes)]
       /\ got' = [got EXCEPT ![<<c, "up">>] = @ \o Understood(Schema, frames)]
       /\ asked' = IF \E i \in DOMAIN frames : frames[i].type = "utterance"
                   THEN asked \cup {c} ELSE asked
       /\ down' = [down EXCEPT ![c] =
                       IF link[c] = "open" THEN Sent(down, c, answers) ELSE @]
       /\ UNCHANGED <<link, clients, faceSide, chatSide, posted>>

(* The closures an utterance carries into the loop: reply and onUsage.     *)
Reply(c, f) ==
    /\ c \in asked /\ posted[<<c, "down">>] < MaxFrames
    /\ DaemonSends(c, <<f, Stats>>)
    /\ asked' = asked \ {c}
    /\ UNCHANGED <<link, up, clients, dbuf, faceSide, chatSide, got>>

(* A preview goes to every connected client.                               *)
Broadcast ==
    /\ clients # {}
    /\ \A c \in clients : posted[<<c, "down">>] < MaxFrames
    /\ down' = [c \in Conns |-> IF c \in clients /\ link[c] = "open"
                                THEN Sent(down, c, <<BreakerPreview>>) ELSE down[c]]
    /\ posted' = [ch \in Channels |-> IF ch \in clients \X {"down"}
                                      THEN posted[ch] + 1 ELSE posted[ch]]
    /\ UNCHANGED <<link, up, daemonSide, faceSide, chatSide, got>>

(* close or end of a connection whose bytes were read.                     *)
DropClient(c) ==
    /\ c \in clients /\ link[c] = "left" /\ up[c] = <<>>
    /\ clients' = clients \ {c}
    /\ link' = [link EXCEPT ![c] = "over"]
    /\ dbuf' = [dbuf EXCEPT ![c] = <<>>]
    /\ Ends({<<c, "up">>})
    /\ UNCHANGED <<up, down, asked, faceSide, chatSide>>

(* The process dies; launchd starts another one.  What it had written can  *)
(* still be read.                                                          *)
DaemonDies ==
    /\ link' = [c \in Conns |-> CASE link[c] = "open" -> "orphaned"
                                  [] link[c] = "left" -> "over"
                                  [] OTHER -> link[c]]
    /\ clients # {}
    /\ up' = [c \in Conns |-> IF c \in clients THEN <<>> ELSE up[c]]
    /\ dbuf' = [c \in Conns |-> <<>>]
    /\ clients' = {} /\ asked' = {}
    /\ Ends(clients \X {"up"})
    /\ UNCHANGED <<down, faceSide, chatSide>>

(* A client dials.                                                         *)
Dials(c) ==
    /\ link[c] \in {"unused", "over"} /\ c \notin asked
    /\ Cardinality({d \in Conns : d = conn \/ link[d] \notin {"unused", "over"}}) < MaxOpen
    /\ link' = [link EXCEPT ![c] = "dialing"]

-----------------------------------------------------------------------------
(* The Face.                                                               *)

(* connect.  It is called when the window appears, and does nothing while  *)
(* there is a connection.  The window is taken to be reopened only when    *)
(* the callbacks of the last connection have run: none of them says which  *)
(* connection it is about.                                                 *)
FaceConnects(c) ==
    /\ conn = NoConn /\ tasks = <<>>
    /\ Dials(c)
    /\ conn' = c /\ status' = "connecting" /\ fbuf' = <<>>
    /\ UNCHANGED <<up, down, daemonSide, tasks, chatSide, history>>

(* No daemon listens.                                                      *)
DialFails(c) ==
    /\ link[c] = "dialing"
    /\ link' = [link EXCEPT ![c] = "over"]
    /\ up' = [up EXCEPT ![c] = <<>>]
    /\ tasks' = IF c \in FaceConns THEN Append(tasks, Task("failed", c, <<>>)) ELSE tasks
    /\ Ends({<<c, "up">>})
    /\ UNCHANGED <<down, daemonSide, conn, status, fbuf, chatSide>>

(* receiveLoop: a chunk becomes a task; the end of the stream or an error  *)
(* becomes the last one.                                                   *)
FaceReceives(c, n) ==
    /\ link[c] \in {"open", "orphaned"} /\ Len(tasks) < MaxTasks
    /\ down' = [down EXCEPT ![c] = SubSeq(@, n + 1, Len(@))]
    /\ tasks' = Append(tasks, Task("bytes", c, SubSeq(down[c], 1, n)))
    /\ UNCHANGED <<link, up, daemonSide, conn, status, fbuf, chatSide, history>>

StreamEnds(c) ==
    /\ link[c] = "orphaned"
    /\ \/ down[c] = <<>> /\ tasks' = Append(tasks, Task("complete", c, <<>>))
       \/ tasks' = Append(tasks, Task("error", c, <<>>))
    /\ link' = [link EXCEPT ![c] = "over"]
    /\ down' = [down EXCEPT ![c] = <<>>]
    /\ UNCHANGED <<up, daemonSide, conn, status, fbuf, chatSide, history>>

OverCap(bytes) == Len(bytes) > Cap /\ Newlines(bytes) = <<>>

(* ingest, with handleLine: a line the decoder rejects is dropped.         *)
Ingest(c, chunk) ==
    LET bytes == fbuf \o chunk
    IN IF OverCap(bytes) THEN fbuf' = <<>> /\ UNCHANGED got
       ELSE /\ fbuf' = Rest(bytes)
            /\ got' = [got EXCEPT ![<<c, "down">>] =
                           @ \o Understood(FaceDecoder, FramesOf(bytes))]

(* send: nothing happens without a connection.                             *)
FaceWrites(frames) ==
    up' = [c \in Conns |-> IF c = conn /\ link[c] \in {"dialing", "open"}
                           THEN Sent(up, c, frames) ELSE up[c]]

(* The main actor runs its oldest task.                                    *)
FaceTask ==
    LET task == Head(tasks)
    IN /\ tasks # <<>> /\ tasks' = Tail(tasks)
       /\ \/ /\ task.kind = "bytes" /\ Ingest(task.conn, task.chunk)
             /\ UNCHANGED <<conn, status, up, posted>>
          \/ /\ task.kind = "ready" /\ status' = "connected"
             /\ FaceWrites(<<Hello>>)
             /\ UNCHANGED <<conn, fbuf, history>>
          \/ /\ task.kind \in {"failed", "error"} /\ status' = "failed" /\ conn' = NoConn
             /\ Ends({<<task.conn, "down">>}) /\ UNCHANGED <<fbuf, up>>
          \/ /\ task.kind = "complete" /\ status' = "idle" /\ conn' = NoConn
             /\ fbuf' = <<>> /\ Ends({<<task.conn, "down">>}) /\ UNCHANGED up
       /\ UNCHANGED <<link, down, daemonSide, chatSide>>

FaceSendsFrame(f) ==
    /\ conn # NoConn /\ posted[<<conn, "up">>] < MaxSends
    /\ FaceWrites(<<f>>)
    /\ posted' = [posted EXCEPT ![<<conn, "up">>] = @ + 1]
    /\ UNCHANGED <<link, down, daemonSide, faceSide, chatSide, got>>

-----------------------------------------------------------------------------
(* The text client.  One connection, with which the process ends.          *)

ChatConnects(c) ==
    /\ Dials(c)
    /\ UNCHANGED <<up, down, daemonSide, faceSide, chatSide, history>>

(* The lines a handler takes before it has to wait, if it has to.          *)
Waits(frames) ==
    {i \in DOMAIN frames : LocalBrain /\ frames[i].type = "capabilities"}

Drains(c, bytes) ==
    LET frames == FramesOf(bytes)
        n == IF Waits(frames) = {} THEN Len(frames) ELSE Min(Waits(frames))
        cut == IF n = 0 THEN 0 ELSE Newlines(bytes)[n]
    IN /\ cbuf' = [cbuf EXCEPT ![c] = SubSeq(bytes, cut + 1, Len(bytes))]
       /\ got' = [got EXCEPT ![<<c, "down">>] =
               @ \o SelectSeq(SubSeq(frames, 1, n), LAMBDA f : f # Garbage)]
       /\ resting' = IF Waits(frames) = {} THEN resting ELSE resting \cup {c}

ChatReads(c, n) ==
    /\ link[c] \in {"open", "orphaned"}
    /\ down' = [down EXCEPT ![c] = SubSeq(@, n + 1, Len(@))]
    /\ Drains(c, cbuf[c] \o SubSeq(down[c], 1, n))
    /\ UNCHANGED <<link, up, daemonSide, faceSide, posted>>

(* Ollama answered, or 3.5 s are over: the handler goes on with its loop.  *)
ChatResumes(c) ==
    /\ c \in resting
    /\ cbuf' = [cbuf EXCEPT ![c] = Rest(@)]
    /\ got' = [got EXCEPT ![<<c, "down">>] = @ \o FramesOf(cbuf[c])]
    /\ resting' = resting \ {c}
    /\ UNCHANGED <<link, up, down, daemonSide, faceSide, posted>>

ChatTypes(c, f) ==
    /\ link[c] = "open" /\ posted[<<c, "up">>] < MaxSends
    /\ up' = [up EXCEPT ![c] = Sent(up, c, <<f>>)]
    /\ posted' = [posted EXCEPT ![<<c, "up">>] = @ + 1]
    /\ UNCHANGED <<link, down, daemonSide, faceSide, chatSide, got>>

(* The owner quits, or the daemon is gone and the close event ends the     *)
(* process; lines not taken by then are lost with it.                      *)
ChatExits(c) ==
    /\ \/ link[c] = "open" /\ link' = [link EXCEPT ![c] = "left"]
       \/ link[c] = "orphaned" /\ link' = [link EXCEPT ![c] = "over"]
    /\ down' = [down EXCEPT ![c] = <<>>]
    /\ cbuf' = [cbuf EXCEPT ![c] = <<>>] /\ resting' = resting \ {c}
    /\ Ends({<<c, "down">>})
    /\ UNCHANGED <<up, daemonSide, faceSide>>

-----------------------------------------------------------------------------
DaemonStep(c) ==
    \/ Accept(c) \/ DropClient(c)
    \/ \E n \in 1..Min({ChunkMax, Len(up[c])}) : DaemonReads(c, n)
    \/ \E f \in Replies : Reply(c, f)

FaceReads(c) == \E n \in 1..Min({ChunkMax, Len(down[c])}) : FaceReceives(c, n)

ChatStep(c) ==
    \/ \E n \in 1..Min({ChunkMax, Len(down[c])}) : ChatReads(c, n)
    \/ ChatResumes(c)

FrameNext ==
    \/ Broadcast \/ DaemonDies \/ FaceTask
    \/ \E c \in Conns : DaemonStep(c) \/ DialFails(c)
    \/ \E c \in FaceConns : FaceConnects(c) \/ FaceReads(c) \/ StreamEnds(c)
    \/ \E c \in ChatConns : ChatConnects(c) \/ ChatStep(c) \/ ChatExits(c)
    \/ \E f \in FaceSends : FaceSendsFrame(f)
    \/ \E c \in ChatConns, f \in ChatSends : ChatTypes(c, f)

FrameSpec == FrameInit /\ [][FrameNext]_frameVars

(* Both event loops and the kernel's socket go on; nothing is assumed of   *)
(* owner, loop or process.                                                 *)
FrameFairSpec ==
    /\ FrameSpec /\ WF_frameVars(FaceTask)
    /\ \A c \in Conns :
         WF_frameVars(\E n \in 1..Min({ChunkMax, Len(up[c])}) : DaemonReads(c, n))
    /\ \A c \in FaceConns : WF_frameVars(FaceReads(c)) /\ WF_frameVars(StreamEnds(c))
    /\ \A c \in ChatConns : WF_frameVars(ChatStep(c))

-----------------------------------------------------------------------------
(* What is on the way to a client: written, in a task, or in its buffer.   *)
FaceHolds(c) ==
    FramesIn(c, fbuf \o FlattenSeq([i \in DOMAIN tasks |-> tasks[i].chunk]) \o down[c])

Pending(c) ==
    IF c \in FaceConns THEN FaceHolds(c) ELSE FramesIn(c, cbuf[c] \o down[c])

(* Who may skip what: the daemon a line that is no valid frame, the Face   *)
(* also one that outgrew its buffer.                                       *)
MustKeep(ch, f) ==
    CASE ch[2] = "up" -> Decodes(Schema, f)
      [] ch[1] \in ChatConns -> TRUE
      [] OTHER -> Decodes(FaceDecoder, f) /\ f.size <= Cap

(* A direction is over when its reader has seen its end.                   *)
Life(ch) ==
    LET l == link[ch[1]]
    IN CASE ch[2] = "up" ->
              IF l \in {"dialing", "open", "left"} THEN "open" ELSE "none"
         [] ch[1] \in FaceConns ->
              IF conn # ch[1] THEN "none" ELSE IF l = "over" THEN "broken" ELSE "open"
         [] OTHER -> IF l \in {"dialing", "open", "orphaned"} THEN "open" ELSE "none"

Transit(ch) ==
    IF ch[2] = "up" THEN FramesIn(ch[1], dbuf[ch[1]] \o up[ch[1]]) ELSE Pending(ch[1])

Fifo == INSTANCE FifoLink WITH
    transit <- [ch \in Channels |-> IF Life(ch) = "none" THEN <<>> ELSE Transit(ch)],
    handled <- got,
    life <- [ch \in Channels |-> Life(ch)]

(* Whatever the chunks, on every connection and in both directions the     *)
(* frames are handled whole, once, in order, and none the reader knows is  *)
(* lost before the connection ends (server.ts:5-10, KernelSocket.swift:9). *)
LinkIsFifo == Fifo!FifoSpec

(* Two hand-written codecs agree: the daemon accepts whatever the clients  *)
(* send it but a line that is no frame, and the Face decodes whatever it   *)
(* is sent but the two telemetry frames it has no use for                  *)
(* (Frames.swift:3-6: "mirrors the discriminated union EXACTLY").          *)
CodecsAgree ==
    \A c \in Conns :
        /\ \A i \in DOMAIN up[c] : up[c][i].of = Garbage \/ Decodes(Schema, up[c][i].of)
        /\ c \in FaceConns => \A i \in DOMAIN down[c] :
              \/ down[c][i].of.type \in {"capabilities", "stats"}
              \/ Decodes(FaceDecoder, down[c][i].of)

(* What is on its way is handled in the end, or the connection ends: no    *)
(* line waits in a buffer for bytes that never come.                       *)
FramesArrive ==
    \A c \in Conns :
        /\ [](Pending(c) # <<>> => <>(Pending(c) = <<>>))
        /\ [](FramesIn(c, dbuf[c] \o up[c]) # <<>> /\ link[c] = "open"
              => <>(FramesIn(c, dbuf[c] \o up[c]) = <<>>))
=============================================================================
