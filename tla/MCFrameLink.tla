---------------------------- MODULE MCFrameLink ----------------------------
(* FrameLink with a connection of the Face and one of the text client.     *)
EXTENDS FrameLink

CONSTANTS f1, t1

MCFaceConns == {f1}
MCChatConns == {t1}
MCFaceSends == {f \in FaceFrames : f.type = "breaker.cancel"}
MCChatSends == {ChatUtterance, Garbage}

(* A reply longer than the buffer's cap.                                   *)
MCReplies == {ReplyTo(4)}
=============================================================================
