------------------------------- MODULE FifoLink -------------------------------
(***************************************************************************)
(* What a socket connection promises its two ends, whatever the chunks it  *)
(* arrives in: the frames of a channel are handled in the order they were  *)
(* sent, each at most once and whole.  Only a frame the reader is free to  *)
(* ignore may be skipped, and only the end of the connection loses the     *)
(* rest.                                                                   *)
(***************************************************************************)
EXTENDS Naturals, Sequences

CONSTANTS
    Channels,
    MustKeep(_, _)      \* MustKeep(ch, f): the reader of ch may not skip f

VARIABLES
    transit,            \* frames sent and not yet read, oldest first
    handled,            \* frames handled, in that order
    life                \* "none", "open", or "broken": nothing more is sent

linkVars == <<transit, handled, life>>

FifoInit ==
    /\ transit = [ch \in Channels |-> <<>>]
    /\ handled = [ch \in Channels |-> <<>>]
    /\ life = [ch \in Channels |-> "none"]

Stays(ch) == transit'[ch] = transit[ch] /\ handled'[ch] = handled[ch]

Post(ch) ==
    /\ life[ch] = "open"
    /\ handled'[ch] = handled[ch]
    /\ Len(transit'[ch]) > Len(transit[ch])
    /\ SubSeq(transit'[ch], 1, Len(transit[ch])) = transit[ch]

(* The reader takes the n oldest frames and handles those in kept.         *)
Arrive(ch) ==
    \E n \in 1..Len(transit[ch]) : \E kept \in SUBSET (1..n) :
        /\ \A i \in 1..n : MustKeep(ch, transit[ch][i]) => i \in kept
        /\ transit'[ch] = SubSeq(transit[ch], n + 1, Len(transit[ch]))
        /\ LET Taken[i \in 0..n] ==
                   IF i = 0 THEN <<>>
                   ELSE IF i \in kept THEN Append(Taken[i - 1], transit[ch][i])
                   ELSE Taken[i - 1]
           IN handled'[ch] = handled[ch] \o Taken[n]

(* The connection breaks: what the reader had not received is gone.        *)
Break(ch) ==
    /\ life[ch] = "open" /\ life'[ch] = "broken"
    /\ handled'[ch] = handled[ch]
    /\ transit'[ch] = SubSeq(transit[ch], 1, Len(transit'[ch]))

(* The connection begins, or it is over for its reader.                    *)
OpenOrClose(ch) ==
    /\ \/ life[ch] = "none" /\ life'[ch] = "open"
       \/ life[ch] # "none" /\ life'[ch] = "none"
    /\ transit'[ch] = <<>> /\ handled'[ch] = <<>>

FifoNext ==
    \A ch \in Channels :
        \/ OpenOrClose(ch) \/ Break(ch)
        \/ life'[ch] = life[ch] /\ (Stays(ch) \/ Post(ch) \/ Arrive(ch))

FifoSpec == FifoInit /\ [][FifoNext]_linkVars
=============================================================================
