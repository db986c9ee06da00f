--------------------------- MODULE ChannelStreams ---------------------------
(***************************************************************************)
(* What the Pub/Sub bridge promises to its consumers, without the map, the *)
(* lock, the queue and the task behind it.  Every channel is a log that    *)
(* grows in the order of publication.  A stream joins a channel behind its *)
(* newest message and is given the messages from there on, one by one.     *)
(* Only a stream that is more than Window messages behind may be moved on, *)
(* to the oldest message of the window; whether it is told of the gap      *)
(* depends on its kind.                                                    *)
(***************************************************************************)
EXTENDS Naturals, Sequences

CONSTANTS
    Streams,    \* the streams
    Channels,   \* the channels
    Messages,   \* the messages, numbers in the order of publication
    Window,     \* how far a stream may fall behind without a loss
    OnGap,      \* what a gap does to a stream: "told", "silent" or "ends"
    Gap,        \* the item that tells a stream of a gap
    None        \* no channel

VARIABLES
    log,        \* log[c]: the messages of channel c, oldest first
    reads,      \* reads[u]: the channel of stream u, or None
    open,       \* open[u]: the stream has not ended
    pos,        \* pos[u]: how much of the log is behind the stream
    given       \* given[u]: what the stream was given

vars == <<log, reads, open, pos, given>>

Init ==
    /\ log = [c \in Channels |-> <<>>]
    /\ reads = [u \in Streams |-> None]
    /\ open = [u \in Streams |-> TRUE]
    /\ pos = [u \in Streams |-> 0]
    /\ given = [u \in Streams |-> <<>>]

(* A message that is younger than all of the channel joins its log.        *)
Publish(c, m) ==
    /\ \A i \in 1 .. Len(log[c]) : log[c][i] < m
    /\ log' = [log EXCEPT ![c] = Append(@, m)]
    /\ UNCHANGED <<reads, open, pos, given>>

Join(u, c) ==
    /\ reads[u] = None /\ open[u]
    /\ reads' = [reads EXCEPT ![u] = c]
    /\ pos' = [pos EXCEPT ![u] = Len(log[c])]
    /\ UNCHANGED <<log, open, given>>

Behind(u) == Len(log[reads[u]]) - pos[u]
Reading(u) == open[u] /\ reads[u] # None

Give(u) ==
    /\ Reading(u) /\ Behind(u) \in 1 .. Window
    /\ given' = [given EXCEPT ![u] = Append(@, log[reads[u]][pos[u] + 1])]
    /\ pos' = [pos EXCEPT ![u] = @ + 1]
    /\ UNCHANGED <<log, reads, open>>

MoveOn(u) ==
    /\ Reading(u) /\ Behind(u) > Window /\ OnGap[u] # "ends"
    /\ pos' = [pos EXCEPT ![u] = Len(log[reads[u]]) - Window]
    /\ given' = IF OnGap[u] = "told"
                  THEN [given EXCEPT ![u] = Append(@, Gap)]
                  ELSE given
    /\ UNCHANGED <<log, reads, open>>

(* A stream ends; what it has read no longer matters.                      *)
End(u) ==
    /\ Reading(u)
    /\ open' = [open EXCEPT ![u] = FALSE]
    /\ pos' = [pos EXCEPT ![u] = 0]
    /\ UNCHANGED <<log, reads, given>>

Next ==
    \/ \E c \in Channels, m \in Messages : Publish(c, m)
    \/ \E u \in Streams :
          \/ \E c \in Channels : Join(u, c)
          \/ Give(u) \/ MoveOn(u) \/ End(u)

Spec == Init /\ [][Next]_vars
============================================================================
