----------------------------- MODULE PacketStream -----------------------------
(***************************************************************************)
(* What Receive and ReceiveTimeout promise their caller, packet by packet  *)
(* (the comments at protocol.go:356-361 and 413-416, and the README's      *)
(* "Error handling"): until the caller has been told of a broken stream,   *)
(* every call hands over the next packet QTM sent, whole and in order, or  *)
(* says "no more data" and loses nothing.  An error means that the         *)
(* connection must be re-established; before that anything may be read.    *)
(***************************************************************************)
EXTENDS Packets, Sequences

CONSTANTS
    Written,        \* the packets QTM may write, some of them cut short
    StreamError     \* the errors that leave the stream unusable

VARIABLES
    open,       \* is there a connection?
    queue,      \* packets QTM sent that have not been handed over
    broken,     \* the caller was told that the stream is unusable
    out,        \* what the last call returned
    state       \* the state event reported by State()

vars == <<open, queue, broken, out, state>>

Init ==
    /\ open = FALSE
    /\ queue = <<>>
    /\ broken = FALSE
    /\ out = Failed("nil")
    /\ state = NoEvent

Open ==
    /\ open' = TRUE
    /\ queue' = <<>>
    /\ broken' = FALSE
    /\ UNCHANGED <<out, state>>

Close ==
    /\ open' = FALSE
    /\ queue' = <<>>
    /\ broken' = FALSE
    /\ UNCHANGED <<out, state>>

Send ==
    /\ open
    /\ \E p \in Written : queue' = Append(queue, p)
    /\ UNCHANGED <<open, broken, out, state>>

(* The next packet, which QTM finished sending, is handed over.            *)
Deliver ==
    /\ open /\ ~broken
    /\ queue # <<>>
    /\ Head(queue).len = Head(queue).size
    /\ out' = Answer(Head(queue))
    /\ state' = StateAfter(state, Head(queue))
    /\ queue' = Tail(queue)
    /\ UNCHANGED <<open, broken>>

Timeout ==
    /\ open /\ ~broken
    /\ out' = NoMoreData
    /\ UNCHANGED <<open, queue, broken, state>>

Refuse ==
    /\ ~open
    /\ out' = Failed("ErrNotConnected")
    /\ UNCHANGED <<open, queue, broken, state>>

Break ==
    /\ open
    /\ \E e \in StreamError : out' = Failed(e)
    /\ broken' = TRUE
    /\ UNCHANGED <<open, queue, state>>

(* The caller ignores the error and keeps reading.                         *)
ReadsOn == open /\ broken /\ UNCHANGED <<open, broken>>

Next ==
    \/ Open \/ Close \/ Send \/ Deliver \/ Timeout \/ Refuse \/ Break \/ ReadsOn

Spec == Init /\ [][Next]_vars
=============================================================================
