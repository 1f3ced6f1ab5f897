------------------------------ MODULE BoundedFifo ------------------------------
(***************************************************************************)
(* What a completion queue promises to the layers that use it: a first-in  *)
(* first-out queue of completion events with a fixed capacity.  An event   *)
(* offered to a full queue is refused and leaves the queue alone; an event *)
(* handed to the consumer is the oldest one not yet handed out.            *)
(***************************************************************************)
EXTENDS Naturals, Sequences

CONSTANTS
    Event,        \* completion events
    Refused,      \* answer to an event that does not fit
    Empty,        \* answer to a consumer when nothing is waiting
    Accepted      \* answer to an event that was queued

VARIABLES
    open,         \* does the queue exist
    cap,          \* how many events it can hold
    queue,        \* the events waiting, oldest first
    offered,      \* the last event that was offered
    answer        \* what the last call returned

fifoVars == <<open, cap, queue, offered, answer>>

Init ==
    /\ open = FALSE
    /\ cap = 0
    /\ queue = <<>>
    /\ offered \in Event
    /\ answer = Accepted

Open ==
    /\ ~open
    /\ open' = TRUE
    /\ cap' \in Nat
    /\ queue' = <<>>
    /\ answer' = Accepted
    /\ UNCHANGED offered

Close ==
    /\ open
    /\ open' = FALSE
    /\ cap' = 0
    /\ queue' = <<>>
    /\ answer' = Accepted
    /\ UNCHANGED offered

Put(e) ==
    /\ open
    /\ Len(queue) < cap
    /\ offered' = e
    /\ queue' = Append(queue, e)
    /\ answer' = Accepted
    /\ UNCHANGED <<open, cap>>

Refuse(e) ==
    /\ open
    /\ Len(queue) = cap
    /\ offered' = e
    /\ answer' = Refused
    /\ UNCHANGED <<open, cap, queue>>

Take ==
    /\ open
    /\ queue # <<>>
    /\ answer' = Head(queue)
    /\ queue' = Tail(queue)
    /\ UNCHANGED <<open, cap, offered>>

TakeNothing ==
    /\ open
    /\ queue = <<>>
    /\ answer' = Empty
    /\ UNCHANGED <<open, cap, queue, offered>>

Next ==
    \/ Open
    \/ Close
    \/ \E e \in Event : Put(e) \/ Refuse(e)
    \/ Take
    \/ TakeNothing

Spec == Init /\ [][Next]_fifoVars
================================================================================
