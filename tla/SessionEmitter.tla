---------------------------- MODULE SessionEmitter ----------------------------
(***************************************************************************)
(* What the builder and the multicast emitter promise together (spec.md,   *)
(* sections 4 and 5), without chunks, headers or byte counts: every        *)
(* datagram takes the next number of one process-wide counter starting at  *)
(* 1; each session hands its numbered datagrams to the socket first in,    *)
(* first out; the socket is best-effort, so a datagram may be dropped, and *)
(* a failed send may abandon the rest of what the session had numbered.   *)
(* Nothing is ever sent twice, and no number is spent on a datagram that   *)
(* is not handed to the socket.                                            *)
(***************************************************************************)
EXTENDS Integers, Sequences

CONSTANT Sessions

VARIABLES
    next,       \* the process-wide counter: the number the next datagram gets
    pending,    \* per session: numbers taken and not yet handed to the socket
    wire        \* datagrams on the wire, as [seq, src], in emission order

vars == <<next, pending, wire>>

Init ==
    /\ next = 1
    /\ pending = [s \in Sessions |-> <<>>]
    /\ wire = <<>>

\* A session takes the next number for a datagram it is about to send.
Number(s) ==
    /\ pending' = [pending EXCEPT ![s] = Append(@, next)]
    /\ next' = next + 1
    /\ UNCHANGED wire

\* The oldest numbered datagram of the session leaves the socket.
Transmit(s) ==
    /\ pending[s] # <<>>
    /\ wire' = Append(wire, [seq |-> Head(pending[s]), src |-> s])
    /\ pending' = [pending EXCEPT ![s] = Tail(@)]
    /\ UNCHANGED next

\* Best effort: the oldest numbered datagram is dropped.
Drop(s) ==
    /\ pending[s] # <<>>
    /\ pending' = [pending EXCEPT ![s] = Tail(@)]
    /\ UNCHANGED <<next, wire>>

\* A send fails: the session gives up what it had numbered.
Abandon(s) ==
    /\ pending[s] # <<>>
    /\ pending' = [pending EXCEPT ![s] = <<>>]
    /\ UNCHANGED <<next, wire>>

Next == \E s \in Sessions : Number(s) \/ Transmit(s) \/ Drop(s) \/ Abandon(s)

\* A session never keeps a numbered datagram forever: it is sent, dropped
\* or abandoned.
Spec ==
    /\ Init /\ [][Next]_vars
    /\ \A s \in Sessions : WF_vars(Transmit(s) \/ Drop(s) \/ Abandon(s))
==============================================================================
