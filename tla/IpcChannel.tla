----------------------------- MODULE IpcChannel -----------------------------
(***************************************************************************)
(* What the IPC FIFO promises the two CPUs, one queue in each direction: a *)
(* word that was accepted is received once, in the order it was sent,      *)
(* unless its sender flushes the queue; no more than Cap words wait; a     *)
(* receiver finding nothing is handed the last word again.                 *)
(***************************************************************************)
EXTENDS Sequences, Naturals

CONSTANTS Cpus, Words, Cap

VARIABLES queue,  \* Per sender: the words on their way.
          last    \* Per sender: the word the receiver took last.

Init ==
  /\ queue = [c \in Cpus |-> <<>>]
  /\ last \in [Cpus -> Words]

Send(c, w) ==
  /\ Len(queue[c]) < Cap
  /\ queue' = [queue EXCEPT ![c] = Append(@, w)]
  /\ UNCHANGED last

Receive(c) ==
  /\ queue[c] # <<>>
  /\ queue' = [queue EXCEPT ![c] = Tail(@)]
  /\ last' = [last EXCEPT ![c] = Head(queue[c])]

Flush(c) ==
  /\ queue' = [queue EXCEPT ![c] = <<>>]
  /\ UNCHANGED last

Next ==
  \E c \in Cpus : Receive(c) \/ Flush(c) \/ \E w \in Words : Send(c, w)

Spec == Init /\ [][Next]_<<queue, last>>
=============================================================================
