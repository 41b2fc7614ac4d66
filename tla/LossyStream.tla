---------------------------- MODULE LossyStream ----------------------------
(***************************************************************************)
(* What a UART's receive ring promises to the thread that reads it: the    *)
(* bytes of the line come out once and in order.  There is one kind of     *)
(* hole: when the ring holds Capacity unread bytes and one more arrives,   *)
(* everything unread is lost at once, and nobody is told.                  *)
(***************************************************************************)
EXTENDS Naturals, Sequences

CONSTANT Capacity

VARIABLES
  accepted,                \* number of bytes the line has delivered so far
  unread,                  \* those the reader can still get, in order
  out                      \* the byte handed out last, if there is one

vars == <<accepted, unread, out>>

Init == accepted = 0 /\ unread = <<>> /\ out = <<>>

Accept == /\ Len(unread) < Capacity
          /\ accepted' = accepted + 1
          /\ unread' = Append(unread, accepted + 1)
          /\ UNCHANGED out

Overrun == /\ Len(unread) = Capacity
           /\ accepted' = accepted + 1
           /\ unread' = <<>>
           /\ UNCHANGED out

Deliver == /\ unread # <<>>
           /\ out' = <<Head(unread)>>
           /\ unread' = Tail(unread)
           /\ UNCHANGED accepted

(* The reader forgets what it got last, or throws the unread bytes away.   *)
Forget == out' = <<>> /\ UNCHANGED <<accepted, unread>>
Discard == unread' = <<>> /\ UNCHANGED <<accepted, out>>

Next == Accept \/ Overrun \/ Deliver \/ Forget \/ Discard

Spec == Init /\ [][Next]_vars
=============================================================================
