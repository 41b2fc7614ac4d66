----------------------------- MODULE ByteStream -----------------------------
(***************************************************************************)
(* What the receive side of the TCP client promises to the Arduino: the    *)
(* bytes the stack acknowledged come out once, in order and without a      *)
(* hole, until everything unread is thrown away at once.  What a           *)
(* connection leaves unread may be put aside instead, and a later          *)
(* connection may begin with it, whole and once.  TcpRx implements it.     *)
(***************************************************************************)
EXTENDS Naturals, Sequences

CONSTANT Chunks            \* the sizes the stack may accept in one segment

VARIABLES
  accepted,                \* number of bytes acknowledged so far
  unread,                  \* acknowledged bytes not handed out yet, in order
  remains,                 \* what earlier connections left unread
  out                      \* the bytes handed out by the last read

vars == <<accepted, unread, remains, out>>

Init == /\ accepted = 0
        /\ unread = <<>>
        /\ remains = {}
        /\ out = <<>>

(* The next n bytes of the stream are acknowledged and buffered.           *)
Accept(n) ==
  /\ accepted' = accepted + n
  /\ unread' = unread \o [i \in 1..n |-> accepted + i]
  /\ UNCHANGED <<remains, out>>

(* A read hands out some bytes from the front and nothing else.            *)
Deliver(k) ==
  /\ out' = SubSeq(unread, 1, k)
  /\ unread' = SubSeq(unread, k + 1, Len(unread))
  /\ UNCHANGED <<accepted, remains>>

(* Everything unread is dropped (the buffer or the connection is released).*)
Discard ==
  /\ unread' = <<>>
  /\ UNCHANGED <<accepted, remains, out>>

(* A connection ends and its unread bytes stay behind.                     *)
Leave ==
  /\ unread # <<>>
  /\ unread' = <<>>
  /\ remains' = remains \cup {unread}
  /\ UNCHANGED <<accepted, out>>

(* A connection begins with bytes that stayed behind; what was unread is   *)
(* dropped.                                                                *)
Resume(rest) ==
  /\ unread' = rest
  /\ remains' = remains \ {rest}
  /\ UNCHANGED <<accepted, out>>

(* The board is reset.                                                     *)
Reset ==
  /\ unread' = <<>> /\ remains' = {}
  /\ UNCHANGED <<accepted, out>>

Next == \/ \E n \in Chunks : Accept(n)
        \/ \E k \in 0..Len(unread) : Deliver(k)
        \/ Discard \/ Leave \/ Reset
        \/ \E rest \in remains : Resume(rest)

Spec == Init /\ [][Next]_vars
=============================================================================
