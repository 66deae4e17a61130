----------------------------- MODULE ByteQueue -----------------------------
(***************************************************************************)
(* What an interrupt queue promises: a first-in first-out queue of bounded *)
(* length.  Intq implements it; Serial is built on it.                     *)
(***************************************************************************)
EXTENDS Naturals, Sequences

CONSTANTS Byte, Capacity

VARIABLE contents

Empty == contents = <<>>
Full == Len(contents) = Capacity

Put(b) == ~Full /\ contents' = Append(contents, b)
Get == ~Empty /\ contents' = Tail(contents)

QueueInit == contents = <<>>
QueueNext == Get \/ \E b \in Byte : Put(b)
QueueSpec == QueueInit /\ [][QueueNext]_contents

=============================================================================
