--------------------------- MODULE BufferOwnership ---------------------------
(* What the camera HAL promises about the driver's buffers, whoever works   *)
(* on them and in whatever order: a buffer is in the driver's queue, with   *)
(* the thread that looks at its frame, with the recording client, or out of *)
(* use; and it changes hands only in the ways below.                        *)
EXTENDS FiniteSets

CONSTANT BufferIds

VARIABLE owner   \* of each buffer

Owners == {"none", "driver", "thread", "client"}

TypeOK == owner \in [BufferIds -> Owners]

Of(who) == {i \in BufferIds : owner[i] = who}

Moves(s, from, to) ==
  /\ s # {} /\ s \subseteq Of(from)
  /\ owner' = [i \in BufferIds |-> IF i \in s THEN to ELSE owner[i]]

Init == owner = [i \in BufferIds |-> "none"]

(* The camera is set up with some buffers when none is in use.              *)
SetUp == Of("none") = BufferIds /\ \E s \in SUBSET BufferIds : Moves(s, "none", "driver")

(* It is taken down when the driver has all that are in use: a frame is     *)
(* never taken away from who looks at it.                                   *)
TakeDown == Of("thread") = {} /\ Of("client") = {} /\ Moves(Of("driver"), "driver", "none")

(* One frame is looked at at a time. It goes back, or to the client.        *)
Grab == Of("thread") = {} /\ \E i \in BufferIds : Moves({i}, "driver", "thread")
Requeue == Moves(Of("thread"), "thread", "driver")
Deliver == Moves(Of("thread"), "thread", "client")

(* The client's frames come back one by one, or together.                   *)
ComeBack == \E s \in SUBSET BufferIds : Moves(s, "client", "driver")

Next == SetUp \/ TakeDown \/ Grab \/ Requeue \/ Deliver \/ ComeBack

Spec == Init /\ [][Next]_owner
=============================================================================
