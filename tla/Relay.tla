------------------------------- MODULE Relay -------------------------------
(***************************************************************************)
(* What the rmnet proxy promises about the frames of each direction: every *)
(* frame an endpoint produces is taken once, in arrival order, and is      *)
(* either delivered to the other endpoint or dropped; nothing is delivered *)
(* twice, out of order, or that was never produced.  Every frame is        *)
(* eventually taken (spec, section 5: "within one channel, frames are      *)
(* forwarded in strict arrival order per direction").                      *)
(***************************************************************************)
EXTENDS Naturals, Sequences

CONSTANTS
  Dirs,        \* the two endpoints a frame can come from
  Frames,      \* the frames an endpoint can produce
  MaxFrames    \* bound: frames each endpoint produces

VARIABLES
  arrived,     \* per endpoint, every frame it has produced, in order
  rd,          \* per endpoint, how many of them have been taken
  delivered    \* per endpoint, the frames passed on to the other endpoint

vars == <<arrived, rd, delivered>>

Init ==
  /\ arrived = [d \in Dirs |-> <<>>]
  /\ rd = [d \in Dirs |-> 0]
  /\ delivered = [d \in Dirs |-> <<>>]

Arrive(d, f) ==
  /\ Len(arrived[d]) < MaxFrames
  /\ arrived' = [arrived EXCEPT ![d] = Append(@, f)]
  /\ UNCHANGED <<rd, delivered>>

\* The next frame is taken and passed on.
Deliver(d) ==
  /\ rd[d] < Len(arrived[d])
  /\ rd' = [rd EXCEPT ![d] = @ + 1]
  /\ delivered' = [delivered EXCEPT ![d] = Append(@, arrived[d][rd[d] + 1])]
  /\ UNCHANGED arrived

\* The next frame is taken and not passed on.
Drop(d) ==
  /\ rd[d] < Len(arrived[d])
  /\ rd' = [rd EXCEPT ![d] = @ + 1]
  /\ UNCHANGED <<arrived, delivered>>

Next ==
  \E d \in Dirs :
    \/ \E f \in Frames : Arrive(d, f)
    \/ Deliver(d)
    \/ Drop(d)

Spec == Init /\ [][Next]_vars /\ \A d \in Dirs : WF_vars(Deliver(d) \/ Drop(d))

=============================================================================
