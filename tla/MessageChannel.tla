--------------------------- MODULE MessageChannel ---------------------------
(***************************************************************************)
(* What a DoIP connection promises to the code above it: a tester's        *)
(* messages arrive whole, once and in the order sent, and the reader sees  *)
(* the end of the connection only behind the last of them.  There are no   *)
(* bytes, buffers or parse loops here; module RxFraming has them.          *)
(***************************************************************************)
EXTENDS Naturals, Sequences

CONSTANT Msg

VARIABLES
  sent, received,   \* the messages written and the messages handed over
  writer, reader    \* "open" or "closed"

vars == <<sent, received, writer, reader>>

Init == sent = <<>> /\ received = <<>> /\ writer = "open" /\ reader = "open"

Send(m) ==
  /\ writer = "open"
  /\ sent' = Append(sent, m)
  /\ UNCHANGED <<received, writer, reader>>

CloseWriter ==
  /\ writer = "open"
  /\ writer' = "closed"
  /\ UNCHANGED <<sent, received, reader>>

Receive ==
  /\ reader = "open" /\ Len(received) < Len(sent)
  /\ received' = Append(received, sent[Len(received) + 1])
  /\ UNCHANGED <<sent, writer, reader>>

CloseReader ==
  /\ reader = "open" /\ writer = "closed" /\ received = sent
  /\ reader' = "closed"
  /\ UNCHANGED <<sent, received, writer>>

Next == (\E m \in Msg : Send(m)) \/ CloseWriter \/ Receive \/ CloseReader

Spec == Init /\ [][Next]_vars
=============================================================================
