----------------------------- MODULE FeedChannel -----------------------------
(***************************************************************************)
(* What the sketch may expect of MQTT at QoS 0: its handlers see messages   *)
(* that were published, each at the feed it was published to, in the order  *)
(* they were published.  Messages may be missing, and the one handled last  *)
(* may come again.  Klok needs no more: its messages are any sequence.      *)
(***************************************************************************)
EXTENDS Naturals, Sequences

CONSTANT Feeds

VARIABLES sent,     \* the feed of each message published so far
          handled   \* what the handlers were called with: feed and message

vars == <<sent, handled>>

Init == sent = <<>> /\ handled = <<>>

Publish ==
  /\ \E f \in Feeds : sent' = Append(sent, f)
  /\ UNCHANGED handled

Newest == IF handled = <<>> THEN 1 ELSE handled[Len(handled)].n

Handle ==
  /\ \E n \in Newest..Len(sent) :
       handled' = Append(handled, [feed |-> sent[n], n |-> n])
  /\ UNCHANGED sent

Next == Publish \/ Handle

Spec == Init /\ [][Next]_vars
=============================================================================
