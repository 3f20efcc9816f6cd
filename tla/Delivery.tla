--------------------------------- MODULE Delivery ---------------------------------
(***************************************************************************)
(* What the relay between the gateway and the receiver promises each flow: *)
(* a message the gateway counts as relayed is received at most once,       *)
(* unmodified and in order; as long as nothing of the flow was altered on  *)
(* the way, the received messages are exactly the first ones relayed.      *)
(***************************************************************************)
EXTENDS Naturals, Sequences

CONSTANTS Sessions, MaxMessages

VARIABLES
    relayed,    \* how many messages of each flow were relayed; they are 1, 2, ...
    received,   \* the messages of each flow that the receiver has shown
    spoiled     \* something of the flow was altered on the way

vars == <<relayed, received, spoiled>>

LastOf(s) == IF received[s] = <<>> THEN 0 ELSE received[s][Len(received[s])]

Init ==
    /\ relayed = [s \in Sessions |-> 0]
    /\ received = [s \in Sessions |-> <<>>]
    /\ spoiled = [s \in Sessions |-> FALSE]

Relay(s) ==
    /\ relayed[s] < MaxMessages
    /\ relayed' = [relayed EXCEPT ![s] = @ + 1]
    /\ UNCHANGED <<received, spoiled>>

Receive(s) ==
    /\ \E n \in LastOf(s) + 1..relayed[s] :
          /\ ~spoiled[s] => n = LastOf(s) + 1
          /\ received' = [received EXCEPT ![s] = Append(@, n)]
    /\ UNCHANGED <<relayed, spoiled>>

Spoil(s) ==
    /\ spoiled' = [spoiled EXCEPT ![s] = TRUE]
    /\ UNCHANGED <<relayed, received>>

Next == \E s \in Sessions : Relay(s) \/ Receive(s) \/ Spoil(s)

Spec == Init /\ [][Next]_vars

================================================================================
