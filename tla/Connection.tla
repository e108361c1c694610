----------------------------- MODULE Connection -----------------------------
(* What a client and its handler thread can count on from their connection:  *)
(* a message is posted as a whole and delivered as a whole and unchanged to  *)
(* a side that waits for it. It is lost only with the side it is for. Octets *)
(* and system calls do not show.                                             *)

CONSTANTS
    Sides, Peer(_),
    Posted(_),       \* side -> the messages it sends
    NULL

VARIABLES
    state,  \* side -> "active", "waits", "ended"
    chan,   \* side -> the message on the way to it
    got     \* side -> the message it received and has not answered yet

vars == <<state, chan, got>>

Init ==
    /\ state \in [Sides -> {"active", "waits"}]
    /\ \E s \in Sides : state[s] # state[Peer(s)]
    /\ chan = [s \in Sides |-> NULL]
    /\ got = [s \in Sides |-> NULL]

(* A side sends its message and waits for one in return. *)
Post(s, m) ==
    /\ state[s] = "active"
    /\ state' = [state EXCEPT ![s] = "waits"]
    /\ chan' = IF state[Peer(s)] = "ended" THEN chan
               ELSE [chan EXCEPT ![Peer(s)] = m]
    /\ got' = [got EXCEPT ![s] = NULL]

Deliver(s) ==
    /\ state[s] = "waits"
    /\ chan[s] # NULL
    /\ got' = [got EXCEPT ![s] = chan[s]]
    /\ chan' = [chan EXCEPT ![s] = NULL]
    /\ state' = [state EXCEPT ![s] = "active"]

(* What was on the way to a side that ends is lost. *)
End(s) ==
    /\ state[s] # "ended"
    /\ state' = [state EXCEPT ![s] = "ended"]
    /\ chan' = [chan EXCEPT ![s] = NULL]
    /\ UNCHANGED got

Next ==
    \E s \in Sides : Deliver(s) \/ End(s) \/ \E m \in Posted(s) : Post(s, m)

Spec == Init /\ [][Next]_vars
=============================================================================
