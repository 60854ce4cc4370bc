------------------------------- MODULE Handoff -------------------------------
(***************************************************************************)
(* What the signed QR ("baton") promises, without a database: a handoff is *)
(* opened once, and then either received, once, at one place and for one   *)
(* quantity, or lapsed.  Nothing about a received or lapsed handoff ever   *)
(* changes again.                                                          *)
(***************************************************************************)
EXTENDS Naturals

CONSTANTS Tokens,      \* handoff identities
          Quantities,  \* what a reception may record
          Places       \* where a handoff can be received

VARIABLES stage,    \* "absent", "open", "received" or "lapsed"
          times,    \* how many receptions were recorded
          liters,   \* the quantity the last of them recorded
          place     \* and where it took place

handoffVars == <<stage, times, liters, place>>

Init == /\ stage = [t \in Tokens |-> "absent"]
        /\ times = [t \in Tokens |-> 0]
        /\ liters \in [Tokens -> Quantities]
        /\ place \in [Tokens -> Places]

Open(t) == /\ stage[t] = "absent"
           /\ stage' = [stage EXCEPT ![t] = "open"]
           /\ UNCHANGED <<times, liters, place>>

\* Any quantity, any place; those of the other handoffs stay as they are.
Receive(t) == /\ stage[t] = "open"
              /\ stage' = [stage EXCEPT ![t] = "received"]
              /\ times' = [times EXCEPT ![t] = @ + 1]
              /\ liters' = [liters EXCEPT ![t] = liters'[t]]
              /\ place' = [place EXCEPT ![t] = place'[t]]
              /\ liters'[t] \in Quantities /\ place'[t] \in Places

Lapse(t) == /\ stage[t] = "open"
            /\ stage' = [stage EXCEPT ![t] = "lapsed"]
            /\ UNCHANGED <<times, liters, place>>

Next == \E t \in Tokens : Open(t) \/ Lapse(t) \/ Receive(t)

Spec == Init /\ [][Next]_handoffVars

===============================================================================
