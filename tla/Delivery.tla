------------------------------ MODULE Delivery ------------------------------
(***************************************************************************)
(* What a caller may conclude from the answer to a send: an abstract       *)
(* specification that Gateway implements.                                  *)
(*                                                                         *)
(* An attempt is one message that the caller asked for once: a pair of the *)
(* number of a POST and a position in it.  The provider is handed each     *)
(* attempt at most once, one after the other, and only while the caller    *)
(* waits; it decides about what it was handed in its own time.  "sent"     *)
(* means accepted, host_unreachable means nothing, and any other answer    *)
(* means that the message is not delivered, then or later.                 *)
(***************************************************************************)
EXTENDS Naturals

VARIABLES
    waiting,    \* the attempts that the caller waits for
    wire,       \* those the provider was handed and has not decided about
    accepted,
    refused,
    told        \* the answers, each with its attempt

vars == <<waiting, wire, accepted, refused, told>>

Handed == wire \cup accepted \cup refused

Init ==
    /\ waiting = {} /\ wire = {} /\ accepted = {} /\ refused = {} /\ told = {}

Ask ==
    /\ waiting = {}
    /\ \A a \in waiting' : a \notin Handed
    /\ UNCHANGED <<wire, accepted, refused, told>>

Hand ==
    /\ \E a \in waiting \ Handed :
          /\ \A b \in waiting \cap Handed : b[2] < a[2]
          /\ wire' = wire \cup {a}
    /\ UNCHANGED <<waiting, accepted, refused, told>>

Decide ==
    /\ \E a \in wire :
          /\ wire' = wire \ {a}
          /\ \/ accepted' = accepted \cup {a} /\ UNCHANGED refused
             \/ refused' = refused \cup {a} /\ UNCHANGED accepted
    /\ UNCHANGED <<waiting, told>>

Truthful(answer) ==
    /\ answer.code = "sent" => answer.attempt \in accepted
    /\ answer.code \notin {"sent", "host_unreachable"} => answer.attempt \notin wire \cup accepted

Tell ==
    /\ told \subseteq told'
    /\ \A answer \in told' \ told : answer.attempt \in waiting /\ Truthful(answer)
    /\ waiting' = {}
    /\ UNCHANGED <<wire, accepted, refused>>

\* The caller stops waiting; what was handed may still be delivered.
Abandon ==
    /\ waiting' = {}
    /\ UNCHANGED <<wire, accepted, refused, told>>

Next == Ask \/ Hand \/ Decide \/ Tell \/ Abandon

Spec == Init /\ [][Next]_vars
=============================================================================
