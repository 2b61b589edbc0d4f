-------------------------- MODULE ActiveGeneration --------------------------
(***************************************************************************)
(* What the configuration store promises the validators and the remote     *)
(* consumers of the schemas: generations are registered once and never     *)
(* change, at most one is active, and every step that makes one active     *)
(* sends a notification with it.                                           *)
(***************************************************************************)
EXTENDS Naturals

CONSTANTS
    MaxGen,     \* generation ids
    Content     \* what a generation may consist of

VARIABLES
    known,      \* the registered generations
    active,     \* the id of the active one, 0 when none
    sent        \* notifications sent

Register == \E id \in 1..MaxGen, c \in Content :
    /\ \A g \in known : g.id # id
    /\ known' = known \cup {[id |-> id, content |-> c]}
    /\ \/ UNCHANGED <<active, sent>>
       \/ active' = id /\ sent' = sent + 1

Activate == \E g \in known :
    /\ active' = g.id
    /\ sent' = sent + 1
    /\ UNCHANGED known

Init == known = {} /\ active = 0 /\ sent = 0

Next == Register \/ Activate

Spec == Init /\ [][Next]_<<known, active, sent>>
=============================================================================
