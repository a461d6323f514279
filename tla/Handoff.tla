------------------------------ MODULE Handoff -------------------------------
(***************************************************************************)
(* What a port promises to the two components it connects, with no thread, *)
(* monitor or wakeup in sight: a slot for one datum, which a put fills and *)
(* a get empties, and calls that end when they may.  This is the promise   *)
(* the generated code keeps; it is weaker than the rendezvous its          *)
(* documentation describes, see EndPut.                                    *)
(***************************************************************************)
EXTENDS Naturals, Sequences

CONSTANTS Ports, Data, Null

VARIABLES slot,      \* the datum a port holds, or Null
          ask,       \* the get in progress: "none", "asking", "taken"
          offer,     \* the put in progress: "none", "waiting", "placed"
          sent, received

vars == <<slot, ask, offer, sent, received>>

Init ==
    /\ slot = [p \in Ports |-> Null]
    /\ ask = [p \in Ports |-> "none"]
    /\ offer = [p \in Ports |-> "none"]
    /\ sent = [p \in Ports |-> <<>>]
    /\ received = [p \in Ports |-> <<>>]

BeginPut(p) ==
    /\ offer[p] = "none"
    /\ offer' = [offer EXCEPT ![p] = "waiting"]
    /\ UNCHANGED <<slot, ask, sent, received>>

Place(p) ==
    /\ offer[p] = "waiting" /\ slot[p] = Null
    /\ \E d \in Data : /\ slot' = [slot EXCEPT ![p] = d]
                       /\ sent' = [sent EXCEPT ![p] = Append(@, d)]
    /\ offer' = [offer EXCEPT ![p] = "placed"]
    /\ UNCHANGED <<ask, received>>

\* A put may end when its datum is gone, or while a get is in progress, even
\* one that has its datum already.
EndPut(p) ==
    /\ offer[p] = "placed" /\ (slot[p] = Null \/ ask[p] # "none")
    /\ offer' = [offer EXCEPT ![p] = "none"]
    /\ UNCHANGED <<slot, ask, sent, received>>

BeginGet(p) ==
    /\ ask[p] = "none"
    /\ ask' = [ask EXCEPT ![p] = "asking"]
    /\ UNCHANGED <<slot, offer, sent, received>>

Take(p) ==
    /\ ask[p] = "asking" /\ slot[p] # Null
    /\ ask' = [ask EXCEPT ![p] = "taken"]
    /\ received' = [received EXCEPT ![p] = Append(@, slot[p])]
    /\ slot' = [slot EXCEPT ![p] = Null]
    /\ UNCHANGED <<offer, sent>>

EndGet(p) ==
    /\ ask[p] = "taken"
    /\ ask' = [ask EXCEPT ![p] = "none"]
    /\ UNCHANGED <<slot, offer, sent, received>>

Next == \E p \in Ports : \/ BeginPut(p) \/ Place(p) \/ EndPut(p)
                         \/ BeginGet(p) \/ Take(p) \/ EndGet(p)

Spec == Init /\ [][Next]_vars

\* Whatever may end does: an offer finds room, a request finds the datum.
FairSpec == Spec /\ \A p \in Ports :
    /\ WF_vars(Place(p)) /\ WF_vars(EndPut(p))
    /\ WF_vars(Take(p)) /\ WF_vars(EndGet(p))
=============================================================================
