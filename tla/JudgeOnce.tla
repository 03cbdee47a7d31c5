------------------------------ MODULE JudgeOnce ------------------------------
(***************************************************************************)
(* What the idempotency key promises the callers of judge, with the store, *)
(* its TTLs, the wire and the clock left out: one judgement of a key at a  *)
(* time, none while one is on the shelf, and a repeat is told only what    *)
(* was judged for its own key and lead.  Idempotency implements it.        *)
(***************************************************************************)
CONSTANTS Requests, Keys, KeyOf, LeadOf, Nobody

VARIABLES phase,   \* where each request is
          shelf,   \* whose judgement a repeat of the key would be given
          told,    \* whose judgement each caller was given
          begun    \* the requests that were let judge

promised == <<phase, shelf, told, begun>>

Init ==
    /\ phase = [r \in Requests |-> "waiting"]
    /\ shelf = [k \in Keys |-> Nobody]
    /\ told = [r \in Requests |-> Nobody]
    /\ begun = {}

Goto(r, p) == phase' = [phase EXCEPT ![r] = p]

\* r is let judge: nobody else is judging its key, nothing is on its shelf.
Begin(r) ==
    /\ phase[r] = "waiting"
    /\ \A s \in Requests : KeyOf[s] = KeyOf[r] => phase[s] # "judging"
    /\ shelf[KeyOf[r]] = Nobody
    /\ Goto(r, "judging") /\ begun' = begun \cup {r}
    /\ UNCHANGED <<shelf, told>>

\* The judgement is made; it is put on the shelf, or that failed.
Make(r) ==
    /\ phase[r] = "judging"
    /\ Goto(r, "made")
    /\ shelf' = shelf \/ shelf' = [shelf EXCEPT ![KeyOf[r]] = r]
    /\ UNCHANGED <<told, begun>>

\* A judgement comes to lie on its shelf after its request went on or away.
ShelveLate(r) ==
    /\ r \in begun /\ phase[r] \in {"made", "ended"}
    /\ shelf' = [shelf EXCEPT ![KeyOf[r]] = r]
    /\ UNCHANGED <<phase, told, begun>>

Deliver(r) ==
    /\ phase[r] = "made"
    /\ Goto(r, "ended") /\ told' = [told EXCEPT ![r] = r]
    /\ UNCHANGED <<shelf, begun>>

Replay(r) ==
    /\ phase[r] = "waiting"
    /\ shelf[KeyOf[r]] # Nobody /\ LeadOf[shelf[KeyOf[r]]] = LeadOf[r]
    /\ Goto(r, "ended") /\ told' = [told EXCEPT ![r] = shelf[KeyOf[r]]]
    /\ UNCHANGED <<shelf, begun>>

\* Turned away, failed, cancelled or killed: the caller is given no judgement.
GiveUp(r) ==
    /\ phase[r] # "ended"
    /\ Goto(r, "ended")
    /\ UNCHANGED <<shelf, told, begun>>

\* Shelves are cleared; the service may go down with everything in flight.
Clear ==
    /\ shelf' \in [Keys -> Requests \cup {Nobody}]
    /\ \A k \in Keys : shelf'[k] \in {shelf[k], Nobody}
    /\ phase' \in [Requests -> {"waiting", "judging", "made", "ended"}]
    /\ \A r \in Requests : phase'[r] \in {phase[r], "ended"}
    /\ UNCHANGED <<told, begun>>

Next ==
    \/ \E r \in Requests : Begin(r) \/ Make(r) \/ ShelveLate(r) \/ Deliver(r)
                           \/ Replay(r) \/ GiveUp(r)
    \/ Clear

Promise == Init /\ [][Next]_promised
=============================================================================
