------------------------------ MODULE Issuance ------------------------------
(***************************************************************************)
(* What the broker promises, without saying how: a request is approved at   *)
(* most once, for a permit that is fixed then; certificates are made only   *)
(* for requests that stand approved; and a request is handed at most one of  *)
(* those made for it, within its permit, and is over with that. Where the    *)
(* requests come from, who approves them, how often the issuer is tried and  *)
(* what it makes of the permit is left open.                                *)
(***************************************************************************)
CONSTANTS
    Reqs,
    NoPermit,
    Within(_, _)   \* Within(c, p): certificate c keeps to permit p

VARIABLES
    state,    \* each request: new, open, approved or ended
    permit,   \* what it was approved for
    made,     \* the certificates made, [cert, by]
    held      \* those that clients hold

vars == <<state, permit, made, held>>

Init ==
    /\ state = [r \in Reqs |-> "new"]
    /\ permit = [r \in Reqs |-> NoPermit]
    /\ made = {} /\ held = {}

\* A request is taken on, or turned away at the door.
Take(r) ==
    /\ state[r] = "new"
    /\ \E s \in {"open", "ended"} : state' = [state EXCEPT ![r] = s]
    /\ UNCHANGED <<permit, made, held>>

Approve(r) ==
    /\ state[r] = "open"
    /\ state' = [state EXCEPT ![r] = "approved"]
    /\ permit' = [permit EXCEPT ![r] = permit'[r]]
    /\ UNCHANGED <<made, held>>

\* Any number of certificates, whatever is in them.
Make(r) ==
    /\ state[r] = "approved"
    /\ made \subseteq made'
    /\ \A m \in made' \ made : m.by = r
    /\ UNCHANGED <<state, permit, held>>

Hand(r) ==
    /\ state[r] = "approved"
    /\ \E m \in made :
          /\ m.by = r /\ Within(m.cert, permit[r])
          /\ held' = held \cup {m}
    /\ state' = [state EXCEPT ![r] = "ended"]
    /\ UNCHANGED <<permit, made>>

\* A request ends with nothing.
End(r) ==
    /\ state[r] \in {"open", "approved"}
    /\ state' = [state EXCEPT ![r] = "ended"]
    /\ UNCHANGED <<permit, made, held>>

\* Every request under way ends with nothing.
Crash ==
    /\ state' = [r \in Reqs |-> IF state[r] = "new" THEN "new" ELSE "ended"]
    /\ UNCHANGED <<permit, made, held>>

Next ==
    \/ \E r \in Reqs : Take(r) \/ Approve(r) \/ Make(r) \/ Hand(r) \/ End(r)
    \/ Crash

Spec == Init /\ [][Next]_vars

-----------------------------------------------------------------------------

(* The promise a client and an auditor rely on: no request is ever handed two *)
(* certificates, and what was handed keeps to the permit it was approved for.  *)
HandedOnceWithinPermit ==
    \A h \in held :
        /\ Within(h.cert, permit[h.by])
        /\ \A g \in held : g.by = h.by => g = h
=============================================================================
