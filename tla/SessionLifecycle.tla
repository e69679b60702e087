-------------------------- MODULE SessionLifecycle --------------------------
(***************************************************************************)
(* What the socket server promises about identities, with no sockets,      *)
(* timers, tickets or messages: the life of each identity's session.       *)
(*                                                                         *)
(*   - An identity becomes live only when it is entitled to, and it is     *)
(*     entitled only when it was just given out or had a session, live or  *)
(*     still reclaimable, at that moment.                                  *)
(*   - Each time it becomes live it gets a token newer than any other.     *)
(*   - A live session ends for good, or turns dormant with its token for   *)
(*     ReclaimTtl; a dormant one is only forgotten once that has passed.   *)
(***************************************************************************)
EXTENDS Naturals

CONSTANTS ClientId, ReclaimTtl

VARIABLES
    session,    \* the session of every identity
    entitled,   \* the identities somebody may still connect as
    known,      \* the identities given out
    lastToken,  \* the newest token
    clock

sessionVars == <<session, entitled, known, lastToken, clock>>

Absent == [phase |-> "absent", token |-> 0, until |-> 0]

Lapsed(c) == session[c].phase = "dormant" /\ session[c].until <= clock

Holds(c) ==
    \/ session[c].phase = "live"
    \/ session[c].phase = "dormant" /\ ~Lapsed(c)

Init ==
    /\ session = [c \in ClientId |-> Absent]
    /\ entitled = {}
    /\ known = {}
    /\ lastToken = 0
    /\ clock = 1

(* An entitlement is given to a new identity or to one with a session;     *)
(* others may run out at the same time.                                    *)
Entitle(c) ==
    /\ c \notin known \/ Holds(c)
    /\ c \in entitled'
    /\ entitled' \subseteq entitled \cup {c}
    /\ known' = known \cup {c}
    /\ UNCHANGED <<session, lastToken, clock>>

RunOut ==
    /\ entitled' \subseteq entitled
    /\ UNCHANGED <<session, known, lastToken, clock>>

(* Lapsed sessions may be forgotten when another begins, or on their own.  *)
Forget(d) == IF Lapsed(d) THEN {session[d], Absent} ELSE {session[d]}

Begin(c) ==
    /\ c \in entitled
    /\ entitled' \subseteq entitled
    /\ lastToken' = lastToken + 1
    /\ session'[c] = [phase |-> "live", token |-> lastToken', until |-> 0]
    /\ \A d \in ClientId \ {c} : session'[d] \in Forget(d)
    /\ UNCHANGED <<known, clock>>

Lapse ==
    /\ \A d \in ClientId : session'[d] \in Forget(d)
    /\ UNCHANGED <<entitled, known, lastToken, clock>>

Suspend(c) ==
    /\ session[c].phase = "live"
    /\ session' = [session EXCEPT ![c].phase = "dormant",
                                  ![c].until = clock + ReclaimTtl]
    /\ UNCHANGED <<entitled, known, lastToken, clock>>

End(c) ==
    /\ session[c].phase = "live"
    /\ session' = [session EXCEPT ![c] = Absent]
    /\ UNCHANGED <<entitled, known, lastToken, clock>>

Pass ==
    /\ clock' = clock + 1
    /\ UNCHANGED <<session, entitled, known, lastToken>>

Next ==
    \/ \E c \in ClientId : Entitle(c) \/ Begin(c) \/ Suspend(c) \/ End(c)
    \/ RunOut
    \/ Lapse
    \/ Pass

Spec == Init /\ [][Next]_sessionVars
=============================================================================
