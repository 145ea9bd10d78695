-------------------------- MODULE SessionFamilies ---------------------------
(***************************************************************************)
(* What the session store promises its clients, without tables, tokens or  *)
(* clocks.  A sign-in opens a family of sessions.  The head of a family is *)
(* the one session that may be used and rotated: rotation moves it to a    *)
(* new session, and sign-out, revocation, password reset, expiry or the    *)
(* deletion of the user close it for good.  The session ids are numbers,   *)
(* given out in order; a family is named by its first session.             *)
(***************************************************************************)
EXTENDS Naturals

CONSTANT MaxSessions    \* bound: sessions ever created

VARIABLE head           \* the session each family has arrived at

Families == 1 .. MaxSessions
Unopened == 0
Closed == MaxSessions + 1

FamiliesTypeOK == head \in [Families -> Unopened .. Closed]

IsOpen(f) == head[f] \in Families

FamiliesInit == head = [f \in Families |-> Unopened]

Open(f) ==
    /\ head[f] = Unopened
    /\ \A g \in Families : head[g] # f
    /\ head' = [head EXCEPT ![f] = f]

\* Its session has ended by the time it is stored.
Miss(f) ==
    /\ head[f] = Unopened
    /\ head' = [head EXCEPT ![f] = Closed]

Advance(f, s) ==
    /\ IsOpen(f)
    /\ s > head[f]
    /\ \A g \in Families : head[g] # s
    /\ head' = [head EXCEPT ![f] = s]

\* Several at once: one reset, or one tick of the clock, ends many.
Close(F) ==
    /\ \A f \in F : IsOpen(f)
    /\ head' = [f \in Families |-> IF f \in F THEN Closed ELSE head[f]]

FamiliesNext ==
    \/ \E f \in Families : Open(f) \/ Miss(f)
    \/ \E f, s \in Families : Advance(f, s)
    \/ \E F \in SUBSET Families : Close(F)

FamiliesSpec == FamiliesInit /\ [][FamiliesNext]_head

-----------------------------------------------------------------------------
(* What a client may rely on                                               *)

(* A session is the head of one family: what rotates it moves no other.    *)
HeadsDistinct ==
    \A f, g \in Families : IsOpen(f) /\ head[f] = head[g] => f = g

(* A head moves to later sessions only and ends closed, so a session that  *)
(* was left is never in use again and a closed family is not opened anew.  *)
HeadsOnlyAdvance == [][\A f \in Families : head'[f] >= head[f]]_head

=============================================================================
