------------------------------ MODULE Js5Service ------------------------------
(***************************************************************************)
(* What a JS5 session promises its client about an ordinary archive: while *)
(* the connection is open, each accepted request is answered by the bytes  *)
(* of the archive, each byte once and in order, or by nothing when the     *)
(* archive is missing; and a second request of the same key is not         *)
(* accepted before the first one is finished.                              *)
(***************************************************************************)
EXTENDS Naturals

CONSTANTS Requests,   \* what may be asked for: (priority, key) pairs
          Size        \* bytes of the answer to each

VARIABLES up,      \* the connection is open
          asked,   \* requests accepted and not finished
          answer   \* bytes of the answer sent so far

svars == <<up, asked, answer>>

NothingSent == [r \in Requests |-> 0]

Init == up = TRUE /\ asked = {} /\ answer = NothingSent

Accept(r) ==
    /\ up /\ r \notin asked
    /\ asked' = asked \cup {r}
    /\ UNCHANGED <<up, answer>>

Send(r, n) ==
    /\ up /\ r \in asked
    /\ answer[r] + n <= Size[r]
    /\ answer' = [answer EXCEPT ![r] = @ + n]
    /\ UNCHANGED <<up, asked>>

Finish(r) ==
    /\ up /\ r \in asked /\ answer[r] \in {0, Size[r]}
    /\ asked' = asked \ {r}
    /\ answer' = [answer EXCEPT ![r] = 0]
    /\ UNCHANGED up

HangUp ==
    /\ up
    /\ up' = FALSE /\ asked' = {} /\ answer' = NothingSent

Next ==
    \/ \E r \in Requests : \/ Accept(r)
                           \/ \E n \in 1..Size[r] : Send(r, n)
                           \/ Finish(r)
    \/ HangUp

Spec == Init /\ [][Next]_svars
=============================================================================
