------------------------- MODULE Js5SessionRefinement -------------------------
(***************************************************************************)
(* Js5Session implements Js5Service for the plain keys.  A request is      *)
(* asked while its key is in flight; its answer is what the client has     *)
(* assembled, complete from the last block until the key leaves the        *)
(* in-flight set.                                                          *)
(***************************************************************************)
EXTENDS Js5Session

PlainRequests == Priority \X Plain

SizeOf == [r \in PlainRequests |-> Length[r[2]]]

Complete(p, k) == tpc = "recycle" /\ tprio = p /\ tkey = k /\ tsent = Length[k]

AskedRequests ==
    IF open THEN {r \in PlainRequests : r[2] \in inFlight[r[1]]} ELSE {}

AnswerSent ==
    [r \in PlainRequests |->
        IF ~open THEN 0
        ELSE IF Complete(r[1], r[2]) THEN Length[r[2]]
        ELSE got[r[1]][r[2]]]

Service == INSTANCE Js5Service
    WITH Requests <- PlainRequests, Size <- SizeOf,
         up <- open, asked <- AskedRequests, answer <- AnswerSent

\* Every behaviour of a session is one Js5Service allows: for a plain archive
\* no byte is lost, repeated or reordered between accepting a request and
\* recyclePendingResponse dropping its key, and none is sent unasked.
ServiceSpec == Service!Spec
=============================================================================
