------------------------------ MODULE MCTlsProxy ------------------------------
(***************************************************************************)
(* Small instances of TlsProxy: a client of every kind that reaches a      *)
(* different route, with the options that make a difference to it.         *)
(***************************************************************************)
EXTENDS TlsProxy

Get == <<"get1", "get2", "end0">>
Post == <<"get1", "get2", "end1", "body">>
Js5 == <<"js5", "game">>
Game == <<"game", "game">>

TlsClient(names, apps) == [tls : {TRUE}, sni : names, app : apps]
RawClient(apps) == [tls : {FALSE}, sni : {"other"}, app : apps]
With(passthrough, retail, cap) ==
    {[passthrough |-> passthrough, retail |-> retail, cap |-> cap]}

MCCases ==
    (TlsClient({"localhost", "world"}, {Get, Js5, Game}) \X With(FALSE, TRUE, 0))
    \cup (TlsClient({"content"}, {Post \o Get}) \X With(FALSE, FALSE, 0))
    \cup (TlsClient({"other"}, {Game}) \X With(FALSE, FALSE, 0))
    \cup (TlsClient({"content"}, {Game}) \X With(TRUE, FALSE, 0))
    \cup (TlsClient({"world"}, {Js5}) \X With(FALSE, FALSE, 0))
    \cup (RawClient({Js5}) \X (With(FALSE, TRUE, 0) \cup With(FALSE, FALSE, 1)))
    \cup (RawClient({Game \o Game}) \X With(FALSE, FALSE, 3))

=============================================================================
