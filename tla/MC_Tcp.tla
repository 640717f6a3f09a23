------------------------------- MODULE MC_Tcp -------------------------------
EXTENDS Tcp

CONSTANTS ClientIss, ServerIss

MCIss == (Client :> ClientIss) @@ (Server :> ServerIss)
MCWrites == (Client :> <<2, 1>>) @@ (Server :> <<>>)
=============================================================================
