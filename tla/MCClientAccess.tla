--------------------------- MODULE MCClientAccess ---------------------------
(* One host name, in TRUSTED_PROXIES and in bound_ips, that resolves to a proxy p, to
   the proxy and the client c that comes through it, or to nothing.  A proxy that
   the name does not name is a client, whatever it forwards. *)
EXTENDS ClientAccess, TLC

CONSTANTS p, c, n1

From(peer, forwarded, real) == [peer |-> peer, forwarded |-> forwarded, real_ip |-> real]

MCTasks == Requests \cup {Primer}
MCDnsAnswers == {{}, {p}, {p, c}}
\* Listed twice: resolved() and prime() go round their loops twice.
MCHostnames == <<n1, n1>>
MCArrivals == {From(p, <<c>>, None)}
MCBounds == {<< >>, <<c, n1>>}

Symmetry == Permutations(Requests)

=============================================================================
