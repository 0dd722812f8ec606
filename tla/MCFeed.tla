------------------------------- MODULE MCFeed -------------------------------
(* Lists over two-bit addresses: networks inside, around and beside the excluded
   ranges, records that leave the window while the model runs. *)
EXTENDS Feed, TLC

Net(a, l) == [addr |-> a, len |-> l]
Rec(net, seen) == [network |-> net, last_seen_at |-> seen]

MCExcluded == [rfc1918 |-> {Net(<<0, 1>>, 2)}, bogons |-> {Net(<<1, 0>>, 1)}]
MCRows == {[max_age_seconds |-> 1, flags |-> {"rfc1918"}],
           [max_age_seconds |-> 0, flags |-> {"rfc1918", "bogons"}]}
MCBatches == {{Rec(Net(<<0, 0>>, 2), 0), Rec(Net(<<0, 0>>, 1), 0)},
              {Rec(Net(<<0, 0>>, 2), 0), Rec(Net(<<1, 0>>, 2), 1), Rec(Net(<<1, 1>>, 2), 1)}}

Symmetry == Permutations(Callers) \cup Permutations(Ips)

=============================================================================
