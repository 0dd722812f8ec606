--------------------------- MODULE MCIpCacheLoop ---------------------------
(* Every batch of up to three rows over two addresses that parse and one that
   does not, merged into an empty entry and into a populated one. *)
EXTENDS IpCacheLoop

MCRows == [target_address : Addrs, last_seen_at : 0..1, is_deleted : BOOLEAN]

MCBatches == UNION {[1..n -> MCRows] : n \in 0..3}

MCEntries ==
    {DefaultEntry,
     [records |-> [a \in Addrs |-> IF a \in Parseable THEN 1 ELSE None],
      last_synced_at |-> 1, last_full_sync_at |-> 1]}

=============================================================================
