--------------------------- MODULE MCScopedLock ---------------------------
(* Three threads: a has a write guard and a read guard on the RWLock rw,   *)
(* which it may nest, and a guard on the Mutex mx; b and c have one each.  *)
EXTENDS ScopedLock

CONSTANTS a, b, c

MCThreads == {a, b, c}
MCLocks == {"rw", "mx"}
Shape == [aw |-> <<a, "rw", "write">>, ar |-> <<a, "rw", "read">>,
          am |-> <<a, "mx", "scoped">>, br |-> <<b, "rw", "read">>,
          bw |-> <<b, "rw", "write">>, cm |-> <<c, "mx", "scoped">>,
          cw |-> <<c, "rw", "write">>]
MCGuards == DOMAIN Shape
MCOwner == [g \in MCGuards |-> Shape[g][1]]
MCTarget == [g \in MCGuards |-> Shape[g][2]]
MCKind == [g \in MCGuards |-> Shape[g][3]]

====
