------------------------------ MODULE MCStore ------------------------------
(* A small instance of StoreApi. *)
EXTENDS StoreApi

MCPayloads == {[query |-> {"a"}, results |-> {{"a"}}], [query |-> {}, results |-> {}]}
MCAudit == [by : Calls, action : AuditActions]
f(q, cached, limit) == [since |-> 0, q |-> q, origin |-> None, cached |-> cached, limit |-> limit]
MCFilters == {f(None, FALSE, 2), f("x", TRUE, 1)}
\* A behaviour is about the cache, the archive, or the history and its feed.
b(cache, pages, history, feed_, sweep_, tick) ==
  [cache |-> cache, pages |-> pages, history |-> history, feed |-> feed_, sweep |-> sweep_,
   grace |-> sweep_, tick |-> tick]
MCBudgets == {b(3, 0, 0, 0, 1, 2), b(0, 3, 0, 0, 0, 1), b(1, 0, 1, 1, 0, 1),
              b(0, 0, 3, 1, 0, 0), b(0, 0, 2, 1, 0, 1), b(0, 0, 3, 0, 0, 1)}
=============================================================================
