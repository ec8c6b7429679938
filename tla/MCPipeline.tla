----------------------------- MODULE MCPipeline -----------------------------
(* A stream and a plain search over two engines, three queries of which the *)
(* neighbours share a token, and two variants of one page.                  *)
EXTENDS Pipeline, TLC

MCAsks ==
  {[query |-> q, page |-> 1, pin |-> NoPin] : q \in {{"x", "y"}, {"y", "z"}, {"z", "w"}}}
    \cup {[query |-> {"y", "z"}, page |-> 1, pin |-> p] : p \in {{2, 3}}}

\* Two pages of a host; the first is found at the AMP viewer and at its amp.m.
\* host, with tracking.
MCParts ==
  [viewed |-> [viewer |-> TRUE, prefixes |-> <<>>, host |-> "h",
               path |-> <<Segment("a"), Segment("amp")>>, query |-> {"amp", "id"}],
   amp |-> [viewer |-> FALSE, prefixes |-> <<"amp", "m">>, host |-> "h",
            path |-> <<[stem |-> "a", amp |-> TRUE], Segment("amp"), Segment("")>>,
            query |-> {"utm_source"}],
   other |-> [viewer |-> FALSE, prefixes |-> <<>>, host |-> "h",
              path |-> <<Segment("b")>>, query |-> {"id"}]]

MCPages == <<{<<"viewed", "other">>}, {<<>>, <<"amp">>}>>
MCWeight == <<2, 2>>
=============================================================================
