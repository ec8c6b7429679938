------------------------------ MODULE MCAnswer ------------------------------
(* A small instance of AnswerServer: what clients ask and models reply. *)
EXTENDS AnswerServer

a(assist, thread, ip, exempt, ownKey, allowed) ==
  [q |-> "q", assist |-> assist, thread |-> thread, owner |-> "local", ip |-> ip,
   exempt |-> exempt, ownKey |-> ownKey, allowed |-> allowed]

MCAsks == {a(FALSE, "t", "ip", FALSE, FALSE, TRUE),
           a(TRUE, NoThread, "ip", TRUE, FALSE, TRUE),
           a(FALSE, NoThread, "ip", FALSE, TRUE, FALSE)}

\* One call twice in a completion, and one more than the budget.
MCCallLists == {<<<<"web", "x">>, <<"web", "x">>, <<"web", "y">>>>}
MCFindings == {<<>>, <<"u", "u">>}
MCCitings == {{}, {{1}}}
=============================================================================
