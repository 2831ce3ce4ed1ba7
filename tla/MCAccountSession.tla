-------------------------- MODULE MCAccountSession --------------------------
(* Two tabs of one browser, and one connection that a tab has given up: one  *)
(* tab and its own reload, or both tabs beside it.  Three tokens: the first  *)
(* one and either two successors of it or a chain of two exchanges or logins. *)
EXTENDS AccountSession

CONSTANTS tab1, tab2, gone

MCTabs == {tab1, tab2}
MCAdrift == {gone}
==============================================================================
