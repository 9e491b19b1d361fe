---------------------------- MODULE SharedBrowserMC ----------------------------
(* Two callers on two tabs: ann is a connection, bob a stranger whom LinkedIn suggests
   beside ann's profile; both have a thread in the inbox. *)
EXTENDS SharedBrowser, TLC

CONSTANTS ann, bob, c1, c2

MCSuggested == [p \in People \cup {Nobody} |-> IF p = ann THEN {bob} ELSE {}]
MCWanted == [c \in Calls |->
  IF c = c1 THEN {<<"message", ann>>, <<"connect", bob>>, <<"connect", ann>>}
            ELSE {<<"probe", ann>>, <<"history", ann>>, <<"post", Nobody>>, <<"browse", Nobody>>,
                  <<"pdf", ann>>, <<"parse", ann>>, <<"comment", bob>>}]

TabSymmetry == Permutations(Tabs)
=============================================================================
