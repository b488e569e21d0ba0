--------------------------------- MODULE MCTui ---------------------------------
EXTENDS Tui, TLC

CONSTANTS A, B, C

MCLists    == {<<A, B>>, <<>>}
MCDefaults == <<C>>
===============================================================================
