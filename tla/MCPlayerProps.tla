---------------------------- MODULE MCPlayerProps ----------------------------
EXTENDS PlayerProps, TLC

CONSTANTS pause, vo, aid

MCProps == {pause, vo, aid}
MCDefault == [n \in MCProps |-> "no"]
MCSnapshot == <<pause, aid>>
MCBudgets == {[sets |-> 2, changes |-> 1, reports |-> 0],
              [sets |-> 1, changes |-> 1, reports |-> 2]}

=============================================================================
