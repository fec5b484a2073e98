---------------------------- MODULE MCInputQueue ----------------------------
(* A keyboard of Ctrl, Shift and Delete; a pad whose stick goes left and    *)
(* right and whose button is Ctrl too.                                      *)
EXTENDS InputQueue

CONSTANTS ctrl, shift, del, left, right

MCKeys == {ctrl, shift, del}
MCCadPairs == {{ctrl}}
MCCadLeft == [pair \in MCCadPairs |-> ctrl]
MCCadLifts == {shift}
MCBindings == [stick_left |-> left, stick_right |-> right, south |-> ctrl]
MCControls == DOMAIN MCBindings
MCPadStates == {{}, {"stick_left"}, {"stick_right"}, {"south"}}
MCMaxInputs == [keys |-> 4, device |-> 2, off |-> 1]
=============================================================================
