---------------------------- MODULE MCNavigation ----------------------------
EXTENDS NavigationSystem

Fix(place) == [kind |-> "gga", gga |-> [fix_quality |-> 1, place |-> place]]
NoFix      == [kind |-> "gga", gga |-> [fix_quality |-> 0, place |-> Nowhere]]

MCSentence == {Fix("here"), Fix("there"), NoFix}
=============================================================================
