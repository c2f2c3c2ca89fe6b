------------------------------ MODULE MCTickets -----------------------------
EXTENDS TicketsProperties

\* The Superfast Express with two coaches of three berths (LB, MB, UB), and the
\* Rajdhani Express with one coach of two (LB, UB).
MCPart == {"express", "rajdhani"}
MCCoaches == [q \in MCPart |-> IF q = "express" THEN 2 ELSE 1]
MCBerth == [q \in MCPart |-> IF q = "express" THEN 3 ELSE 2]
MCBay == [q \in MCPart |-> IF q = "express" THEN 8 ELSE 6]

Line(q, prefs, seniors) == [part |-> q, prefs |-> prefs, seniors |-> seniors]
MCBookings ==
  {Line("express", <<"LB">>, 0), Line("express", <<"MB", "NA", "LB">>, 0),
   Line("rajdhani", <<"UB", "NA">>, 1)}

\* Two coaches of four berths (LB, MB, UB, LB).
MCFourBerths == [q \in MCPart |-> 4]
MCFamilies ==
  {Line("express", prefs, 0) :
     prefs \in {<<"LB", "MB", "LB">>, <<"UB", "LB">>, <<"UB", "MB">>}}
=============================================================================
