----------------------------- MODULE MCKmsSetup -----------------------------
(* Two CRTCs; all tables of two connectors, tables of three chosen for the *)
(* competition for CRTCs, and single connectors with several mode lists.   *)
(* The kernel lists no mode for a disconnected connector and at least one  *)
(* for any other.                                                          *)
EXTENDS KmsSetup

Mode(h, v, rate, preferred, clock) ==
    [h |-> h, v |-> v, rate |-> rate, preferred |-> preferred, clock |-> clock]

FullHd == Mode(1920, 1080, 60, FALSE, 148500)
Hd60 == Mode(1280, 720, 60, TRUE, 74250)
Hd50 == Mode(1280, 720, 50, TRUE, 74499)
Vga == Mode(640, 480, 60, FALSE, 25175)

ModeLists == {<<FullHd, Hd60, Hd50>>, <<Hd50, Hd60>>, <<Vga, FullHd>>, <<Vga>>}

Request(x, y, rate, force) == [x |-> x, y |-> y, rate |-> rate, force |-> force]
Default == Request(0, 0, 0, FALSE)
Requests == {Default, Request(0, 0, 60, TRUE), Request(1280, 720, 60, FALSE),
             Request(1280, 720, 0, TRUE), Request(1000, 700, 60, FALSE),
             Request(1366, 768, 60, TRUE), Request(1280, 720, 50, TRUE),
             Request(1292, 768, 60, TRUE)}

Connector(hdmi, connection, hasEncoder, possible, modes) ==
    [readable |-> TRUE, hdmi |-> hdmi, connection |-> connection,
     hasEncoder |-> hasEncoder, possible |-> possible, modes |-> modes]

Unreadable == [Connector(FALSE, "disconnected", FALSE, {}, <<>>)
                  EXCEPT !.readable = FALSE]

Wirings == {<<FALSE, {}>>, <<TRUE, {1}>>, <<TRUE, {2}>>, <<TRUE, {1, 2}>>}

AnyConnector ==
    {Unreadable} \cup
    {Connector(hdmi, connection, w[1], w[2],
               IF connection = "disconnected" THEN <<>> ELSE <<Hd60>>) :
        hdmi \in BOOLEAN, w \in Wirings,
        connection \in {"connected", "unknown", "disconnected"}}

HdmiOnly == {c \in AnyConnector : c.hdmi /\ c.connection = "connected"}

Plane(primary, possible) ==
    [readable |-> TRUE, primary |-> primary, possible |-> possible]

PlaneTables ==
    {<<Plane(FALSE, {1, 2}), Plane(TRUE, {2}), Plane(TRUE, {1})>>,
     <<Plane(TRUE, {1, 2})>>,
     <<[Plane(TRUE, {1}) EXCEPT !.readable = FALSE], Plane(TRUE, {2})>>}

Card(connectors, planes, request) ==
    [connectors |-> connectors, planes |-> planes, request |-> request]

MCCards ==
    {Card(cs, ps, Default) : cs \in [1 .. 2 -> AnyConnector], ps \in PlaneTables}
    \cup {Card(cs, ps, Default) : cs \in [1 .. 3 -> HdmiOnly], ps \in PlaneTables}
    \cup {Card(<<Connector(hdmi, "connected", TRUE, {2}, ms)>>,
               <<Plane(TRUE, {2})>>, r) :
             hdmi \in BOOLEAN, ms \in ModeLists, r \in Requests}

MCGeneratedClocks == {74000, 85000}
=============================================================================
