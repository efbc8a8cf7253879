------------------------------ MODULE KmsSetup ------------------------------
(***************************************************************************)
(* How hwc_context (graphics/composer/aidl/hwc_context.cpp) chooses the    *)
(* connector, CRTC, plane and mode of the two displays when it is created. *)
(*                                                                         *)
(* The card does not change while it is set up.  It is a record of         *)
(*   connectors  a sequence of [readable, hdmi, connection, hasEncoder,    *)
(*               possible, modes]: possible_crtcs of the first encoder     *)
(*   planes      a sequence of [readable, primary, possible]               *)
(*   request     what debug.drm.mode and debug.drm.mode.force ask for      *)
(* with possible_crtcs, a mask of 32 bits, as the set of its bits.         *)
(* Indices start at 1, and 0 stands for none.                              *)
(***************************************************************************)
EXTENDS Integers, SequencesExt

CONSTANTS
    NumCrtcs,           \* resources->count_crtcs
    Cards,              \* the cards considered
    GeneratedClocks     \* pixel clocks generate_mode may compute

ASSUME KmsAssumption ==
    /\ NumCrtcs \in Nat
    /\ \A k \in GeneratedClocks : k \in Nat /\ k % 1000 = 0
    /\ \A c \in Cards :
        /\ c.connectors \in Seq([readable : BOOLEAN, hdmi : BOOLEAN, connection : STRING,
                                 hasEncoder : BOOLEAN, possible : SUBSET (1 .. 32),
                                 modes : Seq([h : Nat, v : Nat, rate : Nat,
                                              preferred : BOOLEAN, clock : Nat])])
        /\ c.planes \in Seq([readable : BOOLEAN, primary : BOOLEAN,
                             possible : SUBSET (1 .. 32)])
        /\ c.request \in [x : Int, y : Int, rate : Int, force : BOOLEAN]

VARIABLES
    card,
    pc,
    i,                  \* connector the fallback loop is at
    lastValid,          \* lastValidConnectorIndex
    primary_connector,
    usedCrtcs,          \* the static bit set used_crtcs
    active,             \* kms_output::active; unset memory until assigned
    outputs,            \* the other fields of the two kms_outputs
    driven              \* outputs init_with_connector returned 0 for

kmsVars == <<card, pc, i, lastValid, primary_connector, usedCrtcs, active,
             outputs, driven>>

Outputs == {0, 1}              \* primary_output and secondary_output
Crtcs == 1 .. NumCrtcs
Connectors == DOMAIN card.connectors
FirstOf(S) == IF S = {} THEN 0 ELSE Min(S)
NoOutput == [crtc |-> 0, plane |-> 0, connector |-> 0, mode |-> <<>>]

(* Neither hwc_context nor kms_output initializes its members: active is   *)
(* whatever the allocation held.  The code tells 0, 1 and the rest apart.  *)
SetupInit ==
    /\ card \in Cards
    /\ pc = "caps"
    /\ i = 1 /\ lastValid = 0 /\ primary_connector = 0
    /\ usedCrtcs = {}
    /\ active \in [Outputs -> 0 .. 2]
    /\ outputs = [d \in Outputs |-> NoOutput]
    /\ driven = {}

-----------------------------------------------------------------------------
(* find_mode *)
INT_MAX == 2147483647
Wants(r) == r.x # 0 /\ r.y # 0
Asked(r) == Wants(r) /\ r.rate # 0
Matches(m, r) == m.h = r.x /\ m.v = r.y /\ m.rate = r.rate
Square(n) == n * n

(* rint(x / 8.0) * 8, ties to even. *)
CellGranularity(x) ==
    LET q == x \div 8
        r == x % 8
    IN 8 * (IF r > 4 \/ (r = 4 /\ q % 2 = 1) THEN q + 1 ELSE q)

generate_mode(r) ==
    {[h |-> CellGranularity(r.x), v |-> r.y, rate |-> r.rate,
      preferred |-> FALSE, clock |-> k] : k \in GeneratedClocks}

distance(m, r) == Square(m.h - r.x) + Square(m.v - r.y)

(* Mutant: of two modes as close the later one is taken. *)
mutantLaterMode(modes, r, closest, n) ==
    LET tmp == IF Wants(r) THEN distance(modes[n], r)
               ELSE IF modes[n].preferred THEN 0 ELSE closest.dist
    IN IF tmp <= closest.dist THEN [best |-> n, dist |-> tmp] ELSE closest

(* One iteration of the loop over the modes, which ends at a distance of 0.*)
considerMode(modes, r, closest, n) ==
    LET tmp == IF Wants(r) THEN distance(modes[n], r)
               ELSE IF modes[n].preferred THEN 0 ELSE closest.dist
    IN IF closest.dist # 0 /\ tmp < closest.dist
       THEN [best |-> n, dist |-> tmp] ELSE closest

(* The loop: the closest mode, or the first preferred one. *)
closestMode(modes, r) ==
    LET walk[n \in 0 .. Len(modes)] ==
          IF n = 0 THEN [best |-> 0, dist |-> INT_MAX]
          ELSE considerMode(modes, r, walk[n - 1], n)
    IN walk[Len(modes)].best

trimClock(m) ==
    IF 74200 <= m.clock /\ m.clock < 74500 THEN [m EXCEPT !.clock = 75000] ELSE m

(* The modes find_mode may return; none if it dereferences a null pointer. *)
find_mode(modes, r) ==
    LET exact == IF Asked(r) THEN SelectInSeq(modes, LAMBDA m : Matches(m, r)) ELSE 0
        best  == closestMode(modes, r)
        found == IF exact # 0 THEN {modes[exact]}
                 ELSE IF Asked(r) /\ r.force THEN generate_mode(r)
                 ELSE IF best # 0 THEN {modes[best]}
                 ELSE IF modes # <<>> THEN {modes[1]} ELSE {}
    IN {trimClock(m) : m \in found}

-----------------------------------------------------------------------------
(* init_with_connector *)

freeCrtc(con) == FirstOf({k \in Crtcs : k \in con.possible /\ k \notin usedCrtcs})

(* Mutant: any primary plane will do. *)
mutantAnyPlane(k) ==
    SelectInSeq(card.planes, LAMBDA p : p.readable /\ p.primary)

primaryPlane(k) ==
    SelectInSeq(card.planes,
                LAMBDA p : p.readable /\ k \in p.possible /\ p.primary)

(* Mutant: the bit after the chosen one is marked. *)
mutantMarkNext(k) == IF k = 0 THEN NumCrtcs + 2 ELSE k + 1

bitToMark(k) == IF k = 0 THEN NumCrtcs + 1 ELSE k

(* Marking a CRTC comes before checking that there is one: with none free  *)
(* the bit behind the last CRTC is set.                                    *)
init_with_connector(d, c, ret) ==
    LET con == card.connectors[c]
        k   == freeCrtc(con)
    IN \/ /\ ~con.hasEncoder
          /\ ret = "EINVAL"
          /\ UNCHANGED <<usedCrtcs, outputs, driven>>
       \/ /\ con.hasEncoder /\ k = 0
          /\ ret = "EINVAL"
          /\ usedCrtcs' = usedCrtcs \cup {bitToMark(k)}
          /\ UNCHANGED <<outputs, driven>>
       \/ /\ con.hasEncoder /\ k # 0
          /\ usedCrtcs' = usedCrtcs \cup {bitToMark(k)}
          /\ \/ /\ find_mode(con.modes, card.request) = {}
                /\ ret = "SIGSEGV"
                /\ UNCHANGED <<outputs, driven>>
             \/ \E m \in find_mode(con.modes, card.request) :
                   /\ ret = "0"
                   /\ driven' = driven \cup {d}
                   /\ outputs' = [outputs EXCEPT ![d] =
                         [crtc |-> k, plane |-> primaryPlane(k),
                          connector |-> c, mode |-> m]]

Returns == {"0", "EINVAL", "SIGSEGV"}

Connected(c) ==
    card.connectors[c].readable /\ card.connectors[c].connection = "connected"

HdmiConnected == {c \in Connectors : Connected(c) /\ card.connectors[c].hdmi}

-----------------------------------------------------------------------------
(* init_kms *)

(* drmSetClientCap, drmModeGetResources and drmModeGetPlaneResources. *)
OpenCard ==
    /\ pc = "caps"
    /\ pc' \in {"primary", "error"}
    /\ UNCHANGED <<card, i, lastValid, primary_connector, usedCrtcs, active,
                   outputs, driven>>

(* fetch_connector and the branch on its result.  The result of            *)
(* init_with_connector is not looked at.                                   *)
InitPrimary ==
    /\ pc = "primary"
    /\ primary_connector' = FirstOf(HdmiConnected)
    /\ UNCHANGED <<card, i, lastValid>>
    /\ \/ /\ HdmiConnected = {}
          /\ pc' = "fallback"
          /\ UNCHANGED <<usedCrtcs, active, outputs, driven>>
       \/ /\ HdmiConnected # {}
          /\ \E ret \in Returns :
                /\ init_with_connector(0, FirstOf(HdmiConnected), ret)
                /\ IF ret = "SIGSEGV"
                   THEN pc' = "crashed" /\ UNCHANGED active
                   ELSE pc' = "secondary" /\ active' = [active EXCEPT ![0] = 1]

(* fetch_connector2 passes over the connector fetch_connector chose. *)
secondHdmi(S) == FirstOf(S \ {primary_connector})

InitSecondary ==
    /\ pc = "secondary"
    /\ UNCHANGED <<card, i, lastValid, primary_connector>>
    /\ \/ /\ secondHdmi(HdmiConnected) = 0
          /\ pc' = "fallback"
          /\ UNCHANGED <<usedCrtcs, active, outputs, driven>>
       \/ /\ secondHdmi(HdmiConnected) # 0
          /\ \E ret \in Returns :
                /\ init_with_connector(1, secondHdmi(HdmiConnected), ret)
                /\ IF ret = "SIGSEGV"
                   THEN pc' = "crashed" /\ UNCHANGED active
                   ELSE pc' = "fallback" /\ active' = [active EXCEPT ![1] = 1]

(* The fallback is left out when the primary output looks active. *)
SkipFallback ==
    /\ pc = "fallback" /\ active[0] # 0
    /\ pc' = "up"
    /\ UNCHANGED <<card, i, lastValid, primary_connector, usedCrtcs, active,
                   outputs, driven>>

(* Mutant: a failure to set the connector up ends the loop as well. *)
mutantAfterTry(ret) == IF ret = "SIGSEGV" THEN "crashed" ELSE "up"

afterTry(ret) ==
    CASE ret = "SIGSEGV" -> "crashed" [] ret = "0" -> "up" [] OTHER -> "fallback"

(* One iteration over resources->connectors. *)
TryConnector ==
    /\ pc = "fallback" /\ active[0] = 0
    /\ i \in Connectors
    /\ i' = i + 1
    /\ UNCHANGED <<card, primary_connector, active>>
    /\ lastValid' = IF card.connectors[i].readable THEN i ELSE lastValid
    /\ \/ /\ ~Connected(i)
          /\ UNCHANGED <<pc, usedCrtcs, outputs, driven>>
       \/ /\ Connected(i)
          /\ \E ret \in Returns :
                /\ init_with_connector(0, i, ret)
                /\ pc' = afterTry(ret)

(* No connected connector could be set up: the last readable one is forced. *)
EnforceConnector ==
    /\ pc = "fallback" /\ active[0] = 0
    /\ i \notin Connectors
    /\ lastValid # 0
    /\ \E ret \in Returns :
          /\ init_with_connector(0, lastValid, ret)
          /\ pc' = IF ret = "SIGSEGV" THEN "crashed" ELSE "up"
    /\ UNCHANGED <<card, i, lastValid, primary_connector, active>>

NoConnector ==
    /\ pc = "fallback" /\ active[0] = 0
    /\ i \notin Connectors
    /\ lastValid = 0
    /\ pc' = "error"
    /\ UNCHANGED <<card, i, lastValid, primary_connector, usedCrtcs, active,
                   outputs, driven>>

SetupNext ==
    \/ OpenCard \/ InitPrimary \/ InitSecondary
    \/ SkipFallback \/ TryConnector \/ EnforceConnector \/ NoConnector

SetupSpec == SetupInit /\ [][SetupNext]_kmsVars

-----------------------------------------------------------------------------
(* Types of the set-up state. *)
SetupTypeOK ==
    /\ pc \in {"caps", "primary", "secondary", "fallback", "up", "error", "crashed"}
    /\ i \in 1 .. Len(card.connectors) + 1
    /\ lastValid \in 0 .. Len(card.connectors)
    /\ primary_connector \in 0 .. Len(card.connectors)
    /\ usedCrtcs \subseteq 1 .. NumCrtcs + 1
    /\ active \in [Outputs -> 0 .. 2]
    /\ driven \subseteq Outputs
    /\ \A d \in Outputs :
          /\ outputs[d].crtc \in 0 .. NumCrtcs
          /\ outputs[d].plane \in 0 .. Len(card.planes)
          /\ outputs[d].connector \in 0 .. Len(card.connectors)

DedicatedPlanes ==
    \A p \in DOMAIN card.planes :
       card.planes[p].primary => Cardinality(card.planes[p].possible) = 1

(* Two driven displays have different connectors and CRTCs, and different  *)
(* planes where each primary plane belongs to one CRTC: frames posted to   *)
(* one display never reach the other (used_crtcs and primary_connector).   *)
(* And every CRTC marked used is that of a driven output: no failed attempt*)
(* of init_with_connector takes a CRTC away from a later one.              *)
OutputsNeverShare ==
    /\ driven = Outputs =>
       /\ outputs[0].crtc # outputs[1].crtc
       /\ outputs[0].connector # outputs[1].connector
       /\ (DedicatedPlanes /\ outputs[0].plane # 0) =>
             outputs[0].plane # outputs[1].plane
    /\ pc # "crashed" => usedCrtcs \cap Crtcs = {outputs[d].crtc : d \in driven}

(* What a driven output was given works together: the encoder can feed the *)
(* CRTC, and the plane, if one was found, is a primary one of that CRTC.   *)
OutputIsWired ==
    \A d \in driven :
       LET o == outputs[d]
       IN /\ o.crtc \in card.connectors[o.connector].possible
          /\ o.plane # 0 => /\ card.planes[o.plane].primary
                            /\ o.crtc \in card.planes[o.plane].possible
          /\ o.plane = 0 => \A p \in DOMAIN card.planes :
                               ~ (card.planes[p].readable /\ card.planes[p].primary
                                  /\ o.crtc \in card.planes[p].possible)

SameMode(m, n) == [m EXCEPT !.clock = 0] = [n EXCEPT !.clock = 0]

exactModes(modes, r) == {n \in DOMAIN modes : Asked(r) /\ Matches(modes[n], r)}
closestModes(modes, r) ==
    {n \in DOMAIN modes :
        \A k \in DOMAIN modes : distance(modes[n], r) <= distance(modes[k], r)}
preferredModes(modes) == {n \in DOMAIN modes : modes[n].preferred}
DisturbsWifi(mode) == mode.clock \in 74200 .. 74499
IsFirstOf(mode, modes, S) == S # {} /\ SameMode(mode, modes[Min(S)])

BestMode(mode, modes, r) ==
    LET forced == Asked(r) /\ r.force
        none   == exactModes(modes, r) = {}
    IN /\ ~DisturbsWifi(mode)
       /\ ~none => IsFirstOf(mode, modes, exactModes(modes, r))
       /\ none /\ forced => /\ mode.h - r.x \in -4 .. 4
                            /\ mode.v = r.y /\ mode.rate = r.rate
       /\ none /\ ~forced /\ Wants(r) => IsFirstOf(mode, modes, closestModes(modes, r))
       /\ ~Wants(r) => IsFirstOf(mode, modes, IF preferredModes(modes) # {}
                                              THEN preferredModes(modes)
                                              ELSE DOMAIN modes)

(* The mode found by find_mode's loops is the best one by definition: an   *)
(* exact match of the requested mode if the connector lists one; else the  *)
(* requested one, rounded to the cell granularity, when it is forced; else *)
(* the first of the closest listed modes, or the first preferred mode, or  *)
(* the first mode.  None, generated ones included, runs at a pixel clock   *)
(* that disturbs Wifi.                                                     *)
ModeIsBest ==
    \A d \in driven :
       BestMode(outputs[d].mode, card.connectors[outputs[d].connector].modes, card.request)

Usable(c) ==
    /\ card.connectors[c].hasEncoder
    /\ card.connectors[c].possible \cap Crtcs # {}

(* Which connectors end up driven.  With an HDMI connector connected, the  *)
(* displays are the first and the second of them.  Without one there is    *)
(* only a primary display: the first connected connector that can be used, *)
(* and the last readable one only if there is no such connector.           *)
ConnectorChoice ==
    pc = "up" =>
       IF HdmiConnected # {}
       THEN \A d \in driven :
               LET c == outputs[d].connector
               IN c \in HdmiConnected
                  /\ Cardinality({k \in HdmiConnected : k < c}) = d
       ELSE LET candidates == {c \in Connectors : Connected(c) /\ Usable(c)}
                readable   == {c \in Connectors : card.connectors[c].readable}
            IN /\ 1 \notin driven
               /\ active[0] = 0 =>
                    IF candidates # {}
                    THEN 0 \in driven /\ outputs[0].connector = Min(candidates)
                    ELSE 0 \in driven => outputs[0].connector = Max(readable)

(* "if no connected connector found, try to enforce the use of the last    *)
(* valid one": where no connector is connected, the attempt sets the       *)
(* display up or is given up.                                              *)
EnforcingSurvives == (\A c \in Connectors : ~Connected(c)) => pc # "crashed"
=============================================================================
