----------------------------- MODULE DataObject -----------------------------
(***************************************************************************)
(* The data object of a reading (TASE2Client::m_createDataObject,          *)
(* src/src/tase2_client.cpp): which members it has and which getter of the *)
(* library reads its value.  What the members say of the flags is left out:*)
(* validityToString, currentSourceToString and normalValueToString join the*)
(* flags to constants of the library instead of comparing them, so their   *)
(* answers follow from its header and not from the flags of the value.     *)
(***************************************************************************)
EXTENDS Exchange

\* DpTypeMap: the name of a type, its form and its suffix, "plain" for none.
dpTypeToStr(type) ==
    IF type \in Commands
    THEN <<<<"Command", "SetPointReal", "SetPointDiscrete">>[type - COMMAND + 1], "plain">>
    ELSE <<<<"Real", "State", "Discrete", "StateSup">>[(type \div 4) + 1],
           <<"plain", "Q", "QTime", "QTimeExt">>[(type % 4) + 1]>>

hasQuality(type) == type % 4 # 0 /\ type < COMMAND

\* Seeded bug: the first of the two forms with a time is left out.
hasTimestampExtOnly(type) == type % 4 > 2 /\ type < COMMAND

hasTimestamp(type) == type % 4 >= 2 /\ type < COMMAND

\* The switch on the type.
Getter(type) ==
    CASE type \in 0 .. 3 \cup {SETPOINTREAL}              -> "Real"
      [] type \in 4 .. 7                                  -> "State"
      [] type \in 8 .. 11 \cup {COMMAND, SETPOINTDISCRETE} -> "Discrete"
      [] type \in 12 .. 15                                -> "StateSupplemental"

createDataObject(type) ==
    [do_type |-> dpTypeToStr(type),
     getter  |-> Getter(type),
     members |-> {"do_type", "do_domain", "do_name", "do_value"}
        \cup (IF hasQuality(type)
              THEN {"do_validity", "do_cs", "do_quality_normal_value"} ELSE {})
        \cup (IF hasTimestamp(type) THEN {"do_ts", "do_ts_validity"} ELSE {})]

\* An object has the members and the value its type's name announces: flags for a
\* Q, a time for a Time, and a value read by the getter of its form.
AsNamed(object) ==
    LET suffix == object.do_type[2] IN
    /\ "do_validity" \in object.members <=> suffix \in {"Q", "QTime", "QTimeExt"}
    /\ "do_ts" \in object.members <=> suffix \in {"QTime", "QTimeExt"}
    /\ object.getter =
           CASE object.do_type[1] \in {"Real", "SetPointReal"} -> "Real"
             [] object.do_type[1] \in {"Discrete", "Command", "SetPointDiscrete"} -> "Discrete"
             [] object.do_type[1] = "State"    -> "State"
             [] object.do_type[1] = "StateSup" -> "StateSupplemental"

=============================================================================
