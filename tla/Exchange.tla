------------------------------ MODULE Exchange ------------------------------
(***************************************************************************)
(* The exchange tables of TASE2ClientConfig                                *)
(* (src/src/tase2_client_config.cpp): importExchangeConfig reads the points*)
(* in the order of the document.                                           *)
(*                                                                         *)
(* A document is a sequence of protocol entries.  An entry has a label, a  *)
(* ref and a type, Unknown for one that is logged and skipped (an unknown  *)
(* type id, a ref without a colon); it is malformed when a member is       *)
(* missing or has the wrong JSON type.                                     *)
(***************************************************************************)
EXTENDS Integers, Sequences

\* DPTYPE, by the values of the enumeration: four indications of each form
\* (REAL, STATE, DISCRETE, STATESUP), then the commands.
COMMAND == 16
SETPOINTREAL == 17
SETPOINTDISCRETE == 18
Unknown == -1
Indications == 0 .. COMMAND - 1
Commands == COMMAND .. SETPOINTDISCRETE

\* The first malformed entry ends the import; what was read before it stays.
ReadEntries(doc) ==
    {i \in DOMAIN doc : \A j \in 1 .. i : ~doc[j].malformed}

\* The entries that define a point, by their types.
Defining(doc, types) == {i \in ReadEntries(doc) : doc[i].type \in types}

\* A table by ref over the entries of some types: a later entry replaces an
\* earlier one.
ByRef(doc, types) ==
    LET Of(r) == {i \in Defining(doc, types) : doc[i].ref = r}
    IN  [r \in {doc[i].ref : i \in Defining(doc, types)} |->
            doc[CHOOSE i \in Of(r) : \A j \in Of(r) : j <= i]]

\* m_exchangeDefinitionsRef.
exchangeDefinitionsRef(doc) == ByRef(doc, Indications \cup Commands)

\* Seeded bug: points of a data set are still polled.
polledDatapointsAll(doc, listed) == ByRef(doc, Indications)

\* Seeded bug: a command with the same ref ends the polling of an indication.
polledDatapointsUnlessCommand(doc, listed) ==
    LET table == ByRef(doc, Indications)
        commands == DOMAIN ByRef(doc, Commands)
    IN  [r \in (DOMAIN table \ listed) \ commands |-> table[r]]

\* m_polledDatapoints: a command with the ref of an indication does not replace it
\* here; a data set that lists the point takes it out, served or not.
polledDatapoints(doc, listed) ==
    LET table == ByRef(doc, Indications)
    IN  [r \in DOMAIN table \ listed |-> table[r]]

=============================================================================
