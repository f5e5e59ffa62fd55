---------------------------- MODULE Configuration ----------------------------
(***************************************************************************)
(* TASE2ClientConfig as the imports leave it                               *)
(* (src/src/tase2_client_config.cpp), from an exchange document and a      *)
(* protocol stack.  A member that may be absent is a set of at most one    *)
(* value.  The fields of a stack:                                          *)
(*   readable      it parses and has protocol_stack.transport_layer with   *)
(*                 connections                                             *)
(*   connections   a sequence of [ip, port, osi, tls]; port {} is missing  *)
(*                 or not an integer                                       *)
(*   polling       at most one number                                      *)
(*   application   there is an application layer                           *)
(*   datasets      a sequence of [name, entries, spelled, dynamic]; spelled*)
(*                 says that the entries are written as the exchange writes*)
(*                 its refs, and not "domain/name"                         *)
(*   transferSets  a sequence of [name, dataset, conditions, interval,     *)
(*                 integrityCheck, rbe]                                    *)
(* An osi object is [valid, selectors]: valid for what is checked of the   *)
(* titles and qualifiers, selectors from names to sequences of tokens, each*)
(* of them {} (not a number) or a set of one number.                       *)
(***************************************************************************)
EXTENDS Exchange, SequencesExt

The(set) == CHOOSE x \in set : TRUE
AtMostOne(set) == \A x, y \in set : x = y

-----------------------------------------------------------------------------
(* OSI selectors                                                            *)

\* The bytes of the buffers: P and S selectors have 16, T selectors 4.
SelectorSize ==
    [k \in {"localP", "localS", "remoteP", "remoteS", "localT", "remoteT"} |->
        IF k \in {"localT", "remoteT"} THEN 4 ELSE 16]

\* Seeded bug: the size is tested after the byte was stored.
StoreByteLate(size, parse, token) ==
    IF parse.thrown \/ Len(parse.bytes) > size \/ token = {} \/ ~token \subseteq 0 .. 255
    THEN [parse EXCEPT !.thrown = TRUE]
    ELSE [parse EXCEPT !.bytes = Append(@, The(token))]

\* One turn of the loop over the tokens: too many, not a number, or no byte.
StoreByte(size, parse, token) ==
    IF parse.thrown \/ Len(parse.bytes) >= size \/ token = {} \/ ~token \subseteq 0 .. 255
    THEN [parse EXCEPT !.thrown = TRUE]
    ELSE [parse EXCEPT !.bytes = Append(@, The(token))]

\* The loop: what is stored after each of the tokens.
Parsing(tokens, size) ==
    LET parse[i \in 0 .. Len(tokens)] ==
            IF i = 0 THEN [bytes |-> <<>>, thrown |-> FALSE]
            ELSE StoreByte(size, parse[i - 1], tokens[i])
    IN  parse

parseOsiSelector(tokens, size) == Parsing(tokens, size)[Len(tokens)]

importOsiSelectors(osi) ==
    [k \in DOMAIN osi.selectors |->
        parseOsiSelector(osi.selectors[k], SelectorSize[k])]

OsiThrows(osi) ==
    ~osi.valid \/ \E k \in DOMAIN osi.selectors : importOsiSelectors(osi)[k].thrown

-----------------------------------------------------------------------------
(* Connections                                                              *)

\* What a connection of a stack is, as the head of the module says.
IsConnection(c) ==
    /\ c.port \subseteq Int /\ AtMostOne(c.port)
    /\ AtMostOne(c.osi)
    /\ \A osi \in c.osi : \A k \in DOMAIN osi.selectors :
           /\ k \in DOMAIN SelectorSize
           /\ osi.selectors[k] \in Seq(SUBSET Int)
           /\ \A i \in DOMAIN osi.selectors[k] : AtMostOne(osi.selectors[k][i])

\* A connection without an address is passed over, one with an invalid address or
\* port is logged and passed over.
Skipped(c) == c.ip # "valid" \/ \E p \in c.port : p <= 0 \/ p >= 65636

\* How the import of a connection ends.  The port is read whether or not there is
\* one, which RapidJSON's assertion stops; an osi object that is not valid throws.
ConnectionOutcome(c) ==
    IF Skipped(c) THEN "skipped"
    ELSE IF c.port = {} THEN "aborted"
    ELSE IF \E osi \in c.osi : OsiThrows(osi) THEN "thrown"
    ELSE "imported"

\* What is kept of a connection; osi is {} when isOsiParametersEnabled is not set.
RedGroup(c) ==
    [port |-> The(c.port),
     tls |-> c.tls = "true",
     osi |-> {importOsiSelectors(osi) : osi \in c.osi}]

\* The connections at which an import would end.
Ending(stack) ==
    {i \in DOMAIN stack.connections :
        ConnectionOutcome(stack.connections[i]) \in {"aborted", "thrown"}}

\* The loop over the connections: what is in m_connections after each of them.
Importing(stack) ==
    LET groups[i \in 0 .. Len(stack.connections)] ==
            IF i = 0 THEN <<>>
            ELSE IF /\ ConnectionOutcome(stack.connections[i]) = "imported"
                    /\ \A e \in Ending(stack) : i < e
            THEN Append(groups[i - 1], RedGroup(stack.connections[i]))
            ELSE groups[i - 1]
    IN  groups

\* m_connections: those imported before the first one that ends the import.
Connections(stack) == Importing(stack)[Len(stack.connections)]

-----------------------------------------------------------------------------
(* Data sets and transfer sets                                              *)

\* A table filled with insert: entries without a name are passed over, and of two
\* with one name the first stays.
Inserted(entries) ==
    [n \in {entries[i].name : i \in DOMAIN entries} \ {""} |->
        entries[Min({i \in DOMAIN entries : entries[i].name = n})]]

\* The refs erased from the polled ones: domain:name, so an entry that is written
\* with its domain erases nothing; a data set that insert drops erases all the same.
Unpolled(stack) ==
    UNION {d.entries : d \in {e \in Range(stack.datasets) : e.name # "" /\ e.spelled}}

-----------------------------------------------------------------------------
(* The imported configuration                                               *)

\* importProtocolConfig returns early, throws, is aborted or completes.
Outcome(stack) ==
    IF ~stack.readable THEN "incomplete"
    ELSE IF Ending(stack) # {}
    THEN ConnectionOutcome(stack.connections[Min(Ending(stack))])
    ELSE IF ~stack.application \/ \E p \in stack.polling : p < 0 THEN "incomplete"
    ELSE "complete"

\* setJsonConfig: the exchange is imported before the stack, whose data sets take
\* their entries out of the polled points.
setJsonConfig(doc, stack) ==
    LET complete == Outcome(stack) = "complete"
        Of(entries) == IF complete THEN Inserted(entries) ELSE <<>>
    IN  [outcome      |-> Outcome(stack),
         connections  |-> IF stack.readable THEN Connections(stack) ELSE <<>>,
         polling      |-> IF complete /\ stack.polling # {} THEN The(stack.polling) ELSE 0,
         definitions  |-> exchangeDefinitionsRef(doc),
         polled       |-> polledDatapoints(doc, IF complete THEN Unpolled(stack) ELSE {}),
         datasets     |-> Of(stack.datasets),
         transferSets |-> Of(stack.transferSets)]

=============================================================================
