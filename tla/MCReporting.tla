---------------------------- MODULE MCReporting -----------------------------
(* Reporting for TLC: two points, documents of two entries that define them,  *)
(* define one of them twice or break off, stacks with every kind of data set  *)
(* and transfer set, and the ways a stack can be wrong.                       *)
EXTENDS Reporting

CONSTANTS a, b

E(label, ref, type) == [label |-> label, ref |-> ref, type |-> type, malformed |-> FALSE]
A == E("A", a, 2)
B == E("B", b, 5)
C == E("C", a, 8)
D == E("D", a, COMMAND)
F == E("F", b, 15)
X == E("X", b, Unknown)
M == [B EXCEPT !.malformed = TRUE]

MCDocuments == {<<A, C>>, <<A, D>>, <<D, F>>, <<A, X>>, <<F, M>>}

Conn(port, osi) == [ip |-> "valid", port |-> port, osi |-> osi, tls |-> "false"]
Plain == Conn({102}, {})
Osi(selectors) == {[valid |-> TRUE, selectors |-> selectors]}
Bytes(n) == [i \in 1 .. n |-> {i}]

Set(name, entries, spelled, dynamic) ==
    [name |-> name, entries |-> entries, spelled |-> spelled, dynamic |-> dynamic]
TS(name, dataset, conditions, interval, rbe) ==
    [name |-> name, dataset |-> dataset, conditions |-> conditions,
     interval |-> interval, integrityCheck |-> 60, rbe |-> rbe]

Base ==
    [readable |-> TRUE, connections |-> <<Plain>>, polling |-> {1}, application |-> TRUE,
     datasets |-> <<>>, transferSets |-> <<>>]
With(datasets, transferSets) ==
    [Base EXCEPT !.datasets = datasets, !.transferSets = transferSets]

\* Served by reports, by polling, by both, and by neither.
DataStacks ==
    {Base,
     With(<<Set("s", {a}, TRUE, FALSE)>>, <<TS("t", "s", {"interval", "change"}, 1, FALSE)>>),
     With(<<Set("s", {a, b}, TRUE, TRUE)>>,
          <<TS("t", "s", {"integrity", "change"}, 0, TRUE)>>),
     With(<<Set("s", {a}, TRUE, TRUE)>>, <<TS("t", "s", {"integrity"}, 0, FALSE)>>),
     With(<<Set("s", {a}, FALSE, TRUE)>>, <<TS("t", "s", {"interval"}, 1, FALSE)>>),
     With(<<Set("s", {a}, TRUE, TRUE), Set("s", {b}, TRUE, TRUE)>>,
          <<TS("t", "s", {"interval"}, 1, FALSE), TS("t", "x", {}, 0, FALSE)>>),
     With(<<Set("", {a}, TRUE, FALSE)>>, <<TS("", "s", {}, 0, FALSE)>>)}

\* Two data sets, and more transfer sets than the server may have.
PairStacks ==
    LET sets == <<Set("s", {a}, TRUE, FALSE), Set("u", {b}, TRUE, TRUE)>>
        two == <<TS("t", "s", {"change"}, 0, FALSE), TS("v", "u", {"change"}, 0, FALSE)>>
    IN  {With(sets, two), With(sets, two \o <<TS("w", "x", {}, 0, FALSE)>>)}

\* Early returns, and what is not configured.
ShortStacks ==
    {[Base EXCEPT !.readable = FALSE], [Base EXCEPT !.application = FALSE],
     [Base EXCEPT !.polling = {-1}], [Base EXCEPT !.polling = {}],
     [Base EXCEPT !.connections = <<>>]}

\* Connections that are skipped, that end the import, and selectors of every size.
ConnectionStacks ==
    {[Base EXCEPT !.connections = <<c, Conn({2404}, {})>>] : c \in
        {Conn({}, {}), Conn({0}, {}), Conn({65536}, {}), Conn({65636}, {}),
         [Plain EXCEPT !.ip = "invalid"], [Plain EXCEPT !.ip = "missing", !.port = {}],
         [Plain EXCEPT !.tls = "true"], [Plain EXCEPT !.tls = "other"],
         Conn({102}, {[valid |-> FALSE, selectors |-> <<>>]}),
         Conn({102}, Osi("localP" :> <<{255}, {}>>)),
         Conn({102}, Osi("localS" :> <<{255}, {256}>>))}
        \cup {Conn({102}, Osi("remoteT" :> Bytes(n))) : n \in {0, 4, 5}}
        \cup {Conn({102}, Osi(("remoteP" :> Bytes(n)) @@ ("localT" :> <<{0}>>))) :
                n \in {1, 16, 17}}}

MCConfigurations ==
    (MCDocuments \X DataStacks) \cup ({<<A, B>>} \X ({Base} \cup PairStacks))
        \cup ({<<A>>} \X (ShortStacks \cup ConnectionStacks))
=============================================================================
