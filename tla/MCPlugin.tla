------------------------------ MODULE MCPlugin ------------------------------
(* Plugin for TLC: the categories the service may offer.                     *)
EXTENDS Plugin

Items == {"asset", "protocol_stack", "exchanged_data", "tls_conf"}
Category(items, throws) == [items |-> items, throws |-> throws]

\* The items of the default configuration.
DefaultCategories == {Category(Items, FALSE)}

\* With "tls" too, without one item or the other, and with a stack that is refused.
MCCategories ==
    {Category(Items, FALSE), Category(Items \cup {"tls"}, FALSE),
     Category(Items \cup {"tls"}, TRUE),
     Category((Items \cup {"tls"}) \ {"tls_conf"}, FALSE),
     Category((Items \cup {"tls"}) \ {"asset"}, FALSE)}

\* Those a reconfigure starts the client again with, and a stack that is refused.
RestartCategories ==
    {Category(Items, FALSE), Category(Items \cup {"tls"}, FALSE),
     Category(Items \cup {"tls"}, TRUE)}
=============================================================================
